-------------------------------- MODULE Storage --------------------------------
(***************************************************************************)
(* The storage directory and the processes that share it: the server,      *)
(* which runs one client_process_store, _fetch or _delete at a time        *)
(* (src/src/process.c), and the cleanup process, which purges old files    *)
(* (src/src/expire.c).  Every system call that reads or changes the        *)
(* directory is a step of its own: the two processes interleave, either    *)
(* may be killed between any two calls, and any call may fail.             *)
(*                                                                         *)
(* A file is abstracted to the value it is meant to hold, how many bytes   *)
(* of it have been written, and its modification time.                     *)
(***************************************************************************)
EXTENDS Integers

CONSTANTS
  Keys,         \* keys that pass validate_key
  Values,       \* the data of a store
  Size,         \* the length of each value
  Expiration,   \* --expiration, in ticks of the clock
  Cleaners,     \* slots for cleanup processes, one for each server run
  TooLarge,     \* the values that the disk may lack room for
  MaxClock,     \* bound on the clock
  MaxCrashes    \* bound on the number of times the server dies

ASSUME StorageAssumption ==
  /\ Size \in [Values -> Nat] /\ "none" \notin Values
  /\ Expiration \in Nat \ {0}
  /\ TooLarge \subseteq Values
  /\ MaxClock \in Nat /\ MaxCrashes \in Nat

VARIABLES
  clock,     \* time()
  dir,       \* the file under each name
  pc,        \* where the server is in the handler of a request
  req,       \* the request being handled
  written,   \* bytes safe_write has written to write_fd
  opened,    \* the file behind read_fd
  answer,    \* what the last request was answered
  crashes,   \* history: how often the server has died
  cleaner    \* the cleanup processes

serverVars == <<pc, req, written, opened, answer, crashes>>
vars == <<clock, dir, serverVars, cleaner>>

(* Names: a key cannot contain a dot (validate_key), so the name of a      *)
(* temporary file, STOREFILE_TMP_PREFIX and the key, is never a key.       *)
Names == {"file", "tmp"} \X Keys
StoreFile(k) == <<"file", k>>
TmpFile(k) == <<"tmp", k>>

NoFile == [value |-> "none", len |-> 0, mtime |-> 0]
Files == {f \in [value : Values, len : Nat, mtime : Nat] : f.len <= Size[f.value]}

Exists(n) == dir[n] # NoFile

(* The file holds the value it was created for, to the last byte.          *)
Whole(f) == f.len = Size[f.value]

Requests ==
  [kind : {"store"}, key : Keys, value : Values]
  \cup [kind : {"fetch", "delete"}, key : Keys]

NoRequest == [kind |-> "none"]

(* What a client receives: "OK", bytes, or nothing.                        *)
NoAnswer == [kind |-> "none"]
Ok       == [kind |-> "ok"]
Refused  == [kind |-> "refused"]
Data(f)  == [kind |-> "data", value |-> f.value, len |-> f.len]

Handling == {"create", "write", "rename", "discard", "open", "map", "unlink",
             "reply"}

-----------------------------------------------------------------------------
(* The cleanup process.                                                    *)

(* Ghost `touched': the file a cleanup process has seen expired, and is    *)
(* about to remove by name, has been written to or replaced since.         *)
Touch(n) ==
  [c \in Cleaners |->
     [cleaner[c] EXCEPT !.touched = @ \/ (cleaner[c].pc = "unlink"
                                          /\ cleaner[c].name = n)]]

(* An entry removed in the middle of a pass need not be returned by        *)
(* readdir.                                                                *)
Unlisted(n) == [c \in Cleaners |-> [cleaner[c] EXCEPT !.todo = @ \ {n}]]

NoCleaner ==
  [pc |-> "gone", orphan |-> FALSE, now |-> 0, todo |-> {}, name |-> <<>>,
   touched |-> FALSE]

(* A cleanup process with this parent has just been forked.                *)
Forked == [NoCleaner EXCEPT !.pc = "asleep"]

(* A step of one cleanup process on its own state.                         *)
Becomes(c, record) == cleaner' = [cleaner EXCEPT ![c] = record]

(* A test that would purge a file at the very end of its life.             *)
ExpiredAtOrPast(f, now) == now - f.mtime >= Expiration

(* The test of cleanup_dir.                                                *)
Expired(f, now) == now - f.mtime > Expiration

(* check_parent, then the time() of cleanup_dir.  A process whose server   *)
(* has died exits here.                                                    *)
CheckParent(c) ==
  /\ cleaner[c].pc = "asleep"
  /\ IF cleaner[c].orphan
     THEN Becomes(c, NoCleaner)
     ELSE Becomes(c, [cleaner[c] EXCEPT !.pc = "awake", !.now = clock])
  /\ UNCHANGED <<clock, dir, serverVars>>

(* opendir: the entries there now are returned unless they are removed.    *)
OpenDir(c) ==
  /\ cleaner[c].pc = "awake"
  /\ Becomes(c, [cleaner[c] EXCEPT !.pc = "scan",
                                   !.todo = {n \in Names : Exists(n)}])
  /\ UNCHANGED <<clock, dir, serverVars>>

OpenDirFails(c) ==
  /\ cleaner[c].pc = "awake"
  /\ Becomes(c, [cleaner[c] EXCEPT !.pc = "asleep", !.now = 0])
  /\ UNCHANGED <<clock, dir, serverVars>>

(* A cleanup process that leaves the dot files alone.                      *)
PurgeableNoTmp(n) == n[1] = "file"

(* Any regular file may be purged.                                         *)
Purgeable(n) == n \in Names

(* The file under this name is one to remove.                              *)
Doomed(c, n) ==
  Exists(n) /\ Purgeable(n) /\ Expired(dir[n], cleaner[c].now)

(* readdir has returned this name.                                         *)
Listed(c, n) == [cleaner[c] EXCEPT !.todo = @ \ {n}]

(* readdir returns an entry, which stat looks up by name: it may be gone,  *)
(* or be another file by now.  A name that appeared after opendir may be   *)
(* returned too, one that was removed and made again a second time.        *)
Examine(c) ==
  /\ cleaner[c].pc = "scan"
  /\ \E n \in Names :
       IF Doomed(c, n)
       THEN Becomes(c, [Listed(c, n) EXCEPT !.pc = "unlink", !.name = n])
       ELSE Becomes(c, Listed(c, n))
  /\ UNCHANGED <<clock, dir, serverVars>>

(* stat fails for a file to remove, which is passed over as all others.    *)
StatFails(c) ==
  /\ cleaner[c].pc = "scan"
  /\ \E n \in Names : Doomed(c, n) /\ Becomes(c, Listed(c, n))
  /\ UNCHANGED <<clock, dir, serverVars>>

(* The name has been dealt with.                                           *)
PassedOver(c) ==
  [cleaner[c] EXCEPT !.pc = "scan", !.name = <<>>, !.touched = FALSE]

(* unlink, by name, whatever the name stands for now.                      *)
UnlinkExpired(c) ==
  LET n == cleaner[c].name
  IN  /\ cleaner[c].pc = "unlink"
      /\ dir' = [dir EXCEPT ![n] = NoFile]
      /\ cleaner' = [Unlisted(n) EXCEPT ![c] = PassedOver(c)]
      /\ UNCHANGED <<clock, serverVars>>

(* unlink fails, and nobody looks at its result: the file stays.           *)
UnlinkFails(c) ==
  /\ cleaner[c].pc = "unlink" /\ Exists(cleaner[c].name)
  /\ Becomes(c, PassedOver(c))
  /\ UNCHANGED <<clock, dir, serverVars>>

(* closedir, then sleep(EXPIRE_PAUSE).                                     *)
Sleep(c) ==
  Becomes(c, [cleaner[c] EXCEPT !.pc = "asleep", !.now = 0, !.todo = {}])

(* readdir has returned every entry.                                       *)
CloseDir(c) ==
  /\ cleaner[c].pc = "scan"
  /\ cleaner[c].todo = {}
  /\ Sleep(c)
  /\ UNCHANGED <<clock, dir, serverVars>>

(* readdir fails, which cleanup_dir takes for the end of the directory.    *)
ReadDirFails(c) ==
  /\ cleaner[c].pc = "scan"
  /\ cleaner[c].todo # {}
  /\ Sleep(c)
  /\ UNCHANGED <<clock, dir, serverVars>>

(* A call of the cleanup process fails.                                    *)
CleanerFails(c) ==
  OpenDirFails(c) \/ StatFails(c) \/ UnlinkFails(c) \/ ReadDirFails(c)

NoCallFails == \A c \in Cleaners : ~ CleanerFails(c)

CleanerStep(c) ==
  \/ CheckParent(c) \/ OpenDir(c) \/ Examine(c) \/ UnlinkExpired(c)
  \/ CloseDir(c) \/ CleanerFails(c)

(* It is killed.  That the server ends then, as long as it has noticed, is *)
(* in Processes: here it may go on alone.                                  *)
CleanerDies(c) ==
  /\ cleaner[c].pc # "gone"
  /\ Becomes(c, NoCleaner)
  /\ UNCHANGED <<clock, dir, serverVars>>

-----------------------------------------------------------------------------
(* The server.                                                             *)

Goto(label) == pc' = label /\ UNCHANGED answer

(* Nothing of the request remains when its Client is freed.                *)
Forget == req' = NoRequest /\ written' = 0 /\ opened' = NoFile

(* The handler is done with the request.                                   *)
Finish(a) == pc' = "idle" /\ answer' = a /\ Forget

(* A complete request is dispatched to its handler.                        *)
Begin ==
  /\ pc = "idle"
  /\ req' \in Requests
  /\ pc' = CASE req'.kind = "store" -> "create"
             [] req'.kind = "fetch" -> "open"
             [] req'.kind = "delete" -> "unlink"
  /\ answer' = NoAnswer
  /\ UNCHANGED <<clock, dir, written, opened, crashes, cleaner>>

(* A key that validate_key rejects, no stack, or an open() or unlink()     *)
(* that fails whether or not the name exists: the connection is dropped.   *)
RefuseRequest ==
  /\ pc \in {"create", "open", "unlink"}
  /\ Finish(Refused)
  /\ UNCHANGED <<clock, dir, crashes, cleaner>>

(* A file opened without O_TRUNC: what is there already stays.             *)
CreatedFileKept(v) ==
  IF Exists(TmpFile(req.key))
  THEN [dir[TmpFile(req.key)] EXCEPT !.value = v, !.mtime = clock]
  ELSE [value |-> v, len |-> 0, mtime |-> clock]

CreatedFile(v) == [value |-> v, len |-> 0, mtime |-> clock]

(* Filling the file under its final name.                                  *)
WorkFileInPlace(k) == StoreFile(k)

(* The name a value is written under.                                      *)
WorkFile(k) == TmpFile(k)

(* open(store_file_tmp, O_CREAT | O_TRUNC): a file of no bytes.            *)
StoreCreate ==
  LET n == WorkFile(req.key)
  IN  /\ pc = "create"
      /\ dir' = [dir EXCEPT ![n] = CreatedFile(req.value)]
      /\ cleaner' = Touch(n)
      /\ Goto(IF Size[req.value] = 0 THEN "rename" ELSE "write")
      /\ UNCHANGED <<clock, req, written, opened, crashes>>

(* What one write() may take when the count is not reduced by what the     *)
(* earlier ones took.                                                      *)
WritableAgain == 1 .. Size[req.value]

(* What one write() may take of the bytes that are left.                   *)
Writable == 1 .. Size[req.value] - written

(* One write() of safe_write.  The cleanup process may have removed the    *)
(* name meanwhile: the bytes then go to a file nobody can open.            *)
StoreWrite ==
  LET n == WorkFile(req.key)
  IN  /\ pc = "write"
      /\ \E count \in Writable : written' = written + count
      /\ IF Exists(n)
         THEN /\ dir' = [dir EXCEPT ![n].len = written', ![n].mtime = clock]
              /\ cleaner' = Touch(n)
         ELSE UNCHANGED <<dir, cleaner>>
      /\ Goto(IF written' >= Size[req.value] THEN "rename" ELSE "write")
      /\ UNCHANGED <<clock, req, opened, crashes>>

(* safe_write failed: logged, and the store goes on.                       *)
StoreWriteFails ==
  /\ pc = "write" /\ req.value \in TooLarge
  /\ Goto("rename")
  /\ UNCHANGED <<clock, dir, req, written, opened, crashes, cleaner>>

(* rename(store_file_tmp, store_file).                                     *)
StoreRename ==
  LET from == WorkFile(req.key)
      to   == StoreFile(req.key)
  IN  /\ pc = "rename" /\ Exists(from)
      /\ dir' = [dir EXCEPT ![from] = NoFile, ![to] = dir[from]]
      /\ cleaner' = [c \in Cleaners |->
                       [Touch(to)[c] EXCEPT !.todo = @ \ {from}]]
      /\ Goto("reply")
      /\ UNCHANGED <<clock, req, written, opened, crashes>>

(* It fails if the cleanup process has removed the temporary file, or if   *)
(* the directory cannot be changed.                                        *)
StoreRenameFails ==
  /\ pc = "rename"
  /\ Goto("discard")
  /\ UNCHANGED <<clock, dir, req, written, opened, crashes, cleaner>>

(* After a failed rename: unlink(store_file_tmp).                          *)
StoreDiscard ==
  LET n == WorkFile(req.key)
  IN  /\ pc = "discard"
      /\ dir' = [dir EXCEPT ![n] = NoFile]
      /\ cleaner' = Unlisted(n)
      /\ Finish(Refused)
      /\ UNCHANGED <<clock, crashes>>

(* That fails too, and the temporary file stays.                           *)
StoreDiscardFails ==
  /\ pc = "discard" /\ Exists(WorkFile(req.key))
  /\ Finish(Refused)
  /\ UNCHANGED <<clock, dir, crashes, cleaner>>

(* The name a fetch opens: reading the temporary file would show values    *)
(* before they are complete.                                               *)
FetchFileTmp(k) == IF Exists(TmpFile(k)) THEN TmpFile(k) ELSE StoreFile(k)
FetchFile(k) == StoreFile(k)

(* open(store_file, O_RDONLY): whatever its age.  The file stays           *)
(* accessible when its name is removed or given to another file.           *)
FetchOpen ==
  LET n == FetchFile(req.key)
  IN  /\ pc = "open" /\ Exists(n)
      /\ opened' = dir[n]
      /\ Goto("map")
      /\ UNCHANGED <<clock, dir, req, written, crashes, cleaner>>

(* fstat, mmap and bufferevent_write, which copies the bytes.  A file of   *)
(* no bytes is answered as if it did not exist, and so is one that cannot  *)
(* be mapped or queued.                                                    *)
FetchReply ==
  /\ pc = "map"
  /\ \/ opened.len > 0 /\ Finish(Data(opened))
     \/ Finish(Refused)
  /\ UNCHANGED <<clock, dir, crashes, cleaner>>

(* unlink(store_file).                                                     *)
DeleteUnlink ==
  LET n == StoreFile(req.key)
  IN  /\ pc = "unlink" /\ Exists(n)
      /\ dir' = [dir EXCEPT ![n] = NoFile]
      /\ cleaner' = Unlisted(n)
      /\ Goto("reply")
      /\ UNCHANGED <<clock, req, written, opened, crashes>>

(* The store or the delete is done: "OK" is queued, unless bufferevent_new *)
(* fails.                                                                  *)
Reply ==
  /\ pc = "reply"
  /\ Finish(Ok) \/ Finish(Refused)
  /\ UNCHANGED <<clock, dir, crashes, cleaner>>

(* The server dies, for whatever reason, between two system calls.         *)
Crash ==
  /\ pc # "down" /\ crashes < MaxCrashes
  /\ crashes' = crashes + 1
  /\ pc' = "down"
  /\ answer' = IF pc = "idle" THEN answer ELSE Refused
  /\ Forget
  /\ cleaner' = [c \in Cleaners |->
                   [cleaner[c] EXCEPT !.orphan = cleaner[c].pc # "gone"]]
  /\ UNCHANGED <<clock, dir>>

(* It is started again on the same directory and forks a cleanup process.  *)
Restart ==
  /\ pc = "down"
  /\ pc' = "idle"
  /\ \E c \in Cleaners : /\ cleaner[c].pc = "gone"
                         /\ cleaner' = [cleaner EXCEPT ![c] = Forked]
  /\ UNCHANGED <<clock, dir, req, written, opened, answer, crashes>>

Handler ==
  \/ RefuseRequest
  \/ StoreCreate \/ StoreWrite \/ StoreWriteFails
  \/ StoreRename \/ StoreRenameFails \/ StoreDiscard \/ StoreDiscardFails
  \/ FetchOpen \/ FetchReply
  \/ DeleteUnlink
  \/ Reply

Tick ==
  /\ clock < MaxClock
  /\ clock' = clock + 1
  /\ UNCHANGED <<dir, serverVars, cleaner>>

Init ==
  /\ clock = 0
  /\ dir = [n \in Names |-> NoFile]
  /\ pc = "idle" /\ req = NoRequest
  /\ written = 0 /\ opened = NoFile
  /\ answer = NoAnswer /\ crashes = 0
  /\ LET first == CHOOSE c \in Cleaners : TRUE
     IN  cleaner = [c \in Cleaners |-> IF c = first THEN Forked ELSE NoCleaner]

Next ==
  \/ Begin \/ Handler
  \/ Crash \/ Restart
  \/ \E c \in Cleaners : CleanerStep(c) \/ CleanerDies(c)
  \/ Tick

(* The operating system runs the cleanup process.                          *)
Fairness == \A c \in Cleaners : WF_vars(CleanerStep(c))

Spec == Init /\ [][Next]_vars /\ Fairness

-----------------------------------------------------------------------------
(* Properties.                                                             *)

TypeOK ==
  /\ clock \in Nat
  /\ dir \in [Names -> Files \cup {NoFile}]
  /\ pc \in Handling \cup {"idle", "down"}
  /\ req \in Requests \cup {NoRequest}
  /\ written \in Nat
  /\ opened \in Files \cup {NoFile}
  /\ crashes \in Nat
  /\ cleaner \in [Cleaners ->
       [pc : {"gone", "asleep", "awake", "scan", "unlink"}, orphan : BOOLEAN,
        now : Nat, todo : SUBSET Names, name : Names \cup {<<>>},
        touched : BOOLEAN]]

(* A published file is never modified: while it has its name, its bytes    *)
(* and its modification time stay what they were when rename() published   *)
(* them, across failures of the disk and deaths of the server.  What a     *)
(* fetch has mapped therefore cannot change or shrink under it.            *)
PublishedNeverRewritten ==
  [][\A k \in Keys : dir'[StoreFile(k)] \in
       {dir[StoreFile(k)], NoFile, dir[TmpFile(k)]}]_dir

(* What a store publishes is what it has written itself, to the last byte  *)
(* that was taken: a temporary file that a dead server left, or a store    *)
(* that could neither rename nor remove it, never gets into a later value, *)
(* however the cleanup processes interfere.                                *)
PublishedAsWritten ==
  [][\A k \in Keys :
       dir'[StoreFile(k)] \notin {dir[StoreFile(k)], NoFile} =>
         /\ req.kind = "store" /\ req.key = k
         /\ dir'[StoreFile(k)].value = req.value
         /\ dir'[StoreFile(k)].len = written]_vars

(* The cleanup process decides to remove a file only if it has expired.    *)
(* A name it removes can stand for a younger file only if the server has   *)
(* written it since cleanup_dir looked at it.                              *)
DoomedIsExpired ==
  \A c \in Cleaners :
    cleaner[c].pc = "unlink" =>
      \/ ~ Exists(cleaner[c].name)
      \/ clock - dir[cleaner[c].name].mtime > Expiration
      \/ cleaner[c].touched

(* A server that is up has a cleanup process.                              *)
Attended == \E c \in Cleaners : cleaner[c].pc # "gone" /\ ~ cleaner[c].orphan

TooOld(n) == Exists(n) /\ clock - dir[n].mtime > Expiration

(* Whatever expires, values as well as what a dead server or a store that  *)
(* failed left behind, is purged or replaced, as long as the server and    *)
(* its cleanup process are there: unless the calls of the cleanup process, *)
(* whose results are ignored, fail again and again.                        *)
ExpiredPurged ==
  <>[][NoCallFails]_vars =>
    \A n \in Names : TooOld(n) ~> (~ TooOld(n) \/ ~ Attended)

(* "Files are now properly truncated and filled atomically" (NEWS:22): a   *)
(* file under its key holds the whole of one value.                        *)
FilledAtomically ==
  \A k \in Keys : Exists(StoreFile(k)) => Whole(dir[StoreFile(k)])

(* "A key/data pair expires after 30 minutes since last modification"      *)
(* (README:121): the cleanup process removes no younger one.               *)
NoEarlyExpiry ==
  [][\A c \in Cleaners, k \in Keys :
       /\ cleaner[c].pc = "unlink" /\ cleaner'[c].pc = "scan"
       /\ cleaner[c].name = StoreFile(k) /\ Exists(StoreFile(k))
       => clock - dir[StoreFile(k)].mtime > Expiration]_vars

(* The handlers and the cleanup process together implement a map that      *)
(* forgets: see EphemeralMap.                                              *)
contents ==
  [k \in Keys |-> IF Exists(StoreFile(k)) THEN Data(dir[StoreFile(k)])
                                          ELSE Refused]

result ==
  CASE pc = "reply" -> Ok
    [] pc = "map" -> IF opened.len > 0 THEN Data(opened) ELSE Refused
    [] OTHER -> NoAnswer

pending == IF pc \in Handling THEN req ELSE NoRequest

Map == INSTANCE EphemeralMap WITH map <- contents, request <- pending

ImplementsEphemeralMap == Map!Spec
===============================================================================
