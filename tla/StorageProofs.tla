----------------------------- MODULE StorageProofs -----------------------------
(***************************************************************************)
(* Proofs about Storage, for every set of keys, values and cleanup         *)
(* processes, every expiration time and every bound.                       *)
(***************************************************************************)
EXTENDS Storage, TLAPS

CleanerRecord ==
  [pc : {"gone", "asleep", "awake", "scan", "unlink"}, orphan : BOOLEAN,
   now : Nat, todo : SUBSET Names, name : Names \cup {<<>>},
   touched : BOOLEAN]

(* What the handler of a store has done so far.                            *)
StoreInv ==
  /\ pc \in {"create", "write", "rename", "discard"} => req.kind = "store"
  /\ pc = "create" => written = 0
  /\ pc \in {"write", "rename"} /\ Exists(TmpFile(req.key)) =>
       /\ dir[TmpFile(req.key)].value = req.value
       /\ dir[TmpFile(req.key)].len = written
  /\ pc = "write" => written < Size[req.value]
  /\ pc = "rename" => written <= Size[req.value]
  /\ pc = "rename" /\ req.value \notin TooLarge => written = Size[req.value]

(* The request belongs to the handler that runs, and to none when the      *)
(* server waits or is down.                                                *)
HandlerInv ==
  /\ pc \in Handling => req \in Requests
  /\ pc \in {"open", "map"} => req.kind = "fetch"
  /\ pc = "map" => opened \in Files
  /\ pc = "unlink" => req.kind = "delete"
  /\ pc \in {"idle", "down"} => req = NoRequest /\ written = 0

(* A cleanup process about to remove a file has a name to remove, and the  *)
(* clock it measures by is never ahead.                                    *)
CleanerInv ==
  \A c \in Cleaners :
    /\ cleaner[c].now <= clock
    /\ cleaner[c].pc = "unlink" => cleaner[c].name \in Names

SInv ==
  /\ TypeOK
  /\ StoreInv
  /\ HandlerInv
  /\ CleanerInv
  /\ DoomedIsExpired

-----------------------------------------------------------------------------
(* Names, files and cleanup processes.                                     *)

(* Every name is the final or the temporary name of exactly one key, and   *)
(* never both.                                                             *)
LEMMA NameFacts ==
  /\ \A k \in Keys : StoreFile(k) \in Names /\ TmpFile(k) \in Names
  /\ \A k, j \in Keys : StoreFile(k) # TmpFile(j)
  /\ \A k, j \in Keys : StoreFile(k) = StoreFile(j) => k = j
  /\ \A k, j \in Keys : TmpFile(k) = TmpFile(j) => k = j
  /\ \A n \in Names : \E k \in Keys : n = StoreFile(k) \/ n = TmpFile(k)
BY DEF Names, StoreFile, TmpFile

(* No file is the absence of a file.                                       *)
LEMMA FileFacts ==
  ASSUME NEW f \in Files
  PROVE  /\ f.value \in Values /\ f.len \in Nat /\ f.mtime \in Nat
         /\ f # NoFile /\ Size[f.value] \in Nat /\ f.len <= Size[f.value]
<1>1. /\ f.value \in Values /\ f.len \in Nat /\ f.mtime \in Nat
      /\ f.len <= Size[f.value]
  BY DEF Files
<1>2. f.value # "none"
  BY <1>1, StorageAssumption
<1>3. NoFile.value = "none"
  BY DEF NoFile
<1> QED BY <1>1, <1>2, <1>3, StorageAssumption

(* A file of the values and no bytes is a file.                            *)
LEMMA CreatedFileFacts ==
  ASSUME NEW v \in Values, clock \in Nat
  PROVE  /\ CreatedFile(v) \in Files
         /\ CreatedFile(v).value = v
         /\ CreatedFile(v).len = 0
         /\ CreatedFile(v).mtime = clock
BY StorageAssumption DEF CreatedFile, Files

(* The ghost and the listing leave everything else alone.                  *)
LEMMA TouchFacts ==
  ASSUME cleaner \in [Cleaners -> CleanerRecord], NEW n
  PROVE  /\ Touch(n) \in [Cleaners -> CleanerRecord]
         /\ \A c \in Cleaners :
              /\ Touch(n)[c].pc = cleaner[c].pc
              /\ Touch(n)[c].now = cleaner[c].now
              /\ Touch(n)[c].name = cleaner[c].name
              /\ Touch(n)[c].todo = cleaner[c].todo
              /\ Touch(n)[c].touched <=>
                   cleaner[c].touched
                   \/ (cleaner[c].pc = "unlink" /\ cleaner[c].name = n)
BY DEF Touch, CleanerRecord

LEMMA UnlistedFacts ==
  ASSUME cleaner \in [Cleaners -> CleanerRecord], NEW n
  PROVE  /\ Unlisted(n) \in [Cleaners -> CleanerRecord]
         /\ \A c \in Cleaners :
              /\ Unlisted(n)[c].pc = cleaner[c].pc
              /\ Unlisted(n)[c].now = cleaner[c].now
              /\ Unlisted(n)[c].name = cleaner[c].name
              /\ Unlisted(n)[c].touched = cleaner[c].touched
              /\ Unlisted(n)[c].todo = cleaner[c].todo \ {n}
BY DEF Unlisted, CleanerRecord

LEMMA BecomesFacts ==
  ASSUME cleaner \in [Cleaners -> CleanerRecord],
         NEW c \in Cleaners, NEW r \in CleanerRecord, Becomes(c, r)
  PROVE  /\ cleaner' \in [Cleaners -> CleanerRecord]
         /\ cleaner'[c] = r
         /\ \A d \in Cleaners : d # c => cleaner'[d] = cleaner[d]
BY DEF Becomes

(* Requests.                                                               *)
LEMMA RequestFacts ==
  ASSUME NEW r \in Requests
  PROVE  /\ r.key \in Keys
         /\ r.kind \in {"store", "fetch", "delete"}
         /\ r.kind = "store" => r.value \in Values /\ Size[r.value] \in Nat
         /\ r # NoRequest
BY StorageAssumption DEF Requests, NoRequest

-----------------------------------------------------------------------------
(* Steps of the cleanup processes.                                         *)

(* A cleanup process changes the directory only by removing the name it is *)
(* about to remove, never touches the server's variables, and stays within *)
(* its own record.                                                         *)
LEMMA CleanerStepFacts ==
  ASSUME SInv, NEW c \in Cleaners, CleanerStep(c) \/ CleanerDies(c)
  PROVE  /\ UNCHANGED <<clock, serverVars>>
         /\ cleaner' \in [Cleaners -> CleanerRecord]
         /\ \/ dir' = dir
            \/ /\ cleaner[c].pc = "unlink"
               /\ cleaner[c].name \in Names
               /\ dir' = [dir EXCEPT ![cleaner[c].name] = NoFile]
         /\ CleanerInv'
<1> /\ cleaner \in [Cleaners -> CleanerRecord] /\ clock \in Nat
    /\ \A d \in Cleaners :
         /\ cleaner[d].now <= clock /\ cleaner[d].now \in Nat
         /\ cleaner[d].pc = "unlink" => cleaner[d].name \in Names
  BY DEF SInv, TypeOK, CleanerInv, CleanerRecord
<1> DEFINE record == cleaner[c]
<1>0. /\ record \in CleanerRecord
      /\ record.now \in Nat /\ record.now <= clock
  BY DEF CleanerRecord
(* A record with an earlier clock and no name to remove keeps CleanerInv.  *)
<1>a. ASSUME NEW r \in CleanerRecord, Becomes(c, r), clock' = clock,
             r.now <= clock, r.pc = "unlink" => r.name \in Names
      PROVE  cleaner' \in [Cleaners -> CleanerRecord] /\ CleanerInv'
  BY <1>a, BecomesFacts DEF CleanerInv
<1>1. CASE CheckParent(c) \/ CleanerDies(c)
  <2>1. UNCHANGED <<clock, dir, serverVars>>
    BY <1>1 DEF CheckParent, CleanerDies
  <2> DEFINE awake == [record EXCEPT !.pc = "awake", !.now = clock]
  <2>2. Becomes(c, NoCleaner) \/ Becomes(c, awake)
    BY <1>1 DEF CheckParent, CleanerDies
  <2>3. /\ NoCleaner \in CleanerRecord
        /\ NoCleaner.now = 0 /\ NoCleaner.pc = "gone"
    BY DEF NoCleaner, CleanerRecord
  <2>4. awake \in CleanerRecord /\ awake.now = clock /\ awake.pc = "awake"
    BY <1>0 DEF CleanerRecord
  <2> HIDE DEF awake
  <2>5. cleaner' \in [Cleaners -> CleanerRecord] /\ CleanerInv'
    BY <1>a, <2>1, <2>2, <2>3, <2>4
  <2> QED BY <2>1, <2>5
<1>2. CASE OpenDir(c)
  <2> DEFINE r == [record EXCEPT !.pc = "scan",
                                 !.todo = {n \in Names : Exists(n)}]
  <2>1. UNCHANGED <<clock, dir, serverVars>> /\ Becomes(c, r)
    BY <1>2 DEF OpenDir
  <2>2. r \in CleanerRecord /\ r.now = record.now /\ r.pc = "scan"
    BY <1>0 DEF CleanerRecord
  <2> HIDE DEF r
  <2> QED BY <1>0, <1>a, <2>1, <2>2
<1>3. CASE OpenDirFails(c)
  <2> DEFINE r == [record EXCEPT !.pc = "asleep", !.now = 0]
  <2>1. UNCHANGED <<clock, dir, serverVars>> /\ Becomes(c, r)
    BY <1>3 DEF OpenDirFails
  <2>2. r \in CleanerRecord /\ r.now = 0 /\ r.pc = "asleep"
    BY <1>0 DEF CleanerRecord
  <2> HIDE DEF r
  <2> QED BY <1>a, <2>1, <2>2
<1>4. CASE CloseDir(c) \/ ReadDirFails(c)
  <2> DEFINE r == [record EXCEPT !.pc = "asleep", !.now = 0, !.todo = {}]
  <2>1. UNCHANGED <<clock, dir, serverVars>> /\ Becomes(c, r)
    BY <1>4 DEF CloseDir, ReadDirFails, Sleep
  <2>2. r \in CleanerRecord /\ r.now = 0 /\ r.pc = "asleep"
    BY <1>0 DEF CleanerRecord
  <2> HIDE DEF r
  <2> QED BY <1>a, <2>1, <2>2
<1>5. CASE Examine(c) \/ StatFails(c)
  <2>1. UNCHANGED <<clock, dir, serverVars>> /\ record.pc = "scan"
    BY <1>5 DEF Examine, StatFails
  <2>2. PICK n \in Names :
          \/ Becomes(c, [Listed(c, n) EXCEPT !.pc = "unlink", !.name = n])
          \/ Becomes(c, Listed(c, n))
    BY <1>5 DEF Examine, StatFails
  <2> DEFINE listed == Listed(c, n)
             condemned == [listed EXCEPT !.pc = "unlink", !.name = n]
  <2>3. listed \in CleanerRecord /\ listed.now = record.now /\ listed.pc = "scan"
    BY <1>0, <2>1 DEF CleanerRecord, Listed
  <2> HIDE DEF listed
  <2>4. /\ condemned \in CleanerRecord /\ condemned.now = record.now
        /\ condemned.name \in Names
    BY <2>3 DEF CleanerRecord
  <2>5. Becomes(c, condemned) \/ Becomes(c, listed)
    BY <2>2 DEF listed
  <2> HIDE DEF condemned
  <2>6. cleaner' \in [Cleaners -> CleanerRecord] /\ CleanerInv'
    BY <1>0, <1>a, <2>1, <2>3, <2>4, <2>5
  <2> QED BY <2>1, <2>6
<1>6. CASE UnlinkExpired(c)
  <2> DEFINE n == cleaner[c].name
             r == [record EXCEPT !.pc = "scan", !.name = <<>>, !.touched = FALSE]
  <2>1. /\ UNCHANGED <<clock, serverVars>>
        /\ cleaner[c].pc = "unlink"
        /\ dir' = [dir EXCEPT ![n] = NoFile]
        /\ cleaner' = [Unlisted(n) EXCEPT ![c] = r]
    BY <1>6 DEF UnlinkExpired, PassedOver
  <2>2. r \in CleanerRecord /\ r.now = record.now /\ r.pc = "scan"
    BY <1>0 DEF CleanerRecord
  <2>3. /\ Unlisted(n) \in [Cleaners -> CleanerRecord]
        /\ \A d \in Cleaners : /\ Unlisted(n)[d].pc = cleaner[d].pc
                               /\ Unlisted(n)[d].now = cleaner[d].now
                               /\ Unlisted(n)[d].name = cleaner[d].name
    BY UnlistedFacts
  <2> HIDE DEF r
  <2>4. /\ cleaner' \in [Cleaners -> CleanerRecord]
        /\ cleaner'[c] = r
        /\ \A d \in Cleaners : d # c => cleaner'[d] = Unlisted(n)[d]
    BY <2>1, <2>2, <2>3
  <2>5. CleanerInv'
    BY <1>0, <2>1, <2>2, <2>3, <2>4 DEF CleanerInv
  <2> QED BY <2>1, <2>4, <2>5
<1>7. CASE UnlinkFails(c)
  <2> DEFINE r == [record EXCEPT !.pc = "scan", !.name = <<>>, !.touched = FALSE]
  <2>1. UNCHANGED <<clock, dir, serverVars>> /\ Becomes(c, r)
    BY <1>7 DEF UnlinkFails, PassedOver
  <2>2. r \in CleanerRecord /\ r.now = record.now /\ r.pc = "scan"
    BY <1>0 DEF CleanerRecord
  <2> HIDE DEF r
  <2> QED BY <1>0, <1>a, <2>1, <2>2
<1> QED BY <1>1, <1>2, <1>3, <1>4, <1>5, <1>6, <1>7 DEF CleanerStep, CleanerFails

-----------------------------------------------------------------------------
(* Steps of the server that change neither the directory nor the cleanup   *)
(* processes.                                                              *)
Quiet ==
  \/ Begin \/ RefuseRequest
  \/ StoreWriteFails \/ StoreRenameFails \/ StoreDiscardFails
  \/ FetchOpen \/ FetchReply \/ Reply

(* The server's variables keep their types, and the request stays with its *)
(* handler.                                                                *)
LEMMA QuietFacts ==
  ASSUME SInv, Quiet
  PROVE  /\ UNCHANGED <<clock, dir, crashes, cleaner>>
         /\ TypeOK' /\ StoreInv' /\ HandlerInv'
<1> USE DEF Handling
<1>0. /\ dir \in [Names -> Files \cup {NoFile}]
      /\ written \in Nat /\ opened \in Files \cup {NoFile}
      /\ req \in Requests \cup {NoRequest}
      /\ StoreInv /\ HandlerInv /\ TypeOK
  BY DEF SInv, TypeOK
<1>1. CASE Begin
  <2>1. /\ pc = "idle" /\ req' \in Requests
        /\ written' = written /\ opened' = opened
        /\ UNCHANGED <<clock, dir, crashes, cleaner>>
    BY <1>1 DEF Begin
  <2>2. req'.kind \in {"store", "fetch", "delete"}
    BY <2>1, RequestFacts
  <2>3. \/ req'.kind = "store" /\ pc' = "create"
        \/ req'.kind = "fetch" /\ pc' = "open"
        \/ req'.kind = "delete" /\ pc' = "unlink"
    BY <1>1, <2>2 DEF Begin
  <2>4. written = 0
    BY <1>0, <2>1 DEF HandlerInv
  <2>5. TypeOK'
    BY <1>0, <2>1, <2>3 DEF TypeOK
  <2>6. StoreInv' /\ HandlerInv'
    BY <1>0, <2>1, <2>3, <2>4 DEF StoreInv, HandlerInv
  <2> QED BY <2>1, <2>5, <2>6
<1>2. CASE RefuseRequest \/ StoreDiscardFails \/ FetchReply \/ Reply
  <2>1. /\ UNCHANGED <<clock, dir, crashes, cleaner>>
        /\ pc' = "idle" /\ req' = NoRequest /\ written' = 0 /\ opened' = NoFile
    BY <1>2 DEF RefuseRequest, StoreDiscardFails, FetchReply, Reply, Finish,
                Forget
  <2> QED BY <1>0, <2>1 DEF TypeOK, StoreInv, HandlerInv
<1>3. CASE StoreWriteFails
  <2>1. /\ pc = "write" /\ pc' = "rename" /\ req.value \in TooLarge
        /\ UNCHANGED <<clock, dir, req, written, opened, crashes, cleaner>>
    BY <1>3 DEF StoreWriteFails, Goto
  <2>2. TypeOK'
    BY <1>0, <2>1 DEF TypeOK
  <2>3. req.kind = "store" /\ Size[req.value] \in Nat
    BY <1>0, <2>1, RequestFacts DEF StoreInv, HandlerInv
  <2>4. StoreInv' /\ HandlerInv'
    BY <1>0, <2>1, <2>3 DEF StoreInv, HandlerInv, Exists
  <2> QED BY <2>1, <2>2, <2>4
<1>4. CASE StoreRenameFails
  <2>1. /\ pc = "rename" /\ pc' = "discard"
        /\ UNCHANGED <<clock, dir, req, written, opened, crashes, cleaner>>
    BY <1>4 DEF StoreRenameFails, Goto
  <2> QED BY <1>0, <2>1 DEF TypeOK, StoreInv, HandlerInv
<1>5. CASE FetchOpen
  <2>1. /\ pc = "open" /\ pc' = "map"
        /\ opened' = dir[StoreFile(req.key)] /\ Exists(StoreFile(req.key))
        /\ UNCHANGED <<clock, dir, req, written, crashes, cleaner>>
    BY <1>5 DEF FetchOpen, FetchFile, Goto
  <2>2. StoreFile(req.key) \in Names
    BY <1>0, <2>1, RequestFacts, NameFacts DEF HandlerInv
  <2>3. opened' \in Files
    BY <1>0, <2>1, <2>2 DEF Exists
  <2> QED BY <1>0, <2>1, <2>3 DEF TypeOK, StoreInv, HandlerInv
<1> QED BY <1>1, <1>2, <1>3, <1>4, <1>5 DEF Quiet

-----------------------------------------------------------------------------
(* Steps of the server that change the directory.                          *)

(* What a step must respect to keep what is known of the cleanup processes:*)
(* a name about to be removed keeps its file, loses it, or is touched.     *)
LEMMA CleanerFrame ==
  ASSUME SInv, clock' \in Nat, clock <= clock',
         cleaner' \in [Cleaners -> CleanerRecord],
         \A c \in Cleaners :
           /\ cleaner'[c].now <= clock'
           /\ cleaner'[c].pc = "unlink" =>
                /\ cleaner[c].pc = "unlink" /\ cleaner'[c].name = cleaner[c].name
                /\ cleaner[c].touched => cleaner'[c].touched
                /\ \/ dir'[cleaner[c].name] = dir[cleaner[c].name]
                   \/ dir'[cleaner[c].name] = NoFile
                   \/ cleaner'[c].touched
  PROVE  CleanerInv' /\ DoomedIsExpired'
<1>1. CleanerInv'
  BY DEF SInv, CleanerInv
<1>2. DoomedIsExpired'
  <2> SUFFICES ASSUME NEW c \in Cleaners, cleaner'[c].pc = "unlink",
                      dir'[cleaner'[c].name] # NoFile,
                      ~ cleaner'[c].touched
               PROVE  clock' - dir'[cleaner'[c].name].mtime > Expiration
    BY DEF DoomedIsExpired, Exists
  <2> DEFINE n == cleaner[c].name
  <2>1. /\ cleaner[c].pc = "unlink" /\ cleaner'[c].name = n
        /\ ~ cleaner[c].touched /\ dir'[n] = dir[n]
    OBVIOUS
  <2>2. n \in Names /\ dir[n] \in Files
    BY <2>1 DEF SInv, CleanerInv, TypeOK
  <2>3. dir[n].mtime \in Nat
    BY <2>2, FileFacts
  <2>4. clock - dir[n].mtime > Expiration
    BY <2>1 DEF SInv, DoomedIsExpired, Exists
  <2>5. clock \in Nat /\ Expiration \in Nat
    BY StorageAssumption DEF SInv, TypeOK
  <2> QED BY <2>1, <2>3, <2>4, <2>5
<1> QED BY <1>1, <1>2

(* The request of a store, and the two names it works on.                  *)
LEMMA StoreFacts ==
  ASSUME SInv, pc \in {"create", "write", "rename", "discard"}
  PROVE  /\ req \in Requests /\ req.kind = "store"
         /\ req.key \in Keys /\ req.value \in Values
         /\ Size[req.value] \in Nat
         /\ StoreFile(req.key) \in Names /\ TmpFile(req.key) \in Names
         /\ StoreFile(req.key) # TmpFile(req.key)
         /\ \A k \in Keys : TmpFile(k) = TmpFile(req.key) => k = req.key
<1>1. req \in Requests /\ req.kind = "store"
  BY DEF SInv, StoreInv, HandlerInv, Handling
<1> QED BY <1>1, RequestFacts, NameFacts

LEMMA StoreCreateStep ==
  ASSUME SInv, StoreCreate
  PROVE  SInv'
<1> USE DEF Handling
<1> DEFINE n == TmpFile(req.key)
<1>1. /\ pc = "create"
      /\ dir' = [dir EXCEPT ![n] = CreatedFile(req.value)]
      /\ cleaner' = Touch(n)
      /\ pc' = IF Size[req.value] = 0 THEN "rename" ELSE "write"
      /\ UNCHANGED <<clock, req, written, opened, answer, crashes>>
  BY DEF StoreCreate, WorkFile, Goto
<1>2. /\ dir \in [Names -> Files \cup {NoFile}] /\ clock \in Nat
      /\ cleaner \in [Cleaners -> CleanerRecord]
      /\ written = 0 /\ TypeOK /\ StoreInv /\ HandlerInv
  BY <1>1 DEF SInv, TypeOK, StoreInv, CleanerRecord
<1>3. /\ req \in Requests /\ req.kind = "store"
      /\ req.key \in Keys /\ req.value \in Values /\ Size[req.value] \in Nat
      /\ n \in Names
      /\ \A k \in Keys : TmpFile(k) = n => k = req.key
  BY <1>1, StoreFacts
<1>4. /\ CreatedFile(req.value) \in Files
      /\ CreatedFile(req.value).value = req.value
      /\ CreatedFile(req.value).len = 0
  BY <1>2, <1>3, CreatedFileFacts
<1>5. /\ cleaner' \in [Cleaners -> CleanerRecord]
      /\ \A c \in Cleaners :
           /\ cleaner'[c].pc = cleaner[c].pc
           /\ cleaner'[c].now = cleaner[c].now
           /\ cleaner'[c].name = cleaner[c].name
           /\ cleaner'[c].touched <=>
                cleaner[c].touched
                \/ (cleaner[c].pc = "unlink" /\ cleaner[c].name = n)
  BY <1>1, <1>2, TouchFacts
<1> HIDE DEF n
<1>6. TypeOK'
  BY <1>1, <1>2, <1>3, <1>4, <1>5 DEF TypeOK, CleanerRecord
<1>7. dir'[n] = CreatedFile(req.value) /\ \A m \in Names : m # n => dir'[m] = dir[m]
  BY <1>1, <1>2, <1>3
<1>8. StoreInv' /\ HandlerInv'
  BY <1>1, <1>2, <1>3, <1>4, <1>7 DEF StoreInv, HandlerInv, n
<1>9. CleanerInv' /\ DoomedIsExpired'
  <2>1. \A c \in Cleaners :
          /\ cleaner[c].now <= clock
          /\ cleaner[c].pc = "unlink" => cleaner[c].name \in Names
    BY DEF SInv, CleanerInv
  <2> QED BY <1>1, <1>2, <1>5, <1>7, <2>1, CleanerFrame
<1> QED BY <1>6, <1>8, <1>9 DEF SInv

LEMMA StoreWriteStep ==
  ASSUME SInv, StoreWrite
  PROVE  SInv'
<1> USE DEF Handling
<1> DEFINE n == TmpFile(req.key)
<1>1. /\ pc = "write" /\ UNCHANGED <<clock, req, opened, answer, crashes>>
      /\ \E count \in 1 .. Size[req.value] - written : written' = written + count
      /\ pc' = IF written' >= Size[req.value] THEN "rename" ELSE "write"
      /\ \/ /\ Exists(n)
            /\ dir' = [dir EXCEPT ![n].len = written', ![n].mtime = clock]
            /\ cleaner' = Touch(n)
         \/ ~ Exists(n) /\ UNCHANGED <<dir, cleaner>>
  BY DEF StoreWrite, Writable, WorkFile, Goto
<1>2. /\ dir \in [Names -> Files \cup {NoFile}] /\ clock \in Nat
      /\ cleaner \in [Cleaners -> CleanerRecord]
      /\ written \in Nat /\ TypeOK /\ StoreInv /\ HandlerInv
  BY <1>1 DEF SInv, TypeOK, StoreInv, CleanerRecord
<1>3. /\ req \in Requests /\ req.kind = "store"
      /\ req.key \in Keys /\ req.value \in Values /\ Size[req.value] \in Nat
      /\ n \in Names
      /\ \A k \in Keys : TmpFile(k) = n => k = req.key
  BY <1>1, StoreFacts
<1>4. written' \in Nat /\ written' <= Size[req.value]
  BY <1>1, <1>2, <1>3
<1>5. /\ cleaner' \in [Cleaners -> CleanerRecord]
      /\ \A c \in Cleaners :
           /\ cleaner'[c].pc = cleaner[c].pc
           /\ cleaner'[c].now = cleaner[c].now
           /\ cleaner'[c].name = cleaner[c].name
           /\ cleaner[c].touched => cleaner'[c].touched
           /\ Exists(n) /\ cleaner[c].pc = "unlink" /\ cleaner[c].name = n
                => cleaner'[c].touched
  BY <1>1, <1>2, TouchFacts
<1> HIDE DEF n
<1>6. /\ dir' \in [Names -> Files \cup {NoFile}]
      /\ \A m \in Names : m # n => dir'[m] = dir[m]
      /\ Exists(n) => /\ dir'[n] \in Files
                      /\ dir'[n].value = req.value
                      /\ dir'[n].len = written'
      /\ ~ Exists(n) => dir' = dir
  <2>1. CASE Exists(n)
    <3> DEFINE f == [[dir[n] EXCEPT !.len = written'] EXCEPT !.mtime = clock]
    <3>1. dir[n] \in Files /\ dir[n].value = req.value
      BY <1>1, <1>2, <1>3, <2>1 DEF Exists, StoreInv, n
    <3>2. f \in Files /\ f.value = req.value /\ f.len = written'
      BY <1>2, <1>3, <1>4, <3>1 DEF Files
    <3>3. dir' = [dir EXCEPT ![n] = f]
      BY <1>1, <1>2, <1>3, <2>1
    <3> HIDE DEF f
    <3> QED BY <1>2, <1>3, <2>1, <3>2, <3>3
  <2>2. CASE ~ Exists(n)
    BY <1>1, <1>2, <2>2
  <2> QED BY <2>1, <2>2
<1>7. TypeOK'
  BY <1>1, <1>2, <1>3, <1>4, <1>5, <1>6 DEF TypeOK, CleanerRecord
<1>8. StoreInv' /\ HandlerInv'
  <2>1. Exists(n)' <=> Exists(n)
    <3>1. CASE Exists(n)
      BY <1>1, <1>6, <3>1, FileFacts DEF Exists, n
    <3>2. CASE ~ Exists(n)
      BY <1>1, <1>6, <3>2 DEF Exists, n
    <3> QED BY <3>1, <3>2
  <2>2. pc' = "write" => written' < Size[req.value]
    BY <1>1, <1>3, <1>4
  <2>3. pc' = "rename" => written' = Size[req.value]
    BY <1>1, <1>3, <1>4
  <2> QED BY <1>1, <1>2, <1>3, <1>4, <1>6, <2>1, <2>2, <2>3
          DEF StoreInv, HandlerInv, n
<1>9. CleanerInv' /\ DoomedIsExpired'
  <2>1. \A c \in Cleaners :
          /\ cleaner[c].now <= clock
          /\ cleaner[c].pc = "unlink" => cleaner[c].name \in Names
    BY DEF SInv, CleanerInv
  <2> QED BY <1>1, <1>2, <1>5, <1>6, <2>1, CleanerFrame
<1> QED BY <1>7, <1>8, <1>9 DEF SInv

LEMMA StoreRenameStep ==
  ASSUME SInv, StoreRename
  PROVE  SInv'
<1> USE DEF Handling
<1> DEFINE from == TmpFile(req.key)
           to   == StoreFile(req.key)
<1>1. /\ pc = "rename" /\ pc' = "reply" /\ Exists(from)
      /\ dir' = [dir EXCEPT ![from] = NoFile, ![to] = dir[from]]
      /\ cleaner' = [c \in Cleaners |->
                       [Touch(to)[c] EXCEPT !.todo = @ \ {from}]]
      /\ UNCHANGED <<clock, req, written, opened, answer, crashes>>
  BY DEF StoreRename, WorkFile, Goto
<1>2. /\ dir \in [Names -> Files \cup {NoFile}] /\ clock \in Nat
      /\ cleaner \in [Cleaners -> CleanerRecord]
      /\ TypeOK /\ StoreInv /\ HandlerInv
  BY <1>1 DEF SInv, TypeOK, StoreInv, CleanerRecord
<1>3. /\ req \in Requests /\ req.kind = "store" /\ req.key \in Keys
      /\ from \in Names /\ to \in Names /\ to # from
      /\ \A k \in Keys : TmpFile(k) # to
      /\ \A k \in Keys : TmpFile(k) = from => k = req.key
  BY <1>1, StoreFacts, NameFacts
<1>4. /\ Touch(to) \in [Cleaners -> CleanerRecord]
      /\ \A c \in Cleaners :
           /\ Touch(to)[c].pc = cleaner[c].pc
           /\ Touch(to)[c].now = cleaner[c].now
           /\ Touch(to)[c].name = cleaner[c].name
           /\ Touch(to)[c].touched <=>
                cleaner[c].touched
                \/ (cleaner[c].pc = "unlink" /\ cleaner[c].name = to)
  BY <1>2, TouchFacts
<1> HIDE DEF from, to
<1>5. /\ cleaner' \in [Cleaners -> CleanerRecord]
      /\ \A c \in Cleaners :
           /\ cleaner'[c].pc = Touch(to)[c].pc
           /\ cleaner'[c].now = Touch(to)[c].now
           /\ cleaner'[c].name = Touch(to)[c].name
           /\ cleaner'[c].touched = Touch(to)[c].touched
  BY <1>1, <1>4 DEF CleanerRecord
<1>6. /\ dir' \in [Names -> Files \cup {NoFile}]
      /\ dir'[from] = NoFile /\ dir'[to] = dir[from]
      /\ \A m \in Names : m # from /\ m # to => dir'[m] = dir[m]
  BY <1>1, <1>2, <1>3
<1>7. TypeOK'
  BY <1>1, <1>2, <1>5, <1>6 DEF TypeOK, CleanerRecord
<1>8. StoreInv' /\ HandlerInv'
  BY <1>1, <1>2, <1>3 DEF StoreInv, HandlerInv
<1>9. CleanerInv' /\ DoomedIsExpired'
  <2>1. \A c \in Cleaners :
          /\ cleaner[c].now <= clock
          /\ cleaner[c].pc = "unlink" => cleaner[c].name \in Names
    BY DEF SInv, CleanerInv
  <2>2. \A c \in Cleaners :
          /\ cleaner'[c].now <= clock'
          /\ cleaner'[c].pc = "unlink" =>
               /\ cleaner[c].pc = "unlink" /\ cleaner'[c].name = cleaner[c].name
               /\ cleaner[c].touched => cleaner'[c].touched
               /\ \/ dir'[cleaner[c].name] = dir[cleaner[c].name]
                  \/ dir'[cleaner[c].name] = NoFile
                  \/ cleaner'[c].touched
    BY <1>1, <1>4, <1>5, <1>6, <2>1
  <2>3. clock' \in Nat /\ clock <= clock'
    BY <1>1, <1>2
  <2> QED BY <1>5, <2>2, <2>3, CleanerFrame
<1> QED BY <1>7, <1>8, <1>9 DEF SInv

(* Removing one name, as the server does after a failed rename and for a   *)
(* delete.                                                                 *)
LEMMA UnlinkFrame ==
  ASSUME SInv, NEW n \in Names,
         dir' = [dir EXCEPT ![n] = NoFile], cleaner' = Unlisted(n),
         clock' = clock
  PROVE  /\ dir' \in [Names -> Files \cup {NoFile}]
         /\ dir'[n] = NoFile
         /\ \A m \in Names : m # n => dir'[m] = dir[m]
         /\ cleaner' \in [Cleaners -> CleanerRecord]
         /\ CleanerInv' /\ DoomedIsExpired'
<1>1. /\ dir \in [Names -> Files \cup {NoFile}] /\ clock \in Nat
      /\ cleaner \in [Cleaners -> CleanerRecord]
  BY DEF SInv, TypeOK, CleanerRecord
<1>2. /\ cleaner' \in [Cleaners -> CleanerRecord]
      /\ \A c \in Cleaners :
           /\ cleaner'[c].pc = cleaner[c].pc
           /\ cleaner'[c].now = cleaner[c].now
           /\ cleaner'[c].name = cleaner[c].name
           /\ cleaner'[c].touched = cleaner[c].touched
  BY <1>1, UnlistedFacts
<1>3. /\ dir' \in [Names -> Files \cup {NoFile}]
      /\ dir'[n] = NoFile
      /\ \A m \in Names : m # n => dir'[m] = dir[m]
  BY <1>1
<1>4. CleanerInv' /\ DoomedIsExpired'
  <2>1. \A c \in Cleaners :
          /\ cleaner[c].now <= clock
          /\ cleaner[c].pc = "unlink" => cleaner[c].name \in Names
    BY DEF SInv, CleanerInv
  <2> QED BY <1>1, <1>2, <1>3, <2>1, CleanerFrame
<1> QED BY <1>2, <1>3, <1>4

LEMMA UnlinkStep ==
  ASSUME SInv, StoreDiscard \/ DeleteUnlink
  PROVE  SInv'
<1> USE DEF Handling
<1>0. TypeOK /\ StoreInv /\ HandlerInv
  BY DEF SInv
<1>1. CASE StoreDiscard
  <2> DEFINE n == TmpFile(req.key)
  <2>1. /\ pc = "discard" /\ pc' = "idle" /\ UNCHANGED <<clock, crashes>>
        /\ req' = NoRequest /\ written' = 0 /\ opened' = NoFile
        /\ dir' = [dir EXCEPT ![n] = NoFile] /\ cleaner' = Unlisted(n)
    BY <1>1 DEF StoreDiscard, WorkFile, Finish, Forget
  <2>2. n \in Names /\ \A k \in Keys : TmpFile(k) = n => k = req.key
    BY <2>1, StoreFacts
  <2> HIDE DEF n
  <2>3. /\ dir' \in [Names -> Files \cup {NoFile}]
        /\ dir'[n] = NoFile
        /\ \A m \in Names : m # n => dir'[m] = dir[m]
        /\ cleaner' \in [Cleaners -> CleanerRecord]
        /\ CleanerInv' /\ DoomedIsExpired'
    BY <2>1, <2>2, UnlinkFrame
  <2>4. TypeOK'
    BY <1>0, <2>1, <2>3 DEF TypeOK, CleanerRecord
  <2>5. StoreInv' /\ HandlerInv'
    BY <2>1 DEF StoreInv, HandlerInv
  <2> QED BY <2>3, <2>4, <2>5 DEF SInv
<1>2. CASE DeleteUnlink
  <2> DEFINE n == StoreFile(req.key)
  <2>1. /\ pc = "unlink" /\ pc' = "reply"
        /\ UNCHANGED <<clock, req, written, opened, crashes>>
        /\ dir' = [dir EXCEPT ![n] = NoFile] /\ cleaner' = Unlisted(n)
    BY <1>2 DEF DeleteUnlink, Goto
  <2>2. n \in Names /\ \A k \in Keys : TmpFile(k) # n
    BY <1>0, <2>1, RequestFacts, NameFacts DEF HandlerInv
  <2> HIDE DEF n
  <2>3. /\ dir' \in [Names -> Files \cup {NoFile}]
        /\ dir'[n] = NoFile
        /\ \A m \in Names : m # n => dir'[m] = dir[m]
        /\ cleaner' \in [Cleaners -> CleanerRecord]
        /\ CleanerInv' /\ DoomedIsExpired'
    BY <2>1, <2>2, UnlinkFrame
  <2>4. TypeOK'
    BY <1>0, <2>1, <2>3 DEF TypeOK, CleanerRecord
  <2>5. StoreInv' /\ HandlerInv'
    BY <1>0, <2>1 DEF StoreInv, HandlerInv
  <2> QED BY <2>3, <2>4, <2>5 DEF SInv
<1> QED BY <1>1, <1>2

LEMMA QuietStep ==
  ASSUME SInv, Quiet
  PROVE  SInv'
<1>1. /\ UNCHANGED <<clock, dir, crashes, cleaner>>
      /\ TypeOK' /\ StoreInv' /\ HandlerInv'
  BY QuietFacts
<1>2. CleanerInv' /\ DoomedIsExpired'
  BY <1>1 DEF SInv, CleanerInv, DoomedIsExpired, Exists
<1> QED BY <1>1, <1>2 DEF SInv

-----------------------------------------------------------------------------
(* Deaths and restarts of the server, and the clock.                       *)

LEMMA CrashStep ==
  ASSUME SInv, Crash
  PROVE  SInv'
<1>1. /\ UNCHANGED <<clock, dir>> /\ crashes' = crashes + 1 /\ pc' = "down"
      /\ req' = NoRequest /\ written' = 0 /\ opened' = NoFile
      /\ cleaner' = [c \in Cleaners |->
                       [cleaner[c] EXCEPT !.orphan = cleaner[c].pc # "gone"]]
  BY DEF Crash, Forget
<1>2. /\ TypeOK /\ crashes \in Nat
      /\ cleaner \in [Cleaners -> CleanerRecord]
  BY DEF SInv, TypeOK, CleanerRecord
<1>3. /\ cleaner' \in [Cleaners -> CleanerRecord]
      /\ \A c \in Cleaners : /\ cleaner'[c].pc = cleaner[c].pc
                             /\ cleaner'[c].now = cleaner[c].now
                             /\ cleaner'[c].name = cleaner[c].name
                             /\ cleaner'[c].touched = cleaner[c].touched
  BY <1>1, <1>2 DEF CleanerRecord
<1>4. TypeOK'
  <2>1. /\ clock' \in Nat /\ crashes' \in Nat
        /\ dir' \in [Names -> Files \cup {NoFile}]
    BY <1>1, <1>2 DEF TypeOK
  <2> QED BY <1>1, <1>3, <2>1 DEF TypeOK, CleanerRecord
<1>5. StoreInv' /\ HandlerInv'
  BY <1>1 DEF StoreInv, HandlerInv, Handling
<1>6. CleanerInv' /\ DoomedIsExpired'
  BY <1>1, <1>3 DEF SInv, CleanerInv, DoomedIsExpired, Exists
<1> QED BY <1>4, <1>5, <1>6 DEF SInv

LEMMA RestartStep ==
  ASSUME SInv, Restart
  PROVE  SInv'
<1>1. PICK c \in Cleaners :
        cleaner[c].pc = "gone" /\ cleaner' = [cleaner EXCEPT ![c] = Forked]
  BY DEF Restart
<1>2. /\ pc = "down" /\ pc' = "idle"
      /\ UNCHANGED <<clock, dir, req, written, opened, answer, crashes>>
  BY DEF Restart
<1>3. /\ TypeOK /\ StoreInv /\ HandlerInv /\ clock \in Nat
      /\ cleaner \in [Cleaners -> CleanerRecord]
  BY DEF SInv, TypeOK, CleanerRecord
<1>4. Forked \in CleanerRecord /\ Forked.pc = "asleep" /\ Forked.now = 0
  BY DEF Forked, NoCleaner, CleanerRecord
<1>5. /\ cleaner' \in [Cleaners -> CleanerRecord]
      /\ cleaner'[c] = Forked
      /\ \A d \in Cleaners : d # c => cleaner'[d] = cleaner[d]
  BY <1>1, <1>3, <1>4
<1>6. TypeOK'
  BY <1>2, <1>3, <1>5 DEF TypeOK, CleanerRecord, Handling
<1>7. StoreInv' /\ HandlerInv'
  BY <1>2, <1>3 DEF StoreInv, HandlerInv, Handling, Exists
<1>8. CleanerInv' /\ DoomedIsExpired'
  <2>1. \A d \in Cleaners : d = c \/ cleaner'[d] = cleaner[d]
    BY <1>5
  <2>2. CleanerInv /\ DoomedIsExpired
    BY DEF SInv
  <2> QED BY <1>2, <1>3, <1>4, <1>5, <2>1, <2>2
          DEF CleanerInv, DoomedIsExpired, Exists
<1> QED BY <1>6, <1>7, <1>8 DEF SInv

LEMMA TickStep ==
  ASSUME SInv, Tick
  PROVE  SInv'
<1>1. clock' = clock + 1 /\ UNCHANGED <<dir, serverVars, cleaner>>
  BY DEF Tick
<1>2. /\ TypeOK /\ StoreInv /\ HandlerInv /\ clock \in Nat
      /\ cleaner \in [Cleaners -> CleanerRecord]
  BY DEF SInv, TypeOK, CleanerRecord
<1>3. TypeOK'
  BY <1>1, <1>2 DEF TypeOK, serverVars, CleanerRecord
<1>4. StoreInv' /\ HandlerInv'
  BY <1>1, <1>2 DEF SInv, StoreInv, HandlerInv, Exists, serverVars
<1>5. CleanerInv' /\ DoomedIsExpired'
  <2>1. \A c \in Cleaners : cleaner[c].now <= clock /\ cleaner[c].now \in Nat
    BY <1>2 DEF SInv, CleanerInv, CleanerRecord
  <2> QED BY <1>1, <1>2, <2>1, CleanerFrame
<1> QED BY <1>3, <1>4, <1>5 DEF SInv

(* What a cleanup process decides to remove has expired by the clock it    *)
(* read when its pass began, and so by the clock now.                      *)
LEMMA CleanerDoomedStep ==
  ASSUME SInv, NEW c \in Cleaners, CleanerStep(c) \/ CleanerDies(c)
  PROVE  DoomedIsExpired'
<1>1. /\ clock' = clock /\ clock \in Nat /\ DoomedIsExpired
      /\ dir \in [Names -> Files \cup {NoFile}]
      /\ cleaner \in [Cleaners -> CleanerRecord]
      /\ cleaner[c].now \in Nat /\ cleaner[c].now <= clock
      /\ cleaner' \in [Cleaners -> CleanerRecord]
  BY CleanerStepFacts DEF SInv, TypeOK, CleanerInv, CleanerRecord, serverVars
<1>2. ASSUME NEW r, Becomes(c, r), dir' = dir,
             \/ r.pc # "unlink"
             \/ clock - dir[r.name].mtime > Expiration
      PROVE  DoomedIsExpired'
  <2>1. cleaner'[c] = r /\ \A d \in Cleaners : d # c => cleaner'[d] = cleaner[d]
    BY <1>1, <1>2 DEF Becomes
  <2> QED BY <1>1, <1>2, <2>1 DEF DoomedIsExpired, Exists
<1>3. CASE CheckParent(c) \/ CleanerDies(c)
  <2> DEFINE awake == [cleaner[c] EXCEPT !.pc = "awake", !.now = clock]
  <2>1. dir' = dir /\ (Becomes(c, NoCleaner) \/ Becomes(c, awake))
    BY <1>3 DEF CheckParent, CleanerDies
  <2>2. NoCleaner.pc = "gone" /\ awake.pc = "awake"
    BY <1>1 DEF NoCleaner, CleanerRecord
  <2> HIDE DEF awake
  <2> QED BY <1>2, <2>1, <2>2
<1>4. CASE \/ OpenDir(c) \/ OpenDirFails(c) \/ CloseDir(c) \/ ReadDirFails(c)
           \/ UnlinkFails(c)
  <2> DEFINE open == [cleaner[c] EXCEPT !.pc = "scan",
                                        !.todo = {n \in Names : Exists(n)}]
             fail == [cleaner[c] EXCEPT !.pc = "asleep", !.now = 0]
             close == [cleaner[c] EXCEPT !.pc = "asleep", !.now = 0, !.todo = {}]
             pass == PassedOver(c)
  <2>1. /\ dir' = dir
        /\ \/ Becomes(c, open) \/ Becomes(c, fail) \/ Becomes(c, close)
           \/ Becomes(c, pass)
    BY <1>4 DEF OpenDir, OpenDirFails, CloseDir, ReadDirFails, UnlinkFails, Sleep
  <2>2. /\ open.pc = "scan" /\ fail.pc = "asleep" /\ close.pc = "asleep"
        /\ pass.pc = "scan"
    BY <1>1 DEF CleanerRecord, PassedOver
  <2> HIDE DEF open, fail, close, pass
  <2> QED BY <1>2, <2>1, <2>2
<1>5. CASE Examine(c) \/ StatFails(c)
  <2>1. cleaner[c].pc = "scan" /\ dir' = dir
    BY <1>5 DEF Examine, StatFails
  <2>2. PICK n \in Names :
          \/ /\ Doomed(c, n)
             /\ Becomes(c, [Listed(c, n) EXCEPT !.pc = "unlink", !.name = n])
          \/ Becomes(c, Listed(c, n))
    BY <1>5 DEF Examine, StatFails
  <2> DEFINE listed == Listed(c, n)
             condemned == [listed EXCEPT !.pc = "unlink", !.name = n]
  <2>3. (Doomed(c, n) /\ Becomes(c, condemned)) \/ Becomes(c, listed)
    BY <2>2
  <2>4. listed \in CleanerRecord /\ listed.pc = "scan"
    BY <1>1, <2>1 DEF CleanerRecord, Listed
  <2> HIDE DEF listed
  <2>5. condemned.name = n
    BY <2>4 DEF CleanerRecord
  <2> HIDE DEF condemned
  <2>6. CASE Doomed(c, n)
    <3>1. dir[n].mtime \in Nat /\ Expiration \in Nat
      BY <1>1, <2>6, FileFacts, StorageAssumption DEF Doomed, Exists
    <3>2. clock - dir[n].mtime > Expiration
      BY <1>1, <2>6, <3>1 DEF Doomed, Expired
    <3> QED BY <1>2, <2>1, <2>3, <2>4, <2>5, <3>2
  <2>7. CASE ~ Doomed(c, n)
    BY <1>2, <2>1, <2>3, <2>4, <2>7
  <2> QED BY <2>6, <2>7
<1>6. CASE UnlinkExpired(c)
  <2> DEFINE n == cleaner[c].name
             r == [cleaner[c] EXCEPT !.pc = "scan", !.name = <<>>,
                                     !.touched = FALSE]
  <2>1. /\ n \in Names
        /\ dir' = [dir EXCEPT ![n] = NoFile]
        /\ cleaner' = [Unlisted(n) EXCEPT ![c] = r]
    BY <1>6 DEF UnlinkExpired, PassedOver, SInv, CleanerInv
  <2>2. r.pc = "scan"
    BY <1>1 DEF CleanerRecord
  <2>3. /\ Unlisted(n) \in [Cleaners -> CleanerRecord]
        /\ \A d \in Cleaners : /\ Unlisted(n)[d].pc = cleaner[d].pc
                               /\ Unlisted(n)[d].name = cleaner[d].name
                               /\ Unlisted(n)[d].touched = cleaner[d].touched
    BY <1>1, UnlistedFacts
  <2> HIDE DEF r
  <2>4. /\ cleaner'[c] = r
        /\ \A d \in Cleaners : d # c => cleaner'[d] = Unlisted(n)[d]
    BY <2>1, <2>3
  <2>5. dir'[n] = NoFile /\ \A m \in Names : m # n => dir'[m] = dir[m]
    BY <1>1, <2>1
  <2>6. \A d \in Cleaners : cleaner[d].pc = "unlink" => cleaner[d].name \in Names
    BY DEF SInv, CleanerInv
  <2> QED BY <1>1, <2>2, <2>3, <2>4, <2>5, <2>6 DEF DoomedIsExpired, Exists
<1> QED BY <1>3, <1>4, <1>5, <1>6 DEF CleanerStep, CleanerFails

LEMMA CleanerStepInv ==
  ASSUME SInv, NEW c \in Cleaners, CleanerStep(c) \/ CleanerDies(c)
  PROVE  SInv'
<1>1. /\ UNCHANGED <<clock, serverVars>>
      /\ cleaner' \in [Cleaners -> CleanerRecord]
      /\ CleanerInv'
  BY CleanerStepFacts
<1>2. TypeOK /\ StoreInv /\ HandlerInv
  BY DEF SInv
(* Files only disappear.                                                   *)
<1>3. /\ dir' \in [Names -> Files \cup {NoFile}]
      /\ \A n \in Names : dir'[n] = dir[n] \/ dir'[n] = NoFile
  BY <1>2, CleanerStepFacts DEF TypeOK
<1>4. TypeOK'
  BY <1>1, <1>2, <1>3 DEF TypeOK, serverVars, CleanerRecord
<1>5. StoreInv' /\ HandlerInv'
  <2>1. pc \in {"write", "rename"} => TmpFile(req.key) \in Names
    BY StoreFacts
  <2> QED BY <1>1, <1>2, <1>3, <2>1 DEF StoreInv, HandlerInv, serverVars, Exists
<1> QED BY <1>1, <1>4, <1>5, CleanerDoomedStep DEF SInv

-----------------------------------------------------------------------------
(* The invariant, and what follows from it.                                *)

LEMMA InitSInv == Init => SInv
<1> SUFFICES ASSUME Init PROVE SInv
  OBVIOUS
<1>1. PICK c : cleaner = [d \in Cleaners |-> IF d = c THEN Forked ELSE NoCleaner]
  BY DEF Init
<1>2. /\ Forked \in CleanerRecord /\ Forked.pc = "asleep" /\ Forked.now = 0
      /\ NoCleaner \in CleanerRecord /\ NoCleaner.pc = "gone"
      /\ NoCleaner.now = 0
  BY DEF Forked, NoCleaner, CleanerRecord
<1>3. /\ cleaner \in [Cleaners -> CleanerRecord]
      /\ \A d \in Cleaners : cleaner[d].now = 0 /\ cleaner[d].pc # "unlink"
  BY <1>1, <1>2
<1>4. /\ clock = 0 /\ dir = [n \in Names |-> NoFile] /\ pc = "idle"
      /\ req = NoRequest /\ written = 0 /\ opened = NoFile /\ crashes = 0
  BY DEF Init
<1>5. TypeOK
  BY <1>3, <1>4 DEF TypeOK, CleanerRecord
<1>6. StoreInv /\ HandlerInv
  BY <1>4 DEF StoreInv, HandlerInv, Handling
<1>7. CleanerInv /\ DoomedIsExpired
  BY <1>3, <1>4 DEF CleanerInv, DoomedIsExpired
<1> QED BY <1>5, <1>6, <1>7 DEF SInv

LEMMA NextSInv == SInv /\ [Next]_vars => SInv'
<1> SUFFICES ASSUME SInv, [Next]_vars PROVE SInv'
  OBVIOUS
<1>1. CASE Begin
  BY <1>1, QuietStep DEF Quiet
<1>2. CASE Handler
  <2>1. CASE \/ RefuseRequest
             \/ StoreWriteFails \/ StoreRenameFails \/ StoreDiscardFails
             \/ FetchOpen \/ FetchReply \/ Reply
    BY <2>1, QuietStep DEF Quiet
  <2>2. CASE StoreCreate
    BY <2>2, StoreCreateStep
  <2>3. CASE StoreWrite
    BY <2>3, StoreWriteStep
  <2>4. CASE StoreRename
    BY <2>4, StoreRenameStep
  <2>5. CASE StoreDiscard \/ DeleteUnlink
    BY <2>5, UnlinkStep
  <2> QED BY <1>2, <2>1, <2>2, <2>3, <2>4, <2>5 DEF Handler
<1>3. CASE Crash
  BY <1>3, CrashStep
<1>4. CASE Restart
  BY <1>4, RestartStep
<1>5. CASE \E c \in Cleaners : CleanerStep(c) \/ CleanerDies(c)
  BY <1>5, CleanerStepInv
<1>6. CASE Tick
  BY <1>6, TickStep
<1>7. CASE UNCHANGED vars
  BY <1>7 DEF vars, serverVars, SInv, TypeOK, StoreInv, HandlerInv, CleanerInv,
              DoomedIsExpired, Exists
<1> QED BY <1>1, <1>2, <1>3, <1>4, <1>5, <1>6, <1>7 DEF Next

THEOREM Invariance == Spec => []SInv
BY InitSInv, NextSInv, PTL DEF Spec

(* The variables keep their types.                                         *)
THEOREM TypeCorrect == Spec => []TypeOK
<1>1. SInv => TypeOK
  BY DEF SInv
<1> QED BY <1>1, Invariance, PTL

(* Whatever the interleaving of the cleanup processes with the server, the *)
(* file about to be purged has expired, or has been written since it was   *)
(* looked at.                                                              *)
THEOREM PurgeOnlyExpired == Spec => []DoomedIsExpired
<1>1. SInv => DoomedIsExpired
  BY DEF SInv
<1> QED BY <1>1, Invariance, PTL

(* Only rename() gives a file the name of a key: a store works on the      *)
(* temporary file, and every other step leaves the file of a key alone or  *)
(* removes it.                                                             *)
LEMMA RenameOnly ==
  ASSUME SInv, [Next]_vars, NEW k \in Keys
  PROVE  dir'[StoreFile(k)] \in {dir[StoreFile(k)], NoFile} \/ StoreRename
<1> DEFINE n == StoreFile(k)
<1>0. /\ dir \in [Names -> Files \cup {NoFile}] /\ n \in Names
      /\ \A j \in Keys : n # TmpFile(j)
      /\ \A j \in Keys : n = StoreFile(j) => j = k
  BY NameFacts DEF SInv, TypeOK
<1> HIDE DEF n
<1>1. CASE Quiet
  BY <1>1, QuietFacts DEF n
<1>2. CASE StoreCreate \/ StoreWrite
  <2>1. pc \in {"create", "write"}
    BY <1>2 DEF StoreCreate, StoreWrite
  <2>2. n # TmpFile(req.key) /\ TmpFile(req.key) \in Names
    BY <1>0, <2>1, StoreFacts
  <2>3. \A m \in Names : m # TmpFile(req.key) => dir'[m] = dir[m]
    BY <1>0, <1>2, <2>2 DEF StoreCreate, StoreWrite, WorkFile
  <2> QED BY <1>0, <2>2, <2>3 DEF n
<1>3. CASE StoreDiscard \/ DeleteUnlink
  <2>1. \E m : dir' = [dir EXCEPT ![m] = NoFile]
    BY <1>3 DEF StoreDiscard, DeleteUnlink
  <2> QED BY <1>0, <2>1 DEF n
<1>4. CASE \E c \in Cleaners : CleanerStep(c) \/ CleanerDies(c)
  BY <1>0, <1>4, CleanerStepFacts DEF n
<1>5. CASE Crash \/ Restart \/ Tick \/ UNCHANGED vars
  BY <1>5 DEF Crash, Restart, Tick, vars
<1> QED BY <1>1, <1>2, <1>3, <1>4, <1>5 DEF Next, Handler, Quiet

LEMMA PublishedStep ==
  ASSUME SInv, [Next]_vars, NEW k \in Keys
  PROVE  dir'[StoreFile(k)] \in {dir[StoreFile(k)], NoFile, dir[TmpFile(k)]}
<1> SUFFICES ASSUME StoreRename
             PROVE  dir'[StoreFile(k)] \in {dir[StoreFile(k)], dir[TmpFile(k)]}
  BY RenameOnly
<1> DEFINE from == TmpFile(req.key)
           to   == StoreFile(req.key)
<1>1. pc = "rename" /\ dir' = [dir EXCEPT ![from] = NoFile, ![to] = dir[from]]
  BY DEF StoreRename, WorkFile
<1>2. /\ dir \in [Names -> Files \cup {NoFile}] /\ StoreFile(k) \in Names
      /\ StoreFile(k) # from
      /\ StoreFile(k) = to => from = TmpFile(k)
      /\ from \in Names /\ to \in Names
  BY <1>1, StoreFacts, NameFacts DEF SInv, TypeOK
<1> HIDE DEF from, to
<1> QED BY <1>1, <1>2

(* A file, once it has the name of its key, is not modified while it keeps *)
(* that name.                                                              *)
THEOREM PublishedImmutable == Spec => PublishedNeverRewritten
<1>1. SInv /\ [Next]_vars =>
        [\A k \in Keys : dir'[StoreFile(k)] \in
           {dir[StoreFile(k)], NoFile, dir[TmpFile(k)]}]_dir
  BY PublishedStep
<1> QED BY <1>1, Invariance, PTL DEF Spec, PublishedNeverRewritten

(* What a store publishes is what it has written, all of it and nothing    *)
(* else, whatever was left under the temporary name before.                *)
THEOREM PublishesItsOwn == Spec => PublishedAsWritten
<1>1. ASSUME SInv, [Next]_vars, NEW k \in Keys,
             dir'[StoreFile(k)] \notin {dir[StoreFile(k)], NoFile}
      PROVE  /\ req.kind = "store" /\ req.key = k
             /\ dir'[StoreFile(k)].value = req.value
             /\ dir'[StoreFile(k)].len = written
  <2> DEFINE from == TmpFile(req.key)
             to   == StoreFile(req.key)
  <2>1. /\ pc = "rename" /\ Exists(from)
        /\ dir' = [dir EXCEPT ![from] = NoFile, ![to] = dir[from]]
    BY <1>1, RenameOnly DEF StoreRename, WorkFile
  <2>2. req.kind = "store" /\ req.key \in Keys /\ from \in Names /\ to \in Names
    BY <1>1, <2>1, StoreFacts
  <2>3. StoreFile(k) \in Names /\ dir \in [Names -> Files \cup {NoFile}]
    BY <1>1, NameFacts DEF SInv, TypeOK
  <2>4. dir[from].value = req.value /\ dir[from].len = written
    BY <1>1, <2>1 DEF SInv, StoreInv
  <2> HIDE DEF from, to
  <2>5. StoreFile(k) = to /\ dir'[StoreFile(k)] = dir[from]
    BY <1>1, <2>1, <2>2, <2>3
  <2> QED BY <2>2, <2>4, <2>5, NameFacts DEF to
<1>2. SInv /\ [Next]_vars =>
        [\A k \in Keys :
           dir'[StoreFile(k)] \notin {dir[StoreFile(k)], NoFile} =>
             /\ req.kind = "store" /\ req.key = k
             /\ dir'[StoreFile(k)].value = req.value
             /\ dir'[StoreFile(k)].len = written]_vars
  BY <1>1
<1> QED BY <1>2, Invariance, PTL DEF Spec, PublishedAsWritten

-----------------------------------------------------------------------------
(* Storage implements EphemeralMap.  A store takes effect at its rename(), *)
(* a delete at its unlink(), a fetch at its open().                        *)

(* What the map holds follows the files that have the names of keys.       *)
LEMMA ContentsFacts ==
  /\ (\A k \in Keys : dir'[StoreFile(k)] = dir[StoreFile(k)])
       => contents' = contents
  /\ \A k \in Keys :
       /\ Exists(StoreFile(k)) => contents[k] = Data(dir[StoreFile(k)])
       /\ ~ Exists(StoreFile(k)) => contents[k] = Refused
       /\ contents[k] # Refused <=> Exists(StoreFile(k))
BY DEF contents, Exists, Data, Refused

(* One name of a key gets another file or none.                            *)
LEMMA ContentsChange ==
  ASSUME NEW k \in Keys,
         \A j \in Keys \ {k} : dir'[StoreFile(j)] = dir[StoreFile(j)]
  PROVE  /\ dir'[StoreFile(k)] # NoFile =>
              contents' = [contents EXCEPT ![k] = Data(dir'[StoreFile(k)])]
         /\ dir'[StoreFile(k)] = NoFile =>
              contents' = [contents EXCEPT ![k] = Refused]
BY DEF contents, Exists, Data

(* The steps of the server that leave the published files alone.           *)
LEMMA QuietRefines ==
  ASSUME SInv, Quiet \/ StoreCreate \/ StoreWrite \/ StoreDiscard \/ Crash
  PROVE  [Map!Next]_Map!vars
<1> USE DEF Handling
<1>0. dir \in [Names -> Files \cup {NoFile}] /\ HandlerInv /\ StoreInv
  BY DEF SInv, TypeOK
<1>1. contents' = contents
  <2> SUFFICES \A k \in Keys : dir'[StoreFile(k)] = dir[StoreFile(k)]
    BY ContentsFacts
  <2>1. CASE Quiet \/ Crash
    BY <2>1, QuietFacts DEF Crash
  <2>2. CASE StoreCreate \/ StoreWrite \/ StoreDiscard
    <3>1. pc \in {"create", "write", "discard"}
      BY <2>2 DEF StoreCreate, StoreWrite, StoreDiscard
    <3>2. req.key \in Keys /\ TmpFile(req.key) \in Names
      BY <3>1, StoreFacts
    <3>3. \A m \in Names : m # TmpFile(req.key) => dir'[m] = dir[m]
      BY <1>0, <2>2, <3>2 DEF StoreCreate, StoreWrite, StoreDiscard, WorkFile
    <3> QED BY <3>2, <3>3, NameFacts
  <2> QED BY <2>1, <2>2
<1>2. CASE Begin
  <2>1. /\ pc = "idle" /\ req' \in Requests /\ answer' = NoAnswer
        /\ pc' \in {"create", "open", "unlink"}
    BY <1>2, RequestFacts DEF Begin
  <2>2. /\ pending = NoRequest /\ pending' = req'
        /\ result = NoAnswer /\ result' = NoAnswer
    BY <2>1 DEF pending, result
  <2>3. Map!Begin
    BY <1>1, <2>1, <2>2 DEF Map!Begin, Map!Requests, Requests,
       Map!NoRequest, NoRequest, Map!NoAnswer, NoAnswer
  <2> QED BY <2>3 DEF Map!Next
<1>3. CASE RefuseRequest \/ StoreDiscard \/ StoreDiscardFails \/ FetchReply
           \/ Reply
  <2>1. /\ pc \in {"create", "open", "unlink", "discard", "map", "reply"}
        /\ pc' = "idle" /\ req \in Requests
        /\ \/ answer' = Refused
           \/ pc = "map" /\ opened.len > 0 /\ answer' = Data(opened)
           \/ pc = "reply" /\ answer' = Ok
    BY <1>0, <1>3 DEF RefuseRequest, StoreDiscard, StoreDiscardFails, FetchReply,
                      Reply, Finish, HandlerInv
  <2>2. /\ pending = req /\ pending # NoRequest /\ pending' = NoRequest
        /\ result' = NoAnswer
    BY <2>1, RequestFacts DEF pending, result
  <2>3. CASE answer' = Refused
    <3>1. Map!Refuse
      BY <1>1, <2>2, <2>3 DEF Map!Refuse, Map!Refused, Refused,
         Map!NoRequest, NoRequest, Map!NoAnswer, NoAnswer
    <3> QED BY <3>1 DEF Map!Next
  <2>4. CASE answer' # Refused
    <3>1. result = answer' /\ result # NoAnswer
      BY <2>1, <2>4 DEF result, Data, Ok, NoAnswer
    <3>2. Map!Return
      BY <1>1, <2>2, <3>1 DEF Map!Return,
         Map!NoRequest, NoRequest, Map!NoAnswer, NoAnswer
    <3> QED BY <3>2 DEF Map!Next
  <2> QED BY <2>3, <2>4
<1>4. CASE StoreCreate \/ StoreWrite \/ StoreWriteFails \/ StoreRenameFails
  <2>1. /\ pc \in {"create", "write", "rename"}
        /\ pc' \in {"write", "rename", "discard"}
        /\ UNCHANGED <<req, answer>>
    BY <1>4 DEF StoreCreate, StoreWrite, StoreWriteFails, StoreRenameFails, Goto
  <2>2. pending' = pending /\ result' = result
    BY <2>1 DEF pending, result
  <2> QED BY <1>1, <2>1, <2>2 DEF Map!vars
<1>5. CASE FetchOpen
  <2> DEFINE k == req.key
             n == StoreFile(k)
  <2>1. /\ pc = "open" /\ pc' = "map" /\ req' = req /\ answer' = answer
        /\ Exists(n) /\ opened' = dir[n]
    BY <1>5 DEF FetchOpen, FetchFile, Goto
  <2>2. req \in Requests /\ req.kind = "fetch" /\ k \in Keys
    BY <1>0, <2>1, RequestFacts DEF HandlerInv
  <2>3. contents[k] = Data(dir[n]) /\ contents[k] # Refused
    BY <2>1, <2>2, ContentsFacts
  <2>4. /\ pending = req /\ pending' = req
        /\ result = NoAnswer
        /\ result' = IF dir[n].len > 0 THEN Data(dir[n]) ELSE Refused
    BY <2>1 DEF pending, result
  <2>5. Data(dir[n]).len = dir[n].len
    BY DEF Data
  <2>6. Map!Fetch
    BY <1>1, <2>1, <2>2, <2>3, <2>4, <2>5 DEF Map!Fetch, Map!Present,
       Map!Refused, Refused, Map!NoAnswer, NoAnswer
  <2> QED BY <2>6 DEF Map!Next
<1>6. CASE Crash
  <2>1. /\ pc' = "down" /\ answer' = IF pc = "idle" THEN answer ELSE Refused
        /\ pc # "down"
    BY <1>6 DEF Crash
  <2>2. pending' = NoRequest /\ result' = NoAnswer
    BY <2>1 DEF pending, result
  <2>3. CASE pc = "idle"
    <3>1. pending = NoRequest /\ result = NoAnswer
      BY <2>3 DEF pending, result
    <3> QED BY <1>1, <2>1, <2>2, <2>3, <3>1 DEF Map!vars
  <2>4. CASE pc # "idle"
    <3>1. pc \in Handling /\ req \in Requests
      BY <1>0, <2>1, <2>4 DEF SInv, TypeOK, HandlerInv
    <3>2. pending = req /\ pending # NoRequest
      BY <3>1, RequestFacts DEF pending
    <3>3. Map!Refuse
      BY <1>1, <2>1, <2>2, <2>4, <3>2 DEF Map!Refuse, Map!Refused, Refused,
         Map!NoRequest, NoRequest, Map!NoAnswer, NoAnswer
    <3> QED BY <3>3 DEF Map!Next
  <2> QED BY <2>3, <2>4
<1> QED BY <1>2, <1>3, <1>4, <1>5, <1>6 DEF Quiet

(* The steps that publish, remove or purge a value.                        *)
LEMMA StoreRenameRefines ==
  ASSUME SInv, StoreRename
  PROVE  Map!Store
<1> USE DEF Handling
<1> DEFINE k == req.key
           from == TmpFile(k)
           to == StoreFile(k)
<1>1. /\ pc = "rename" /\ pc' = "reply" /\ req' = req /\ answer' = answer
      /\ Exists(from)
      /\ dir' = [dir EXCEPT ![from] = NoFile, ![to] = dir[from]]
  BY DEF StoreRename, WorkFile, Goto
<1>2. /\ req \in Requests /\ req.kind = "store" /\ k \in Keys
      /\ from \in Names /\ to \in Names /\ from # to
      /\ dir \in [Names -> Files \cup {NoFile}]
  BY <1>1, StoreFacts DEF SInv, TypeOK
<1>3. /\ dir[from].value = req.value /\ dir[from].len = written
      /\ written \in 0 .. Size[req.value]
      /\ req.value \notin TooLarge => written = Size[req.value]
  BY <1>1, StoreFacts DEF SInv, TypeOK, StoreInv
<1>4. /\ pending = req /\ pending' = req
      /\ result = NoAnswer /\ result' = Ok
  BY <1>1 DEF pending, result
<1>5. dir'[to] = dir[from] /\ dir'[to] # NoFile
  BY <1>1, <1>2 DEF Exists
<1>6. \A j \in Keys \ {k} : dir'[StoreFile(j)] = dir[StoreFile(j)]
  BY <1>1, <1>2, NameFacts
<1> HIDE DEF from, to
<1>7. Data(dir'[to]) \in Map!Stored(req.value)
  BY <1>3, <1>5 DEF Data, Map!Stored, Map!CutShort, Map!WholeValue
<1>8. contents' = [contents EXCEPT ![k] = Data(dir'[to])]
  BY <1>2, <1>5, <1>6, ContentsChange DEF to
<1> QED BY <1>1, <1>2, <1>4, <1>7, <1>8 DEF Map!Store, Map!NoAnswer, NoAnswer,
                                            Map!Ok, Ok

LEMMA DeleteRefines ==
  ASSUME SInv, DeleteUnlink
  PROVE  Map!Delete
<1> USE DEF Handling
<1> DEFINE k == req.key
           n == StoreFile(k)
<1>1. /\ pc = "unlink" /\ pc' = "reply" /\ req' = req /\ answer' = answer
      /\ Exists(n) /\ dir' = [dir EXCEPT ![n] = NoFile]
  BY DEF DeleteUnlink, Goto
<1>2. /\ req \in Requests /\ req.kind = "delete" /\ k \in Keys
      /\ n \in Names /\ dir \in [Names -> Files \cup {NoFile}]
  BY <1>1, RequestFacts, NameFacts DEF SInv, TypeOK, HandlerInv
<1>3. /\ pending = req /\ pending' = req
      /\ result = NoAnswer /\ result' = Ok
  BY <1>1 DEF pending, result
<1>4. /\ dir'[n] = NoFile
      /\ \A j \in Keys \ {k} : dir'[StoreFile(j)] = dir[StoreFile(j)]
  BY <1>1, <1>2, NameFacts DEF Exists
<1>5. contents' = [contents EXCEPT ![k] = Refused]
  BY <1>2, <1>4, ContentsChange
<1>6. contents[k] # Refused
  BY <1>1, <1>2, ContentsFacts
<1> QED BY <1>1, <1>2, <1>3, <1>5, <1>6 DEF Map!Delete, Map!Present,
        Map!Refused, Refused, Map!NoAnswer, NoAnswer, Map!Ok, Ok

LEMMA CleanerRefines ==
  ASSUME SInv, NEW c \in Cleaners, CleanerStep(c) \/ CleanerDies(c)
  PROVE  [Map!Next]_Map!vars
<1>1. /\ dir \in [Names -> Files \cup {NoFile}]
      /\ pending' = pending /\ result' = result /\ answer' = answer
  BY CleanerStepFacts DEF SInv, TypeOK, serverVars, pending, result
<1>2. CASE dir' = dir
  BY <1>1, <1>2, ContentsFacts DEF Map!vars
<1>3. CASE dir' # dir
  <2>1. PICK n \in Names : dir' = [dir EXCEPT ![n] = NoFile]
    BY <1>3, CleanerStepFacts
  <2>2. CASE \E k \in Keys : n = TmpFile(k)
    <3>1. \A k \in Keys : dir'[StoreFile(k)] = dir[StoreFile(k)]
      BY <1>1, <2>1, <2>2, NameFacts
    <3> QED BY <1>1, <3>1, ContentsFacts DEF Map!vars
  <2>3. CASE \E k \in Keys : n = StoreFile(k)
    <3>1. PICK k \in Keys : n = StoreFile(k)
      BY <2>3
    <3>2. /\ dir'[StoreFile(k)] = NoFile
          /\ \A j \in Keys \ {k} : dir'[StoreFile(j)] = dir[StoreFile(j)]
      BY <1>1, <2>1, <3>1, NameFacts DEF Exists
    <3>3. contents' = [contents EXCEPT ![k] = Refused]
      BY <3>2, ContentsChange
    <3>4. Map!Evict
      BY <1>1, <3>3 DEF Map!Evict, Map!Refused, Refused
    <3> QED BY <3>4 DEF Map!Next
  <2> QED BY <2>1, <2>2, <2>3, NameFacts
<1> QED BY <1>2, <1>3

(* Every request is atomic for the clients, whatever the cleanup processes *)
(* do meanwhile, whatever call fails and wherever the server dies: a fetch *)
(* returns the value that was stored last, cut short only if the disk may  *)
(* lack room for it, or nothing.                                           *)
THEOREM MapImplemented == Spec => ImplementsEphemeralMap
<1>1. Init => Map!Init
  <2> SUFFICES ASSUME Init PROVE Map!Init
    OBVIOUS
  <2>1. /\ dir = [n \in Names |-> NoFile] /\ pc = "idle" /\ answer = NoAnswer
    BY DEF Init
  <2>2. contents = [k \in Keys |-> Refused]
    BY <2>1, NameFacts DEF contents, Exists
  <2>3. pending = NoRequest /\ result = NoAnswer
    BY <2>1 DEF pending, result, Handling
  <2> QED BY <2>1, <2>2, <2>3 DEF Map!Init, Map!Refused, Refused,
          Map!NoRequest, NoRequest, Map!NoAnswer, NoAnswer
<1>2. SInv /\ [Next]_vars => [Map!Next]_Map!vars
  <2> SUFFICES ASSUME SInv, [Next]_vars PROVE [Map!Next]_Map!vars
    OBVIOUS
  <2>1. CASE Quiet \/ StoreCreate \/ StoreWrite \/ StoreDiscard \/ Crash
    BY <2>1, QuietRefines
  <2>2. CASE StoreRename
    BY <2>2, StoreRenameRefines DEF Map!Next
  <2>3. CASE DeleteUnlink
    BY <2>3, DeleteRefines DEF Map!Next
  <2>4. CASE \E c \in Cleaners : CleanerStep(c) \/ CleanerDies(c)
    BY <2>4, CleanerRefines
  <2>5. CASE Restart
    <3>1. /\ pc = "down" /\ pc' = "idle" /\ dir' = dir /\ answer' = answer
      BY <2>5 DEF Restart
    <3>2. /\ pending = NoRequest /\ pending' = NoRequest
          /\ result = NoAnswer /\ result' = NoAnswer
      BY <3>1 DEF pending, result, Handling
    <3> QED BY <3>1, <3>2, ContentsFacts DEF Map!vars
  <2>6. CASE Tick \/ UNCHANGED vars
    BY <2>6, ContentsFacts
       DEF Tick, vars, serverVars, pending, result, Map!vars
  <2> QED BY <2>1, <2>2, <2>3, <2>4, <2>5, <2>6 DEF Next, Handler, Quiet
<1> QED BY <1>1, <1>2, Invariance, PTL DEF Spec, ImplementsEphemeralMap, Map!Spec

(* The file of a key holds the whole of one value, even after the server   *)
(* has died in the middle of a store, unless the disk may lack room for    *)
(* that value.                                                             *)
WholeWhereRoom ==
  \A k \in Keys :
    LET f == dir[StoreFile(k)]
    IN  Exists(StoreFile(k)) /\ f.value \notin TooLarge => Whole(f)

THEOREM FilledWhenRoom == Spec => []WholeWhereRoom
<1>1. Init => WholeWhereRoom
  BY NameFacts DEF Init, WholeWhereRoom, Exists
<1>2. SInv /\ WholeWhereRoom /\ [Next]_vars => WholeWhereRoom'
  <2> SUFFICES ASSUME SInv, WholeWhereRoom, [Next]_vars,
                      NEW k \in Keys, Exists(StoreFile(k))',
                      dir'[StoreFile(k)].value \notin TooLarge
               PROVE  Whole(dir'[StoreFile(k)])
    BY DEF WholeWhereRoom, Whole
  <2> DEFINE n == StoreFile(k)
  <2>1. CASE dir'[n] = dir[n]
    BY <2>1 DEF WholeWhereRoom, Exists
  <2>2. CASE dir'[n] # dir[n]
    <3>1. StoreRename
      BY <2>2, RenameOnly DEF Exists
    <3>2. /\ pc = "rename" /\ Exists(TmpFile(req.key))
          /\ dir' = [dir EXCEPT ![TmpFile(req.key)] = NoFile,
                                ![StoreFile(req.key)] = dir[TmpFile(req.key)]]
      BY <3>1 DEF StoreRename, WorkFile
    <3>3. /\ dir[TmpFile(req.key)].value = req.value
          /\ dir[TmpFile(req.key)].len = written
          /\ req.value \notin TooLarge => written = Size[req.value]
      BY <3>2 DEF SInv, StoreInv
    <3>4. n = StoreFile(req.key) /\ n \in Names /\ TmpFile(req.key) \in Names
      BY <2>2, <3>2, StoreFacts, NameFacts DEF SInv, TypeOK
    <3>5. dir'[n] = dir[TmpFile(req.key)]
      BY <3>2, <3>4, NameFacts DEF SInv, TypeOK
    <3> QED BY <3>3, <3>5 DEF Whole
  <2> QED BY <2>1, <2>2
<1> QED BY <1>1, <1>2, Invariance, PTL DEF Spec

(* On a disk with room for every value this is what NEWS promises.         *)
COROLLARY FilledAtomicallyWithRoom ==
  ASSUME TooLarge = {}
  PROVE  Spec => []FilledAtomically
<1>1. WholeWhereRoom => FilledAtomically
  BY DEF WholeWhereRoom, FilledAtomically
<1> QED BY <1>1, FilledWhenRoom, PTL

-----------------------------------------------------------------------------
(* A pass of a cleanup process overlooks nothing.                          *)

(* A file that had expired when the pass began, and that the pass is not   *)
(* going to return any more.                                               *)
Overlooked(c, n) ==
  /\ Exists(n) /\ Expired(dir[n], cleaner[c].now)
  /\ n \notin cleaner[c].todo
  /\ ~ (cleaner[c].pc = "unlink" /\ cleaner[c].name = n)

Thorough(c) ==
  cleaner[c].pc \in {"scan", "unlink"} => \A n \in Names : ~ Overlooked(c, n)

NoneOverlooked == \A c \in Cleaners : Thorough(c)

(* A store whose temporary file has expired before it is renamed gives a   *)
(* key an expired file, in the middle of a pass perhaps.                   *)
PromptStores ==
  pc = "rename" /\ Exists(TmpFile(req.key)) =>
    clock - dir[TmpFile(req.key)].mtime <= Expiration

(* A step that leaves a cleanup process where it is in its pass, and that  *)
(* for each name removes the file, keeps it listed, or makes it young.     *)
LEMMA PassFrame ==
  ASSUME SInv, NEW c \in Cleaners, Thorough(c),
         cleaner'[c].pc = cleaner[c].pc, cleaner'[c].now = cleaner[c].now,
         cleaner'[c].name = cleaner[c].name,
         \A n \in Names :
           \/ dir'[n] = NoFile
           \/ dir'[n] = dir[n] /\ (n \in cleaner[c].todo => n \in cleaner'[c].todo)
           \/ dir'[n].mtime \in Nat /\ clock - dir'[n].mtime <= Expiration
  PROVE  Thorough(c)'
<1> SUFFICES ASSUME cleaner[c].pc \in {"scan", "unlink"}, NEW n \in Names
             PROVE  ~ Overlooked(c, n)'
  BY DEF Thorough
<1>1. cleaner[c].now \in Nat /\ cleaner[c].now <= clock /\ clock \in Nat
      /\ Expiration \in Nat
  BY StorageAssumption DEF SInv, TypeOK, CleanerInv
<1>2. ~ Overlooked(c, n)
  BY DEF Thorough
<1>3. CASE dir'[n] = NoFile
  BY <1>3 DEF Overlooked, Exists
<1>4. CASE dir'[n] = dir[n] /\ (n \in cleaner[c].todo => n \in cleaner'[c].todo)
  BY <1>2, <1>4 DEF Overlooked, Exists, Expired
<1>5. CASE dir'[n].mtime \in Nat /\ clock - dir'[n].mtime <= Expiration
  <2>1. ~ (cleaner[c].now - dir'[n].mtime > Expiration)
    BY <1>1, <1>5
  <2> QED BY <2>1 DEF Overlooked, Expired
<1> QED BY <1>3, <1>4, <1>5

(* The steps of the server, of the clock, and its deaths.                  *)
LEMMA ServerOverlooks ==
  ASSUME SInv, NoneOverlooked, PromptStores,
         Begin \/ Handler \/ Crash \/ Restart \/ Tick \/ UNCHANGED vars
  PROVE  NoneOverlooked'
<1> USE DEF Handling
<1>1. /\ cleaner \in [Cleaners -> CleanerRecord]
      /\ dir \in [Names -> Files \cup {NoFile}] /\ clock \in Nat
      /\ Expiration \in Nat
      /\ \A c \in Cleaners : Thorough(c)
  BY StorageAssumption DEF SInv, TypeOK, CleanerRecord, NoneOverlooked
<1>2. ASSUME NEW c \in Cleaners
      PROVE  Thorough(c)'
  <2>1. CASE Begin \/ Handler
    <3>1. CASE Quiet
      <4>1. UNCHANGED <<dir, cleaner>>
        BY <3>1, QuietFacts
      <4> QED BY <1>1, <4>1, PassFrame
    <3>2. CASE StoreCreate
      <4> DEFINE n == TmpFile(req.key)
      <4>1. /\ pc = "create" /\ cleaner' = Touch(n)
            /\ dir' = [dir EXCEPT ![n] = CreatedFile(req.value)]
        BY <3>2 DEF StoreCreate, WorkFile
      <4>2. /\ cleaner'[c].pc = cleaner[c].pc /\ cleaner'[c].now = cleaner[c].now
            /\ cleaner'[c].name = cleaner[c].name
            /\ cleaner'[c].todo = cleaner[c].todo
        BY <1>1, <4>1, TouchFacts
      <4>3. n \in Names /\ CreatedFile(req.value).mtime = clock
        BY <1>1, <4>1, StoreFacts, CreatedFileFacts
      <4> HIDE DEF n
      <4>4. \A m \in Names : \/ dir'[m] = dir[m]
                             \/ dir'[m].mtime \in Nat
                                /\ clock - dir'[m].mtime <= Expiration
        BY <1>1, <4>1, <4>3
      <4> QED BY <1>1, <4>2, <4>4, PassFrame
    <3>3. CASE StoreWrite
      <4> DEFINE n == TmpFile(req.key)
      <4>1. /\ pc = "write"
            /\ \/ /\ dir' = [dir EXCEPT ![n].len = written', ![n].mtime = clock]
                  /\ Exists(n) /\ cleaner' = Touch(n)
               \/ UNCHANGED <<dir, cleaner>>
        BY <3>3 DEF StoreWrite, WorkFile
      <4>2. CASE UNCHANGED <<dir, cleaner>>
        BY <1>1, <4>2, PassFrame
      <4>3. CASE /\ dir' = [dir EXCEPT ![n].len = written', ![n].mtime = clock]
                 /\ Exists(n) /\ cleaner' = Touch(n)
        <5>1. /\ cleaner'[c].pc = cleaner[c].pc /\ cleaner'[c].now = cleaner[c].now
              /\ cleaner'[c].name = cleaner[c].name
              /\ cleaner'[c].todo = cleaner[c].todo
          BY <1>1, <4>3, TouchFacts
        <5>2. n \in Names
          BY <4>1, StoreFacts
        <5> HIDE DEF n
        <5>3. dir[n] \in Files
          BY <1>1, <4>3, <5>2 DEF Exists
        <5>4. dir'[n].mtime = clock
          BY <1>1, <4>3, <5>2, <5>3 DEF Files
        <5>5. \A m \in Names : \/ dir'[m] = dir[m]
                               \/ dir'[m].mtime \in Nat
                                  /\ clock - dir'[m].mtime <= Expiration
          BY <1>1, <4>3, <5>2, <5>4
        <5> QED BY <1>1, <5>1, <5>5, PassFrame
      <4> QED BY <4>1, <4>2, <4>3
    <3>4. CASE StoreRename
      <4> DEFINE from == TmpFile(req.key)
                 to == StoreFile(req.key)
      <4>1. /\ pc = "rename" /\ Exists(from)
            /\ dir' = [dir EXCEPT ![from] = NoFile, ![to] = dir[from]]
            /\ cleaner' = [d \in Cleaners |->
                             [Touch(to)[d] EXCEPT !.todo = @ \ {from}]]
        BY <3>4 DEF StoreRename, WorkFile
      <4>2. from \in Names /\ to \in Names /\ from # to
        BY <4>1, StoreFacts
      <4>3. clock - dir[from].mtime <= Expiration
        BY <4>1 DEF PromptStores
      <4> HIDE DEF from, to
      <4>4. dir[from].mtime \in Nat
        BY <1>1, <4>1, <4>2, FileFacts DEF Exists
      <4>5. /\ cleaner'[c].pc = cleaner[c].pc /\ cleaner'[c].now = cleaner[c].now
            /\ cleaner'[c].name = cleaner[c].name
            /\ cleaner'[c].todo = cleaner[c].todo \ {from}
        <5>1. Touch(to)[c] \in CleanerRecord
          BY <1>1, TouchFacts
        <5>2. cleaner'[c] = [Touch(to)[c] EXCEPT !.todo = @ \ {from}]
          BY <4>1
        <5>3. /\ cleaner'[c].pc = Touch(to)[c].pc
              /\ cleaner'[c].now = Touch(to)[c].now
              /\ cleaner'[c].name = Touch(to)[c].name
              /\ cleaner'[c].todo = Touch(to)[c].todo \ {from}
          BY <5>1, <5>2 DEF CleanerRecord
        <5> QED BY <1>1, <5>3, TouchFacts
      <4>6. \A m \in Names :
              \/ dir'[m] = NoFile
              \/ dir'[m] = dir[m] /\ m # from
              \/ dir'[m].mtime \in Nat /\ clock - dir'[m].mtime <= Expiration
        BY <1>1, <4>1, <4>2, <4>3, <4>4
      <4> QED BY <1>1, <4>5, <4>6, PassFrame
    <3>5. CASE StoreDiscard \/ DeleteUnlink
      <4>1. PICK n \in Names :
              dir' = [dir EXCEPT ![n] = NoFile] /\ cleaner' = Unlisted(n)
        <5>1. CASE StoreDiscard
          BY <5>1, StoreFacts DEF StoreDiscard, WorkFile
        <5>2. CASE DeleteUnlink
          <6>1. StoreFile(req.key) \in Names
            BY <5>2, RequestFacts, NameFacts DEF DeleteUnlink, SInv, HandlerInv
          <6> QED BY <5>2, <6>1 DEF DeleteUnlink
        <5> QED BY <3>5, <5>1, <5>2
      <4>2. \A m \in Names : dir'[m] = NoFile \/ (dir'[m] = dir[m] /\ m # n)
        BY <1>1, <4>1
      <4> QED BY <1>1, <4>1, <4>2, UnlistedFacts, PassFrame
    <3> QED BY <2>1, <3>1, <3>2, <3>3, <3>4, <3>5 DEF Handler, Quiet
  <2>2. CASE Crash
    <3>1. /\ dir' = dir
          /\ cleaner' = [d \in Cleaners |->
                           [cleaner[d] EXCEPT !.orphan = cleaner[d].pc # "gone"]]
      BY <2>2 DEF Crash
    <3>2. /\ cleaner'[c].pc = cleaner[c].pc /\ cleaner'[c].now = cleaner[c].now
          /\ cleaner'[c].name = cleaner[c].name
          /\ cleaner'[c].todo = cleaner[c].todo
      BY <1>1, <3>1 DEF CleanerRecord
    <3> QED BY <1>1, <3>1, <3>2, PassFrame
  <2>3. CASE Restart
    <3>1. PICK d \in Cleaners : cleaner' = [cleaner EXCEPT ![d] = Forked]
      BY <2>3 DEF Restart
    <3>2. dir' = dir
      BY <2>3 DEF Restart
    <3>3. CASE c = d
      <4>1. cleaner'[c].pc = "asleep"
        BY <1>1, <3>1, <3>3 DEF Forked, NoCleaner
      <4> QED BY <4>1 DEF Thorough
    <3>4. CASE c # d
      <4>1. cleaner'[c] = cleaner[c]
        BY <1>1, <3>1, <3>4
      <4> QED BY <1>1, <3>2, <4>1, PassFrame
    <3> QED BY <3>3, <3>4
  <2>4. CASE Tick \/ UNCHANGED vars
    <3>1. UNCHANGED <<dir, cleaner>>
      BY <2>4 DEF Tick, vars
    <3> QED BY <1>1, <3>1, PassFrame
  <2> QED BY <2>1, <2>2, <2>3, <2>4
<1> QED BY <1>2 DEF NoneOverlooked

(* The steps of the cleanup processes that do not fail: opendir lists      *)
(* whatever is there, and what has been looked at and has expired is       *)
(* removed before the next name is read.                                   *)
LEMMA CleanerOverlooks ==
  ASSUME SInv, NoneOverlooked, NEW c \in Cleaners,
         (CleanerStep(c) /\ ~ CleanerFails(c)) \/ CleanerDies(c)
  PROVE  NoneOverlooked'
<1>1. /\ cleaner \in [Cleaners -> CleanerRecord] /\ cleaner[c] \in CleanerRecord
      /\ dir \in [Names -> Files \cup {NoFile}]
      /\ \A d \in Cleaners : Thorough(d)
  BY DEF SInv, TypeOK, CleanerRecord, NoneOverlooked
<1>2. ASSUME NEW r, Becomes(c, r), dir' = dir, Thorough(c)'
      PROVE  NoneOverlooked'
  <2>1. ASSUME NEW d \in Cleaners, d # c
        PROVE  Thorough(d)'
    <3>1. cleaner'[d] = cleaner[d]
      BY <1>1, <1>2, <2>1 DEF Becomes
    <3> QED BY <1>1, <1>2, <3>1, PassFrame
  <2> QED BY <1>2, <2>1 DEF NoneOverlooked
<1>3. CASE CheckParent(c) \/ CloseDir(c) \/ CleanerDies(c)
  <2> DEFINE awake == [cleaner[c] EXCEPT !.pc = "awake", !.now = clock]
             close == [cleaner[c] EXCEPT !.pc = "asleep", !.now = 0, !.todo = {}]
  <2>1. /\ dir' = dir
        /\ Becomes(c, NoCleaner) \/ Becomes(c, awake) \/ Becomes(c, close)
    BY <1>3 DEF CheckParent, CloseDir, Sleep, CleanerDies
  <2>2. NoCleaner.pc = "gone" /\ awake.pc = "awake" /\ close.pc = "asleep"
    BY <1>1 DEF NoCleaner, CleanerRecord
  <2> HIDE DEF awake, close
  <2>3. cleaner'[c].pc \in {"gone", "awake", "asleep"}
    BY <1>1, <2>1, <2>2 DEF Becomes
  <2>4. Thorough(c)'
    BY <2>3 DEF Thorough
  <2> QED BY <1>2, <2>1, <2>4
<1>4. CASE OpenDir(c)
  <2> DEFINE open == [cleaner[c] EXCEPT !.pc = "scan",
                                        !.todo = {n \in Names : Exists(n)}]
  <2>1. dir' = dir /\ Becomes(c, open)
    BY <1>4 DEF OpenDir
  <2>2. open.todo = {n \in Names : Exists(n)}
    BY <1>1 DEF CleanerRecord
  <2> HIDE DEF open
  <2>3. cleaner'[c].todo = {n \in Names : Exists(n)}
    BY <1>1, <2>1, <2>2 DEF Becomes
  <2>4. Thorough(c)'
    BY <2>1, <2>3 DEF Thorough, Overlooked, Exists
  <2> QED BY <1>2, <2>1, <2>4
<1>5. CASE Examine(c)
  <2>1. cleaner[c].pc = "scan" /\ dir' = dir
    BY <1>5 DEF Examine
  <2>2. PICK n \in Names :
          \/ Becomes(c, [Listed(c, n) EXCEPT !.pc = "unlink", !.name = n])
          \/ ~ Doomed(c, n) /\ Becomes(c, Listed(c, n))
    BY <1>5 DEF Examine
  <2> DEFINE listed == Listed(c, n)
             condemned == [listed EXCEPT !.pc = "unlink", !.name = n]
  <2>3. \/ Becomes(c, condemned)
        \/ ~ (Exists(n) /\ Expired(dir[n], cleaner[c].now)) /\ Becomes(c, listed)
    BY <2>2 DEF Doomed, Purgeable
  <2>4. /\ listed \in CleanerRecord /\ listed.pc = "scan"
        /\ listed.todo = cleaner[c].todo \ {n} /\ listed.now = cleaner[c].now
    BY <1>1, <2>1 DEF CleanerRecord, Listed
  <2> HIDE DEF listed
  <2>5. /\ condemned.pc = "unlink" /\ condemned.name = n
        /\ condemned.todo = cleaner[c].todo \ {n}
        /\ condemned.now = cleaner[c].now
    BY <2>4 DEF CleanerRecord
  <2> HIDE DEF condemned
  <2>6. \A m \in Names : ~ Overlooked(c, m)
    BY <1>1, <2>1 DEF Thorough
  <2>7. CASE Becomes(c, condemned)
    <3>1. cleaner'[c] = condemned
      BY <1>1, <2>7 DEF Becomes
    <3>2. Thorough(c)'
      BY <2>1, <2>5, <2>6, <3>1 DEF Thorough, Overlooked, Exists
    <3> QED BY <1>2, <2>1, <2>7, <3>2
  <2>8. CASE /\ ~ (Exists(n) /\ Expired(dir[n], cleaner[c].now))
             /\ Becomes(c, listed)
    <3>1. cleaner'[c] = listed
      BY <1>1, <2>8 DEF Becomes
    <3>2. Thorough(c)'
      BY <2>1, <2>4, <2>6, <2>8, <3>1 DEF Thorough, Overlooked, Exists
    <3> QED BY <1>2, <2>1, <2>8, <3>2
  <2> QED BY <2>3, <2>7, <2>8
<1>6. CASE UnlinkExpired(c)
  <2> DEFINE n == cleaner[c].name
             r == [cleaner[c] EXCEPT !.pc = "scan", !.name = <<>>,
                                     !.touched = FALSE]
  <2>1. /\ cleaner[c].pc = "unlink" /\ n \in Names
        /\ dir' = [dir EXCEPT ![n] = NoFile]
        /\ cleaner' = [Unlisted(n) EXCEPT ![c] = r]
    BY <1>6 DEF UnlinkExpired, PassedOver, SInv, CleanerInv
  <2>2. /\ r.pc = "scan" /\ r.todo = cleaner[c].todo /\ r.now = cleaner[c].now
    BY <1>1 DEF CleanerRecord
  <2>3. Unlisted(n) \in [Cleaners -> CleanerRecord]
    BY <1>1, UnlistedFacts
  <2> HIDE DEF r
  <2>4. /\ cleaner'[c] = r
        /\ \A d \in Cleaners : d # c => cleaner'[d] = Unlisted(n)[d]
    BY <2>1, <2>3
  <2>5. dir'[n] = NoFile /\ \A m \in Names : m # n => dir'[m] = dir[m]
    BY <1>1, <2>1
  <2>6. Thorough(c)'
    <3>1. \A m \in Names : ~ Overlooked(c, m)
      BY <1>1, <2>1 DEF Thorough
    <3> QED BY <2>1, <2>2, <2>4, <2>5, <3>1 DEF Thorough, Overlooked, Exists
  <2>7. ASSUME NEW d \in Cleaners, d # c
        PROVE  Thorough(d)'
    <3>1. /\ cleaner'[d].pc = cleaner[d].pc /\ cleaner'[d].now = cleaner[d].now
          /\ cleaner'[d].name = cleaner[d].name
          /\ cleaner'[d].todo = cleaner[d].todo \ {n}
      BY <1>1, <2>4, <2>7, UnlistedFacts
    <3> QED BY <1>1, <2>5, <3>1, PassFrame
  <2> QED BY <2>6, <2>7 DEF NoneOverlooked
<1> QED BY <1>3, <1>4, <1>5, <1>6 DEF CleanerStep

(* When readdir has nothing left to return, the directory holds no file    *)
(* that had expired when the pass began.                                   *)
PassesThorough ==
  [][\A c \in Cleaners : \A n \in Names :
       CloseDir(c) /\ Exists(n) => ~ Expired(dir[n], cleaner[c].now)]_vars

(* As long as no call of a cleanup process fails, and no store lets its    *)
(* temporary file expire before it renames it, a pass of cleanup_dir       *)
(* overlooks no file, whatever the server creates, renames and removes     *)
(* during the pass.                                                        *)
THEOREM PassesOverlookNothing ==
  Spec /\ [][NoCallFails]_vars /\ []PromptStores => []NoneOverlooked
<1>1. Init => NoneOverlooked
  <2> SUFFICES ASSUME Init, NEW c \in Cleaners
               PROVE  Thorough(c)
    BY DEF NoneOverlooked
  <2>1. dir = [n \in Names |-> NoFile]
    BY DEF Init
  <2> QED BY <2>1 DEF Thorough, Overlooked, Exists
<1>2. SInv /\ NoneOverlooked /\ PromptStores /\ [Next]_vars /\ [NoCallFails]_vars
        => NoneOverlooked'
  <2> SUFFICES ASSUME SInv, NoneOverlooked, PromptStores,
                      [Next]_vars, [NoCallFails]_vars
               PROVE  NoneOverlooked'
    OBVIOUS
  <2>1. CASE Begin \/ Handler \/ Crash \/ Restart \/ Tick \/ UNCHANGED vars
    BY <2>1, ServerOverlooks
  <2>2. CASE /\ \E c \in Cleaners : CleanerStep(c) \/ CleanerDies(c)
             /\ NoCallFails
    BY <2>2, CleanerOverlooks DEF NoCallFails
  <2> QED BY <2>1, <2>2 DEF Next
<1> QED BY <1>1, <1>2, Invariance, PTL DEF Spec

(* And so a pass that ends with the last entry leaves nothing to purge:    *)
(* nothing that had expired when it began.                                 *)
THEOREM NothingExpiredLeft ==
  Spec /\ [][NoCallFails]_vars /\ []PromptStores => PassesThorough
<1>1. NoneOverlooked =>
        [\A c \in Cleaners : \A n \in Names :
           CloseDir(c) /\ Exists(n) => ~ Expired(dir[n], cleaner[c].now)]_vars
  BY DEF CloseDir, NoneOverlooked, Thorough, Overlooked
<1> QED BY <1>1, PassesOverlookNothing, PTL DEF PassesThorough


-----------------------------------------------------------------------------
(* What follows from the map for an answer.                                *)

Shown == UNION {Map!Stored(v) : v \in Values}

Answers == {NoAnswer, Ok, Refused} \cup Shown

(* The map, the result and the answer are made of what stores may leave.   *)
MapWhole ==
  /\ contents \in [Keys -> {Refused} \cup Shown]
  /\ result \in Answers /\ answer \in Answers
  /\ pending \in Requests \cup {NoRequest}

(* Nothing that a client is answered is a part of a value, unless the disk *)
(* may lack room for that value.                                           *)
AnsweredWhole ==
  answer \notin {NoAnswer, Ok, Refused} =>
    /\ answer.value \in Values
    /\ answer.value \notin TooLarge => answer = Map!WholeValue(answer.value)

(* This holds of every answer, whatever the stores, deaths of the server   *)
(* and purges in between: it follows from the map alone.                   *)
THEOREM AnswersAreWhole == Spec => []AnsweredWhole
<1> USE DEF NoAnswer, Ok, Refused, NoRequest, Map!NoAnswer, Map!Ok, Map!Refused,
            Map!NoRequest
<1>1. Map!Init => MapWhole
  BY DEF Map!Init, MapWhole, Answers
<1>2. MapWhole /\ [Map!Next]_(Map!vars) => MapWhole'
  <2> SUFFICES ASSUME MapWhole, [Map!Next]_(Map!vars)
               PROVE  MapWhole'
    OBVIOUS
  <2>1. Map!Requests = Requests
    BY DEF Map!Requests, Requests
  <2>2. CASE UNCHANGED Map!vars
    BY <2>2 DEF Map!vars, MapWhole
  <2>3. CASE Map!Begin
    BY <2>1, <2>3 DEF Map!Begin, MapWhole, Answers
  <2>4. CASE Map!Store
    <3>1. pending.key \in Keys /\ pending.value \in Values
      <4>1. pending # NoRequest
        BY <2>4 DEF Map!Store
      <4> QED BY <2>4, <4>1, RequestFacts DEF Map!Store, MapWhole
    <3> QED BY <2>4, <3>1 DEF Map!Store, MapWhole, Answers, Shown
  <2>5. CASE Map!Delete
    BY <2>5 DEF Map!Delete, MapWhole, Answers
  <2>6. CASE Map!Fetch
    <3>1. pending.key \in Keys
      <4>1. pending # NoRequest
        BY <2>6 DEF Map!Fetch
      <4> QED BY <4>1, RequestFacts DEF MapWhole
    <3>2. contents[pending.key] \in Answers
      BY <3>1 DEF MapWhole, Answers
    <3> QED BY <2>6, <3>2 DEF Map!Fetch, MapWhole, Answers
  <2>7. CASE Map!Return \/ Map!Refuse
    BY <2>7 DEF Map!Return, Map!Refuse, MapWhole, Answers
  <2>8. CASE Map!Evict
    BY <2>8 DEF Map!Evict, MapWhole, Answers
  <2> QED BY <2>2, <2>3, <2>4, <2>5, <2>6, <2>7, <2>8 DEF Map!Next
<1>3. Map!Spec => []MapWhole
  BY <1>1, <1>2, PTL DEF Map!Spec
<1>4. MapWhole => AnsweredWhole
  BY DEF MapWhole, AnsweredWhole, Answers, Shown, Map!Stored, Map!CutShort,
         Map!WholeValue
<1> QED BY <1>3, <1>4, MapImplemented, PTL DEF ImplementsEphemeralMap
===============================================================================
