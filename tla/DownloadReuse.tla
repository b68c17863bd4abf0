--------------------------- MODULE DownloadReuse ----------------------------
(***************************************************************************)
(* Archive downloads of one Client that reuse each other's files           *)
(* (reuseOrDownload and lockDownload of download_existing.go, and the      *)
(* downloadArticle, downloadPaper and downloadPaperFromArchive that nest   *)
(* them).  A download of a known hash holds that hash's lock from the scan *)
(* of the folder to the end of the transfer.  A DOI whose fast download    *)
(* failed goes on to SciDB, which takes the same lock again, and a DOI     *)
(* without a hash (which downloadPaper allows, though every lookup finds   *)
(* one) learns it, and locks it, only on the SciDB page.                   *)
(***************************************************************************)
EXTENDS FiniteSets

CONSTANTS
  Calls,   \* the downloads, each made once
  NoCall,  \* a hash that no call has locked
  Hashes,  \* MD5 hashes of archive files
  NoHash,  \* no hash is known
  Tasks    \* what the calls may ask for

(* A hash; or a DOI, whose lookup finds a hash, and a link on SciDB. *)
SomeTask == {t \in [doi : BOOLEAN, link : BOOLEAN, hash : Hashes \cup {NoHash}] :
               (t.hash = NoHash => t.doi) /\ (t.link => t.doi /\ t.hash # NoHash)}

ASSUME NullAssumption == NoCall \notin Calls /\ NoHash \notin Hashes
ASSUME TaskAssumption == Tasks \subseteq SomeTask

VARIABLES
  task,    \* what each call asks for: a hash, or a DOI with its record's hash
           \* and whether the lookup found the link of the SciDB file
  phase,   \* "fast": fast download; "scidb": SciDB
  want,    \* the hash that the call's reuseOrDownload is about
  holder,  \* Client.downloads: which call has locked each hash
  have,    \* the hashes of the files in the download folder
  gone,    \* whether the call's context has ended
  pc,      \* where each call is
  served   \* whether the call's reuseOrDownload got a file

vars == <<task, phase, want, holder, have, gone, pc, served>>

Goto(c, place) == pc' = [pc EXCEPT ![c] = place]

ByDOI(c) == task[c].doi

(* A download by hash, or by a DOI whose record has a hash, starts with    *)
(* the fast servers; a DOI without a hash goes to SciDB at once.           *)
Start(c) ==
  /\ pc[c] = "start"
  /\ want' = [want EXCEPT ![c] = task[c].hash]
  /\ IF task[c].hash = NoHash
     THEN phase' = [phase EXCEPT ![c] = "scidb"] /\ Goto(c, "resolve")
     ELSE phase' = [phase EXCEPT ![c] = "fast"] /\ Goto(c, "lock")
  /\ UNCHANGED <<task, holder, have, gone, served>>

(* Mutant of Lock: the hash is taken from whoever has it. *)
LockAnyway(c) ==
  /\ pc[c] = "lock" /\ ~gone[c]
  /\ holder' = [holder EXCEPT ![want[c]] = c]
  /\ Goto(c, "find")
  /\ UNCHANGED <<task, phase, want, have, gone, served>>

(* lockDownload takes the hash when nobody has it. *)
Lock(c) ==
  /\ pc[c] = "lock" /\ ~gone[c]
  /\ holder[want[c]] = NoCall
  /\ holder' = [holder EXCEPT ![want[c]] = c]
  /\ Goto(c, "find")
  /\ UNCHANGED <<task, phase, want, have, gone, served>>

AwaitHolder(c) ==
  /\ pc[c] = "lock" /\ ~gone[c]
  /\ holder[want[c]] # NoCall
  /\ Goto(c, "waiting")
  /\ UNCHANGED <<task, phase, want, holder, have, gone, served>>

(* The context ends before the lock is taken. *)
StopLocking(c) ==
  /\ pc[c] \in {"lock", "waiting"} /\ gone[c]
  /\ Goto(c, "leave")
  /\ UNCHANGED <<task, phase, want, holder, have, gone, served>>

(* findExistingDownload: a file with this hash ends the download. *)
FindFile(c) ==
  /\ pc[c] = "find" /\ ~gone[c]
  /\ want[c] \in have
  /\ served' = [served EXCEPT ![c] = TRUE]
  /\ Goto(c, "leave")
  /\ UNCHANGED <<task, phase, want, holder, have, gone>>

(* The SciDB page is still to be read after the hash was locked. *)
NeedsPage(c) == phase[c] = "scidb" /\ task[c].hash # NoHash /\ ~task[c].link

(* No such file: fetch it, from SciDB after reading its page. *)
FindNothing(c) ==
  /\ pc[c] = "find" /\ ~gone[c]
  /\ want[c] \notin have
  /\ Goto(c, IF NeedsPage(c) THEN "resolve" ELSE "transfer")
  /\ UNCHANGED <<task, phase, want, holder, have, gone, served>>

(* Mutant of Resolve: a hash is locked whether or not it is locked already. *)
ResolveLocks(c) ==
  /\ pc[c] = "resolve" /\ ~gone[c]
  /\ \E h \in Hashes : want' = [want EXCEPT ![c] = h]
  /\ Goto(c, "lock")
  /\ UNCHANGED <<task, phase, holder, have, gone, served>>

(* The SciDB page names the file and its hash; one that does not fails.  A *)
(* record's own hash is locked already and must be the page's; one learnt  *)
(* here is locked now.                                                     *)
Resolve(c) ==
  /\ pc[c] = "resolve" /\ ~gone[c]
  /\ \E h \in Hashes :
       IF task[c].hash # NoHash
       THEN /\ Goto(c, IF h = task[c].hash THEN "transfer" ELSE "leave")
            /\ UNCHANGED want
       ELSE /\ Goto(c, "lock")
            /\ want' = [want EXCEPT ![c] = h]
  /\ UNCHANGED <<task, phase, holder, have, gone, served>>

(* The file arrives and has the hash that was asked for. *)
Transfer(c) ==
  /\ pc[c] = "transfer" /\ ~gone[c]
  /\ have' = have \cup {want[c]}
  /\ served' = [served EXCEPT ![c] = TRUE]
  /\ Goto(c, "leave")
  /\ UNCHANGED <<task, phase, want, holder, gone>>

(* The scan, the page or the transfer fails, or the context ends. *)
Fail(c) ==
  /\ pc[c] \in {"find", "resolve", "transfer"}
  /\ Goto(c, "leave")
  /\ UNCHANGED <<task, phase, want, holder, have, gone, served>>

(* What follows when reuseOrDownload returns. *)
AfterReuse(c) ==
  IF served[c] THEN "done"
  ELSE IF ByDOI(c) /\ phase[c] = "fast" /\ ~gone[c] THEN "lock"
  ELSE "failed"

(* Mutant of Released: the waiting calls are not told. *)
ReleasedAlone(c, next) == [pc EXCEPT ![c] = next]

(* The calls that wait for what c has locked look again. *)
Released(c, next) ==
  [d \in Calls |-> IF d = c THEN next
                   ELSE IF pc[d] = "waiting" /\ holder[want[d]] = c THEN "lock"
                   ELSE pc[d]]

(* The deferred release unlocks the hash and wakes every call that waits   *)
(* for it.  A DOI whose fast download failed goes on to SciDB.             *)
Leave(c) ==
  /\ pc[c] = "leave"
  /\ holder' = [h \in Hashes |-> IF holder[h] = c THEN NoCall ELSE holder[h]]
  /\ pc' = Released(c, AfterReuse(c))
  /\ phase' = [phase EXCEPT ![c] = IF AfterReuse(c) = "lock" THEN "scidb" ELSE @]
  /\ UNCHANGED <<task, want, have, gone, served>>

GiveUp(c) ==
  /\ pc[c] \notin {"start", "done", "failed"} /\ ~gone[c]
  /\ gone' = [gone EXCEPT ![c] = TRUE]
  /\ UNCHANGED <<task, phase, want, holder, have, pc, served>>

(* The user deletes a downloaded file. *)
Delete ==
  /\ \E h \in have : have' = have \ {h}
  /\ UNCHANGED <<task, phase, want, holder, gone, pc, served>>

Init ==
  /\ task \in [Calls -> Tasks]
  /\ phase = [c \in Calls |-> "fast"]
  /\ want = [c \in Calls |-> NoHash]
  /\ holder = [h \in Hashes |-> NoCall]
  /\ have \in SUBSET Hashes
  /\ gone = [c \in Calls |-> FALSE]
  /\ pc = [c \in Calls |-> "start"]
  /\ served = [c \in Calls |-> FALSE]

Proceed(c) ==
  \/ Lock(c) \/ AwaitHolder(c) \/ StopLocking(c) \/ FindFile(c) \/ FindNothing(c)
  \/ Resolve(c) \/ Transfer(c) \/ Fail(c) \/ Leave(c)

Next ==
  \/ Delete
  \/ \E c \in Calls : Start(c) \/ GiveUp(c) \/ Proceed(c)

(* Transfers and scans end: they stall out or fail if nothing else. *)
Spec == Init /\ [][Next]_vars /\ \A c \in Calls : WF_vars(Proceed(c))

(***************************************************************************)
(* Properties                                                              *)
(***************************************************************************)

Places == {"start", "lock", "waiting", "find", "resolve", "transfer", "leave", "done", "failed"}

(* Every variable holds a value of its type, and a call has locked at most *)
(* the hash that its reuseOrDownload is about.                             *)
TypeOK ==
  /\ task \in [Calls -> Tasks]
  /\ phase \in [Calls -> {"fast", "scidb"}]
  /\ want \in [Calls -> Hashes \cup {NoHash}]
  /\ holder \in [Hashes -> Calls \cup {NoCall}]
  /\ have \subseteq Hashes
  /\ gone \in [Calls -> BOOLEAN]
  /\ pc \in [Calls -> Places]
  /\ served \in [Calls -> BOOLEAN]
  /\ \A h \in Hashes : holder[h] # NoCall => want[holder[h]] = h

Locked(c) == \E h \in Hashes : holder[h] = c

(* anna/README.md: same-hash downloads on one client wait for each other   *)
(* and reuse the result: no two transfers of one hash run at once, and     *)
(* none runs while the folder has the file, by whatever way the calls came *)
(* to the hash.                                                            *)
NoNeedlessTransfer ==
  \A c \in Calls : pc[c] = "transfer" =>
    /\ want[c] \notin have
    /\ \A d \in Calls : pc[d] = "transfer" /\ want[d] = want[c] => c = d

(* download_existing.go: a call that has locked a hash never waits for one, *)
(* its own least of all, so calls cannot wait for each other in a circle.   *)
NobodyHoldsAndWaits == \A c \in Calls : pc[c] \in {"lock", "waiting"} => ~Locked(c)

(* Hashes are interchangeable: one of them stands for each. *)
SomeHash == CHOOSE h \in Hashes : TRUE

Flight == INSTANCE SingleFlight
            WITH Callers <- Calls, NoCaller <- NoCall, leader <- holder[SomeHash],
                 waiting <- {c \in Calls : pc[c] = "waiting" /\ want[c] = SomeHash}

(* download_existing.go, lockDownload: the downloads of one hash share one *)
(* flight, whose end releases every call that waits for it.                *)
HashIsShared == Flight!Spec

(* Every download ends, with a file or an error. *)
DownloadsEnd == \A c \in Calls : pc[c] = "lock" ~> pc[c] \in {"done", "failed"}
=============================================================================
