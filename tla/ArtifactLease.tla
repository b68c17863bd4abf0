---------------------------- MODULE ArtifactLease ---------------------------
(***************************************************************************)
(* The lease that serializes downloads of one artifact across processes    *)
(* (Client.lock, maintainLease and expireLease of internal/filetransfer).  *)
(* The lease is a directory that holds one marker file named for its       *)
(* owner.  A call prepares a directory with its marker and renames it into *)
(* place, the owner touches its marker on every heartbeat, and a call that *)
(* finds the directory in its way removes it once the marker is stale.     *)
(*                                                                         *)
(* A call is one invocation of lock with the work done under it, so its    *)
(* marker is never used again.  Each action is one file system operation:  *)
(* calls of different processes interleave between any two of them.  Time  *)
(* is kept as ages in ticks, up to the first age that is stale.            *)
(***************************************************************************)
EXTENDS Integers, FiniteSets

CONSTANTS
  Calls,               \* the invocations of lock for one artifact
  NoCall,              \* no marker
  Beat,                \* the heartbeat interval, in ticks
  TTL,                 \* the age beyond which a marker is stale, in ticks
  MaxWait,             \* the longest a call waits; no limit when above TTL
  RenameReplacesEmpty  \* rename(2) replaces an empty directory (not so on Windows)

ASSUME NoCallAssumption == NoCall \notin Calls
ASSUME TimeAssumption == Beat \in Nat \ {0} /\ TTL \in Nat /\ MaxWait \in Nat
ASSUME PlatformAssumption == RenameReplacesEmpty \in BOOLEAN

VARIABLES
  present,  \* whether the lease directory exists
  marker,   \* the call whose marker is in it, or NoCall
  dirAge,   \* time since the lease directory was last modified
  age,      \* time since each call's marker was last touched
  beat,     \* time since the owner's last heartbeat, or Stopped
  pc,       \* where each call is
  seen      \* the marker that a call found in its way

leaseVars == <<present, marker, dirAge, age, beat, pc, seen>>

Stopped == -1
Stale == TTL + 1

(* Trying to acquire the lease, from MkdirTemp to the successful rename. *)
Trying == {"try", "rename", "read", "stat", "statdir", "remove", "rmdir"}

Waiting(c) == pc[c] \in Trying
Holding(c) == pc[c] = "holding"

Goto(c, place) == pc' = [pc EXCEPT ![c] = place]

(* Prepare the directory and the marker that will be renamed into place. *)
Begin(c) ==
  /\ pc[c] = "idle"
  /\ Goto(c, "try")
  /\ age' = [age EXCEPT ![c] = 0]
  /\ UNCHANGED <<present, marker, dirAge, beat, seen>>

(* os.Rename looks at the target first and refuses an existing directory. *)
TryRename(c) ==
  /\ pc[c] = "try"
  /\ Goto(c, IF present THEN "read" ELSE "rename")
  /\ UNCHANGED <<present, marker, dirAge, age, beat, seen>>

(* The rename itself succeeds when nothing is in the way.  The directory   *)
(* and the marker keep the times they were prepared at.                    *)
Acquire(c) ==
  /\ pc[c] = "rename"
  /\ ~present \/ (marker = NoCall /\ RenameReplacesEmpty)
  /\ present' = TRUE
  /\ marker' = c
  /\ dirAge' = age[c]
  /\ beat' = [beat EXCEPT ![c] = 0]
  /\ Goto(c, "holding")
  /\ UNCHANGED <<age, seen>>

LoseRace(c) ==
  /\ pc[c] = "rename"
  /\ present /\ (marker # NoCall \/ ~RenameReplacesEmpty)
  /\ Goto(c, "read")
  /\ UNCHANGED <<present, marker, dirAge, age, beat, seen>>

(* Mutant of ReadDir: an empty directory is somebody's, for ever. *)
ReadDirSkipsEmpty(c) ==
  /\ pc[c] = "read"
  /\ Goto(c, IF ~present \/ marker = NoCall THEN "try" ELSE "stat")
  /\ seen' = [seen EXCEPT ![c] = marker]
  /\ UNCHANGED <<present, marker, dirAge, age, beat>>

(* expireLease: list the directory. *)
ReadDir(c) ==
  /\ pc[c] = "read"
  /\ Goto(c, IF ~present THEN "try" ELSE IF marker = NoCall THEN "statdir" ELSE "stat")
  /\ seen' = [seen EXCEPT ![c] = marker]
  /\ UNCHANGED <<present, marker, dirAge, age, beat>>

(* expireLease: the marker must still be there, and stale. *)
StatMarker(c) ==
  /\ pc[c] = "stat"
  /\ Goto(c, IF marker = seen[c] /\ age[seen[c]] > TTL THEN "remove" ELSE "try")
  /\ UNCHANGED <<present, marker, dirAge, age, beat, seen>>

(* expireLease: an empty directory is removed only when it is stale too,   *)
(* because its owner may be about to remove it.                            *)
StatDir(c) ==
  /\ pc[c] = "statdir"
  /\ Goto(c, IF present /\ dirAge > TTL THEN "rmdir" ELSE "try")
  /\ UNCHANGED <<present, marker, dirAge, age, beat, seen>>

(* Removing the marker of a call fails when it is no longer there. *)
RemoveMarker(c, owner, removed, missing) ==
  IF marker = owner
  THEN marker' = NoCall /\ dirAge' = 0 /\ Goto(c, removed)
  ELSE UNCHANGED <<marker, dirAge>> /\ Goto(c, missing)

(* os.Remove removes only an empty directory, and its failure is ignored. *)
RemoveDir(c, next) ==
  /\ present' = (present /\ marker # NoCall)
  /\ Goto(c, next)

(* expireLease: remove the stale marker by name, then the directory. *)
RemoveStale(c) ==
  /\ pc[c] = "remove"
  /\ RemoveMarker(c, seen[c], "rmdir", "try")
  /\ UNCHANGED <<present, age, beat, seen>>

RemoveStaleDir(c) ==
  /\ pc[c] = "rmdir"
  /\ RemoveDir(c, "try")
  /\ UNCHANGED <<marker, dirAge, age, beat, seen>>

(* Mutant of Heartbeat: the marker is looked at but not touched. *)
HeartbeatLooks(c) ==
  /\ Holding(c) /\ beat[c] # Stopped
  /\ beat' = [beat EXCEPT ![c] = IF marker = c THEN 0 ELSE Stopped]
  /\ UNCHANGED <<present, marker, dirAge, age, pc, seen>>

(* maintainLease: touch the marker; a marker that is gone ends the beats. *)
Heartbeat(c) ==
  /\ Holding(c) /\ beat[c] # Stopped
  /\ IF marker = c
     THEN /\ age' = [age EXCEPT ![c] = 0]
          /\ beat' = [beat EXCEPT ![c] = 0]
     ELSE /\ beat' = [beat EXCEPT ![c] = Stopped]
          /\ UNCHANGED age
  /\ UNCHANGED <<present, marker, dirAge, pc, seen>>

(* maintainLease's owned: the marker is still there. *)
Owned(c) == marker = c

(* unlock: end the heartbeat, remove the marker, then the directory. *)
Unlock(c) ==
  /\ Holding(c)
  /\ Goto(c, "unlock")
  /\ beat' = [beat EXCEPT ![c] = Stopped]
  /\ UNCHANGED <<present, marker, dirAge, age, seen>>

(* Mutant of UnlockMarker: whatever marker is in the directory is removed. *)
UnlockAnyMarker(c) ==
  /\ pc[c] = "unlock"
  /\ RemoveMarker(c, marker, "unlockdir", "done")
  /\ UNCHANGED <<present, age, beat, seen>>

UnlockMarker(c) ==
  /\ pc[c] = "unlock"
  /\ RemoveMarker(c, c, "unlockdir", "done")
  /\ UNCHANGED <<present, age, beat, seen>>

UnlockDir(c) ==
  /\ pc[c] = "unlockdir"
  /\ RemoveDir(c, "done")
  /\ UNCHANGED <<marker, dirAge, age, beat, seen>>

(* The context ends: noticed between attempts. *)
Cancel(c) ==
  /\ pc[c] = "try"
  /\ Goto(c, "cancelled")
  /\ UNCHANGED <<present, marker, dirAge, age, beat, seen>>

(* The process dies.  What it left on disk stays. *)
Crash(c) ==
  /\ pc[c] \notin {"idle", "done", "cancelled", "crashed"}
  /\ Goto(c, "crashed")
  /\ beat' = [beat EXCEPT ![c] = Stopped]
  /\ UNCHANGED <<present, marker, dirAge, age, seen>>

Older(n) == IF n < Stale THEN n + 1 ELSE Stale

(* Time passes, but not past a heartbeat that is due nor past the longest  *)
(* wait: the runtime fires timers on time and contexts end when they say.  *)
Tick ==
  /\ \A c \in Calls : Holding(c) => beat[c] < Beat
  /\ \A c \in Calls : Waiting(c) => age[c] < MaxWait \/ MaxWait > TTL
  /\ dirAge' = Older(dirAge)
  /\ age' = [c \in Calls |-> Older(age[c])]
  /\ beat' = [c \in Calls |-> IF beat[c] = Stopped THEN Stopped ELSE beat[c] + 1]
  /\ UNCHANGED <<present, marker, pc, seen>>

LeaseInit ==
  /\ present = FALSE
  /\ marker = NoCall
  /\ dirAge = 0
  /\ age = [c \in Calls |-> 0]
  /\ beat = [c \in Calls |-> Stopped]
  /\ pc = [c \in Calls |-> "idle"]
  /\ seen = [c \in Calls |-> NoCall]

(* What a call that waits for the lease does by itself. *)
Strive(c) ==
  \/ TryRename(c) \/ Acquire(c) \/ LoseRace(c)
  \/ ReadDir(c) \/ StatMarker(c) \/ StatDir(c) \/ RemoveStale(c) \/ RemoveStaleDir(c)

(* What the owner's unlock does once it has begun. *)
FinishUnlock(c) == UnlockMarker(c) \/ UnlockDir(c)

LeaseNext ==
  \/ Tick
  \/ \E c \in Calls : \/ Begin(c) \/ Strive(c) \/ Cancel(c) \/ Crash(c)
                      \/ Heartbeat(c) \/ Unlock(c) \/ FinishUnlock(c)

(* Polling, heartbeats and work under the lease go on and time passes.     *)
(* Nobody has to start, to give up or to crash.                            *)
Fairness ==
  /\ WF_leaseVars(Tick)
  /\ \A c \in Calls : /\ WF_leaseVars(Strive(c))
                      /\ WF_leaseVars(Heartbeat(c))
                      /\ WF_leaseVars(Unlock(c))
                      /\ WF_leaseVars(FinishUnlock(c))

LeaseSpec == LeaseInit /\ [][LeaseNext]_leaseVars /\ Fairness

(***************************************************************************)
(* Properties                                                              *)
(***************************************************************************)

Places == Trying \cup {"idle", "holding", "unlock", "unlockdir", "done", "cancelled", "crashed"}

(* Every variable holds a value of its type, and a marker lies in a        *)
(* directory.                                                              *)
LeaseTypeOK ==
  /\ present \in BOOLEAN
  /\ marker \in Calls \cup {NoCall}
  /\ dirAge \in 0..Stale
  /\ age \in [Calls -> 0..Stale]
  /\ beat \in [Calls -> {Stopped} \cup 0..Beat]
  /\ pc \in [Calls -> Places]
  /\ seen \in [Calls -> Calls \cup {NoCall}]
  /\ marker # NoCall => present

(* download.go, Download: the same artifact is serialized across           *)
(* processes, so no two calls work under the lease at once.                *)
MutualExclusion == \A c, d \in Calls : Holding(c) /\ Holding(d) => c = d

(* download.go, lock: a call that works under the lease owns it until it   *)
(* unlocks; neither an expiry nor the unlock of an earlier owner that woke *)
(* up late removes its marker.                                             *)
HolderOwnsLease == \A c \in Calls : Holding(c) => Owned(c)

(* download.go, expireLease: whatever crashed and wherever, a call that    *)
(* keeps trying gets the lease.                                            *)
LeaseIsReached ==
  \A c \in Calls : Waiting(c) ~> pc[c] \in {"holding", "cancelled", "crashed"}
=============================================================================
