----------------------- MODULE ArtifactDownload_proofs ----------------------
(***************************************************************************)
(* The lease of an artifact and what calls do under it, for any number of  *)
(* calls, file names and intervals.  Mutual exclusion holds when no call   *)
(* waits longer than the time to live less one heartbeat; the bound is     *)
(* what the proof turns on, for a marker carries the time its call began   *)
(* to wait, not the time it acquired the lease.  That the entry is intact, *)
(* and that what is returned was fetched, needs no lease; that nothing is  *)
(* fetched twice does, and with it the short waits.  At the end, what      *)
(* SessionSignIn_proofs says of the session is carried over to KeptFiles.  *)
(***************************************************************************)
EXTENDS KeptFiles, TLAPS

(***************************************************************************)
(* The lease                                                               *)
(***************************************************************************)

(* No call waits so long that its marker is near stale when it acquires. *)
ShortWaits == MaxWait + Beat <= TTL

(* A marker is no older than the wait of its call, then than its last beat. *)
FreshMarkers ==
  /\ \A c \in Calls : Waiting(c) => age[c] <= MaxWait
  /\ \A c \in Calls : Holding(c) => /\ beat[c] # Stopped
                                    /\ age[c] <= MaxWait + beat[c]

(* Heartbeats end with the hold. *)
BeatsOnlyWhileHolding == \A c \in Calls : beat[c] # Stopped => Holding(c)

(* A marker in place belongs to a call that acquired the lease. *)
MarkerWasAcquired == \A c \in Calls : Waiting(c) \/ pc[c] = "idle" => marker # c

(* What a call found in its way belongs to a call that acquired the lease, *)
(* and once it is found stale, to one that no longer holds it.             *)
SeenIsPast ==
  \A c \in Calls :
    /\ pc[c] \in {"stat", "remove"} =>
         /\ seen[c] \in Calls
         /\ ~Waiting(seen[c]) /\ pc[seen[c]] # "idle"
    /\ pc[c] = "remove" => ~Holding(seen[c])

LeaseInv ==
  /\ LeaseTypeOK
  /\ HolderOwnsLease
  /\ FreshMarkers
  /\ BeatsOnlyWhileHolding
  /\ MarkerWasAcquired
  /\ SeenIsPast

USE NoCallAssumption, TimeAssumption, PlatformAssumption

(* The lease is free in the beginning. *)
LEMMA InitEstablishes == LeaseInit => LeaseInv
<1> SUFFICES ASSUME LeaseInit
             PROVE  LeaseInv
  OBVIOUS
<1> USE DEF LeaseInit
<1>1. LeaseTypeOK
  <2>1. 0 \in 0..Stale
    BY DEF Stale
  <2>2. beat \in [Calls -> {Stopped} \cup 0..Beat] /\ pc \in [Calls -> Places]
    BY DEF Places
  <2>3. QED
    BY <2>1, <2>2 DEF LeaseTypeOK
<1>2. \A c \in Calls : pc[c] = "idle" /\ beat[c] = Stopped /\ marker # c
  OBVIOUS
<1>3. HolderOwnsLease /\ FreshMarkers /\ BeatsOnlyWhileHolding /\ MarkerWasAcquired /\ SeenIsPast
  BY <1>2 DEF HolderOwnsLease, FreshMarkers, BeatsOnlyWhileHolding, MarkerWasAcquired, SeenIsPast,
              Holding, Waiting, Trying
<1>4. QED
  BY <1>1, <1>3 DEF LeaseInv

(* Every step keeps the invariant when waits are short. *)
LEMMA StepPreserves ==
  ASSUME ShortWaits, LeaseInv, [LeaseNext]_leaseVars
  PROVE  LeaseInv'
<1> USE DEF LeaseInv, LeaseTypeOK, HolderOwnsLease, FreshMarkers, BeatsOnlyWhileHolding,
            MarkerWasAcquired, SeenIsPast, Holding, Waiting, Owned, Trying, Places, Stopped, Stale, Goto
<1>1. CASE Tick
  <2> USE <1>1 DEF Tick
  <2>1. LeaseTypeOK'
    <3>1. dirAge' \in 0..Stale /\ age' \in [Calls -> 0..Stale]
      BY DEF Older
    <3>2. beat' \in [Calls -> {Stopped} \cup 0..Beat]
      <4>1. \A c \in Calls : beat[c] \in 0..Beat => Holding(c)
        OBVIOUS
      <4>2. QED
        BY <4>1
    <3>3. QED
      BY <3>1, <3>2
  <2>2. FreshMarkers'
    <3>1. ASSUME NEW c \in Calls
          PROVE  age[c] \in Int /\ age'[c] \in Int /\ age'[c] <= age[c] + 1
      BY DEF Older
    <3>2. ASSUME NEW c \in Calls, Waiting(c)
          PROVE  age'[c] <= MaxWait
      <4>1. age[c] < MaxWait
        BY <3>2 DEF ShortWaits
      <4>2. QED
        BY <3>1, <4>1
    <3>3. ASSUME NEW c \in Calls, Holding(c)
          PROVE  beat'[c] # Stopped /\ age'[c] <= MaxWait + beat'[c]
      <4>1. beat[c] \in 0..Beat /\ beat'[c] = beat[c] + 1 /\ age[c] <= MaxWait + beat[c]
        BY <3>3
      <4>2. QED
        BY <3>1, <4>1
    <3>4. QED
      BY <3>2, <3>3
  <2>3. HolderOwnsLease' /\ MarkerWasAcquired' /\ SeenIsPast'
    OBVIOUS
  <2>4. BeatsOnlyWhileHolding'
    OBVIOUS
  <2>5. QED
    BY <2>1, <2>2, <2>3, <2>4
<1>2. ASSUME NEW c \in Calls, Begin(c)
      PROVE  LeaseInv'
  BY <1>2 DEF Begin
<1>3. ASSUME NEW c \in Calls, TryRename(c)
      PROVE  LeaseInv'
  BY <1>3 DEF TryRename
<1>4. ASSUME NEW c \in Calls, Acquire(c)
      PROVE  LeaseInv'
  BY <1>4 DEF Acquire
<1>5. ASSUME NEW c \in Calls, LoseRace(c)
      PROVE  LeaseInv'
  BY <1>5 DEF LoseRace
<1>6. ASSUME NEW c \in Calls, ReadDir(c)
      PROVE  LeaseInv'
  BY <1>6 DEF ReadDir
<1>7. ASSUME NEW c \in Calls, StatMarker(c)
      PROVE  LeaseInv'
  BY <1>7 DEF StatMarker, ShortWaits
<1>8. ASSUME NEW c \in Calls, StatDir(c)
      PROVE  LeaseInv'
  BY <1>8 DEF StatDir
<1>9. ASSUME NEW c \in Calls, RemoveStale(c)
      PROVE  LeaseInv'
  BY <1>9 DEF RemoveStale, RemoveMarker
<1>10. ASSUME NEW c \in Calls, RemoveStaleDir(c)
       PROVE  LeaseInv'
  BY <1>10 DEF RemoveStaleDir, RemoveDir
<1>11. ASSUME NEW c \in Calls, Cancel(c)
       PROVE  LeaseInv'
  BY <1>11 DEF Cancel
<1>12. ASSUME NEW c \in Calls, Crash(c)
       PROVE  LeaseInv'
  BY <1>12 DEF Crash
<1>13. ASSUME NEW c \in Calls, Heartbeat(c)
       PROVE  LeaseInv'
  BY <1>13 DEF Heartbeat
<1>14. ASSUME NEW c \in Calls, Unlock(c)
       PROVE  LeaseInv'
  BY <1>14 DEF Unlock
<1>15. ASSUME NEW c \in Calls, UnlockMarker(c)
       PROVE  LeaseInv'
  BY <1>15 DEF UnlockMarker, RemoveMarker
<1>16. ASSUME NEW c \in Calls, UnlockDir(c)
       PROVE  LeaseInv'
  BY <1>16 DEF UnlockDir, RemoveDir
<1>17. CASE UNCHANGED leaseVars
  BY <1>17 DEF leaseVars
<1>18. QED
  BY <1>1, <1>2, <1>3, <1>4, <1>5, <1>6, <1>7, <1>8, <1>9, <1>10, <1>11, <1>12, <1>13,
     <1>14, <1>15, <1>16, <1>17
     DEF LeaseNext, Strive, FinishUnlock

(* Every variable keeps its type, and no marker is left without its        *)
(* directory.                                                              *)
THEOREM TypeIsKept ==
  ASSUME ShortWaits
  PROVE  LeaseSpec => []LeaseTypeOK
<1>1. LeaseInv => LeaseTypeOK
  BY DEF LeaseInv
<1>2. LeaseInv /\ [LeaseNext]_leaseVars => LeaseInv'
  BY StepPreserves
<1>3. QED
  BY <1>1, <1>2, InitEstablishes, PTL DEF LeaseSpec

(* A call that works under the lease keeps it until it unlocks: no expiry  *)
(* and no late unlock removes the marker of a live owner.                  *)
THEOREM HolderKeepsLease ==
  ASSUME ShortWaits
  PROVE  LeaseSpec => []HolderOwnsLease
<1>1. LeaseInv => HolderOwnsLease
  BY DEF LeaseInv
<1>2. LeaseInv /\ [LeaseNext]_leaseVars => LeaseInv'
  BY StepPreserves
<1>3. QED
  BY <1>1, <1>2, InitEstablishes, PTL DEF LeaseSpec

(* The lease has one owner: two owners would both have their marker in it. *)
THEOREM OneHolder ==
  ASSUME ShortWaits
  PROVE  LeaseSpec => []MutualExclusion
<1>1. HolderOwnsLease => MutualExclusion
  BY DEF HolderOwnsLease, MutualExclusion, Owned
<1>2. QED
  BY <1>1, HolderKeepsLease, PTL

(***************************************************************************)
(* Under the lease                                                         *)
(***************************************************************************)

(* A call has not moved on in Download before it got the lease. *)
StartsWithRecheck ==
  /\ pc \in [Calls -> Places]
  /\ \A c \in Calls : Waiting(c) \/ pc[c] = "idle" => step[c] = "recheck"

(* What a call is about to record it has linked. *)
SavesItsName == \A c \in Calls : step[c] = "save" => result[c] \in Names

FileInv == TypeOK /\ StartsWithRecheck /\ SavesItsName

(* Nobody fetches what the cache has. *)
FetchesWhatIsMissing == \A c \in Calls : Fetching(c) => ~Cached

USE NamesAssumption, ForeignAssumption

(* In the beginning the folder has files of others at most. *)
LEMMA InitEstablishesFiles == Init => FileInv
BY DEF Init, LeaseInit, FileInv, TypeOK, StartsWithRecheck, SavesItsName, Places, Steps, NoEntry

(* A step of the lease makes no call wait that has moved on. *)
LEMMA LeaseKeepsPlaces ==
  ASSUME StartsWithRecheck, [LeaseNext]_leaseVars, UNCHANGED step
  PROVE  StartsWithRecheck'
<1> USE DEF StartsWithRecheck, Waiting, Trying, Places, Goto, Holding
<1>1. CASE UNCHANGED pc
  BY <1>1
<1>2. ASSUME NEW c \in Calls, Begin(c) \/ Strive(c) PROVE StartsWithRecheck'
  <2>1. step[c] = "recheck"
    BY <1>2 DEF Begin, Strive, TryRename, Acquire, LoseRace, ReadDir, StatMarker, StatDir,
         RemoveStale, RemoveStaleDir
  <2>2. PICK place \in Trying \cup {"holding"} : pc' = [pc EXCEPT ![c] = place]
    BY <1>2 DEF Begin, Strive, TryRename, Acquire, LoseRace, ReadDir, StatMarker, StatDir,
         RemoveStale, RemoveStaleDir, RemoveMarker, RemoveDir
  <2>3. QED
    BY <2>1, <2>2
<1>3. ASSUME NEW c \in Calls, Cancel(c) \/ Crash(c) \/ Unlock(c) \/ FinishUnlock(c)
      PROVE  StartsWithRecheck'
  <2>1. PICK place \in {"cancelled", "crashed", "unlock", "unlockdir", "done"} :
          pc' = [pc EXCEPT ![c] = place]
    BY <1>3 DEF Cancel, Crash, Unlock, FinishUnlock, UnlockMarker, UnlockDir, RemoveMarker, RemoveDir
  <2>2. QED
    BY <2>1
<1>4. QED
  <2>1. \/ UNCHANGED pc
        \/ \E c \in Calls : \/ Begin(c) \/ Strive(c) \/ Cancel(c) \/ Crash(c) \/ Unlock(c)
                            \/ FinishUnlock(c)
    BY DEF LeaseNext, leaseVars, Tick, Heartbeat
  <2>2. QED
    BY <1>1, <1>2, <1>3, <2>1

(* A call that has just got the lease starts with the recheck. *)
LEMMA HolderIsNotNew ==
  ASSUME StartsWithRecheck, [LeaseNext]_leaseVars, NEW c \in Calls, pc'[c] = "holding"
  PROVE  Holding(c) \/ step[c] = "recheck"
<1> USE DEF StartsWithRecheck, Waiting, Trying, Places, Goto, Holding
<1>1. ASSUME NEW d \in Calls, Strive(d) PROVE Holding(c) \/ step[c] = "recheck"
  <2>1. pc[d] \in Trying /\ \A e \in Calls \ {d} : pc'[e] = pc[e]
    BY <1>1 DEF Strive, TryRename, Acquire, LoseRace, ReadDir, StatMarker, StatDir,
         RemoveStale, RemoveStaleDir, RemoveMarker, RemoveDir
  <2>2. QED
    BY <2>1
<1>2. ASSUME NEW d \in Calls, ~Strive(d),
             \/ Begin(d) \/ Cancel(d) \/ Crash(d) \/ Unlock(d) \/ FinishUnlock(d)
      PROVE  Holding(c)
  <2>1. pc'[d] # "holding" /\ \A e \in Calls \ {d} : pc'[e] = pc[e]
    BY <1>2 DEF Begin, Cancel, Crash, Unlock, FinishUnlock, UnlockMarker, UnlockDir, RemoveMarker,
         RemoveDir
  <2>2. QED
    BY <2>1
<1>3. QED
  BY <1>1, <1>2 DEF LeaseNext, leaseVars, Tick, Heartbeat

(* A step of a download is one of the lease, or leaves the lease alone. *)
LEMMA NextIsLeaseNext == [Next]_vars => [LeaseNext]_leaseVars
BY DEF Next, vars, LeaseStep, Work, Recheck, Request, Transferred, Fail, CheckOwned, Link, Save,
       Leave, Meddle, LeaseNext

(* The steps that change what is known of files and names. *)
LEMMA FileSteps ==
  ASSUME [Next]_vars
  PROVE  \/ UNCHANGED fileVars
         \/ \E n \in Names : Meddle(n)
         \/ \E c \in Calls : \/ Recheck(c) \/ Request(c) \/ Transferred(c) \/ Fail(c)
                             \/ CheckOwned(c) \/ Link(c) \/ Save(c)
BY DEF Next, vars, LeaseStep, Work, Leave

(* Every step keeps the types, and the names that calls record. *)
LEMMA FilesAreKept == FileInv /\ [Next]_vars => FileInv'
<1> SUFFICES ASSUME FileInv, [Next]_vars
             PROVE  FileInv'
  OBVIOUS
<1> DEFINE Known ==
      /\ step \in [Calls -> Steps]
      /\ file \in [Names -> Calls \cup {Foreign, NoCall}]
      /\ index \in [name : Names, content : Calls] \cup {NoEntry}
      /\ result \in [Calls -> Names \cup {0}]
      /\ touched \subseteq [name : Names, content : Calls]
      /\ SavesItsName
<1>1. Known /\ StartsWithRecheck
  BY DEF FileInv, TypeOK
<1>2. Known'
  <2> USE <1>1 DEF SavesItsName, At, GoOn, Steps
  <2>1. CASE UNCHANGED fileVars
    BY <2>1 DEF fileVars
  <2>2. ASSUME NEW n \in Names, Meddle(n) PROVE Known'
    BY <2>2 DEF Meddle
  <2>3. ASSUME NEW c \in Calls, Recheck(c) PROVE Known'
    BY <2>3 DEF Recheck, Cached, NoEntry
  <2>4. ASSUME NEW c \in Calls, Request(c) \/ Transferred(c) \/ Fail(c) \/ CheckOwned(c)
        PROVE  Known'
    BY <2>4 DEF Request, Transferred, Fail, CheckOwned
  <2>5. ASSUME NEW c \in Calls, Link(c) PROVE Known'
    BY <2>5 DEF Link
  <2>6. ASSUME NEW c \in Calls, Save(c) PROVE Known'
    BY <2>6 DEF Save
  <2>7. QED
    BY <2>1, <2>2, <2>3, <2>4, <2>5, <2>6, FileSteps
<1>3. StartsWithRecheck'
  <2>1. CASE UNCHANGED step
    BY <1>1, <2>1, NextIsLeaseNext, LeaseKeepsPlaces
  <2>2. CASE ~UNCHANGED step
    <3>1. PICK c \in Calls : Recheck(c) \/ Request(c) \/ Transferred(c) \/ Fail(c) \/ CheckOwned(c)
                             \/ Link(c) \/ Save(c)
      BY <2>2, FileSteps DEF Meddle, fileVars
    <3>2. Holding(c) /\ UNCHANGED pc /\ \A d \in Calls \ {c} : step'[d] = step[d]
      BY <1>1, <3>1 DEF Recheck, Request, Transferred, Fail, CheckOwned, Link, Save, At, GoOn,
           leaseVars
    <3>3. QED
      BY <1>1, <3>2 DEF StartsWithRecheck, Holding, Waiting, Trying
  <2>3. QED
    BY <2>1, <2>2
<1>4. QED
  BY <1>2, <1>3 DEF FileInv, TypeOK, StartsWithRecheck

(* The invariant of the files holds in every state. *)
LEMMA FilesAlways == Spec => []FileInv
BY InitEstablishesFiles, FilesAreKept, PTL DEF Spec

(* Every variable keeps its type, also when leases are lost (Download).    *)
THEOREM ArtifactTypeIsKept == Spec => []TypeOK
<1>1. FileInv => TypeOK
  BY DEF FileInv
<1>2. QED
  BY <1>1, FilesAlways, PTL

(* A file that a call linked is as it was, but for what somebody did to it. *)
Kept(n, c) == file[n] = c \/ [name |-> n, content |-> c] \in touched

(* What a call is about to record, and what the index has, is kept.        *)
EntriesAreKept ==
  /\ \A c \in Calls : step[c] = "save" => Kept(result[c], c)
  /\ index # NoEntry => Kept(index.name, index.content)

LEMMA EntriesStayKept ==
  ASSUME FileInv, EntriesAreKept, [Next]_vars
  PROVE  EntriesAreKept'
<1> USE DEF FileInv, TypeOK, SavesItsName
<1>1. CASE UNCHANGED fileVars
  BY <1>1 DEF EntriesAreKept, Kept, fileVars
<1>2. ASSUME NEW n \in Names, Meddle(n) PROVE EntriesAreKept'
  <2>1. ASSUME NEW m \in Names, NEW c \in Calls, Kept(m, c) PROVE Kept(m, c)'
    <3>1. CASE file[m] = c /\ m = n
      BY <1>2, <3>1 DEF Meddle, Kept
    <3>2. CASE file[m] = c /\ m # n
      BY <1>2, <3>2 DEF Meddle, Kept
    <3>3. CASE [name |-> m, content |-> c] \in touched
      BY <1>2, <3>3 DEF Meddle, Kept
    <3> QED
      BY <2>1, <3>1, <3>2, <3>3 DEF Kept
  <2>2. UNCHANGED <<step, index, result>>
    BY <1>2 DEF Meddle
  <2>3. ASSUME NEW c \in Calls, step[c] = "save" PROVE Kept(result[c], c)'
    BY <2>1, <2>2, <2>3 DEF EntriesAreKept, Kept
  <2>4. index # NoEntry => Kept(index.name, index.content)'
    <3> SUFFICES ASSUME index # NoEntry PROVE Kept(index.name, index.content)'
      OBVIOUS
    <3>1. index.name \in Names /\ index.content \in Calls
      OBVIOUS
    <3> QED
      BY <2>1, <2>2, <3>1 DEF EntriesAreKept, Kept
  <2> QED
    BY <2>2, <2>3, <2>4 DEF EntriesAreKept
<1>3. ASSUME NEW c \in Calls,
             Recheck(c) \/ Request(c) \/ Transferred(c) \/ Fail(c) \/ CheckOwned(c)
      PROVE  EntriesAreKept'
  <2>1. /\ UNCHANGED <<file, index, touched>> /\ step'[c] # "save"
        /\ \A d \in Calls \ {c} : step'[d] = step[d] /\ result'[d] = result[d]
    BY <1>3 DEF Recheck, Request, Transferred, Fail, CheckOwned, GoOn
  <2> QED
    BY <2>1 DEF EntriesAreKept, Kept
<1>4. ASSUME NEW c \in Calls, Link(c) PROVE EntriesAreKept'
  <2>1. PICK n \in Names : /\ file[n] = NoCall /\ file' = [file EXCEPT ![n] = c]
                           /\ result' = [result EXCEPT ![c] = n]
    BY <1>4 DEF Link, FreeName
  <2>2. UNCHANGED <<index, touched>> /\ \A d \in Calls \ {c} : step'[d] = step[d]
    BY <1>4 DEF Link, GoOn
  <2>3. ASSUME NEW m \in Names, NEW d \in Calls, Kept(m, d) PROVE Kept(m, d)'
    BY <2>1, <2>2, <2>3, NoCallAssumption DEF Kept
  <2>4. ASSUME NEW d \in Calls, step'[d] = "save" PROVE Kept(result[d], d)'
    <3>1. CASE d = c
      BY <2>1, <3>1 DEF Kept
    <3>2. CASE d # c
      <4>1. step[d] = "save" /\ result'[d] = result[d]
        BY <2>1, <2>2, <2>4, <3>2
      <4> QED
        BY <2>3, <4>1 DEF EntriesAreKept, Kept
    <3> QED
      BY <3>1, <3>2
  <2>5. index # NoEntry => Kept(index.name, index.content)'
    <3> SUFFICES ASSUME index # NoEntry PROVE Kept(index.name, index.content)'
      OBVIOUS
    <3>1. index.name \in Names /\ index.content \in Calls
      OBVIOUS
    <3> QED
      BY <2>2, <2>3, <3>1 DEF EntriesAreKept, Kept
  <2> QED
    BY <2>2, <2>4, <2>5 DEF EntriesAreKept
<1>5. ASSUME NEW c \in Calls, Save(c) PROVE EntriesAreKept'
  <2>1. /\ step[c] = "save" /\ UNCHANGED <<file, result, touched>> /\ step'[c] # "save"
        /\ index' \in {index, [name |-> result[c], content |-> c]}
        /\ \A d \in Calls \ {c} : step'[d] = step[d]
    BY <1>5 DEF Save, At, GoOn
  <2> QED
    BY <2>1 DEF EntriesAreKept, Kept
<1> QED
  BY <1>1, <1>2, <1>3, <1>4, <1>5, FileSteps

(* Download, save and finalize: the index names a file that is as the call *)
(* linked it that recorded it, or that somebody outside the program has    *)
(* changed, however many calls share a lease that was lost, in whatever    *)
(* order they link and record, and wherever they end.                      *)
THEOREM TheEntryIsIntact == Spec => []EntryIsIntact
<1>1. Init => EntriesAreKept
  BY DEF Init, EntriesAreKept
<1>2. FileInv /\ EntriesAreKept => EntryIsIntact
  <2> SUFFICES ASSUME FileInv, EntriesAreKept, index # NoEntry
               PROVE  file[index.name] = index.content \/ index \in touched
    BY DEF EntryIsIntact
  <2>1. index = [name |-> index.name, content |-> index.content]
    BY DEF FileInv, TypeOK
  <2> QED
    BY <2>1 DEF EntriesAreKept, Kept
<1>3. QED
  BY <1>1, <1>2, FilesAlways, EntriesStayKept, PTL DEF Spec

(* Download and Cached: what a call decides to return was fetched by it or *)
(* an earlier call, whatever became of the folder in between.              *)
THEOREM ReturnedWasFetched == Spec => ReturnsFetchedFile
<1>1. ASSUME FileInv, [Next]_vars, NEW c \in Calls, result'[c] # result[c]
      PROVE  file'[result'[c]] \in Calls
  <2>1. ASSUME NEW d \in Calls, Recheck(d) PROVE file'[result'[c]] \in Calls
    <3>1. Cached /\ result'[c] = index.name /\ UNCHANGED file
      BY <1>1, <2>1 DEF Recheck, FileInv, TypeOK
    <3>2. index \in [name : Names, content : Calls]
      BY <1>1, <3>1 DEF Cached, NoEntry, FileInv, TypeOK
    <3>3. QED
      BY <3>1, <3>2 DEF Cached
  <2>2. ASSUME NEW d \in Calls, Link(d) PROVE file'[result'[c]] \in Calls
    BY <1>1, <2>2 DEF Link, FileInv, TypeOK
  <2>3. QED
    BY <1>1, <2>1, <2>2, FileSteps
       DEF fileVars, Meddle, Request, Transferred, Fail, CheckOwned, Save
<1>2. FileInv /\ [Next]_vars =>
        [\A c \in Calls : result'[c] # result[c] => file'[result'[c]] \in Calls]_vars
  BY <1>1
<1>3. QED
  BY <1>2, FilesAlways, PTL DEF Spec, ReturnsFetchedFile

(* Two calls that fetch would both hold the lease. *)
LEMMA FetchersExclude ==
  ASSUME LeaseInv, NEW c \in Calls, NEW d \in Calls, Holding(c), Holding(d)
  PROVE  c = d
BY DEF LeaseInv, HolderOwnsLease, Owned

(* While the lease excludes, no step puts into the cache what a call       *)
(* fetches: whoever links or saves is the one that holds.                  *)
LEMMA FetchIsKept ==
  ASSUME LeaseInv, FileInv, FetchesWhatIsMissing, [Next]_vars
  PROVE  FetchesWhatIsMissing'
<1> SUFFICES ASSUME NEW c \in Calls, Fetching(c)'
             PROVE  ~Cached'
  BY DEF FetchesWhatIsMissing
<1> USE DEF FileInv, TypeOK
<1>1. CASE UNCHANGED fileVars
  <2>1. Holding(c)
    BY <1>1, NextIsLeaseNext, HolderIsNotNew DEF Fetching, fileVars, Holding
  <2>2. QED
    BY <1>1, <2>1 DEF FetchesWhatIsMissing, Fetching, Cached, fileVars
<1>2. ASSUME NEW n \in Names, Meddle(n) PROVE ~Cached'
  <2>1. ~Cached /\ UNCHANGED index
    BY <1>2 DEF Meddle, FetchesWhatIsMissing, Fetching, Holding, leaseVars
  <2>2. /\ file'[n] \in {Foreign, NoCall}
        /\ \A m \in Names \ {n} : file'[m] = file[m]
    BY <1>2 DEF Meddle
  <2>3. index.name # 0 => index.name \in Names /\ index.content \in Calls
    BY DEF NoEntry
  <2>4. QED
    BY <2>1, <2>2, <2>3, NoCallAssumption DEF Cached
<1>3. ASSUME NEW d \in Calls, Recheck(d) PROVE ~Cached'
  BY <1>3 DEF Recheck, At, GoOn, FetchesWhatIsMissing, Fetching, Holding, Cached, leaseVars
<1>4. ASSUME NEW d \in Calls, Request(d) \/ Transferred(d) \/ Fail(d) \/ CheckOwned(d)
      PROVE  ~Cached'
  BY <1>4 DEF Request, Transferred, Fail, CheckOwned, At, GoOn, FetchesWhatIsMissing, Fetching,
       Holding, Cached, leaseVars
<1>5. ASSUME NEW d \in Calls, Link(d) \/ Save(d) PROVE FALSE
  <2>1. Holding(d) /\ Holding(c) /\ step'[d] \in {"save", "return"}
    BY <1>5 DEF Link, Save, At, GoOn, Fetching, Holding, leaseVars
  <2>2. QED
    BY <2>1, FetchersExclude DEF Fetching
<1>6. QED
  BY <1>1, <1>2, <1>3, <1>4, <1>5, FileSteps

(* download.go, Download: when waits are short, no two calls of any        *)
(* processes fetch the artifact at once, and none fetches what the cache   *)
(* has; neither crashes nor expired leases nor edits of the folder change  *)
(* that.                                                                   *)
THEOREM OneFetch == ASSUME ShortWaits PROVE Spec => []NoNeedlessFetch
<1> DEFINE Inv == LeaseInv /\ FileInv /\ FetchesWhatIsMissing
<1>1. Init => Inv
  <2>1. Init => LeaseInv
    BY InitEstablishes DEF Init
  <2>2. Init => FetchesWhatIsMissing
    BY DEF Init, FetchesWhatIsMissing, Fetching
  <2>3. QED
    BY <2>1, <2>2, InitEstablishesFiles
<1>2. Inv /\ [Next]_vars => Inv'
  BY StepPreserves, NextIsLeaseNext, FilesAreKept, FetchIsKept
<1>3. Inv => NoNeedlessFetch
  BY FetchersExclude DEF FetchesWhatIsMissing, NoNeedlessFetch, Fetching
<1>4. QED
  BY <1>1, <1>2, <1>3, PTL DEF Spec

(***************************************************************************)
(* The session beside the artifacts                                        *)
(***************************************************************************)

SIP == INSTANCE SessionSignIn_proofs
         WITH Callers <- Calls, NoCaller <- NoCall, file <- saved, pc <- at

(* The requests behave as SessionSignIn says. *)
LEMMA SessionBehaves == KeptSpec => SIP!Acts
<1>1. KeptInit => SIP!Init
  BY DEF KeptInit, SI!Init, SIP!Init, SI!NoCookie, SIP!NoCookie, SI!NoKey, SIP!NoKey,
         SI!NoFile, SIP!NoFile
<1>2. [Download \/ Renew]_<<kept, vars, sessionVars>> => [SIP!Next]_SIP!vars
  <2>1. ASSUME [Download \/ Renew]_<<kept, vars, sessionVars>>
        PROVE  SI!Next \/ UNCHANGED sessionVars
    BY <2>1 DEF Download, Renew
  <2>2. SI!Next => SIP!Next
    BY DEF SI!Next, SIP!Next, SI!Proceed, SIP!Proceed, SI!Tick, SIP!Tick, SI!Expire,
           SIP!Expire, SI!Settle, SIP!Settle, SI!Restart, SIP!Restart, SI!Restored,
           SIP!Restored, SI!Call, SIP!Call, SI!GiveUp, SIP!GiveUp, SI!Request,
           SIP!Request, SI!Served, SIP!Served, SI!Forbidden, SIP!Forbidden,
           SI!WithoutKey, SIP!WithoutKey, SI!AlreadyReplaced, SIP!AlreadyReplaced,
           SI!AwaitSignIn, SIP!AwaitSignIn, SI!TooSoon, SIP!TooSoon, SI!LeadSignIn,
           SIP!LeadSignIn, SI!SignInWorks, SIP!SignInWorks, SI!SignInFails,
           SIP!SignInFails, SI!EndSignIn, SIP!EndSignIn, SI!EndInTime,
           SIP!EndInTime, SI!EndTooLate, SIP!EndTooLate, SI!EndBetween,
           SIP!EndBetween, SI!Save, SIP!Save, SI!StopWaiting, SIP!StopWaiting,
           SI!Goto, SIP!Goto, SI!Return, SIP!Return, SI!Retried, SIP!Retried,
           SI!Unrenewed, SIP!Unrenewed, SI!Released, SIP!Released, SI!Unused,
           SIP!Unused, SI!InUse, SIP!InUse, SI!NoKey, SIP!NoKey, SI!NoCookie,
           SIP!NoCookie, SI!NoFile, SIP!NoFile, SI!archiveVars, SIP!archiveVars,
           SI!clientVars, SIP!clientVars, SI!callVars, SIP!callVars
  <2> QED
    BY <2>1, <2>2 DEF sessionVars, SIP!vars, SIP!archiveVars, SIP!clientVars, SIP!callVars
<1> QED
  BY <1>1, <1>2, PTL DEF KeptSpec, SIP!Acts

(* What SessionSignIn assumes of its constants, KeptFiles assumes too. *)
LEMMA SessionAssumptions ==
  /\ SIP!NoCallerAssumption /\ SIP!IntervalAssumption /\ SIP!FileAssumption
  /\ SIP!SerialAssumption /\ SIP!ConfigAssumption
<1> QED
  BY KeptAssumption, NoCallAssumption
     DEF SIP!NoCallerAssumption, SIP!IntervalAssumption, SIP!FileAssumption, SIP!SerialAssumption,
         SIP!ConfigAssumption, SI!SomeConfig, SIP!SomeConfig, SI!NoKey, SIP!NoKey,
         SI!NoCookie, SIP!NoCookie, SI!Browser, SIP!Browser

(* session_store.go, restoreSession: beside any artifacts, no session of   *)
(* another account is used.                                                *)
THEOREM KeptSessionIsOwn == KeptSpec => []SessionIsOfThisAccount
<1>1. SIP!Acts => []SIP!SessionIsOfThisAccount
  BY SessionAssumptions, SIP!NoOtherAccount
<1>2. SIP!SessionIsOfThisAccount => SessionIsOfThisAccount
  BY DEF SIP!SessionIsOfThisAccount, SessionIsOfThisAccount, SI!SessionIsOfThisAccount,
         SIP!NoCookie, SI!NoCookie, SIP!NoKey, SI!NoKey
<1> QED
  BY <1>1, <1>2, SessionBehaves, PTL

(* session.go, saveSession: beside any artifacts, what is saved is the     *)
(* session in use, but for what a call saves that gave up between the two  *)
(* looks at its context.                                                   *)
THEOREM KeptSessionIsCurrent == KeptSpec => SavedSessionIsCurrent
<1>1. SIP!Acts => SIP!SavedSessionIsCurrent
  BY SessionAssumptions, SIP!SavesTheCurrent
<1>2. SIP!SavedSessionIsCurrent => SavedSessionIsCurrent
  BY DEF SIP!SavedSessionIsCurrent, SavedSessionIsCurrent, SI!SavedSessionIsCurrent,
         SIP!vars, SI!vars, SIP!archiveVars, SI!archiveVars, SIP!clientVars, SI!clientVars,
         SIP!callVars, SI!callVars
<1> QED
  BY <1>1, <1>2, SessionBehaves
=============================================================================
