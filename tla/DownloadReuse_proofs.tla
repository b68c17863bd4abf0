------------------------ MODULE DownloadReuse_proofs ------------------------
(***************************************************************************)
(* That downloads of one client exclude each other by hash and cannot wait *)
(* for each other in a circle, for any number of downloads and hashes.     *)
(* What the proof turns on is which hash a call's reuseOrDownload is about *)
(* while it goes from the fast servers to SciDB.                           *)
(***************************************************************************)
EXTENDS DownloadReuse, TLAPS

(* A call knows its hash from the start, and a fast download has one. *)
WantsItsHash ==
  \A c \in Calls : pc[c] # "start" =>
    /\ task[c].hash # NoHash => want[c] = task[c].hash
    /\ phase[c] = "fast" => task[c].hash # NoHash
    /\ pc[c] \in {"lock", "waiting", "find", "transfer"} => want[c] # NoHash

(* The places where a call has locked the hash it wants: a page that is    *)
(* read to learn the hash is read without a lock.                          *)
Works(c) ==
  \/ pc[c] \in {"find", "transfer"}
  \/ pc[c] = "resolve" /\ task[c].hash # NoHash

WorksUnderLock ==
  \A c \in Calls : Works(c) => want[c] \in Hashes /\ holder[want[c]] = c

(* A lock is held only where there is work, or on the way out. *)
LocksOnlyToWork ==
  \A h \in Hashes : holder[h] # NoCall => Works(holder[h]) \/ pc[holder[h]] = "leave"

(* Who fetches a file has seen under the lock that there is none. *)
FetchesWhatIsMissing ==
  \A c \in Calls : Works(c) /\ pc[c] # "find" => want[c] \notin have

ReuseInv ==
  TypeOK /\ WantsItsHash /\ WorksUnderLock /\ LocksOnlyToWork /\ FetchesWhatIsMissing

USE NullAssumption, TaskAssumption

(* No hash is locked in the beginning. *)
LEMMA InitEstablishes == Init => ReuseInv
BY DEF Init, ReuseInv, TypeOK, WantsItsHash, WorksUnderLock, LocksOnlyToWork,
       FetchesWhatIsMissing, Works, Places

(* What a call may be asked is a hash or none, and a DOI or none. *)
LEMMA TasksAreTyped == ASSUME task \in [Calls -> Tasks], NEW c \in Calls
                       PROVE  task[c].hash \in Hashes \cup {NoHash}
BY DEF SomeTask

(* Every step keeps the types. *)
LEMMA TypesAreKept == ReuseInv /\ [Next]_vars => TypeOK'
<1> SUFFICES ASSUME ReuseInv, [Next]_vars
             PROVE  TypeOK'
  OBVIOUS
<1> USE TasksAreTyped DEF ReuseInv, TypeOK, Goto, Places
<1>1. ASSUME NEW c \in Calls, Start(c) PROVE TypeOK'
  BY <1>1 DEF Start, LocksOnlyToWork, Works
<1>2. ASSUME NEW c \in Calls, GiveUp(c) PROVE TypeOK'
  BY <1>2 DEF GiveUp
<1>3. ASSUME NEW c \in Calls, Lock(c) PROVE TypeOK'
  BY <1>3 DEF Lock, WantsItsHash
<1>4. ASSUME NEW c \in Calls, AwaitHolder(c) PROVE TypeOK'
  BY <1>4 DEF AwaitHolder
<1>5. ASSUME NEW c \in Calls, StopLocking(c) PROVE TypeOK'
  BY <1>5 DEF StopLocking
<1>6. ASSUME NEW c \in Calls, FindFile(c) PROVE TypeOK'
  BY <1>6 DEF FindFile
<1>7. ASSUME NEW c \in Calls, FindNothing(c) PROVE TypeOK'
  BY <1>7 DEF FindNothing
<1>8. ASSUME NEW c \in Calls, Resolve(c) PROVE TypeOK'
  BY <1>8 DEF Resolve, LocksOnlyToWork, Works
<1>9. ASSUME NEW c \in Calls, Transfer(c) PROVE TypeOK'
  BY <1>9 DEF Transfer, WorksUnderLock, Works
<1>10. ASSUME NEW c \in Calls, Fail(c) PROVE TypeOK'
  BY <1>10 DEF Fail
<1>11. ASSUME NEW c \in Calls, Leave(c) PROVE TypeOK'
  BY <1>11 DEF Leave, Released, AfterReuse
<1>12. CASE Delete
  BY <1>12 DEF Delete
<1>13. CASE UNCHANGED vars
  BY <1>13 DEF vars
<1>14. QED
  BY <1>1, <1>2, <1>3, <1>4, <1>5, <1>6, <1>7, <1>8, <1>9, <1>10, <1>11, <1>12, <1>13
  DEF Next, Proceed

(* Every step keeps the invariant. *)
LEMMA StepKeeps == ReuseInv /\ [Next]_vars => ReuseInv'
<1> SUFFICES ASSUME ReuseInv, [Next]_vars
             PROVE  ReuseInv'
  OBVIOUS
<1> DEFINE Others == WantsItsHash /\ WorksUnderLock /\ LocksOnlyToWork /\ FetchesWhatIsMissing
<1>0. TypeOK'
  BY TypesAreKept
<1> USE TasksAreTyped, <1>0
    DEF ReuseInv, TypeOK, Goto, WantsItsHash, WorksUnderLock, LocksOnlyToWork,
        FetchesWhatIsMissing, Works
<1>1. ASSUME NEW c \in Calls, Start(c) PROVE Others'
  BY <1>1 DEF Start
<1>2. ASSUME NEW c \in Calls, GiveUp(c) PROVE Others'
  BY <1>2 DEF GiveUp
<1>3. ASSUME NEW c \in Calls, Lock(c) PROVE Others'
  BY <1>3 DEF Lock
<1>4. ASSUME NEW c \in Calls, AwaitHolder(c) PROVE Others'
  BY <1>4 DEF AwaitHolder
<1>5. ASSUME NEW c \in Calls, StopLocking(c) PROVE Others'
  BY <1>5 DEF StopLocking
<1>6. ASSUME NEW c \in Calls, FindFile(c) PROVE Others'
  BY <1>6 DEF FindFile
<1>7. ASSUME NEW c \in Calls, FindNothing(c) PROVE Others'
  BY <1>7 DEF FindNothing, NeedsPage
<1>8. ASSUME NEW c \in Calls, Resolve(c) PROVE Others'
  BY <1>8 DEF Resolve
<1>9. ASSUME NEW c \in Calls, Transfer(c) PROVE Others'
  BY <1>9 DEF Transfer
<1>10. ASSUME NEW c \in Calls, Fail(c) PROVE Others'
  BY <1>10 DEF Fail
<1>11. ASSUME NEW c \in Calls, Leave(c) PROVE Others'
  BY <1>11 DEF Leave, Released, AfterReuse
<1>12. CASE Delete
  BY <1>12 DEF Delete
<1>13. CASE UNCHANGED vars
  BY <1>13 DEF vars
<1>14. QED
  BY <1>1, <1>2, <1>3, <1>4, <1>5, <1>6, <1>7, <1>8, <1>9, <1>10, <1>11, <1>12, <1>13
  DEF Next, Proceed

(* The invariant holds in every state. *)
LEMMA InvHolds == Spec => []ReuseInv
BY InitEstablishes, StepKeeps, PTL DEF Spec

(* Every variable keeps its type (download_existing.go). *)
THEOREM ReuseTypeIsKept == Spec => []TypeOK
<1>1. ReuseInv => TypeOK
  BY DEF ReuseInv
<1>2. QED
  BY <1>1, InvHolds, PTL

(* At most one download fetches a hash, and none that the folder has,      *)
(* however each of them came to the hash (reuseOrDownload).                *)
THEOREM OneTransferPerHash == Spec => []NoNeedlessTransfer
<1>1. ReuseInv => NoNeedlessTransfer
  BY DEF ReuseInv, NoNeedlessTransfer, FetchesWhatIsMissing, WorksUnderLock, Works
<1>2. QED
  BY <1>1, InvHolds, PTL

(* A download that has locked a hash waits for none (lockDownload): the    *)
(* two ways to a hash cannot make downloads wait in a circle.              *)
THEOREM NoCircles == Spec => []NobodyHoldsAndWaits
<1>1. ReuseInv => NobodyHoldsAndWaits
  BY DEF ReuseInv, NobodyHoldsAndWaits, Locked, LocksOnlyToWork, Works
<1>2. QED
  BY <1>1, InvHolds, PTL
(* The flight of one hash, and the downloads that wait for it. *)
FlightOf(h) == INSTANCE SingleFlight
                 WITH Callers <- Calls, NoCaller <- NoCall, leader <- holder[h],
                      waiting <- {c \in Calls : pc[c] = "waiting" /\ want[c] = h}

Waiting(h) == {c \in Calls : pc[c] = "waiting" /\ want[c] = h}

(* A step of a call that does not wait, and will not, changes no flight. *)
LEMMA FlightGoesOn ==
  ASSUME TypeOK, NEW h \in Hashes, NEW c \in Calls, pc[c] # "waiting",
         NEW s \in Places \ {"waiting"}, pc' = [pc EXCEPT ![c] = s],
         \A d \in Calls : d # c => want'[d] = want[d],
         UNCHANGED holder
  PROVE  UNCHANGED FlightOf(h)!vars
<1>1. \A d \in Calls : (pc'[d] = "waiting" /\ want'[d] = h) <=> (pc[d] = "waiting" /\ want[d] = h)
  BY DEF TypeOK
<1>2. QED
  BY <1>1 DEF FlightOf!vars

(* Every step of a download is a step of the flight of each hash, or none. *)
LEMMA StepIsOfFlight ==
  ASSUME NEW h \in Hashes
  PROVE  ReuseInv /\ [Next]_vars => [FlightOf(h)!Next]_(FlightOf(h)!vars)
<1> SUFFICES ASSUME ReuseInv, [Next]_vars
             PROVE  FlightOf(h)!Next \/ UNCHANGED FlightOf(h)!vars
  OBVIOUS
<1> DEFINE Goal == FlightOf(h)!Next \/ UNCHANGED FlightOf(h)!vars
<1> USE DEF ReuseInv, TypeOK, Places, Goto
<1>1. ASSUME UNCHANGED <<holder, pc, want>> PROVE Goal
  BY <1>1 DEF FlightOf!vars
<1>2. CASE Delete
  BY <1>1, <1>2 DEF Delete
<1>3. ASSUME NEW c \in Calls, Start(c) PROVE Goal
  BY <1>3, FlightGoesOn DEF Start
<1>4. ASSUME NEW c \in Calls, GiveUp(c) PROVE Goal
  BY <1>1, <1>4 DEF GiveUp
<1>5. ASSUME NEW c \in Calls, Lock(c) PROVE Goal
  <2>1. Waiting(h)' = Waiting(h)
    BY <1>5 DEF Lock, Waiting
  <2>2. CASE want[c] = h
    <3>1. holder[h] = NoCall /\ holder'[h] = c
      BY <1>5, <2>2 DEF Lock
    <3>2. QED
      BY <2>1, <3>1 DEF Waiting, FlightOf!Next, FlightOf!Lead
  <2>3. CASE want[c] # h
    BY <1>5, <2>1, <2>3 DEF Lock, Waiting, FlightOf!vars
  <2>4. QED
    BY <2>2, <2>3
<1>6. ASSUME NEW c \in Calls, AwaitHolder(c) PROVE Goal
  <2>1. CASE want[c] = h
    <3>1. Waiting(h)' = Waiting(h) \cup {c} /\ c \notin Waiting(h)
      BY <1>6, <2>1 DEF AwaitHolder, Waiting
    <3>2. holder[h] \notin {NoCall, c} /\ UNCHANGED holder
      BY <1>6, <2>1 DEF AwaitHolder, LocksOnlyToWork, Works
    <3>3. QED
      BY <3>1, <3>2 DEF Waiting, FlightOf!Next, FlightOf!Wait
  <2>2. CASE want[c] # h
    BY <1>6, <2>2 DEF AwaitHolder, FlightOf!vars
  <2>3. QED
    BY <2>1, <2>2
<1>7. ASSUME NEW c \in Calls, StopLocking(c) PROVE Goal
  <2>1. CASE c \in Waiting(h)
    <3>1. Waiting(h)' = Waiting(h) \ {c} /\ UNCHANGED holder
      BY <1>7 DEF StopLocking, Waiting
    <3>2. QED
      BY <2>1, <3>1 DEF Waiting, FlightOf!Next, FlightOf!Quit
  <2>2. CASE c \notin Waiting(h)
    <3>1. Waiting(h)' = Waiting(h) /\ UNCHANGED holder
      BY <1>7, <2>2 DEF StopLocking, Waiting
    <3>2. QED
      BY <3>1 DEF Waiting, FlightOf!vars
  <2>3. QED
    BY <2>1, <2>2
<1>8. ASSUME NEW c \in Calls, FindFile(c) PROVE Goal
  BY <1>8, FlightGoesOn DEF FindFile
<1>9. ASSUME NEW c \in Calls, FindNothing(c) PROVE Goal
  BY <1>9, FlightGoesOn DEF FindNothing
<1>10. ASSUME NEW c \in Calls, Resolve(c) PROVE Goal
  BY <1>10, FlightGoesOn DEF Resolve
<1>11. ASSUME NEW c \in Calls, Transfer(c) PROVE Goal
  BY <1>11, FlightGoesOn DEF Transfer
<1>12. ASSUME NEW c \in Calls, Fail(c) PROVE Goal
  BY <1>12, FlightGoesOn DEF Fail
<1>13. ASSUME NEW c \in Calls, Leave(c) PROVE Goal
  <2>1. AfterReuse(c) # "waiting"
    BY DEF AfterReuse
  <2>2. /\ holder' = [g \in Hashes |-> IF holder[g] = c THEN NoCall ELSE holder[g]]
        /\ pc' = Released(c, AfterReuse(c)) /\ UNCHANGED want /\ pc[c] = "leave"
    BY <1>13 DEF Leave
  <2>3. CASE holder[h] = c
    <3>1. holder[h] # NoCall /\ holder'[h] = NoCall
      BY <2>2, <2>3
    <3>2. Waiting(h)' = {}
      BY <2>1, <2>2, <2>3 DEF Released, Waiting
    <3>3. QED
      BY <3>1, <3>2 DEF Waiting, FlightOf!Next, FlightOf!Finish
  <2>4. CASE holder[h] # c
    <3>1. Waiting(h)' = Waiting(h)
      BY <2>1, <2>2, <2>4 DEF Released, Waiting
    <3>2. holder'[h] = holder[h]
      BY <2>2, <2>4
    <3>3. QED
      BY <3>1, <3>2 DEF Waiting, FlightOf!vars
  <2>5. QED
    BY <2>3, <2>4
<1>14. CASE UNCHANGED vars
  BY <1>1, <1>14 DEF vars
<1>15. QED
  BY <1>2, <1>3, <1>4, <1>5, <1>6, <1>7, <1>8, <1>9, <1>10, <1>11, <1>12, <1>13, <1>14
     DEF Next, Proceed

(* lockDownload: the downloads of each hash share one flight, whose end    *)
(* releases every call that waits for it.  This is SingleFlight but for    *)
(* its fairness.                                                           *)
THEOREM HashesAreShared ==
  ASSUME NEW h \in Hashes
  PROVE  Spec => FlightOf(h)!Init /\ [][FlightOf(h)!Next]_(FlightOf(h)!vars)
<1>1. Init => FlightOf(h)!Init
  BY DEF Init, FlightOf!Init
<1>2. QED
  BY <1>1, StepIsOfFlight, InvHolds, PTL DEF Spec
=============================================================================
