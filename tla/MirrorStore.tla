---------------------------- MODULE MirrorStore ----------------------------
(***************************************************************************)
(* mirrors.json, through which processes share what they know of mirrors:  *)
(* the file is read on first use, and every change is merged into it and   *)
(* replaces it (anna/internal/mirror/store.go, health.go).                 *)
(*                                                                         *)
(* Of a mirror's state only the times are kept, which are all the file's   *)
(* rules look at; MirrorSelector has the failures behind them.             *)
(***************************************************************************)
EXTENDS Naturals

CONSTANTS
  Procs,       \* processes that use the file
  Agents,      \* requests that a process makes at the same time
  Hosts,       \* mirrors
  Saved,       \* what the file may hold of a mirror, damaged or not
  StaleAfter,  \* age after which a saved state is dropped
  MaxHold,     \* the longest hold
  SaveEvery,   \* how often successes alone are saved
  Skew,        \* how far in the future a saved time may be
  FirstMoment, \* the first and the
  MaxTime      \* last moment of the clock

VARIABLES
  now,     \* the clock
  file,    \* mirrors.json
  loaded,  \* whether each process has read it
  health,  \* what each process knows of the mirrors
  saved,   \* what it knows the file to hold
  agent,   \* what its requests do: the change they report, the states they write
  behind   \* whether its last attempt to write failed

mvars == <<now, file, loaded, health, saved, agent, behind>>

Unknown == [ok |-> 0, fail |-> 0, until |-> 0]
Idle == [at |-> "idle"]

Latest(s) == IF s.ok > s.fail THEN s.ok ELSE s.fail

(* A hold ends at the latest MaxHold after the failure it is for. *)
Cut(s) ==
  LET limit == IF s.fail = 0 THEN 0 ELSE s.fail + MaxHold
  IN  [s EXCEPT !.until = IF @ > limit THEN limit ELSE @]

Applies(s) == Latest(s) + StaleAfter >= now /\ s.ok <= now + Skew /\ s.fail <= now + Skew

Read == [h \in Hosts |-> IF Applies(file[h]) THEN Cut(file[h]) ELSE Unknown]

(* Of two states of a mirror the newer one, the first if none is newer. *)
Newer(first, second) ==
  [h \in Hosts |-> IF Latest(second[h]) > Latest(first[h]) THEN second[h] ELSE first[h]]

(* The first use of a process's health reads the file. *)
Load(p) ==
  /\ ~loaded[p]
  /\ loaded' = [loaded EXCEPT ![p] = TRUE]
  /\ health' = [health EXCEPT ![p] = Newer(@, Read)]
  /\ saved' = [saved EXCEPT ![p] = Read]
  /\ UNCHANGED <<now, file, agent, behind>>

(* A request or a check worked, or failed, the server having said when to  *)
(* come back or not; a hold is not lengthened otherwise.                   *)
Learns(s, t) ==
  {[s EXCEPT !.ok = t, !.until = 0]} \cup
  UNION {{[s EXCEPT !.fail = t, !.until = t + hold],
          [s EXCEPT !.fail = t, !.until = IF t < @ THEN @ ELSE t + hold]} : hold \in 1..MaxHold}

Update(p, a) ==
  /\ loaded[p] /\ agent[p][a] = Idle /\ now < MaxTime
  /\ now' = now + 1
  /\ \E h \in Hosts : \E s \in Learns(health[p][h], now') :
       /\ health' = [health EXCEPT ![p][h] = s]
       /\ agent' = [agent EXCEPT ![p][a] = [at |-> "changed", host |-> h, state |-> s]]
  /\ UNCHANGED <<file, loaded, saved, behind>>

(* Mutant of Unchanged: that a mirror's hold has ended is not saved. *)
UnchangedOrReleased(p, h, s) ==
  /\ s.until \in {0, saved[p][h].until}
  /\ s.ok = 0 \/ (saved[p][h].ok # 0 /\ s.ok < saved[p][h].ok + SaveEvery)

(* The change is not worth a write: no hold, and no success after long. *)
Unchanged(p, h, s) ==
  /\ s.until = saved[p][h].until
  /\ s.ok = 0 \/ (saved[p][h].ok # 0 /\ s.ok < saved[p][h].ok + SaveEvery)

(* The store's mutex is held from here on to the end of the write. *)
Saving(p) == \E a \in Agents : agent[p][a].at = "merged"

Skip(p, a) ==
  /\ agent[p][a].at = "changed" /\ ~Saving(p)
  /\ Unchanged(p, agent[p][a].host, agent[p][a].state)
  /\ agent' = [agent EXCEPT ![p][a] = Idle]
  /\ UNCHANGED <<now, file, loaded, health, saved, behind>>

Merge(p, a) ==
  /\ agent[p][a].at = "changed" /\ ~Saving(p)
  /\ ~Unchanged(p, agent[p][a].host, agent[p][a].state)
  /\ agent' = [agent EXCEPT ![p][a] =
                 [at |-> "merged", ours |-> health[p], merged |-> Newer(Read, health[p])]]
  /\ UNCHANGED <<now, file, loaded, health, saved, behind>>

(* The file is replaced in one rename. *)
Write(p, a) ==
  /\ agent[p][a].at = "merged"
  /\ file' = agent[p][a].merged
  /\ saved' = [saved EXCEPT ![p] = agent[p][a].ours]
  /\ behind' = [behind EXCEPT ![p] = FALSE]
  /\ agent' = [agent EXCEPT ![p][a] = Idle]
  /\ UNCHANGED <<now, loaded, health>>

WriteFails(p, a) ==
  /\ agent[p][a].at = "merged"
  /\ behind' = [behind EXCEPT ![p] = TRUE]
  /\ agent' = [agent EXCEPT ![p][a] = Idle]
  /\ UNCHANGED <<now, file, loaded, health, saved>>

(* A process ends, or crashes, at any step; another takes its place. *)
Restart(p) ==
  /\ loaded[p]
  /\ loaded' = [loaded EXCEPT ![p] = FALSE]
  /\ health' = [health EXCEPT ![p] = [h \in Hosts |-> Unknown]]
  /\ saved' = [saved EXCEPT ![p] = [h \in Hosts |-> Unknown]]
  /\ agent' = [agent EXCEPT ![p] = [a \in Agents |-> Idle]]
  /\ behind' = [behind EXCEPT ![p] = FALSE]
  /\ UNCHANGED <<now, file>>

Tick ==
  /\ now < MaxTime /\ now' = now + 1
  /\ UNCHANGED <<file, loaded, health, saved, agent, behind>>

Init ==
  /\ now = FirstMoment
  /\ file \in [Hosts -> Saved]
  /\ loaded = [p \in Procs |-> FALSE]
  /\ health = [p \in Procs |-> [h \in Hosts |-> Unknown]]
  /\ saved = health
  /\ agent = [p \in Procs |-> [a \in Agents |-> Idle]]
  /\ behind = [p \in Procs |-> FALSE]

Next ==
  \/ \E p \in Procs :
       \/ Load(p) \/ Restart(p)
       \/ \E a \in Agents :
            Update(p, a) \/ Skip(p, a) \/ Merge(p, a) \/ Write(p, a) \/ WriteFails(p, a)
  \/ Tick

Spec == Init /\ [][Next]_mvars

(***************************************************************************)
(* Properties                                                              *)
(***************************************************************************)

(* The file still has a state that was in it before the program first ran, *)
(* with a time ahead of the clock: read counts it as newer than whatever   *)
(* the process learns before that time, and keeps it.                      *)
FoundAhead(s) == \E f \in Saved : Latest(f) > FirstMoment /\ s \in {f, Cut(f)}

(* A hold that is not over is the same to one who reads both states. *)
SameHold(s, t) ==
  Cut(s).until = Cut(t).until \/ (Cut(s).until <= now /\ Cut(t).until <= now)

(* The states of one process, whose requests report changes in any order:  *)
(* when every change was handled and none failed to be written, the file   *)
(* has every hold as memory has it, and no success that is much older,     *)
(* for each mirror but one whose state in the file is still as it was      *)
(* found, ahead of the clock.  A damaged file, or one that is ahead, keeps *)
(* no mirror out of use for longer than a hold may last.                   *)
FileCatchesUp ==
  \A p \in Procs, h \in Hosts :
    /\ (\A a \in Agents : agent[p][a] = Idle) /\ ~behind[p] /\ Latest(health[p][h]) # 0
       /\ ~FoundAhead(file[h]) =>
         /\ SameHold(file[h], health[p][h])
         /\ health[p][h].ok # 0 =>
              file[h].ok # 0 /\ health[p][h].ok < file[h].ok + SaveEvery
    /\ health[p][h].until <= now + Skew + MaxHold

(* "Another process may have learned something newer since this one read   *)
(* the file; the newer state of each mirror wins": of no mirror does the   *)
(* file have an older state than some process has written to it.           *)
NewerStateWins ==
  \A p \in Procs, h \in Hosts :
    Applies(saved[p][h]) => Latest(file[h]) >= Latest(saved[p][h])
=============================================================================
