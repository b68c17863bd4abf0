------------------------------ MODULE Launcher ------------------------------
(***************************************************************************)
(* The npm launcher: launchers that start side by side share one cache,    *)
(* where current.json names the installed binary.  Each asks for the       *)
(* newest release, installs it if the cache does not have it, and falls    *)
(* back to the binary it found in the cache (lib/launcher.js).             *)
(*                                                                         *)
(* A digest is the content it is the digest of: the one of the release, or *)
(* another one.  Every launcher runs on the same target.                   *)
(***************************************************************************)
EXTENDS Naturals

CONSTANTS
  Launchers,   \* the launchers
  MaxRelease,  \* bound on the releases
  None

Releases == 1..MaxRelease
Contents == {"release", "other"}

ASSUME ReleaseAssumption == MaxRelease \in Nat \ {0}
ASSUME NoneAssumption == None \notin [tag : Releases, digest : Contents] \cup Releases

VARIABLES
  latest,    \* the newest release
  meta,      \* current.json: the binary's release and digest
  binary,    \* the content of each release's binary
  at,        \* where each launcher is
  current,   \* what it read of current.json
  cached,    \* the verified binary that it may fall back to
  want,      \* the release it was told of
  work,      \* the content it has downloaded
  ran,       \* the binary it starts, as it was verified
  recorded,  \* history: a launcher recorded a binary, and nothing was damaged since
  entitled   \* history: this held when the launcher started, and nothing was in its way

nvars == <<latest, meta, binary, at, current, cached, want, work, ran, recorded, entitled>>

(* current.json names a binary that has the digest it was recorded with. *)
Usable(m) == m # None /\ binary[m.tag] = m.digest

End(l, what) ==
  /\ at' = [at EXCEPT ![l] = IF what = None THEN "failed" ELSE "runs"]
  /\ ran' = [ran EXCEPT ![l] = what]

(* Whatever goes wrong with the update, the cached binary is started. *)
FallBack(l) == End(l, cached[l])

(* Another launcher replaces current.json, which Windows lets nobody read. *)
SharingMeta(l) == \E k \in Launchers \ {l} : at[k] = "recording"
SharingBinary(l) == \E k \in Launchers \ {l} : at[k] = "placing"

Start(l) ==
  /\ at[l] \in {"idle", "runs", "failed"}
  /\ at' = [at EXCEPT ![l] = "reading"]
  /\ entitled' = [entitled EXCEPT ![l] = recorded]
  /\ current' = [current EXCEPT ![l] = None] /\ cached' = [cached EXCEPT ![l] = None]
  /\ want' = [want EXCEPT ![l] = None] /\ work' = [work EXCEPT ![l] = None]
  /\ ran' = [ran EXCEPT ![l] = None]
  /\ UNCHANGED <<latest, meta, binary, recorded>>

ReadMeta(l) ==
  /\ at[l] = "reading"
  /\ at' = [at EXCEPT ![l] = "hashing"]
  /\ \/ current' = [current EXCEPT ![l] = meta] /\ UNCHANGED entitled
     \/ /\ SharingMeta(l)
        /\ entitled' = [entitled EXCEPT ![l] = FALSE] /\ UNCHANGED current
  /\ UNCHANGED <<latest, meta, binary, cached, want, work, ran, recorded>>

HashCached(l) ==
  /\ at[l] = "hashing"
  /\ at' = [at EXCEPT ![l] = "asking"]
  /\ \/ /\ cached' = [cached EXCEPT ![l] = IF Usable(current[l]) THEN current[l] ELSE None]
        /\ UNCHANGED entitled
     \/ /\ SharingBinary(l)
        /\ entitled' = [entitled EXCEPT ![l] = FALSE] /\ UNCHANGED cached
  /\ UNCHANGED <<latest, meta, binary, current, want, work, ran, recorded>>

(* The release and its checksums are fetched, or something of them fails,  *)
(* is missing, or disagrees with the rest.                                 *)
AskRelease(l) ==
  /\ at[l] = "asking"
  /\ \/ /\ want' = [want EXCEPT ![l] = latest]
        /\ at' = [at EXCEPT ![l] = "checking"] /\ UNCHANGED ran
     \/ FallBack(l) /\ UNCHANGED want
  /\ UNCHANGED <<latest, meta, binary, current, cached, work, recorded, entitled>>

(* Another launcher may have installed the release: current.json is read   *)
(* once more, and its binary is started if it is that release's.           *)
IsInstalled(r) == Usable(meta) /\ meta = [tag |-> r, digest |-> "release"]

CheckCurrent(l) ==
  /\ at[l] = "checking"
  /\ \/ IsInstalled(want[l]) /\ End(l, meta)
     \/ /\ ~IsInstalled(want[l]) \/ SharingMeta(l) \/ SharingBinary(l)
        /\ at' = [at EXCEPT ![l] = "downloading"] /\ UNCHANGED ran
  /\ UNCHANGED <<latest, meta, binary, current, cached, want, work, recorded, entitled>>

Download(l) ==
  /\ at[l] = "downloading"
  /\ \/ /\ \E c \in Contents : work' = [work EXCEPT ![l] = c]
        /\ at' = [at EXCEPT ![l] = "verifying"] /\ UNCHANGED ran
     \/ FallBack(l) /\ UNCHANGED work
  /\ UNCHANGED <<latest, meta, binary, current, cached, want, recorded, entitled>>

(* Mutant of Verify: the archive's checksum is not compared. *)
VerifyNothing(l) ==
  /\ at[l] = "verifying"
  /\ at' = [at EXCEPT ![l] = "placing"]
  /\ UNCHANGED <<latest, meta, binary, current, cached, want, work, ran, recorded, entitled>>

(* The archive's checksum, and that it holds a binary. *)
Verify(l) ==
  /\ at[l] = "verifying"
  /\ \/ /\ work[l] = "release"
        /\ at' = [at EXCEPT ![l] = "placing"] /\ UNCHANGED ran
     \/ FallBack(l)
  /\ UNCHANGED <<latest, meta, binary, current, cached, want, work, recorded, entitled>>

New(l) == [tag |-> want[l], digest |-> work[l]]

(* Mutant of Place: current.json names the binary before it is there. *)
PlaceAfterRecording(l) ==
  /\ at[l] = "placing"
  /\ IF meta # New(l)
     THEN meta' = New(l) /\ UNCHANGED <<at, binary>>
     ELSE /\ binary' = [binary EXCEPT ![want[l]] = work[l]]
          /\ at' = [at EXCEPT ![l] = "recording"] /\ UNCHANGED meta
  /\ UNCHANGED <<latest, current, cached, want, work, ran, recorded, entitled>>

(* The binary is renamed into place.  If a file that is in use cannot be   *)
(* replaced, it must have the same content.                                *)
Place(l) ==
  /\ at[l] = "placing"
  /\ \/ /\ binary' = [binary EXCEPT ![want[l]] = work[l]]
        /\ at' = [at EXCEPT ![l] = "recording"] /\ UNCHANGED ran
     \/ /\ binary[want[l]] = work[l]
        /\ at' = [at EXCEPT ![l] = "recording"] /\ UNCHANGED <<binary, ran>>
     \/ FallBack(l) /\ UNCHANGED binary
  /\ UNCHANGED <<latest, meta, current, cached, want, work, recorded, entitled>>

(* current.json is renamed into place, or left as it is after ten sharing  *)
(* errors; the new binary is started all the same.                         *)
Record(l) ==
  /\ at[l] = "recording"
  /\ \/ /\ meta' = New(l)
        /\ recorded' = Usable(New(l))
        /\ entitled' = [k \in Launchers |-> entitled[k] /\ recorded']
     \/ UNCHANGED <<meta, recorded, entitled>>
  /\ End(l, New(l))
  /\ UNCHANGED <<latest, binary, current, cached, want, work>>

(* A launcher is killed at any step; what it had downloaded is of no use. *)
Crash(l) ==
  /\ at[l] \notin {"idle", "runs", "failed"}
  /\ at' = [at EXCEPT ![l] = "idle"]
  /\ UNCHANGED <<latest, meta, binary, current, cached, want, work, ran, recorded, entitled>>

(* Somebody else deletes or changes a file of the cache. *)
Damage ==
  /\ \/ \E r \in Releases, c \in {None, "other"} : binary' = [binary EXCEPT ![r] = c] /\ UNCHANGED meta
     \/ meta' = None /\ UNCHANGED binary
  /\ recorded' = FALSE
  /\ entitled' = [l \in Launchers |-> FALSE]
  /\ UNCHANGED <<latest, at, current, cached, want, work, ran>>

Publish ==
  /\ latest < MaxRelease /\ latest' = latest + 1
  /\ UNCHANGED <<meta, binary, at, current, cached, want, work, ran, recorded, entitled>>

Init ==
  /\ latest = 1 /\ meta = None /\ binary = [r \in Releases |-> None]
  /\ at = [l \in Launchers |-> "idle"]
  /\ current = [l \in Launchers |-> None] /\ cached = current /\ want = current
  /\ work = current /\ ran = current
  /\ recorded = FALSE /\ entitled = [l \in Launchers |-> FALSE]

Next ==
  \/ \E l \in Launchers :
       \/ Start(l) \/ ReadMeta(l) \/ HashCached(l) \/ AskRelease(l) \/ CheckCurrent(l)
       \/ Download(l) \/ Verify(l) \/ Place(l) \/ Record(l) \/ Crash(l)
  \/ Damage \/ Publish

Spec == Init /\ [][Next]_nvars

(***************************************************************************)
(* Properties                                                              *)
(***************************************************************************)

(* A launcher starts only what it has found to be a release's binary,      *)
(* whoever installed it, and however downloads and the cache were damaged; *)
(* and never an older one than it had in the cache.                        *)
OnlyVerifiedRuns ==
  \A l \in Launchers : ran[l] # None =>
    ran[l].digest = "release" /\ (cached[l] # None => ran[l].tag >= cached[l].tag)

(* Once a launcher has recorded a binary, every later one starts, online   *)
(* or not and whatever fails or crashes in between, unless somebody        *)
(* damages the cache or Windows refuses it a file.                         *)
CachedStarts == \A l \in Launchers : at[l] = "failed" => ~entitled[l]
=============================================================================
