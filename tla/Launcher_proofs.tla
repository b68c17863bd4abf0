-------------------------- MODULE Launcher_proofs ---------------------------
(***************************************************************************)
(* What a launcher starts, and that it starts, for any number of launchers *)
(* and releases.  The proof turns on what current.json can name: since a   *)
(* binary is verified before it is placed and placed before it is named,   *)
(* nothing but damage from outside makes a recorded binary unusable.       *)
(***************************************************************************)
EXTENDS Launcher, TLAPS

Installed == [tag : Releases, digest : {"release"}]

Later == {"asking", "checking", "downloading", "verifying", "placing", "recording"}
Asked == {"checking", "downloading", "verifying", "placing", "recording"}

Types ==
  /\ latest \in Releases
  /\ meta \in Installed \cup {None}
  /\ binary \in [Releases -> Contents \cup {None}]
  /\ at \in [Launchers -> {"idle", "reading", "hashing", "runs", "failed"} \cup Later]
  /\ current \in [Launchers -> Installed \cup {None}]
  /\ cached \in [Launchers -> Installed \cup {None}]
  /\ want \in [Launchers -> Releases \cup {None}]
  /\ work \in [Launchers -> Contents \cup {None}]
  /\ ran \in [Launchers -> Installed \cup {None}]
  /\ recorded \in BOOLEAN
  /\ entitled \in [Launchers -> BOOLEAN]

(* A launcher that was told of a release was told of the newest. *)
KnowsRelease == \A l \in Launchers : at[l] \in Asked => want[l] \in Releases

(* What is placed was verified. *)
PlacesVerified == \A l \in Launchers : at[l] \in {"placing", "recording"} => work[l] = "release"

(* Releases are known in the order they come out, and none older than the  *)
(* cached one is started.                                                  *)
OrderOf(l) ==
  /\ current[l] # None => current[l].tag <= latest
  /\ cached[l] # None => cached[l].tag <= latest
  /\ want[l] # None => want[l] <= latest
  /\ at[l] \in Asked /\ cached[l] # None => cached[l].tag <= want[l]
  /\ at[l] \in {"reading", "hashing"} => cached[l] = None
  /\ at[l] \in {"reading", "hashing"} \cup Later => ran[l] = None
  /\ ran[l] # None /\ cached[l] # None => ran[l].tag >= cached[l].tag

NoneFromFuture ==
  /\ meta # None => meta.tag <= latest
  /\ \A l \in Launchers : OrderOf(l)

(* The binary that current.json names stays usable. *)
RecordedIsUsable == recorded => meta # None /\ binary[meta.tag] = "release"

(* A launcher that is entitled to start has a binary at every step. *)
EntitledHasBinary ==
  \A l \in Launchers : entitled[l] =>
    /\ recorded /\ at[l] # "failed"
    /\ at[l] = "hashing" => current[l] # None /\ binary[current[l].tag] = "release"
    /\ at[l] \in Later => cached[l] # None

LauncherInv ==
  /\ Types /\ KnowsRelease /\ PlacesVerified /\ NoneFromFuture
  /\ RecordedIsUsable /\ EntitledHasBinary

(* What is recorded names a release, and is not nothing. *)
LEMMA InstalledFacts ==
  /\ \A m \in Installed : m # None /\ m.tag \in Releases /\ m.digest = "release"
  /\ \A r \in Releases : /\ r \in Nat /\ r # None
                         /\ [tag |-> r, digest |-> "release"] \in Installed
  /\ 1 \in Releases
  /\ None \notin Installed
BY ReleaseAssumption, NoneAssumption DEF Installed, Releases, Contents

(* The cache is empty in the beginning. *)
LEMMA InitEstablishes == Init => LauncherInv
<1> SUFFICES ASSUME Init
             PROVE  LauncherInv
  OBVIOUS
<1>1. Types
  BY InstalledFacts DEF Init, Types
<1>2. QED
  BY <1>1 DEF Init, LauncherInv, KnowsRelease, PlacesVerified, NoneFromFuture,
       OrderOf, RecordedIsUsable, EntitledHasBinary, Later, Asked

(* Every step keeps the types. *)
LEMMA TypesAreKept == LauncherInv /\ [Next]_nvars => Types'
<1> SUFFICES ASSUME LauncherInv, [Next]_nvars
             PROVE  Types'
  OBVIOUS
<1>0. Types /\ KnowsRelease /\ PlacesVerified
  BY DEF LauncherInv
<1> USE <1>0, InstalledFacts DEF Types, Later
<1>1. ASSUME NEW l \in Launchers, Start(l) PROVE Types'
  BY <1>1 DEF Start
<1>2. ASSUME NEW l \in Launchers, ReadMeta(l) PROVE Types'
  BY <1>2 DEF ReadMeta
<1>3. ASSUME NEW l \in Launchers, HashCached(l) PROVE Types'
  BY <1>3 DEF HashCached
<1>4. ASSUME NEW l \in Launchers, AskRelease(l) PROVE Types'
  BY <1>4 DEF AskRelease, FallBack, End
<1>5. ASSUME NEW l \in Launchers, CheckCurrent(l) PROVE Types'
  BY <1>5 DEF CheckCurrent, End
<1>6. ASSUME NEW l \in Launchers, Download(l) PROVE Types'
  BY <1>6 DEF Download, FallBack, End
<1>7. ASSUME NEW l \in Launchers, Verify(l) PROVE Types'
  <2>1. at' \in [Launchers -> {"idle", "reading", "hashing", "runs", "failed"} \cup Later]
    BY <1>7 DEF Verify, FallBack, End
  <2>2. ran' \in [Launchers -> Installed \cup {None}]
    BY <1>7 DEF Verify, FallBack, End
  <2>3. QED
    BY <1>7, <2>1, <2>2 DEF Verify
<1>8. ASSUME NEW l \in Launchers, Place(l) PROVE Types'
  <2>1. want[l] \in Releases /\ work[l] = "release"
    BY <1>8 DEF Place, KnowsRelease, PlacesVerified, Asked
  <2>2. binary' \in [Releases -> Contents \cup {None}]
    BY <1>8, <2>1 DEF Place, Contents
  <2>3. at' \in [Launchers -> {"idle", "reading", "hashing", "runs", "failed"} \cup Later]
    BY <1>8 DEF Place, FallBack, End
  <2>4. ran' \in [Launchers -> Installed \cup {None}]
    BY <1>8 DEF Place, FallBack, End
  <2>5. QED
    BY <1>8, <2>2, <2>3, <2>4 DEF Place
<1>9. ASSUME NEW l \in Launchers, Record(l) PROVE Types'
  <2>1. want[l] \in Releases /\ work[l] = "release"
    BY <1>9 DEF Record, KnowsRelease, PlacesVerified, Asked
  <2>2. New(l) \in Installed
    BY <2>1 DEF New
  <2>3. recorded' \in BOOLEAN /\ entitled' \in [Launchers -> BOOLEAN]
    BY <1>9 DEF Record, Usable
  <2>4. QED
    BY <1>9, <2>2, <2>3 DEF Record, End
<1>10. ASSUME NEW l \in Launchers, Crash(l) PROVE Types'
  BY <1>10 DEF Crash
<1>11. CASE Damage
  <2>1. binary' \in [Releases -> Contents \cup {None}]
    BY <1>11 DEF Damage, Contents
  <2>2. meta' \in Installed \cup {None}
    BY <1>11 DEF Damage
  <2>3. QED
    BY <1>11, <2>1, <2>2 DEF Damage
<1>12. CASE Publish
  BY <1>12, ReleaseAssumption DEF Publish, Releases
<1>13. CASE UNCHANGED nvars
  BY <1>13 DEF nvars
<1>14. QED
  BY <1>1, <1>2, <1>3, <1>4, <1>5, <1>6, <1>7, <1>8, <1>9, <1>10, <1>11, <1>12, <1>13 DEF Next





(* Every step keeps what a launcher knows of its release and download. *)
LEMMA WorkIsKept ==
  LauncherInv /\ [Next]_nvars => (KnowsRelease /\ PlacesVerified)'
<1> SUFFICES ASSUME LauncherInv, [Next]_nvars
             PROVE  (KnowsRelease /\ PlacesVerified)'
  OBVIOUS
<1>0. LauncherInv /\ Types'
  BY TypesAreKept
<1> USE <1>0, InstalledFacts DEF LauncherInv, Types, KnowsRelease, PlacesVerified, Later, Asked
<1>1. ASSUME NEW l \in Launchers, Start(l) PROVE (KnowsRelease /\ PlacesVerified)'
  BY <1>1 DEF Start
<1>2. ASSUME NEW l \in Launchers, ReadMeta(l) PROVE (KnowsRelease /\ PlacesVerified)'
  BY <1>2 DEF ReadMeta
<1>3. ASSUME NEW l \in Launchers, HashCached(l) PROVE (KnowsRelease /\ PlacesVerified)'
  BY <1>3 DEF HashCached
<1>4. ASSUME NEW l \in Launchers, AskRelease(l) PROVE (KnowsRelease /\ PlacesVerified)'
  BY <1>4 DEF AskRelease, FallBack, End
<1>5. ASSUME NEW l \in Launchers, CheckCurrent(l) PROVE (KnowsRelease /\ PlacesVerified)'
  BY <1>5 DEF CheckCurrent, End
<1>6. ASSUME NEW l \in Launchers, Download(l) PROVE (KnowsRelease /\ PlacesVerified)'
  BY <1>6 DEF Download, FallBack, End
<1>7. ASSUME NEW l \in Launchers, Verify(l) PROVE (KnowsRelease /\ PlacesVerified)'
  BY <1>7 DEF Verify, FallBack, End
<1>8. ASSUME NEW l \in Launchers, Place(l) PROVE (KnowsRelease /\ PlacesVerified)'
  BY <1>8 DEF Place, FallBack, End
<1>9. ASSUME NEW l \in Launchers, Record(l) PROVE (KnowsRelease /\ PlacesVerified)'
  BY <1>9 DEF Record, End
<1>10. ASSUME NEW l \in Launchers, Crash(l) PROVE (KnowsRelease /\ PlacesVerified)'
  BY <1>10 DEF Crash
<1>11. CASE Damage
  BY <1>11 DEF Damage
<1>12. CASE Publish
  BY <1>12 DEF Publish
<1>13. CASE UNCHANGED nvars
  BY <1>13 DEF nvars
<1>14. QED
  BY <1>1, <1>2, <1>3, <1>4, <1>5, <1>6, <1>7, <1>8, <1>9, <1>10, <1>11, <1>12, <1>13 DEF Next

(* A launcher that falls back starts the binary it had in the cache. *)
LEMMA FallBackInOrder ==
  ASSUME LauncherInv, NEW l \in Launchers, FallBack(l),
         UNCHANGED <<latest, meta, current, cached, want>>
  PROVE  NoneFromFuture'
<1> USE InstalledFacts DEF LauncherInv, Types, NoneFromFuture
<1> SUFFICES ASSUME NEW k \in Launchers PROVE OrderOf(k)'
  OBVIOUS
<1>1. /\ ran' = [ran EXCEPT ![l] = cached[l]]
      /\ at'[l] \in {"runs", "failed"} /\ \A j \in Launchers \ {l} : at'[j] = at[j]
  BY DEF FallBack, End
<1>2. CASE k = l
  <2>1. cached[l] # None => cached[l].tag \in Nat
    OBVIOUS
  <2>2. QED
    BY <1>1, <1>2, <2>1 DEF OrderOf, Later, Asked
<1>3. CASE k # l
  BY <1>1, <1>3 DEF OrderOf
<1>4. QED
  BY <1>2, <1>3

(* A launcher that goes on has neither started anything nor learnt anything *)
(* but the newest release.                                                  *)
LEMMA GoesOnInOrder ==
  ASSUME LauncherInv, NEW l \in Launchers,
         \E place \in Later : at' = [at EXCEPT ![l] = place], at[l] \in Later,
         want' = [want EXCEPT ![l] = latest] \/ (at[l] \in Asked /\ UNCHANGED want),
         UNCHANGED <<latest, meta, current, cached, ran>>
  PROVE  NoneFromFuture'
<1> USE InstalledFacts DEF LauncherInv, Types, NoneFromFuture
<1> SUFFICES ASSUME NEW k \in Launchers PROVE OrderOf(k)'
  OBVIOUS
<1>1. CASE k = l
  <2>1. at'[l] \in Later /\ ran[l] = None
    BY DEF OrderOf
  <2>2. CASE want' = [want EXCEPT ![l] = latest]
    <3>1. want'[l] = latest /\ latest \in Nat
      BY <2>2
    <3>2. OrderOf(l)'
      BY <2>1, <3>1 DEF OrderOf, Later
    <3>3. QED
      BY <1>1, <3>2
  <2>3. CASE at[l] \in Asked /\ UNCHANGED want
    BY <1>1, <2>1, <2>3 DEF OrderOf, Later
  <2>4. QED
    BY <2>2, <2>3
<1>2. CASE k # l
  BY <1>2 DEF OrderOf
<1>3. QED
  BY <1>1, <1>2

(* Every step keeps the order in which releases are known. *)
LEMMA OrderIsKept ==
  LauncherInv /\ [Next]_nvars => NoneFromFuture'
<1> SUFFICES ASSUME LauncherInv, [Next]_nvars
             PROVE  NoneFromFuture'
  OBVIOUS
<1>0. LauncherInv /\ Types'
  BY TypesAreKept
<1> USE <1>0, InstalledFacts DEF LauncherInv, Types, KnowsRelease, PlacesVerified,
      NoneFromFuture, OrderOf, Later, Asked
<1>1. ASSUME NEW l \in Launchers, Start(l) PROVE NoneFromFuture'
  BY <1>1 DEF Start
<1>2. ASSUME NEW l \in Launchers, ReadMeta(l) PROVE NoneFromFuture'
  BY <1>2 DEF ReadMeta
<1>3. ASSUME NEW l \in Launchers, HashCached(l) PROVE NoneFromFuture'
  BY <1>3 DEF HashCached
<1>4. ASSUME NEW l \in Launchers, AskRelease(l) PROVE NoneFromFuture'
  <2>1. CASE FallBack(l) /\ UNCHANGED want
    BY <1>4, <2>1, FallBackInOrder DEF AskRelease
  <2>2. CASE ~(FallBack(l) /\ UNCHANGED want)
    <3>1. /\ want' = [want EXCEPT ![l] = latest]
          /\ at' = [at EXCEPT ![l] = "checking"] /\ UNCHANGED ran
      BY <1>4, <2>2 DEF AskRelease
    <3>2. QED
      BY <1>4, <3>1, GoesOnInOrder DEF AskRelease
  <2>3. QED
    BY <2>1, <2>2
<1>5. ASSUME NEW l \in Launchers, CheckCurrent(l) PROVE NoneFromFuture'
  <2>1. meta' # None => meta'.tag <= latest'
    BY <1>5 DEF CheckCurrent, End, IsInstalled
  <2> SUFFICES ASSUME NEW k \in Launchers PROVE OrderOf(k)'
    BY <2>1
  <2>2. CASE k = l
    BY <1>5, <2>2 DEF CheckCurrent, End, IsInstalled
  <2>3. CASE k # l
    BY <1>5, <2>3 DEF CheckCurrent, End, IsInstalled
  <2>4. QED
    BY <2>2, <2>3
<1>6. ASSUME NEW l \in Launchers, Download(l) PROVE NoneFromFuture'
  <2>1. CASE FallBack(l)
    BY <1>6, <2>1, FallBackInOrder DEF Download
  <2>2. CASE ~FallBack(l)
    BY <1>6, <2>2, GoesOnInOrder DEF Download
  <2>3. QED
    BY <2>1, <2>2
<1>7. ASSUME NEW l \in Launchers, Verify(l) PROVE NoneFromFuture'
  <2>1. CASE FallBack(l)
    BY <1>7, <2>1, FallBackInOrder DEF Verify
  <2>2. CASE ~FallBack(l)
    BY <1>7, <2>2, GoesOnInOrder DEF Verify
  <2>3. QED
    BY <2>1, <2>2
<1>8. ASSUME NEW l \in Launchers, Place(l) PROVE NoneFromFuture'
  <2>1. CASE FallBack(l)
    BY <1>8, <2>1, FallBackInOrder DEF Place
  <2>2. CASE ~FallBack(l)
    BY <1>8, <2>2, GoesOnInOrder DEF Place
  <2>3. QED
    BY <2>1, <2>2
<1>9. ASSUME NEW l \in Launchers, Record(l) PROVE NoneFromFuture'
  <2>1. meta' # None => meta'.tag <= latest'
    BY <1>9 DEF Record, End, New
  <2> SUFFICES ASSUME NEW k \in Launchers PROVE OrderOf(k)'
    BY <2>1
  <2>2. CASE k = l
    BY <1>9, <2>2 DEF Record, End, New
  <2>3. CASE k # l
    BY <1>9, <2>3 DEF Record, End, New
  <2>4. QED
    BY <2>2, <2>3
<1>10. ASSUME NEW l \in Launchers, Crash(l) PROVE NoneFromFuture'
  BY <1>10 DEF Crash
<1>11. CASE Damage
  BY <1>11 DEF Damage
<1>12. CASE Publish
  BY <1>12 DEF Publish, Releases
<1>13. CASE UNCHANGED nvars
  BY <1>13 DEF nvars
<1>14. QED
  BY <1>1, <1>2, <1>3, <1>4, <1>5, <1>6, <1>7, <1>8, <1>9, <1>10, <1>11, <1>12, <1>13 DEF Next

(* Every step keeps the recorded binary, or forgets that there is one. *)
LEMMA BinaryIsKept ==
  LauncherInv /\ [Next]_nvars => (RecordedIsUsable /\ EntitledHasBinary)'
<1> SUFFICES ASSUME LauncherInv, [Next]_nvars
             PROVE  (RecordedIsUsable /\ EntitledHasBinary)'
  OBVIOUS
<1>0. LauncherInv /\ Types'
  BY TypesAreKept
<1> USE <1>0, InstalledFacts DEF LauncherInv, Types, KnowsRelease, PlacesVerified,
      RecordedIsUsable, EntitledHasBinary, Later, Asked
<1>1. ASSUME NEW l \in Launchers, Start(l) PROVE (RecordedIsUsable /\ EntitledHasBinary)'
  BY <1>1 DEF Start
<1>2. ASSUME NEW l \in Launchers, ReadMeta(l) PROVE (RecordedIsUsable /\ EntitledHasBinary)'
  BY <1>2 DEF ReadMeta
<1>3. ASSUME NEW l \in Launchers, HashCached(l) PROVE (RecordedIsUsable /\ EntitledHasBinary)'
  BY <1>3 DEF HashCached, Usable
<1>4. ASSUME NEW l \in Launchers, AskRelease(l) PROVE (RecordedIsUsable /\ EntitledHasBinary)'
  BY <1>4 DEF AskRelease, FallBack, End
<1>5. ASSUME NEW l \in Launchers, CheckCurrent(l) PROVE (RecordedIsUsable /\ EntitledHasBinary)'
  BY <1>5 DEF CheckCurrent, End, IsInstalled, Usable
<1>6. ASSUME NEW l \in Launchers, Download(l) PROVE (RecordedIsUsable /\ EntitledHasBinary)'
  BY <1>6 DEF Download, FallBack, End
<1>7. ASSUME NEW l \in Launchers, Verify(l) PROVE (RecordedIsUsable /\ EntitledHasBinary)'
  BY <1>7 DEF Verify, FallBack, End
<1>8. ASSUME NEW l \in Launchers, Place(l) PROVE (RecordedIsUsable /\ EntitledHasBinary)'
  BY <1>8 DEF Place, FallBack, End
<1>9. ASSUME NEW l \in Launchers, Record(l) PROVE (RecordedIsUsable /\ EntitledHasBinary)'
  BY <1>9 DEF Record, End, New, Usable
<1>10. ASSUME NEW l \in Launchers, Crash(l) PROVE (RecordedIsUsable /\ EntitledHasBinary)'
  BY <1>10 DEF Crash
<1>11. CASE Damage
  BY <1>11 DEF Damage
<1>12. CASE Publish
  BY <1>12 DEF Publish
<1>13. CASE UNCHANGED nvars
  BY <1>13 DEF nvars
<1>14. QED
  BY <1>1, <1>2, <1>3, <1>4, <1>5, <1>6, <1>7, <1>8, <1>9, <1>10, <1>11, <1>12, <1>13 DEF Next

(* The invariant holds in every state. *)
LEMMA AlwaysInv == Spec => []LauncherInv
<1>1. Init => LauncherInv
  BY InitEstablishes
<1>2. LauncherInv /\ [Next]_nvars => LauncherInv'
  BY TypesAreKept, WorkIsKept, OrderIsKept, BinaryIsKept DEF LauncherInv
<1>3. QED
  BY <1>1, <1>2, PTL DEF Spec

(* Whoever installed a binary, and however downloads and the cache were    *)
(* damaged, a launcher starts only a verified one (verify and install of   *)
(* lib/launcher.js), and never an older one than it had in the cache.      *)
THEOREM VerifiedRuns == Spec => []OnlyVerifiedRuns
<1>1. LauncherInv => OnlyVerifiedRuns
  BY InstalledFacts DEF LauncherInv, Types, NoneFromFuture, OrderOf, OnlyVerifiedRuns
<1>2. QED
  BY <1>1, AlwaysInv, PTL

(* A launcher with a recorded binary starts, whatever fails and whoever    *)
(* crashes, as long as the cache is not damaged from outside and Windows   *)
(* refuses no file (the fallbacks of run in lib/launcher.js).              *)
THEOREM RecordedStarts == Spec => []CachedStarts
<1>1. LauncherInv => CachedStarts
  BY DEF LauncherInv, EntitledHasBinary, CachedStarts
<1>2. QED
  BY <1>1, AlwaysInv, PTL
=============================================================================
