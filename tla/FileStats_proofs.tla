-------------------------- MODULE FileStats_proofs --------------------------
(***************************************************************************)
(* The slots that calls of FileStats share, for any number of calls and    *)
(* workers, any cache and any budget: the counter of taken slots is the    *)
(* number of workers that work under one, however each of them leaves.     *)
(***************************************************************************)
EXTENDS FileStats, Integers, FiniteSetTheorems, SequenceTheorems, TLAPS

SlotsAssumption == Slots \in Nat

(* The workers that have a slot. *)
Busy == {p \in Calls \X (1..Workers) : worker[p[1]][p[2]] \in {"looking", "fetching"}}

Types ==
  /\ call \in [Calls -> {"idle", "looking", "handing", "closed", "over"}]
  /\ worker \in [Calls -> [1..Workers -> {"none", "ready", "waiting", "looking", "fetching"}]]

(* The counter counts them. *)
SlotsAreCounted ==
  /\ IsFiniteSet(Busy)
  /\ slots = Cardinality(Busy)
  /\ slots <= Slots

(* A call has workers only while it hands out its hashes or waits for them. *)
WorkersEndWithCall ==
  \A c \in Calls : call[c] \notin {"handing", "closed"} =>
    \A w \in 1..Workers : worker[c][w] \in {"none", "ready"}

StatsInv == Types /\ SlotsAreCounted /\ WorkersEndWithCall

(* Without workers no slot is taken. *)
LEMMA InitEstablishes == SlotsAssumption /\ Init => StatsInv
<1> SUFFICES ASSUME SlotsAssumption, Init
             PROVE  StatsInv
  OBVIOUS
<1>1. Types /\ WorkersEndWithCall
  BY DEF Init, Types, WorkersEndWithCall
<1>2. Busy = {}
  BY DEF Init, Busy
<1>3. SlotsAreCounted
  BY <1>2, FS_EmptySet DEF Init, SlotsAreCounted, SlotsAssumption
<1>4. QED
  BY <1>1, <1>3 DEF StatsInv

(* A step of one worker changes the set by that worker alone. *)
LEMMA BusyAfterStep ==
  ASSUME StatsInv, NEW c \in Calls, NEW w \in 1..Workers, NEW state,
         worker' = [worker EXCEPT ![c][w] = state]
  PROVE  Busy' = IF state \in {"looking", "fetching"} THEN Busy \cup {<<c, w>>}
                 ELSE Busy \ {<<c, w>>}
<1>1. \A d \in Calls, v \in 1..Workers :
        worker'[d][v] = IF d = c /\ v = w THEN state ELSE worker[d][v]
  BY DEF StatsInv, Types
<1>2. \A p \in Calls \X (1..Workers) :
        /\ p[1] \in Calls /\ p[2] \in 1..Workers
        /\ p = <<c, w>> <=> p[1] = c /\ p[2] = w
  OBVIOUS
<1>3. \A p \in Calls \X (1..Workers) :
        worker'[p[1]][p[2]] = IF p = <<c, w>> THEN state ELSE worker[p[1]][p[2]]
  BY <1>1, <1>2
<1>4. <<c, w>> \in Calls \X (1..Workers)
  OBVIOUS
<1>5. QED
  BY <1>3, <1>4 DEF Busy

(* A worker that takes a slot is counted. *)
LEMMA SlotTaken ==
  ASSUME SlotsAssumption, StatsInv, NEW c \in Calls, NEW w \in 1..Workers,
         slots < Slots, slots' = slots + 1,
         worker[c][w] = "waiting", worker' = [worker EXCEPT ![c][w] = "looking"]
  PROVE  SlotsAreCounted'
<1>1. Busy' = Busy \cup {<<c, w>>}
  BY BusyAfterStep
<1>2. <<c, w>> \notin Busy
  BY DEF Busy
<1>3. /\ IsFiniteSet(Busy) /\ Cardinality(Busy) \in Nat
      /\ IsFiniteSet(Busy') /\ Cardinality(Busy') = Cardinality(Busy) + 1
  BY <1>1, <1>2, FS_AddElement, FS_CardinalityType DEF StatsInv, SlotsAreCounted
<1>4. QED
  BY <1>3 DEF StatsInv, SlotsAreCounted, SlotsAssumption

(* A worker that gives its slot back is counted no more. *)
LEMMA SlotReturned ==
  ASSUME SlotsAssumption, StatsInv, NEW c \in Calls, NEW w \in 1..Workers, slots' = slots - 1,
         worker[c][w] \in {"looking", "fetching"}, worker' = [worker EXCEPT ![c][w] = "ready"]
  PROVE  SlotsAreCounted'
<1>1. Busy' = Busy \ {<<c, w>>}
  BY BusyAfterStep
<1>2. <<c, w>> \in Busy
  BY DEF Busy
<1>3. /\ IsFiniteSet(Busy) /\ Cardinality(Busy) \in Nat
      /\ IsFiniteSet(Busy') /\ Cardinality(Busy') = Cardinality(Busy) - 1
  BY <1>1, <1>2, FS_RemoveElement, FS_CardinalityType DEF StatsInv, SlotsAreCounted
<1>4. QED
  BY <1>3 DEF StatsInv, SlotsAreCounted, SlotsAssumption

(* The others are the same workers as before. *)
LEMMA SlotsKept ==
  ASSUME StatsInv, UNCHANGED slots, Busy' = Busy
  PROVE  SlotsAreCounted'
BY DEF StatsInv, SlotsAreCounted

(* However a worker goes on, the counter follows the slots it has. *)
LEMMA StepKeepsCount == SlotsAssumption /\ StatsInv /\ [Next]_svars => SlotsAreCounted'
<1> SUFFICES ASSUME SlotsAssumption, StatsInv, [Next]_svars
             PROVE  SlotsAreCounted'
  OBVIOUS
<1>1. ASSUME UNCHANGED <<slots, worker>> PROVE SlotsAreCounted'
  BY <1>1, SlotsKept DEF Busy
<1>2. ASSUME NEW c \in Calls, StartWorkers(c) PROVE SlotsAreCounted'
  <2>1. CASE UNCHANGED worker
    BY <1>1, <1>2, <2>1 DEF StartWorkers
  <2>2. CASE worker' = [worker EXCEPT ![c] =
                          [w \in 1..Workers |-> IF w <= Len(pending[c]) THEN "ready" ELSE "none"]]
    <3>1. \A p \in Calls \X (1..Workers) :
            /\ p[1] \in Calls /\ p[2] \in 1..Workers
            /\ p[1] # c => worker'[p[1]][p[2]] = worker[p[1]][p[2]]
            /\ p[1] = c => /\ worker'[p[1]][p[2]] \in {"ready", "none"}
                           /\ worker[p[1]][p[2]] \in {"ready", "none"}
      BY <1>2, <2>2 DEF StartWorkers, StatsInv, Types, WorkersEndWithCall
    <3>2. Busy' = Busy
      BY <3>1 DEF Busy
    <3>3. QED
      BY <1>2, <3>2, SlotsKept DEF StartWorkers
  <2>3. QED
    BY <1>2, <2>1, <2>2 DEF StartWorkers
<1>3. ASSUME NEW c \in Calls, NEW w \in 1..Workers, HandOver(c, w) PROVE SlotsAreCounted'
  <2>1. Busy' = Busy \ {<<c, w>>} /\ <<c, w>> \notin Busy
    <3>1. worker[c][w] = "ready" /\ worker' = [worker EXCEPT ![c][w] = "waiting"]
      BY <1>3 DEF HandOver
    <3>2. QED
      BY <3>1, BusyAfterStep DEF Busy
  <2>2. QED
    BY <1>3, <2>1, SlotsKept DEF HandOver
<1>4. ASSUME NEW c \in Calls, NEW w \in 1..Workers, TakeSlot(c, w) PROVE SlotsAreCounted'
  BY <1>4, SlotTaken DEF TakeSlot
<1>5. ASSUME NEW c \in Calls, NEW w \in 1..Workers, LeaveSlots(c, w) PROVE SlotsAreCounted'
  <2>1. Busy' = Busy \ {<<c, w>>} /\ <<c, w>> \notin Busy
    <3>1. worker[c][w] = "waiting" /\ worker' = [worker EXCEPT ![c][w] = "ready"]
      BY <1>5 DEF LeaveSlots
    <3>2. QED
      BY <3>1, BusyAfterStep DEF Busy
  <2>2. QED
    BY <1>5, <2>1, SlotsKept DEF LeaveSlots
<1>6. ASSUME NEW c \in Calls, NEW w \in 1..Workers, LookAgain(c, w) PROVE SlotsAreCounted'
  <2>1. CASE Hit(job[c][w])
    BY <1>6, <2>1, SlotReturned DEF LookAgain
  <2>2. CASE ~Hit(job[c][w])
    <3>1. worker[c][w] = "looking" /\ worker' = [worker EXCEPT ![c][w] = "fetching"]
          /\ UNCHANGED slots
      BY <1>6, <2>2 DEF LookAgain
    <3>2. Busy' = Busy \cup {<<c, w>>} /\ <<c, w>> \in Busy
      BY <3>1, BusyAfterStep DEF Busy
    <3>3. QED
      BY <3>1, <3>2, SlotsKept
  <2>3. QED
    BY <2>1, <2>2
<1>7. ASSUME NEW c \in Calls, NEW w \in 1..Workers, Fetched(c, w) PROVE SlotsAreCounted'
  BY <1>7, SlotReturned DEF Fetched
<1>8. ASSUME NEW c \in Calls, NEW w \in 1..Workers, FetchFails(c, w) PROVE SlotsAreCounted'
  BY <1>8, SlotReturned DEF FetchFails
<1>9. QED
  <2>1. \/ UNCHANGED <<slots, worker>>
        \/ \E c \in Calls : \/ StartWorkers(c)
                            \/ \E w \in 1..Workers : HandOver(c, w) \/ WorkerStep(c, w)
    BY DEF Next, svars, Ask, Look, CloseJobs, Finish, BudgetEnds, Cancel, Tick
  <2>2. QED
    BY <1>1, <1>2, <1>3, <1>4, <1>5, <1>6, <1>7, <1>8, <2>1 DEF WorkerStep

(* A call is over only when its workers are, and has none before it starts them. *)
LEMMA StepKeepsWorkers == StatsInv /\ [Next]_svars => (Types /\ WorkersEndWithCall)'
<1> SUFFICES ASSUME StatsInv, [Next]_svars
             PROVE  (Types /\ WorkersEndWithCall)'
  OBVIOUS
<1> USE DEF StatsInv, Types, WorkersEndWithCall
<1>1. ASSUME UNCHANGED <<call, worker>> PROVE (Types /\ WorkersEndWithCall)'
  BY <1>1
<1>2. ASSUME NEW c \in Calls, Ask(c) PROVE (Types /\ WorkersEndWithCall)'
  BY <1>2 DEF Ask
<1>3. ASSUME NEW c \in Calls, StartWorkers(c) PROVE (Types /\ WorkersEndWithCall)'
  BY <1>3 DEF StartWorkers
<1>4. ASSUME NEW c \in Calls, CloseJobs(c) PROVE (Types /\ WorkersEndWithCall)'
  BY <1>4 DEF CloseJobs
<1>5. ASSUME NEW c \in Calls, Finish(c) PROVE (Types /\ WorkersEndWithCall)'
  BY <1>5 DEF Finish
<1>6. ASSUME NEW c \in Calls, NEW w \in 1..Workers, HandOver(c, w)
      PROVE  (Types /\ WorkersEndWithCall)'
  BY <1>6 DEF HandOver
<1>7. ASSUME NEW c \in Calls, NEW w \in 1..Workers, WorkerStep(c, w)
      PROVE  (Types /\ WorkersEndWithCall)'
  <2>1. worker[c][w] \in {"waiting", "looking", "fetching"} /\ UNCHANGED call
    BY <1>7 DEF WorkerStep, TakeSlot, LeaveSlots, LookAgain, Fetched, FetchFails
  <2>2. PICK state \in {"ready", "looking", "fetching"} :
          worker' = [worker EXCEPT ![c][w] = state]
    <3>1. ASSUME LookAgain(c, w)
          PROVE  \E state \in {"ready", "fetching"} : worker' = [worker EXCEPT ![c][w] = state]
      BY <3>1 DEF LookAgain
    <3>2. QED
      BY <1>7, <3>1 DEF WorkerStep, TakeSlot, LeaveSlots, Fetched, FetchFails
  <2>3. call[c] \in {"handing", "closed"}
    BY <2>1
  <2>4. QED
    BY <2>1, <2>2, <2>3
<1>8. QED
  <2>1. \/ UNCHANGED <<call, worker>>
        \/ \E c \in Calls : \/ Ask(c) \/ StartWorkers(c) \/ CloseJobs(c) \/ Finish(c)
                            \/ \E w \in 1..Workers : HandOver(c, w) \/ WorkerStep(c, w)
    BY DEF Next, svars, Look, BudgetEnds, Cancel, Tick
  <2>2. QED
    BY <1>1, <1>2, <1>3, <1>4, <1>5, <1>6, <1>7, <2>1

(* client_stats.go: never more requests than slots, and when every call is *)
(* over, by whatever way its workers left, all slots are free.             *)
THEOREM SlotsComeBack == ASSUME SlotsAssumption PROVE Spec => []SlotsAreReturned
<1>1. Init => StatsInv
  BY InitEstablishes
<1>2. StatsInv /\ [Next]_svars => StatsInv'
  BY StepKeepsCount, StepKeepsWorkers DEF StatsInv
<1>3. StatsInv => SlotsAreReturned
  <2> SUFFICES ASSUME StatsInv
               PROVE  SlotsAreReturned
    OBVIOUS
  <2>1. ASSUME \A c \in Calls : call[c] = "over" PROVE Busy = {}
    BY <2>1 DEF StatsInv, WorkersEndWithCall, Busy
  <2>2. QED
    BY <2>1, FS_EmptySet DEF StatsInv, SlotsAreCounted, SlotsAreReturned
<1>4. QED
  BY <1>1, <1>2, <1>3, PTL DEF Spec

(***************************************************************************)
(* What calls are given                                                    *)
(***************************************************************************)

FreshAssumption == TTL \in Nat \ {0} /\ Capacity \in Nat /\ Lists \subseteq Seq(Hashes)

Answers == [hash : Hashes, fetched : Nat]

FreshTypes ==
  /\ now \in Nat
  /\ hashes \in [Calls -> Seq(Hashes)] /\ pending \in [Calls -> Seq(Hashes)]
  /\ job \in [Calls -> [1..Workers -> Hashes \cup {None}]]
  /\ served \in [Calls -> SUBSET [hash : Hashes, age : Int]]

(* A hash has at most one entry. *)
OneEach(entries) ==
  /\ entries \in Seq(Answers)
  /\ \A i, j \in DOMAIN entries : entries[i].hash = entries[j].hash => i = j

CacheIsBounded == OneEach(cache) /\ Len(cache) <= Capacity

AtWork(c) == {w \in 1..Workers : worker[c][w] \in {"waiting", "looking", "fetching"}}
Waits(c, h) == \E i \in DOMAIN pending[c] : pending[c][i] = h
Served(c, h) == \E s \in served[c] : s.hash = h

(* A call waits for, works on or has been given an answer to each hash at  *)
(* most once.                                                              *)
EachHashOnce ==
  \A c \in Calls :
    /\ \A i, j \in DOMAIN pending[c] : pending[c][i] = pending[c][j] => i = j
    /\ \A w \in AtWork(c) : /\ job[c][w] \in Hashes
                            /\ ~Waits(c, job[c][w]) /\ ~Served(c, job[c][w])
    /\ \A v, w \in AtWork(c) : job[c][v] = job[c][w] => v = w
    /\ \A s \in served[c] : ~Waits(c, s.hash)

AnswersAreFresh ==
  \A c \in Calls : \A s, t \in served[c] : s.age < TTL /\ (s.hash = t.hash => s = t)

FreshInv ==
  /\ StatsInv
  /\ FreshTypes /\ CacheIsBounded /\ EachHashOnce /\ AnswersAreFresh

(* What a part of the cache, or the cache with one more entry, has. *)
LEMMA PartOfCache ==
  ASSUME NEW s, OneEach(s), NEW m \in Nat \ {0}, NEW n \in Nat, n <= Len(s)
  PROVE  /\ OneEach(SubSeq(s, m, n))
         /\ Len(SubSeq(s, m, n)) = IF m <= n THEN n - m + 1 ELSE 0
         /\ \A i \in 1..Len(SubSeq(s, m, n)) : /\ SubSeq(s, m, n)[i] = s[m + i - 1]
                                              /\ m + i - 1 \in 1..Len(s) /\ m + i - 1 <= n
<1>1. s \in Seq(Answers) /\ Len(s) \in Nat /\ DOMAIN s = 1..Len(s)
  BY LenProperties DEF OneEach
<1>2. \A i \in m..n : s[i] \in Answers
  BY <1>1
<1>3. /\ SubSeq(s, m, n) \in Seq(Answers)
      /\ Len(SubSeq(s, m, n)) = IF m <= n THEN n - m + 1 ELSE 0
      /\ \A i \in 1..n - m + 1 : SubSeq(s, m, n)[i] = s[m + i - 1]
  BY <1>2, SubSeqProperties
<1>4. \A i \in 1..Len(SubSeq(s, m, n)) : /\ i \in 1..n - m + 1
                                        /\ m + i - 1 \in 1..Len(s) /\ m + i - 1 <= n
  BY <1>1, <1>3
<1>5. DOMAIN SubSeq(s, m, n) = 1..Len(SubSeq(s, m, n))
  BY <1>3, LenProperties
<1>6. ASSUME NEW i \in 1..Len(SubSeq(s, m, n)), NEW j \in 1..Len(SubSeq(s, m, n)),
             SubSeq(s, m, n)[i].hash = SubSeq(s, m, n)[j].hash
      PROVE  i = j
  <2>1. SubSeq(s, m, n)[i] = s[m + i - 1] /\ SubSeq(s, m, n)[j] = s[m + j - 1]
    BY <1>3, <1>4
  <2>2. m + i - 1 = m + j - 1
    BY <1>1, <1>4, <1>6, <2>1 DEF OneEach
  <2> QED
    BY <2>2
<1> QED
  BY <1>3, <1>4, <1>5, <1>6 DEF OneEach

LEMMA Together ==
  ASSUME NEW s, NEW t, OneEach(s), OneEach(t),
         \A i \in DOMAIN s, j \in DOMAIN t : s[i].hash # t[j].hash
  PROVE  /\ OneEach(s \o t) /\ Len(s \o t) = Len(s) + Len(t)
         /\ DOMAIN (s \o t) = 1..Len(s) + Len(t)
         /\ \A i \in 1..Len(s) + Len(t) :
              IF i <= Len(s) THEN i \in DOMAIN s /\ (s \o t)[i] = s[i]
              ELSE i - Len(s) \in DOMAIN t /\ (s \o t)[i] = t[i - Len(s)]
<1>1. /\ s \in Seq(Answers) /\ Len(s) \in Nat /\ DOMAIN s = 1..Len(s)
      /\ t \in Seq(Answers) /\ Len(t) \in Nat /\ DOMAIN t = 1..Len(t)
  BY LenProperties DEF OneEach
<1>2. /\ s \o t \in Seq(Answers) /\ Len(s \o t) = Len(s) + Len(t)
      /\ \A i \in 1..Len(s) + Len(t) : (s \o t)[i] = IF i <= Len(s) THEN s[i] ELSE t[i - Len(s)]
  BY <1>1, ConcatProperties
<1>3. DOMAIN (s \o t) = 1..Len(s) + Len(t)
  BY <1>2, LenProperties
<1>4. ASSUME NEW i \in 1..Len(s) + Len(t)
      PROVE  \/ i \in DOMAIN s /\ (s \o t)[i] = s[i]
             \/ i - Len(s) \in DOMAIN t /\ (s \o t)[i] = t[i - Len(s)] /\ ~(i <= Len(s))
  BY <1>1, <1>2
<1>5. ASSUME NEW i \in 1..Len(s) + Len(t), NEW j \in 1..Len(s) + Len(t),
             (s \o t)[i].hash = (s \o t)[j].hash
      PROVE  i = j
  <2>1. CASE i \in DOMAIN s /\ (s \o t)[i] = s[i] /\ j \in DOMAIN s /\ (s \o t)[j] = s[j]
    BY <1>5, <2>1 DEF OneEach
  <2>2. CASE /\ i - Len(s) \in DOMAIN t /\ (s \o t)[i] = t[i - Len(s)]
             /\ j - Len(s) \in DOMAIN t /\ (s \o t)[j] = t[j - Len(s)]
    <3>1. i - Len(s) = j - Len(s)
      BY <1>5, <2>2 DEF OneEach
    <3> QED
      BY <1>1, <3>1
  <2> QED
    BY <1>4, <1>5, <2>1, <2>2
<1>6. \A i \in 1..Len(s) + Len(t) :
        IF i <= Len(s) THEN i \in DOMAIN s /\ (s \o t)[i] = s[i]
        ELSE i - Len(s) \in DOMAIN t /\ (s \o t)[i] = t[i - Len(s)]
  BY <1>1, <1>2
<1> QED
  BY <1>2, <1>3, <1>5, <1>6 DEF OneEach

(* What is in the cache without a hash's entry. *)
LEMMA OthersOfCache ==
  ASSUME OneEach(cache), NEW h
  PROVE  /\ OneEach(Others(h))
         /\ Len(Others(h)) = IF Cached(h) THEN Len(cache) - 1 ELSE Len(cache)
         /\ \A i \in DOMAIN Others(h) : Others(h)[i].hash # h
         /\ Cached(h) => Entry(h) \in Answers /\ Entry(h).hash = h
<1>1. cache \in Seq(Answers) /\ Len(cache) \in Nat /\ DOMAIN cache = 1..Len(cache)
  BY LenProperties DEF OneEach
<1>2. CASE ~Cached(h)
  BY <1>1, <1>2 DEF Others, Cached
<1>3. CASE Cached(h)
  <2> DEFINE p == Position(h)
             front == SubSeq(cache, 1, p - 1)
             back == SubSeq(cache, p + 1, Len(cache))
  <2>1. p \in 1..Len(cache) /\ cache[p].hash = h
    BY <1>1, <1>3 DEF Cached, Position
  <2>2. Entry(h) \in Answers /\ Entry(h).hash = h
    BY <1>1, <2>1 DEF Entry
  <2>3. \A i \in 1..Len(cache) : i # p => cache[i].hash # h
    BY <1>1, <2>1 DEF OneEach
  <2> HIDE DEF p
  <2>4. /\ OneEach(front) /\ Len(front) = p - 1
        /\ \A i \in 1..Len(front) : /\ front[i] = cache[1 + i - 1]
                                    /\ 1 + i - 1 \in 1..Len(cache) /\ 1 + i - 1 <= p - 1
    <3>1. p - 1 \in Nat /\ p - 1 <= Len(cache) /\ (IF 1 <= p - 1 THEN p - 1 - 1 + 1 ELSE 0) = p - 1
      BY <1>1, <2>1
    <3> QED
      BY <3>1, PartOfCache
  <2>5. /\ OneEach(back) /\ Len(back) = Len(cache) - p
        /\ \A i \in 1..Len(back) : /\ back[i] = cache[p + 1 + i - 1]
                                   /\ p + 1 + i - 1 \in 1..Len(cache)
    <3>1. /\ p + 1 \in Nat \ {0}
          /\ (IF p + 1 <= Len(cache) THEN Len(cache) - (p + 1) + 1 ELSE 0) = Len(cache) - p
      <4>1. Len(cache) \in Nat /\ p \in Nat /\ p >= 1 /\ p <= Len(cache)
        BY <1>1, <2>1
      <4>2. CASE p = Len(cache)
        BY <4>1, <4>2
      <4>3. CASE p < Len(cache)
        BY <4>1, <4>3
      <4> QED
        BY <4>1, <4>2, <4>3
    <3> QED
      BY <1>1, <3>1, PartOfCache
  <2>6. DOMAIN front = 1..Len(front) /\ DOMAIN back = 1..Len(back)
    BY <2>4, <2>5, LenProperties DEF OneEach
  <2>7. \A i \in DOMAIN front : front[i].hash # h
    BY <2>1, <2>3, <2>4, <2>6
  <2>8. \A i \in DOMAIN back : back[i].hash # h
    BY <2>1, <2>3, <2>5, <2>6
  <2>9. ASSUME NEW i \in DOMAIN front, NEW j \in DOMAIN back
        PROVE  front[i].hash # back[j].hash
    <3>1. 1 + i - 1 # p + 1 + j - 1
      BY <2>1, <2>4, <2>5, <2>6
    <3> QED
      BY <1>1, <2>4, <2>5, <2>6, <3>1 DEF OneEach
  <2>10. Others(h) = front \o back
    BY <1>3 DEF Others, RemoveAt, p
  <2> HIDE DEF front, back
  <2>11. OneEach(front) /\ OneEach(back)
    BY <2>4, <2>5
  <2>12. \A i \in DOMAIN front, j \in DOMAIN back : front[i].hash # back[j].hash
    BY <2>9
  <2>13. OneEach(front \o back) /\ Len(front \o back) = Len(front) + Len(back)
    BY <2>11, <2>12, Together
  <2>14. ASSUME NEW i \in DOMAIN (front \o back)
         PROVE  (front \o back)[i].hash # h
    <3>1. /\ i \in 1..Len(front) + Len(back)
          /\ IF i <= Len(front) THEN i \in DOMAIN front /\ (front \o back)[i] = front[i]
             ELSE i - Len(front) \in DOMAIN back /\ (front \o back)[i] = back[i - Len(front)]
      BY <2>11, <2>12, Together
    <3> QED
      BY <2>7, <2>8, <3>1
  <2>15. Len(Others(h)) = Len(cache) - 1
    BY <1>1, <2>1, <2>4, <2>5, <2>10, <2>13
  <2> QED
    BY <1>3, <2>2, <2>10, <2>13, <2>15, <2>14
<1> QED
  BY <1>2, <1>3

LEMMA OneEntry ==
  ASSUME NEW e \in Answers
  PROVE  OneEach(<<e>>) /\ Len(<<e>>) = 1 /\ DOMAIN <<e>> = {1} /\ <<e>>[1] = e
<1>1. <<e>> \in Seq(Answers) /\ Len(<<e>>) = 1 /\ <<e>>[1] = e
  OBVIOUS
<1>2. DOMAIN <<e>> = {1}
  BY <1>1, LenProperties
<1> QED
  BY <1>1, <1>2 DEF OneEach

(* get: the cache keeps one entry for a hash, and has no more than before. *)
LEMMA GetKeepsCache ==
  ASSUME CacheIsBounded, FreshAssumption, NEW h
  PROVE  OneEach(AfterGet(h)) /\ Len(AfterGet(h)) <= Capacity
<1>1. Len(cache) \in Nat /\ Len(cache) <= Capacity /\ OneEach(cache) /\ Capacity \in Nat
  BY LenProperties DEF CacheIsBounded, OneEach, FreshAssumption
<1>2. /\ OneEach(Others(h))
      /\ Len(Others(h)) = IF Cached(h) THEN Len(cache) - 1 ELSE Len(cache)
      /\ \A i \in DOMAIN Others(h) : Others(h)[i].hash # h
      /\ Cached(h) => Entry(h) \in Answers /\ Entry(h).hash = h
  BY <1>1, OthersOfCache
<1>3. CASE Hit(h)
  <2>1. Cached(h)
    BY <1>3 DEF Hit
  <2>2. OneEach(<<Entry(h)>>) /\ Len(<<Entry(h)>>) = 1
        /\ DOMAIN <<Entry(h)>> = {1} /\ <<Entry(h)>>[1] = Entry(h)
    BY <1>2, <2>1, OneEntry
  <2>3. \A i \in DOMAIN <<Entry(h)>>, j \in DOMAIN Others(h) :
          <<Entry(h)>>[i].hash # Others(h)[j].hash
    BY <1>2, <2>1, <2>2
  <2>4. /\ OneEach(<<Entry(h)>> \o Others(h))
        /\ Len(<<Entry(h)>> \o Others(h)) = Len(<<Entry(h)>>) + Len(Others(h))
    BY <1>2, <2>2, <2>3, Together
  <2> QED
    BY <1>1, <1>2, <1>3, <2>1, <2>2, <2>4 DEF AfterGet
<1>4. CASE ~Hit(h)
  BY <1>1, <1>2, <1>4 DEF AfterGet
<1> QED
  BY <1>3, <1>4

(* put: the new entry is the only one of its hash, and makes old ones leave. *)
LEMMA PutKeepsCache ==
  ASSUME CacheIsBounded, FreshAssumption, now \in Nat, NEW h \in Hashes
  PROVE  OneEach(AfterPut(h)) /\ Len(AfterPut(h)) <= Capacity
<1> DEFINE e == [hash |-> h, fetched |-> now]
           all == <<e>> \o Others(h)
           n == IF Len(all) < Capacity THEN Len(all) ELSE Capacity
<1>1. OneEach(cache) /\ Capacity \in Nat /\ e \in Answers /\ e.hash = h
  BY DEF CacheIsBounded, FreshAssumption, Answers
<1>2. OneEach(Others(h)) /\ \A i \in DOMAIN Others(h) : Others(h)[i].hash # h
  BY <1>1, OthersOfCache
<1> HIDE DEF e
<1>3. OneEach(<<e>>) /\ DOMAIN <<e>> = {1} /\ <<e>>[1] = e
  BY <1>1, OneEntry
<1>4. \A i \in DOMAIN <<e>>, j \in DOMAIN Others(h) : <<e>>[i].hash # Others(h)[j].hash
  BY <1>1, <1>2, <1>3
<1>5. OneEach(all)
  BY <1>2, <1>3, <1>4, Together
<1> HIDE DEF all
<1>6. Len(all) \in Nat
  BY <1>5, LenProperties DEF OneEach
<1>7. n \in Nat /\ n <= Len(all) /\ n <= Capacity
  BY <1>1, <1>6
<1>8. AfterPut(h) = SubSeq(all, 1, n)
  BY DEF AfterPut, all, e
<1> HIDE DEF n
<1>9. OneEach(SubSeq(all, 1, n)) /\ Len(SubSeq(all, 1, n)) = IF 1 <= n THEN n - 1 + 1 ELSE 0
  BY <1>5, <1>7, PartOfCache
<1> QED
  BY <1>1, <1>7, <1>8, <1>9

LEMMA InitIsFresh == SlotsAssumption /\ FreshAssumption /\ Init => FreshInv
<1> SUFFICES ASSUME SlotsAssumption, FreshAssumption, Init
             PROVE  FreshInv
  OBVIOUS
<1>1. StatsInv
  BY InitEstablishes
<1>2. <<>> \in Seq(Hashes) /\ <<>> \in Seq(Answers) /\ Len(<<>>) = 0 /\ DOMAIN <<>> = {}
  BY EmptySeq, LenProperties
<1>3. FreshTypes
  BY <1>2 DEF Init, FreshTypes
<1>4. CacheIsBounded
  BY <1>2 DEF Init, CacheIsBounded, OneEach, FreshAssumption
<1>5. EachHashOnce
  BY <1>2 DEF Init, EachHashOnce, AtWork, Waits
<1>6. AnswersAreFresh
  BY DEF Init, AnswersAreFresh
<1> QED
  BY <1>1, <1>3, <1>4, <1>5, <1>6 DEF FreshInv

LEMMA AtWorkAfterStep ==
  ASSUME StatsInv, NEW c \in Calls, NEW w \in 1..Workers, NEW state,
         worker' = [worker EXCEPT ![c][w] = state]
  PROVE  /\ AtWork(c)' = IF state \in {"waiting", "looking", "fetching"}
                         THEN AtWork(c) \cup {w} ELSE AtWork(c) \ {w}
         /\ \A d \in Calls : d # c => AtWork(d)' = AtWork(d)
<1>1. \A d \in Calls, v \in 1..Workers :
        worker'[d][v] = IF d = c /\ v = w THEN state ELSE worker[d][v]
  BY DEF StatsInv, Types
<1>2. AtWork(c)' = IF state \in {"waiting", "looking", "fetching"}
                   THEN AtWork(c) \cup {w} ELSE AtWork(c) \ {w}
  BY <1>1 DEF AtWork
<1>3. \A d \in Calls : d # c => AtWork(d)' = AtWork(d)
  BY <1>1 DEF AtWork
<1> QED
  BY <1>2, <1>3

(* The steps that hand nobody a hash or an answer. *)
LEMMA FewerAtWork ==
  ASSUME FreshInv, UNCHANGED <<pending, job, served>>,
         \A c \in Calls : AtWork(c)' \subseteq AtWork(c)
  PROVE  EachHashOnce' /\ AnswersAreFresh'
<1>1. EachHashOnce'
  BY DEF FreshInv, EachHashOnce, Waits, Served
<1>2. AnswersAreFresh'
  BY DEF FreshInv, AnswersAreFresh
<1> QED
  BY <1>1, <1>2

(* A call is given an answer that is not older than TTL. *)
LEMMA ServeAnswers ==
  ASSUME FreshInv, FreshAssumption, NEW c \in Calls, NEW h \in Hashes, NEW fetched \in Nat,
         now < fetched + TTL, ~Served(c, h), Serve(c, h, fetched)
  PROVE  /\ served' \in [Calls -> SUBSET [hash : Hashes, age : Int]]
         /\ AnswersAreFresh'
         /\ \A d \in Calls : \A s \in served'[d] : s \in served[d] \/ (d = c /\ s.hash = h)
<1> DEFINE new == [hash |-> h, age |-> now - fetched]
<1>1. new \in [hash : Hashes, age : Int] /\ new.hash = h /\ new.age < TTL
  BY DEF FreshInv, FreshTypes, FreshAssumption
<1>2. served' = [served EXCEPT ![c] = @ \cup {new}]
  BY DEF Serve
<1> HIDE DEF new
<1>3. \A d \in Calls : served'[d] = IF d = c THEN served[c] \cup {new} ELSE served[d]
  BY <1>2 DEF FreshInv, FreshTypes
<1>4. served' \in [Calls -> SUBSET [hash : Hashes, age : Int]]
  BY <1>1, <1>2 DEF FreshInv, FreshTypes
<1>5. \A s \in served[c] : s.hash # h
  BY DEF Served
<1>6. AnswersAreFresh'
  BY <1>1, <1>3, <1>5 DEF FreshInv, AnswersAreFresh
<1>7. \A d \in Calls : \A s \in served'[d] : s \in served[d] \/ (d = c /\ s.hash = h)
  BY <1>1, <1>3
<1> QED
  BY <1>4, <1>6, <1>7

(* A worker that leaves with an answer. *)
LEMMA AnswerOfWorker ==
  ASSUME FreshInv, FreshAssumption, NEW c \in Calls, NEW w \in AtWork(c),
         NEW fetched \in Nat, now < fetched + TTL, Serve(c, job[c][w], fetched),
         worker' = [worker EXCEPT ![c][w] = "ready"], UNCHANGED <<pending, job>>
  PROVE  /\ served' \in [Calls -> SUBSET [hash : Hashes, age : Int]]
         /\ AnswersAreFresh' /\ EachHashOnce'
<1> DEFINE h == job[c][w]
<1>1. w \in 1..Workers /\ h \in Hashes /\ ~Waits(c, h) /\ ~Served(c, h)
  BY DEF FreshInv, EachHashOnce, AtWork
<1>2. /\ served' \in [Calls -> SUBSET [hash : Hashes, age : Int]]
      /\ AnswersAreFresh'
      /\ \A d \in Calls : \A s \in served'[d] : s \in served[d] \/ (d = c /\ s.hash = h)
  BY <1>1, ServeAnswers
<1>3. AtWork(c)' = AtWork(c) \ {w} /\ \A d \in Calls : d # c => AtWork(d)' = AtWork(d)
  <2>1. StatsInv /\ worker' = [worker EXCEPT ![c][w] = "ready"]
    BY DEF FreshInv
  <2>2. /\ AtWork(c)' = IF "ready" \in {"waiting", "looking", "fetching"}
                        THEN AtWork(c) \cup {w} ELSE AtWork(c) \ {w}
        /\ \A d \in Calls : d # c => AtWork(d)' = AtWork(d)
    BY <1>1, <2>1, AtWorkAfterStep, Zenon
  <2> QED
    BY <2>2
<1>4. \A v \in AtWork(c)' : job[c][v] # h
  BY <1>3 DEF FreshInv, EachHashOnce
<1>5. \A d \in Calls : AtWork(d)' \subseteq AtWork(d)
  BY <1>3
<1> HIDE DEF h
<1>6. ASSUME NEW d \in Calls
      PROVE  /\ \A v \in AtWork(d)' : ~Served(d, job[d][v])'
             /\ \A s \in served'[d] : ~Waits(d, s.hash)
  <2>1. \A v \in AtWork(d)' : ~Served(d, job[d][v])
    BY <1>5 DEF FreshInv, EachHashOnce
  <2>2. \A v \in AtWork(d)' : ~Served(d, job[d][v])'
    BY <1>2, <1>4, <2>1 DEF Served
  <2>3. \A s \in served'[d] : ~Waits(d, s.hash)
    BY <1>1, <1>2 DEF FreshInv, EachHashOnce
  <2> QED
    BY <2>2, <2>3
<1>7. EachHashOnce'
  <2> SUFFICES ASSUME NEW d \in Calls
               PROVE  /\ \A i, j \in DOMAIN pending[d] : pending[d][i] = pending[d][j] => i = j
                      /\ \A v \in AtWork(d)' : /\ job[d][v] \in Hashes
                                               /\ ~Waits(d, job[d][v]) /\ ~Served(d, job[d][v])'
                      /\ \A u, v \in AtWork(d)' : job[d][u] = job[d][v] => u = v
                      /\ \A s \in served'[d] : ~Waits(d, s.hash)
    BY DEF EachHashOnce, Waits, Served
  <2> QED
    BY <1>5, <1>6 DEF FreshInv, EachHashOnce
<1> QED
  BY <1>2, <1>7

(* A hash that comes to the end of a queue, or leaves its front. *)
LEMMA QueueGrows ==
  ASSUME NEW q \in Seq(Hashes), NEW h \in Hashes,
         \A i, j \in DOMAIN q : q[i] = q[j] => i = j,
         \A i \in DOMAIN q : q[i] # h
  PROVE  /\ Append(q, h) \in Seq(Hashes)
         /\ \A i, j \in DOMAIN Append(q, h) : Append(q, h)[i] = Append(q, h)[j] => i = j
         /\ \A i \in DOMAIN Append(q, h) : \/ i \in DOMAIN q /\ Append(q, h)[i] = q[i]
                                           \/ Append(q, h)[i] = h
<1>1. Len(q) \in Nat /\ DOMAIN q = 1..Len(q)
  BY LenProperties
<1>2. /\ Append(q, h) \in Seq(Hashes) /\ Len(Append(q, h)) = Len(q) + 1
      /\ \A i \in 1..Len(q) : Append(q, h)[i] = q[i]
      /\ Append(q, h)[Len(q) + 1] = h
  BY AppendProperties
<1>3. DOMAIN Append(q, h) = 1..Len(q) + 1
  BY <1>2, LenProperties
<1>4. \A i \in 1..Len(q) + 1 : i \in 1..Len(q) \/ i = Len(q) + 1
  BY <1>1
<1> QED
  BY <1>1, <1>2, <1>3, <1>4

LEMMA QueueShrinks ==
  ASSUME NEW q \in Seq(Hashes), q # <<>>
  PROVE  /\ Head(q) \in Hashes /\ 1 \in DOMAIN q /\ Head(q) = q[1]
         /\ Tail(q) \in Seq(Hashes)
         /\ \A i \in DOMAIN Tail(q) : i + 1 \in DOMAIN q /\ Tail(q)[i] = q[i + 1] /\ i \in Nat \ {0}
<1>1. Len(q) \in Nat \ {0} /\ DOMAIN q = 1..Len(q)
  BY EmptySeq, LenProperties
<1>2. /\ Head(q) \in Hashes /\ Tail(q) \in Seq(Hashes) /\ Len(Tail(q)) = Len(q) - 1
      /\ \A i \in 1..Len(Tail(q)) : Tail(q)[i] = q[i + 1]
  BY HeadTailProperties
<1>3. DOMAIN Tail(q) = 1..Len(q) - 1
  BY <1>2, LenProperties
<1> QED
  BY <1>1, <1>2, <1>3

(* client_stats.go, FileStats: the cache is asked for each hash once. *)
LEMMA LookKeeps ==
  ASSUME FreshInv, FreshAssumption, NEW c \in Calls, Look(c)
  PROVE  FreshTypes' /\ CacheIsBounded' /\ EachHashOnce' /\ AnswersAreFresh'
<1> DEFINE h == Head(hashes[c])
<1>1. /\ hashes[c] \in Seq(Hashes) /\ hashes[c] # <<>> /\ pending[c] \in Seq(Hashes)
      /\ hashes' = [hashes EXCEPT ![c] = Tail(hashes[c])]
      /\ UNCHANGED <<now, call, worker, job>> /\ call[c] = "looking"
  BY DEF Look, FreshInv, FreshTypes
<1>2. h \in Hashes /\ Tail(hashes[c]) \in Seq(Hashes)
  BY <1>1, QueueShrinks
<1>3. hashes' \in [Calls -> Seq(Hashes)]
  BY <1>1, <1>2 DEF FreshInv, FreshTypes
<1>4. AtWork(c) = {} /\ \A d \in Calls : AtWork(d)' = AtWork(d)
  <2>1. \A w \in 1..Workers : worker[c][w] \in {"none", "ready"}
    BY <1>1 DEF FreshInv, StatsInv, WorkersEndWithCall
  <2> QED
    BY <1>1, <2>1 DEF AtWork
<1>5. CASE h \in ToSet(pending[c]) \/ \E s \in served[c] : s.hash = h
  <2>1. UNCHANGED <<cache, pending, served>>
    BY <1>5 DEF Look
  <2>2. EachHashOnce' /\ AnswersAreFresh'
    BY <1>1, <1>4, <2>1, FewerAtWork
  <2> QED
    BY <1>1, <1>3, <2>1, <2>2 DEF FreshInv, FreshTypes, CacheIsBounded
<1>6. CASE ~(h \in ToSet(pending[c]) \/ \E s \in served[c] : s.hash = h)
  <2>1. ~Waits(c, h) /\ ~Served(c, h)
    BY <1>6 DEF ToSet, Waits, Served
  <2>2. cache' = AfterGet(h)
    BY <1>6 DEF Look
  <2>3. CacheIsBounded'
    BY <2>2, GetKeepsCache DEF FreshInv, CacheIsBounded
  <2>4. CASE Hit(h)
    <3>1. Serve(c, h, Entry(h).fetched) /\ UNCHANGED pending
      BY <1>6, <2>4 DEF Look
    <3>2. Entry(h) \in Answers /\ now < Entry(h).fetched + TTL
      BY <2>4, OthersOfCache DEF FreshInv, CacheIsBounded, Hit
    <3>3. Entry(h).fetched \in Nat
      BY <3>2 DEF Answers
    <3>4. /\ served' \in [Calls -> SUBSET [hash : Hashes, age : Int]]
          /\ AnswersAreFresh'
          /\ \A d \in Calls : \A s \in served'[d] : s \in served[d] \/ (d = c /\ s.hash = h)
      BY <1>2, <2>1, <3>1, <3>2, <3>3, ServeAnswers
    <3>5. EachHashOnce'
      <4> SUFFICES ASSUME NEW d \in Calls
                   PROVE  /\ \A i, j \in DOMAIN pending[d] : pending[d][i] = pending[d][j] => i = j
                          /\ \A v \in AtWork(d) : /\ job[d][v] \in Hashes
                                                  /\ ~Waits(d, job[d][v]) /\ ~Served(d, job[d][v])'
                          /\ \A u, v \in AtWork(d) : job[d][u] = job[d][v] => u = v
                          /\ \A s \in served'[d] : ~Waits(d, s.hash)
        BY <1>1, <1>4, <3>1 DEF EachHashOnce, Waits, Served
      <4>1. \A v \in AtWork(d) : ~Served(d, job[d][v])'
        BY <1>1, <1>4, <3>4 DEF FreshInv, EachHashOnce, Served
      <4>2. \A s \in served'[d] : ~Waits(d, s.hash)
        BY <2>1, <3>4 DEF FreshInv, EachHashOnce
      <4> QED
        BY <4>1, <4>2 DEF FreshInv, EachHashOnce
    <3>6. FreshTypes'
      BY <1>1, <1>3, <3>1, <3>4 DEF FreshInv, FreshTypes
    <3> QED
      BY <2>3, <3>4, <3>5, <3>6
  <2>5. CASE ~Hit(h)
    <3>1. pending' = [pending EXCEPT ![c] = Append(pending[c], h)] /\ UNCHANGED served
      BY <1>6, <2>5 DEF Look
    <3>2. /\ Append(pending[c], h) \in Seq(Hashes)
          /\ \A i, j \in DOMAIN Append(pending[c], h) :
               Append(pending[c], h)[i] = Append(pending[c], h)[j] => i = j
          /\ \A i \in DOMAIN Append(pending[c], h) :
               \/ i \in DOMAIN pending[c] /\ Append(pending[c], h)[i] = pending[c][i]
               \/ Append(pending[c], h)[i] = h
      BY <1>1, <1>2, <2>1, QueueGrows DEF FreshInv, EachHashOnce, Waits
    <3>3. pending'[c] = Append(pending[c], h) /\ \A d \in Calls : d # c => pending'[d] = pending[d]
      BY <3>1 DEF FreshInv, FreshTypes
    <3>4. EachHashOnce'
      <4> SUFFICES ASSUME NEW d \in Calls
                   PROVE  /\ \A i, j \in DOMAIN pending'[d] : pending'[d][i] = pending'[d][j] => i = j
                          /\ \A v \in AtWork(d) : /\ job[d][v] \in Hashes
                                                  /\ ~Waits(d, job[d][v])' /\ ~Served(d, job[d][v])
                          /\ \A u, v \in AtWork(d) : job[d][u] = job[d][v] => u = v
                          /\ \A s \in served[d] : ~Waits(d, s.hash)'
        BY <1>1, <1>4, <3>1 DEF EachHashOnce, Waits, Served
      <4>1. CASE d = c
        <5>1. \A g : Waits(c, g)' => Waits(c, g) \/ g = h
          BY <3>2, <3>3 DEF Waits
        <5> QED
          BY <1>4, <2>1, <3>2, <3>3, <4>1, <5>1 DEF FreshInv, EachHashOnce, Served
      <4>2. CASE d # c
        <5>1. \A g : Waits(d, g)' <=> Waits(d, g)
          BY <3>3, <4>2 DEF Waits
        <5>2. pending'[d] = pending[d]
          BY <3>3, <4>2
        <5> QED
          BY <1>1, <5>1, <5>2 DEF FreshInv, EachHashOnce
      <4> QED
        BY <4>1, <4>2
    <3>5. AnswersAreFresh'
      BY <3>1 DEF FreshInv, AnswersAreFresh
    <3>6. FreshTypes'
      BY <1>1, <1>3, <3>1, <3>2 DEF FreshInv, FreshTypes
    <3> QED
      BY <2>3, <3>4, <3>5, <3>6
  <2> QED
    BY <2>4, <2>5
<1> QED
  BY <1>5, <1>6

(* client_stats.go, FileStats: a hash leaves the queue with one worker. *)
LEMMA HandOverKeeps ==
  ASSUME FreshInv, NEW c \in Calls, NEW w \in 1..Workers, HandOver(c, w)
  PROVE  FreshTypes' /\ EachHashOnce'
<1> DEFINE q == pending[c]
<1> PICK h : h = Head(q)
  OBVIOUS
<1>1. /\ q \in Seq(Hashes) /\ q # <<>> /\ worker[c][w] = "ready"
      /\ job' = [job EXCEPT ![c][w] = h] /\ pending' = [pending EXCEPT ![c] = Tail(q)]
      /\ worker' = [worker EXCEPT ![c][w] = "waiting"]
      /\ UNCHANGED <<now, hashes, served>>
  BY DEF HandOver, FreshInv, FreshTypes
<1>2. /\ h \in Hashes /\ 1 \in DOMAIN q /\ h = q[1] /\ Tail(q) \in Seq(Hashes)
      /\ \A i \in DOMAIN Tail(q) : i + 1 \in DOMAIN q /\ Tail(q)[i] = q[i + 1] /\ i \in Nat \ {0}
  BY <1>1, QueueShrinks
<1>3. \A i, j \in DOMAIN q : q[i] = q[j] => i = j
  BY DEF FreshInv, EachHashOnce
<1>4. /\ \A i, j \in DOMAIN Tail(q) : Tail(q)[i] = Tail(q)[j] => i = j
      /\ \A i \in DOMAIN Tail(q) : Tail(q)[i] # h
  <2>1. \A i, j \in DOMAIN Tail(q) : i + 1 = j + 1 => i = j
    BY <1>2
  <2>2. \A i \in DOMAIN Tail(q) : i + 1 # 1
    BY <1>2
  <2> QED
    BY <1>2, <1>3, <2>1, <2>2
<1>5. Waits(c, h)
  BY <1>2 DEF Waits
<1>6. pending'[c] = Tail(q) /\ \A d \in Calls : d # c => pending'[d] = pending[d]
  BY <1>1 DEF FreshInv, FreshTypes
<1>7. ~Waits(c, h)' /\ \A d \in Calls : \A g : Waits(d, g)' => Waits(d, g)
  <2>1. \A g : Waits(c, g)' => Waits(c, g) /\ g # h
    BY <1>2, <1>4, <1>6 DEF Waits
  <2>2. \A d \in Calls : d # c => \A g : Waits(d, g)' => Waits(d, g)
    BY <1>6 DEF Waits
  <2>3. \A g : g = h => ~Waits(c, g)'
    BY <2>1
  <2> QED
    BY <1>4, <1>6, <2>1, <2>2 DEF Waits
<1>8. AtWork(c)' = AtWork(c) \cup {w} /\ \A d \in Calls : d # c => AtWork(d)' = AtWork(d)
  <2>1. StatsInv
    BY DEF FreshInv
  <2>2. /\ AtWork(c)' = IF "waiting" \in {"waiting", "looking", "fetching"}
                        THEN AtWork(c) \cup {w} ELSE AtWork(c) \ {w}
        /\ \A d \in Calls : d # c => AtWork(d)' = AtWork(d)
    BY <1>1, <2>1, AtWorkAfterStep, Zenon
  <2> QED
    BY <2>2
<1>9. \A d \in Calls, v \in 1..Workers :
        job'[d][v] = IF d = c /\ v = w THEN h ELSE job[d][v]
  BY <1>1 DEF FreshInv, FreshTypes
<1>10. w \notin AtWork(c) /\ \A d \in Calls : AtWork(d) \subseteq 1..Workers
  BY <1>1 DEF AtWork
<1>11. FreshTypes'
  BY <1>1, <1>2 DEF FreshInv, FreshTypes
<1> HIDE DEF q
<1>12. ASSUME NEW d \in Calls
       PROVE  /\ \A i, j \in DOMAIN pending'[d] : pending'[d][i] = pending'[d][j] => i = j
              /\ \A v \in AtWork(d)' : /\ job'[d][v] \in Hashes
                                       /\ ~Waits(d, job[d][v])' /\ ~Served(d, job[d][v])'
              /\ \A u, v \in AtWork(d)' : job'[d][u] = job'[d][v] => u = v
              /\ \A s \in served'[d] : ~Waits(d, s.hash)'
  <2>1. \A i, j \in DOMAIN pending'[d] : pending'[d][i] = pending'[d][j] => i = j
    <3>1. CASE d = c
      BY <1>4, <1>6, <3>1
    <3>2. CASE d # c
      <4>1. pending'[d] = pending[d]
        BY <1>6, <3>2
      <4> QED
        BY <4>1 DEF FreshInv, EachHashOnce
    <3> QED
      BY <3>1, <3>2
  <2>2. \A s \in served'[d] : ~Waits(d, s.hash)'
    BY <1>1, <1>7 DEF FreshInv, EachHashOnce
  <2>3. CASE d = c
    <3>1. \A v \in AtWork(c) : job[c][v] # h
      BY <1>5 DEF FreshInv, EachHashOnce
    <3>2. ~Served(c, h)
      BY <1>5 DEF FreshInv, EachHashOnce, Served
    <3>3. \A v \in AtWork(c) : job'[c][v] = job[c][v]
      BY <1>9, <1>10
    <3>4. job'[c][w] = h
      BY <1>9
    <3>5. \A v \in AtWork(c)' : /\ job'[c][v] \in Hashes
                                /\ ~Waits(c, job[c][v])' /\ ~Served(c, job[c][v])'
      <4>1. \A v \in AtWork(c) : /\ job'[c][v] \in Hashes
                                 /\ ~Waits(c, job[c][v])' /\ ~Served(c, job[c][v])'
        <5> SUFFICES ASSUME NEW v \in AtWork(c)
                     PROVE  /\ job'[c][v] \in Hashes
                            /\ ~Waits(c, job[c][v])' /\ ~Served(c, job[c][v])'
          OBVIOUS
        <5>1. PICK g \in Hashes : g = job[c][v] /\ ~Waits(c, g) /\ ~Served(c, g)
          BY DEF FreshInv, EachHashOnce
        <5>2. ~Waits(c, g)' /\ ~Served(c, g)' /\ g = job'[c][v]
          BY <1>1, <1>7, <3>3, <5>1 DEF Served
        <5> QED
          BY <5>2 DEF Waits, Served
      <4>2. h \in Hashes /\ ~Waits(c, job[c][w])' /\ ~Served(c, job[c][w])'
        <5>1. ~Waits(c, h)' /\ ~Served(c, h)' /\ h = job'[c][w]
          BY <1>1, <1>7, <3>2, <3>4 DEF Served
        <5> QED
          BY <1>2, <5>1 DEF Waits, Served
      <4> QED
        BY <1>8, <3>4, <4>1, <4>2
    <3>6. \A u, v \in AtWork(c)' : job'[c][u] = job'[c][v] => u = v
      BY <1>8, <3>1, <3>3, <3>4 DEF FreshInv, EachHashOnce
    <3> QED
      BY <2>1, <2>2, <2>3, <3>5, <3>6
  <2>4. CASE d # c
    <3>1. AtWork(d)' = AtWork(d) /\ \A v \in AtWork(d) : job'[d][v] = job[d][v]
      BY <1>8, <1>9, <1>10, <2>4
    <3>2. \A v \in AtWork(d)' : /\ job'[d][v] \in Hashes
                                /\ ~Waits(d, job[d][v])' /\ ~Served(d, job[d][v])'
      <4> SUFFICES ASSUME NEW v \in AtWork(d)
                   PROVE  /\ job'[d][v] \in Hashes
                          /\ ~Waits(d, job[d][v])' /\ ~Served(d, job[d][v])'
        BY <3>1
      <4>1. PICK g \in Hashes : g = job[d][v] /\ ~Waits(d, g) /\ ~Served(d, g)
        BY DEF FreshInv, EachHashOnce
      <4>2. ~Waits(d, g)' /\ ~Served(d, g)' /\ g = job'[d][v]
        BY <1>1, <1>7, <3>1, <4>1 DEF Served
      <4> QED
        BY <4>2 DEF Waits, Served
    <3>3. \A u, v \in AtWork(d)' : job'[d][u] = job'[d][v] => u = v
      BY <3>1 DEF FreshInv, EachHashOnce
    <3> QED
      BY <2>1, <2>2, <3>2, <3>3
  <2> QED
    BY <2>3, <2>4
<1>13. EachHashOnce'
  BY <1>12 DEF EachHashOnce
<1> QED
  BY <1>11, <1>13

LEMMA FreshStep == SlotsAssumption /\ FreshAssumption /\ FreshInv /\ [Next]_svars => FreshInv'
<1> SUFFICES ASSUME SlotsAssumption, FreshAssumption, FreshInv, [Next]_svars
             PROVE  FreshInv'
  OBVIOUS
<1> DEFINE Goal == FreshTypes' /\ CacheIsBounded' /\ EachHashOnce' /\ AnswersAreFresh'
<1>1. StatsInv'
  BY StepKeepsCount, StepKeepsWorkers DEF FreshInv, StatsInv
<1>2. ASSUME UNCHANGED <<now, cache, pending, job, served, worker>>,
             hashes' \in [Calls -> Seq(Hashes)]
      PROVE  Goal
  <2>1. \A c \in Calls : AtWork(c)' \subseteq AtWork(c)
    BY <1>2 DEF AtWork
  <2>2. EachHashOnce' /\ AnswersAreFresh'
    BY <1>2, <2>1, FewerAtWork
  <2> QED
    BY <1>2, <2>2 DEF FreshInv, FreshTypes, CacheIsBounded
<1>3. ASSUME NEW c \in Calls, Ask(c) PROVE Goal
  BY <1>2, <1>3 DEF Ask, FreshInv, FreshTypes, FreshAssumption
<1>4. ASSUME NEW c \in Calls, CloseJobs(c) \/ Finish(c) \/ BudgetEnds(c) \/ Cancel(c) PROVE Goal
  BY <1>2, <1>4 DEF CloseJobs, Finish, BudgetEnds, Cancel, FreshInv, FreshTypes
<1>5. ASSUME Tick PROVE Goal
  <2>1. \A c \in Calls : AtWork(c)' \subseteq AtWork(c)
    BY <1>5 DEF Tick, AtWork
  <2>2. EachHashOnce' /\ AnswersAreFresh'
    BY <1>5, <2>1, FewerAtWork DEF Tick
  <2> QED
    <3>1. now' \in Nat
      BY <1>5 DEF Tick, FreshInv, FreshTypes
    <3>2. UNCHANGED <<cache, hashes, pending, job, served>>
      BY <1>5 DEF Tick
    <3>3. FreshTypes'
      BY <3>1, <3>2 DEF FreshInv, FreshTypes
    <3>4. CacheIsBounded'
      BY <3>2 DEF FreshInv, CacheIsBounded
    <3> QED
      BY <2>2, <3>3, <3>4
<1>6. ASSUME NEW c \in Calls, Look(c) PROVE Goal
  BY <1>6, LookKeeps
<1>7. ASSUME NEW c \in Calls, StartWorkers(c) PROVE Goal
  <2>1. \A d \in Calls : AtWork(d)' \subseteq AtWork(d)
    <3>1. CASE UNCHANGED worker
      BY <3>1 DEF AtWork
    <3>2. CASE worker' = [worker EXCEPT ![c] =
                            [w \in 1..Workers |-> IF w <= Len(pending[c]) THEN "ready" ELSE "none"]]
      BY <3>2 DEF AtWork, FreshInv, StatsInv, Types
    <3> QED
      BY <1>7, <3>1, <3>2 DEF StartWorkers
  <2>2. EachHashOnce' /\ AnswersAreFresh'
    BY <1>7, <2>1, FewerAtWork DEF StartWorkers
  <2> QED
    BY <1>7, <2>2 DEF StartWorkers, FreshInv, FreshTypes, CacheIsBounded
<1>8. ASSUME NEW c \in Calls, NEW w \in 1..Workers, HandOver(c, w) PROVE Goal
  <2>1. FreshTypes' /\ EachHashOnce'
    BY <1>8, HandOverKeeps
  <2> QED
    BY <1>8, <2>1 DEF HandOver, FreshInv, CacheIsBounded, AnswersAreFresh
<1>9. ASSUME NEW c \in Calls, NEW w \in 1..Workers, NEW state \in {"ready", "looking", "fetching"},
             worker[c][w] \in {"waiting", "looking", "fetching"},
             worker' = [worker EXCEPT ![c][w] = state], CacheIsBounded',
             UNCHANGED <<now, hashes, pending, job, served>>
      PROVE  Goal
  <2>1. StatsInv /\ w \in AtWork(c)
    BY <1>9 DEF FreshInv, AtWork
  <2>2. /\ AtWork(c)' = IF state \in {"waiting", "looking", "fetching"}
                        THEN AtWork(c) \cup {w} ELSE AtWork(c) \ {w}
        /\ \A d \in Calls : d # c => AtWork(d)' = AtWork(d)
    BY <1>9, <2>1, AtWorkAfterStep, Zenon
  <2>3. \A d \in Calls : AtWork(d)' \subseteq AtWork(d)
    BY <2>1, <2>2
  <2>4. EachHashOnce' /\ AnswersAreFresh'
    BY <1>9, <2>3, FewerAtWork
  <2> QED
    BY <1>9, <2>4 DEF FreshInv, FreshTypes
<1>10. ASSUME NEW c \in Calls, NEW w \in 1..Workers,
              TakeSlot(c, w) \/ LeaveSlots(c, w) \/ FetchFails(c, w)
       PROVE  Goal
  <2>1. CacheIsBounded'
    BY <1>10 DEF TakeSlot, LeaveSlots, FetchFails, FreshInv, CacheIsBounded
  <2> QED
    BY <1>9, <1>10, <2>1 DEF TakeSlot, LeaveSlots, FetchFails
<1>11. ASSUME NEW c \in Calls, NEW w \in AtWork(c), NEW fetched \in Nat, now < fetched + TTL,
              Serve(c, job[c][w], fetched), worker' = [worker EXCEPT ![c][w] = "ready"],
              UNCHANGED <<now, hashes, pending, job>>, CacheIsBounded'
       PROVE  Goal
  <2>1. /\ served' \in [Calls -> SUBSET [hash : Hashes, age : Int]]
        /\ AnswersAreFresh' /\ EachHashOnce'
    BY <1>11, AnswerOfWorker
  <2> QED
    BY <1>11, <2>1 DEF FreshInv, FreshTypes
<1>12. ASSUME NEW c \in Calls, NEW w \in 1..Workers, LookAgain(c, w) PROVE Goal
  <2>1. w \in AtWork(c) /\ cache' = AfterGet(job[c][w])
    BY <1>12 DEF LookAgain, AtWork
  <2>2. CacheIsBounded'
    BY <2>1, GetKeepsCache DEF FreshInv, CacheIsBounded
  <2>3. CASE Hit(job[c][w])
    <3>1. Entry(job[c][w]) \in Answers /\ now < Entry(job[c][w]).fetched + TTL
      BY <2>3, OthersOfCache DEF FreshInv, CacheIsBounded, Hit
    <3>2. Entry(job[c][w]).fetched \in Nat
      BY <3>1 DEF Answers
    <3> QED
      BY <1>11, <1>12, <2>1, <2>2, <2>3, <3>1, <3>2 DEF LookAgain
  <2>4. CASE ~Hit(job[c][w])
    BY <1>9, <1>12, <2>2, <2>4 DEF LookAgain
  <2> QED
    BY <2>3, <2>4
<1>13. ASSUME NEW c \in Calls, NEW w \in 1..Workers, Fetched(c, w) PROVE Goal
  <2>1. w \in AtWork(c) /\ cache' = AfterPut(job[c][w]) /\ job[c][w] \in Hashes
    BY <1>13 DEF Fetched, AtWork, FreshInv, EachHashOnce
  <2>2. CacheIsBounded'
    BY <2>1, PutKeepsCache DEF FreshInv, FreshTypes, CacheIsBounded
  <2>3. now \in Nat /\ now < now + TTL
    BY DEF FreshInv, FreshTypes, FreshAssumption
  <2> QED
    BY <1>11, <1>13, <2>1, <2>2, <2>3 DEF Fetched
<1>14. ASSUME UNCHANGED svars PROVE Goal
  <2>1. UNCHANGED <<now, cache, pending, job, served, worker>> /\ hashes' = hashes
    BY <1>14 DEF svars
  <2>2. hashes' \in [Calls -> Seq(Hashes)]
    BY <2>1 DEF FreshInv, FreshTypes
  <2> QED
    BY <1>2, <2>1, <2>2
<1>15. Goal
  BY <1>3, <1>4, <1>5, <1>6, <1>7, <1>8, <1>10, <1>12, <1>13, <1>14 DEF Next, WorkerStep
<1> QED
  BY <1>1, <1>15 DEF FreshInv

(* client_stats.go: no call is given counters as old as TTL, or two answers *)
(* for a hash, and the cache has one entry for a hash and never too many.   *)
THEOREM AnswersStayFresh ==
  ASSUME SlotsAssumption, FreshAssumption PROVE Spec => []ServesFreshStats
<1>1. Init => FreshInv
  BY InitIsFresh
<1>2. FreshInv /\ [Next]_svars => FreshInv'
  BY FreshStep
<1>3. FreshInv => ServesFreshStats
  BY DEF FreshInv, CacheIsBounded, OneEach, AnswersAreFresh, ServesFreshStats
<1> QED
  BY <1>1, <1>2, <1>3, PTL DEF Spec
=============================================================================
