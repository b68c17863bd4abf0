------------------------------ MODULE FileStats ------------------------------
(***************************************************************************)
(* The public counters of files: calls that share a cache of bounded size  *)
(* and age and a few slots for requests, and each of which hands its       *)
(* hashes to workers of its own within a budget (anna/client_stats.go).    *)
(***************************************************************************)
EXTENDS Naturals, Sequences, SequencesExt

CONSTANTS
  Calls,     \* calls of FileStats
  Hashes,    \* valid MD5 hashes
  Lists,     \* what a call may ask for: sequences of hashes
  Workers,   \* a call's workers (4)
  Slots,     \* requests in flight, over all calls (4)
  TTL,       \* how long an answer is cached
  Capacity,  \* how many are
  MaxTime,   \* bound on the clock
  None

VARIABLES
  now,      \* the clock
  cache,    \* the cached answers, the most recently used first
  slots,    \* slots that are taken
  call,     \* where each call is
  hashes,   \* hashes that a call has yet to look up
  pending,  \* hashes that it has yet to hand to a worker
  stopped,  \* whether its budget has run out, or its caller has cancelled it
  worker,   \* what each of its workers does
  job,      \* the hash that each worker has
  served    \* history: the answers each call was given, and their age

svars == <<now, cache, slots, call, hashes, pending, stopped, worker, job, served>>

Cached(h) == \E i \in DOMAIN cache : cache[i].hash = h
Position(h) == CHOOSE i \in DOMAIN cache : cache[i].hash = h
Entry(h) == cache[Position(h)]
Others(h) == IF Cached(h) THEN RemoveAt(cache, Position(h)) ELSE cache

(* Mutant of Hit: an expired answer is served. *)
HitWithoutExpiry(h) == Cached(h)

Hit(h) == Cached(h) /\ now < Entry(h).fetched + TTL

(* An expired entry leaves the cache, one that is used comes to its front. *)
AfterGet(h) == IF Hit(h) THEN <<Entry(h)>> \o Others(h) ELSE Others(h)

(* The least recently used entries make room. *)
AfterPut(h) ==
  LET all == <<[hash |-> h, fetched |-> now]>> \o Others(h)
  IN  SubSeq(all, 1, IF Len(all) < Capacity THEN Len(all) ELSE Capacity)

Serve(c, h, fetched) ==
  served' = [served EXCEPT ![c] = @ \cup {[hash |-> h, age |-> now - fetched]}]

Ask(c) ==
  /\ call[c] = "idle"
  /\ \/ /\ stopped[c] = "no" /\ call' = [call EXCEPT ![c] = "looking"]
        /\ \E list \in Lists : hashes' = [hashes EXCEPT ![c] = list]
     \/ stopped[c] = "caller" /\ call' = [call EXCEPT ![c] = "over"] /\ UNCHANGED hashes
  /\ UNCHANGED <<now, cache, slots, pending, stopped, worker, job, served>>

(* The cache answers for what it has, each hash once; the rest is pending. *)
Look(c) ==
  /\ call[c] = "looking" /\ hashes[c] # <<>>
  /\ LET h == Head(hashes[c])
         seen == h \in ToSet(pending[c]) \/ \E s \in served[c] : s.hash = h
     IN  IF seen
         THEN UNCHANGED <<cache, pending, served>>
         ELSE /\ cache' = AfterGet(h)
              /\ IF Hit(h)
                 THEN Serve(c, h, Entry(h).fetched) /\ UNCHANGED pending
                 ELSE pending' = [pending EXCEPT ![c] = Append(@, h)] /\ UNCHANGED served
  /\ hashes' = [hashes EXCEPT ![c] = Tail(@)]
  /\ UNCHANGED <<now, slots, call, stopped, worker, job>>

(* The budget starts when something is left to fetch. *)
StartWorkers(c) ==
  /\ call[c] = "looking" /\ hashes[c] = <<>>
  /\ IF pending[c] = <<>>
     THEN call' = [call EXCEPT ![c] = "over"] /\ UNCHANGED worker
     ELSE /\ call' = [call EXCEPT ![c] = "handing"]
          /\ worker' = [worker EXCEPT ![c] =
                          [w \in 1..Workers |-> IF w <= Len(pending[c]) THEN "ready" ELSE "none"]]
  /\ UNCHANGED <<now, cache, slots, hashes, pending, stopped, job, served>>

(* The channel has no room: a hash goes to a worker that waits for one.    *)
(* Workers are alike, so it is the first.                                  *)
HandOver(c, w) ==
  /\ call[c] = "handing" /\ pending[c] # <<>> /\ worker[c][w] = "ready"
  /\ \A v \in 1..w-1 : worker[c][v] # "ready"
  /\ job' = [job EXCEPT ![c][w] = Head(pending[c])]
  /\ pending' = [pending EXCEPT ![c] = Tail(@)]
  /\ worker' = [worker EXCEPT ![c][w] = "waiting"]
  /\ UNCHANGED <<now, cache, slots, call, hashes, stopped, served>>

(* No hash is left, or the time is up; the workers finish what they have. *)
CloseJobs(c) ==
  /\ call[c] = "handing" /\ (pending[c] = <<>> \/ stopped[c] # "no")
  /\ call' = [call EXCEPT ![c] = "closed"]
  /\ UNCHANGED <<now, cache, slots, hashes, pending, stopped, worker, job, served>>

TakeSlot(c, w) ==
  /\ worker[c][w] = "waiting" /\ slots < Slots
  /\ slots' = slots + 1
  /\ worker' = [worker EXCEPT ![c][w] = "looking"]
  /\ UNCHANGED <<now, cache, call, hashes, pending, stopped, job, served>>

LeaveSlots(c, w) ==
  /\ worker[c][w] = "waiting" /\ stopped[c] # "no"
  /\ worker' = [worker EXCEPT ![c][w] = "ready"]
  /\ UNCHANGED <<now, cache, slots, call, hashes, pending, stopped, job, served>>

(* Another call may have fetched the hash while this worker waited. *)
LookAgain(c, w) ==
  /\ worker[c][w] = "looking"
  /\ cache' = AfterGet(job[c][w])
  /\ IF Hit(job[c][w])
     THEN /\ Serve(c, job[c][w], Entry(job[c][w]).fetched)
          /\ slots' = slots - 1
          /\ worker' = [worker EXCEPT ![c][w] = "ready"]
     ELSE /\ worker' = [worker EXCEPT ![c][w] = "fetching"]
          /\ UNCHANGED <<slots, served>>
  /\ UNCHANGED <<now, call, hashes, pending, stopped, job>>

(* A mirror answers: the answer is cached, and the slot is free again. *)
Fetched(c, w) ==
  /\ worker[c][w] = "fetching"
  /\ cache' = AfterPut(job[c][w])
  /\ Serve(c, job[c][w], now)
  /\ slots' = slots - 1
  /\ worker' = [worker EXCEPT ![c][w] = "ready"]
  /\ UNCHANGED <<now, call, hashes, pending, stopped, job>>

(* Mutant of FetchFails: a failed request keeps its slot. *)
FetchFailsWithSlot(c, w) ==
  /\ worker[c][w] = "fetching"
  /\ worker' = [worker EXCEPT ![c][w] = "ready"]
  /\ UNCHANGED <<now, cache, slots, call, hashes, pending, stopped, job, served>>

(* No mirror answers, or the time is up: the hash has no counters. *)
FetchFails(c, w) ==
  /\ worker[c][w] = "fetching"
  /\ slots' = slots - 1
  /\ worker' = [worker EXCEPT ![c][w] = "ready"]
  /\ UNCHANGED <<now, cache, call, hashes, pending, stopped, job, served>>

Finish(c) ==
  /\ call[c] = "closed" /\ \A w \in 1..Workers : worker[c][w] \in {"ready", "none"}
  /\ call' = [call EXCEPT ![c] = "over"]
  /\ UNCHANGED <<now, cache, slots, hashes, pending, stopped, worker, job, served>>

BudgetEnds(c) ==
  /\ call[c] \in {"handing", "closed"} /\ stopped[c] = "no"
  /\ stopped' = [stopped EXCEPT ![c] = "budget"]
  /\ UNCHANGED <<now, cache, slots, call, hashes, pending, worker, job, served>>

Cancel(c) ==
  /\ call[c] # "over" /\ stopped[c] = "no"
  /\ stopped' = [stopped EXCEPT ![c] = "caller"]
  /\ UNCHANGED <<now, cache, slots, call, hashes, pending, worker, job, served>>

Tick ==
  /\ now < MaxTime
  /\ now' = now + 1
  /\ UNCHANGED <<cache, slots, call, hashes, pending, stopped, worker, job, served>>

Init ==
  /\ now = 0 /\ cache = <<>> /\ slots = 0
  /\ call = [c \in Calls |-> "idle"]
  /\ hashes = [c \in Calls |-> <<>>] /\ pending = [c \in Calls |-> <<>>]
  /\ stopped = [c \in Calls |-> "no"]
  /\ worker = [c \in Calls |-> [w \in 1..Workers |-> "none"]]
  /\ job = [c \in Calls |-> [w \in 1..Workers |-> None]]
  /\ served = [c \in Calls |-> {}]

WorkerStep(c, w) ==
  TakeSlot(c, w) \/ LeaveSlots(c, w) \/ LookAgain(c, w) \/ Fetched(c, w) \/ FetchFails(c, w)

Next ==
  \/ \E c \in Calls :
       \/ Ask(c) \/ Look(c) \/ StartWorkers(c) \/ CloseJobs(c) \/ Finish(c) \/ BudgetEnds(c)
       \/ Cancel(c)
       \/ \E w \in 1..Workers : HandOver(c, w) \/ WorkerStep(c, w)
  \/ Tick

Spec == Init /\ [][Next]_svars

(***************************************************************************)
(* Properties                                                              *)
(***************************************************************************)

(* The slots that calls share: never more requests than slots, and when    *)
(* every call is over, however its requests ended, all of them are free.   *)
SlotsAreReturned ==
  /\ slots <= Slots
  /\ (\A c \in Calls : call[c] = "over") => slots = 0

(* No call is given an answer as old as TTL, whether it was in the cache   *)
(* when the call began or came while a worker waited; a hash has one       *)
(* answer in a call, and the cache one entry for a hash and never too many. *)
ServesFreshStats ==
  /\ \A c \in Calls : \A s, t \in served[c] : s.age < TTL /\ (s.hash = t.hash => s = t)
  /\ Len(cache) <= Capacity
  /\ \A i, j \in DOMAIN cache : cache[i].hash = cache[j].hash => i = j
=============================================================================
