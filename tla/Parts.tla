-------------------------------- MODULE Parts --------------------------------
(* The parts of the program that share no state with each other.  Each      *)
(* behaviour is one of one part, the others standing still.                 *)
EXTENDS Launcher, Sequences

CONSTANTS
  Requests, Works,                                                                    \* PaperDownload
  HitCounts, Listable, Limits, ArchivePage, MaxPages, PerPage,                        \* PaperSearch
  Names, MaxTokens, MaxDepth, ReadLimits, MaxCalls,                                   \* ReadPages
  Records, Titled, MaxRecords, AtOnce,                                                \* DOILookup
  Calls, Hashes, Lists, Workers, Slots, TTL, Capacity, MaxTime,                       \* FileStats
  MaxReads,                                                                           \* RequestLimits
  Procs, Agents, Hosts, Saved, StaleAfter, MaxHold, SaveEvery, Skew, FirstMoment,     \* MirrorStore
  LastMoment,
  NoHost, Callers, NoCaller, BaseHold, FreshFor, CheckTimeout, SweepInterval,         \* MirrorSelector
  RetryAfters

ASSUME WorkAssumption ==
  /\ None \notin Works
  /\ \A w \in Works : /\ w.thesis \in BOOLEAN
                      /\ \A l \in w.locations : l.name \in Nat /\ l.repository \in BOOLEAN
ASSUME ReadAssumption ==
  /\ MaxTokens \in Nat /\ ReadLimits \subseteq Nat \ {0}
  /\ None \notin [id : {0, 1}, digest : {0, 1}, paragraph : Nat, offset : Nat]
ASSUME LookupAssumption == MaxRecords \in Nat /\ AtOnce \in Nat \ {0} /\ None \notin Records
ASSUME AccountAssumption == FreshFor \in Nat
ASSUME StatsAssumption ==
  Slots \in Nat /\ TTL \in Nat \ {0} /\ Capacity \in Nat /\ Lists \subseteq Seq(Hashes)
(* One process has the file, which may hold any times at first; the states *)
(* in it are dropped no sooner than a hold may last.                       *)
ASSUME StoreAssumption ==
  /\ \E p \in Procs : Procs = {p}
  /\ {StaleAfter, MaxHold, Skew, FirstMoment, LastMoment} \subseteq Nat /\ FirstMoment <= LastMoment
  /\ MaxHold <= StaleAfter
  /\ SaveEvery \in Nat \ {0} /\ Saved \subseteq [ok : Nat, fail : Nat, until : Nat]

VARIABLES
  part,
  asked, setup, found, todo, failures, ended, step, answer,
  wanted, args, conf, hits, state, got, next,
  tokens, stack, block, paragraphs, body, source, phase, cursor, room, page, offered, read, answered,
  holds, lookup, title, queries, seen, candidates, batch, reading, unanswered, failure, match,
  now, cache, slots, call, hashes, pending, stopped, worker, job, served,
  request, do, header, quiet, late, idle, fired, stalled, cancelled, gone, open, reads, told,
  time, file, loaded, health, saved, agent, behind,
  mode, hosts, selected, roundAge, selecting, checks, checkTicks, pc, over, first, mirror, refused,
  retryIn

downloadVars == <<asked, setup, found, todo, failures, ended, step, answer>>
searchVars == <<wanted, args, conf, hits, state, got, next>>
readVars == <<tokens, stack, block, paragraphs, body, source, phase, cursor, room, page, offered,
              read, answered>>
lookupVars == <<holds, lookup, title, queries, seen, candidates, batch, reading, unanswered,
                failure, match>>
statsVars == <<now, cache, slots, call, hashes, pending, stopped, worker, job, served>>
requestVars == <<request, do, header, quiet, late, idle, fired, stalled, cancelled, gone, open,
                 reads, told>>
storeVars == <<time, file, loaded, health, saved, agent, behind>>
accountVars == <<mode, hosts, selected, roundAge, selecting, checks, checkTicks, pc, over, first,
                 mirror, refused, retryIn>>

papersVars == <<downloadVars, searchVars, readVars>>
clientVars == <<lookupVars, statsVars, requestVars, storeVars, nvars, accountVars>>
vars == <<part, papersVars, clientVars>>

PD == INSTANCE PaperDownload
PS == INSTANCE PaperSearch
RP == INSTANCE ReadPages WITH Limits <- ReadLimits, work <- source
DL == INSTANCE DOILookup WITH found <- match
FS == INSTANCE FileStats
RL == INSTANCE RequestLimits WITH at <- request
MS == INSTANCE MirrorStore WITH now <- time, MaxTime <- LastMoment
AC == INSTANCE MirrorSelector
        WITH Modes <- {"refusing"}, health <- hosts, current <- selected, gone <- over

ASSUME SearchAssumption ==
  /\ HitCounts \subseteq Nat /\ Limits \subseteq Nat \ {0} /\ PerPage \in Nat \ {0}
  /\ {Listable, ArchivePage, MaxPages} \subseteq Nat
  /\ None \notin Nat /\ None \notin PS!Arguments

PartsInit ==
  /\ part \in {"download", "search", "read", "lookup", "stats", "request", "store", "launcher",
              "account"}
  /\ PD!Init /\ PS!Init /\ RP!Init /\ DL!Init /\ FS!Init /\ RL!Init /\ MS!Init /\ Init
  /\ AC!Init
  /\ part # "store" => \A h \in Hosts : file[h].ok = 1   \* one file is enough

Deliver == part = "download" /\ PD!Next /\ UNCHANGED <<part, searchVars, readVars, clientVars>>
Search == part = "search" /\ PS!Next /\ UNCHANGED <<part, downloadVars, readVars, clientVars>>
Read == part = "read" /\ RP!Next /\ UNCHANGED <<part, downloadVars, searchVars, clientVars>>
LookUp ==
  /\ part = "lookup" /\ DL!Next
  /\ UNCHANGED <<part, papersVars, statsVars, requestVars, storeVars, nvars,
                 accountVars>>
Stats ==
  /\ part = "stats" /\ FS!Next
  /\ UNCHANGED <<part, papersVars, lookupVars, requestVars, storeVars, nvars,
                 accountVars>>
Requesting ==
  /\ part = "request" /\ RL!Next
  /\ UNCHANGED <<part, papersVars, lookupVars, statsVars, storeVars, nvars,
                 accountVars>>
Store ==
  /\ part = "store" /\ MS!Next
  /\ UNCHANGED <<part, papersVars, lookupVars, statsVars, requestVars, nvars,
                 accountVars>>
Launch ==
  /\ part = "launcher" /\ Next
  /\ UNCHANGED <<part, papersVars, lookupVars, statsVars, requestVars, storeVars, accountVars>>

Account ==
  /\ part = "account" /\ AC!Next
  /\ UNCHANGED <<part, papersVars, lookupVars, statsVars, requestVars, storeVars, nvars>>

PartsNext == Deliver \/ Search \/ Read \/ LookUp \/ Stats \/ Requesting \/ Store \/ Launch
          \/ Account

(* The fairness that RequestLimits states. *)
RequestClient ==
  /\ part = "request" /\ RL!Client
  /\ UNCHANGED <<part, papersVars, lookupVars, statsVars, storeVars, nvars,
                 accountVars>>

PartsSpec == PartsInit /\ [][PartsNext]_vars /\ WF_vars(RequestClient)

(* What was asked for is what is delivered. *)
SelectionIsKept == PD!SelectionIsKept

(* Every source that may serve is asked before the call fails. *)
SourcesInOrder == PD!SourcesInOrder

(* Whoever answers a search understands every filter of its first call. *)
AnswersMatchFilters == PS!AnswersMatchFilters

(* Replaying the arguments that an answer offers reaches every hit once. *)
NextArgsLoseNothing == PS!NextArgsLoseNothing

(* A chain of reading calls returns one text, each character once. *)
TextIsReadOnce == RP!TextIsReadOnce

(* The first candidate that carries the DOI is returned. *)
FirstMatchWins == DL!FirstMatchWins

(* A DOI is reported as absent only if every archive request answered. *)
MissIsConclusive == DL!MissIsConclusive

(* Slots are free again when every call is over. *)
SlotsAreReturned == FS!SlotsAreReturned

(* No call is given counters that are too old. *)
ServesFreshStats == FS!ServesFreshStats

(* A request ends although its server goes quiet, and leaves nothing behind. *)
RequestsEnd == RL!RequestsEnd

(* mirrors.json has what its only process knows, but of a mirror whose     *)
(* state in it is still one that was found ahead of the clock.             *)
FileCatchesUp == MS!FileCatchesUp

(* mirrors.go, onMirrorFrom: while every mirror answers 403, as they do in *)
(* this part, the account is at fault and no mirror is held back.          *)
AccountTroubleHoldsNobody == (\A h \in Hosts : mode[h] = "refusing") => \A h \in Hosts : AC!Eligible(h)
=============================================================================
