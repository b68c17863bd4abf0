--------------------------- MODULE MirrorSelector ---------------------------
(***************************************************************************)
(* Which mirror an archive request goes to: mirror.Health remembers what   *)
(* requests and checks showed about each mirror, mirror.Selector chooses   *)
(* one, and Client.onMirror runs a call on the chosen mirror and once more *)
(* on another when the first failed.                                       *)
(*                                                                         *)
(* Time advances in ticks of a few seconds.  No instant is kept: a mirror  *)
(* has the ticks left of its hold and the ticks since it last worked, both *)
(* saturating, which is all that the code compares.  Each action is one    *)
(* critical section of Selector.mu or Health.mu, or one answer received.   *)
(***************************************************************************)
EXTENDS Integers, FiniteSets, FiniteSetsExt

CONSTANTS
  Hosts,          \* Selector.hosts
  NoHost,         \* the empty host name
  Callers,        \* concurrent calls of onMirror on one Client
  NoCaller,       \* Selector.selecting = nil
  BaseHold,       \* baseHold, in ticks
  MaxHold,        \* maxHold, in ticks
  FreshFor,       \* freshFor, in ticks
  SweepInterval,  \* sweepInterval, in ticks
  CheckTimeout,   \* checkTimeout, in ticks: how long a round of checks lasts at most
  RetryAfters,    \* the Retry-After delays mirrors send, in ticks
  Modes           \* how a mirror may behave, among those of Possible

ASSUME NullAssumption == NoHost \notin Hosts /\ NoCaller \notin Callers
ASSUME HostsAssumption == Hosts # {}
ASSUME HoldAssumption == BaseHold \in 1..MaxHold /\ MaxHold \in Nat
ASSUME AgeAssumption == FreshFor \in Nat \ {0} /\ SweepInterval \in Nat \ {0}
ASSUME CheckAssumption == CheckTimeout \in Nat \ {0}
ASSUME RetryAfterAssumption == RetryAfters \subseteq Nat \ {0}

(* What a mirror may do to a check and to an operation, by its behaviour.  *)
Possible ==
  [any      |-> {"passes", "fails_check", "works", "fails", "refuses", "not_found"},
   up       |-> {"passes", "works", "not_found"},
   refusing |-> {"passes", "refuses"}]

ASSUME ModesAssumption == Modes # {} /\ Modes \subseteq DOMAIN Possible

VARIABLES
  mode,       \* what each mirror does, one of Modes
  health,     \* Health.hosts: okAge, failures and held of each mirror
  current,    \* Selector.current
  roundAge,   \* ticks since Selector.lastRound, up to SweepInterval
  selecting,  \* the call that leads the round of checks under way
  checks,     \* the mirrors whose check that round still waits for
  checkTicks, \* ticks since that round started, 0 when none is under way
  pc,         \* where each call is
  gone,       \* whether the call's context has ended
  first,      \* the mirror that failed the call's first attempt, excluded
  mirror,     \* the mirror the call runs on, or won in its round
  refused,    \* whether the first attempt ended in a forbiddenError
  retryIn     \* UnavailableError.RetryIn of the call's error, or 0

selectVars == <<current, roundAge, selecting, checks, checkTicks>>
callVars   == <<pc, gone, first, mirror, refused, retryIn>>
vars == <<mode, health, selectVars, callVars>>

(* What the mirror does next may be this. *)
May(h, outcome) == outcome \in Possible[mode[h]]

Cap(n, bound) == IF n < bound THEN n ELSE bound

(***************************************************************************)
(* Health                                                                  *)
(***************************************************************************)

(* The hold after a number of failures in a row, before jitter. *)
HoldFor(failures) == Cap(BaseHold * 2 ^ (failures - 1), MaxHold)

(* A count of failures whose hold is the longest, MaxHold at the latest,   *)
(* since holds double.  A larger count changes no hold, so the model       *)
(* counts no further.                                                      *)
FailureCap == CHOOSE n \in 1..MaxHold : n = MaxHold \/ HoldFor(n) = MaxHold

(* Jitter of a tenth, and holds that start between ticks, move the end of  *)
(* a hold across at most one tick.                                         *)
Jitter(hold) == {h \in (hold - 1)..(hold + 1) : h >= 1}

NeverSeen == [okAge |-> FreshFor, failures |-> 0, held |-> 0]

Eligible(h) == health[h].held = 0

(* A request worked: the failures are forgiven. *)
Succeeded(h) == health' = [health EXCEPT ![h] = [okAge |-> 0, failures |-> 0, held |-> 0]]

(* Mutant of Passed: a check forgives what requests showed. *)
PassedForgives(h) == health' = [health EXCEPT ![h] = [okAge |-> 0, failures |-> 0, held |-> 0]]

(* A check passed: the hold ends, the failures still count. *)
Passed(h) ==
  health' = [health EXCEPT ![h] = [okAge |-> 0, failures |-> @.failures, held |-> 0]]

(* A request or a check failed, with the mirror's Retry-After or 0.  A     *)
(* failure without one during a hold belongs to the same outage.           *)
Failed(h, retryAfter) ==
  IF ~Eligible(h) /\ retryAfter = 0
  THEN UNCHANGED health
  ELSE LET failures == Cap(health[h].failures + 1, FailureCap) IN
       \E hold \in IF retryAfter > 0 THEN {retryAfter} ELSE Jitter(HoldFor(failures)) :
         health' = [health EXCEPT ![h] = [okAge |-> @.okAge, failures |-> failures,
                                          held |-> Cap(hold, MaxHold)]]

(***************************************************************************)
(* Selector                                                                *)
(***************************************************************************)

Usable(exclude) == {h \in Hosts \ exclude : Eligible(h)}

(* The usable mirrors that worked most recently, if within freshFor. *)
Freshest(exclude) ==
  {h \in Usable(exclude) : /\ health[h].okAge < FreshFor
                           /\ \A g \in Usable(exclude) : health[h].okAge <= health[g].okAge}

(* The mirrors a round checks: the usable ones, or every one of them when  *)
(* all are on hold and a sweep is due.  Empty means the call is refused.   *)
Candidates(exclude) ==
  IF Usable(exclude) # {} THEN Usable(exclude)
  ELSE IF roundAge < SweepInterval THEN {} ELSE Hosts \ exclude

(* Mutant of RetryIn: the holds are forgotten. *)
RetryInNextSweep(age) == SweepInterval - age

(* What unavailable() says a round of that age before: the ticks to the    *)
(* next sweep or to the end of the first hold that has not ended.          *)
RetryIn(age) ==
  LET ahead == {d \in {SweepInterval - age} \cup {health[h].held : h \in Hosts} : d > 0}
  IN  IF ahead = {} THEN 0 ELSE Min(ahead)

Exclude(c) == {first[c]} \ {NoHost}

(* What a call knew is gone when it returns. *)
Forget(c) ==
  /\ gone' = [gone EXCEPT ![c] = FALSE]
  /\ first' = [first EXCEPT ![c] = NoHost]
  /\ mirror' = [mirror EXCEPT ![c] = NoHost]
  /\ refused' = [refused EXCEPT ![c] = FALSE]

Return(c) == pc' = [pc EXCEPT ![c] = "idle"] /\ Forget(c)

(* Select fails with an UnavailableError.  The caller of a first attempt   *)
(* is told its RetryIn; the error of a second Select is dropped.           *)
Unavailable(c, age) ==
  retryIn' = IF first[c] = NoHost THEN [retryIn EXCEPT ![c] = RetryIn(age)] ELSE retryIn

(* The call runs on the mirror that Select returned. *)
RunOn(c, h) ==
  /\ pc' = [pc EXCEPT ![c] = "attempt"]
  /\ mirror' = [mirror EXCEPT ![c] = h]
  /\ UNCHANGED <<gone, first, refused, retryIn>>

Call(c) ==
  /\ pc[c] = "idle"
  /\ pc' = [pc EXCEPT ![c] = "select"]
  /\ retryIn' = [retryIn EXCEPT ![c] = 0]
  /\ UNCHANGED <<mode, health, selectVars, gone, first, mirror, refused>>

(* Mutant of KeepCurrent: the excluded mirror is not looked at. *)
KeepAnyCurrent(c) ==
  /\ pc[c] = "select" /\ ~gone[c]
  /\ current # NoHost /\ Eligible(current)
  /\ RunOn(c, current)
  /\ UNCHANGED <<mode, health, selectVars>>

(* The mirror in use is kept for as long as it works. *)
KeepCurrent(c) ==
  /\ pc[c] = "select" /\ ~gone[c]
  /\ current \in Usable(Exclude(c))
  /\ RunOn(c, current)
  /\ UNCHANGED <<mode, health, selectVars>>

(* A round is under way: wait for it to end. *)
AwaitRound(c) ==
  /\ pc[c] = "select" /\ ~gone[c]
  /\ current \notin Usable(Exclude(c))
  /\ selecting # NoCaller
  /\ pc' = [pc EXCEPT ![c] = "waiting"]
  /\ UNCHANGED <<mode, health, selectVars, gone, first, mirror, refused, retryIn>>

(* A mirror that worked recently is used without a check. *)
UseFreshest(c) ==
  /\ pc[c] = "select" /\ ~gone[c]
  /\ current \notin Usable(Exclude(c))
  /\ selecting = NoCaller
  /\ \E h \in Freshest(Exclude(c)) : current' = h /\ RunOn(c, h)
  /\ UNCHANGED <<mode, health, roundAge, selecting, checks, checkTicks>>

(* Every mirror is on hold and no sweep is due: fail without contact. *)
Refuse(c) ==
  /\ pc[c] = "select" /\ ~gone[c]
  /\ selecting = NoCaller
  /\ Candidates(Exclude(c)) = {}
  /\ Unavailable(c, roundAge)
  /\ Return(c)
  /\ UNCHANGED <<mode, health, selectVars>>

(* Check the candidates, all at once. *)
StartRound(c) ==
  /\ pc[c] = "select" /\ ~gone[c]
  /\ current \notin Usable(Exclude(c))
  /\ selecting = NoCaller
  /\ Freshest(Exclude(c)) = {}
  /\ Candidates(Exclude(c)) # {}
  /\ selecting' = c
  /\ checks' = Candidates(Exclude(c))
  /\ pc' = [pc EXCEPT ![c] = "checking"]
  /\ UNCHANGED <<mode, health, current, roundAge, checkTicks, gone, first, mirror, refused,
                 retryIn>>

(* The first check to pass decides the round and cancels the others. *)
CheckPasses(c, h) ==
  /\ pc[c] = "checking" /\ ~gone[c] /\ h \in checks
  /\ May(h, "passes")
  /\ Passed(h)
  /\ checks' = {}
  /\ mirror' = [mirror EXCEPT ![c] = h]
  /\ pc' = [pc EXCEPT ![c] = "ending"]
  /\ UNCHANGED <<mode, current, roundAge, selecting, checkTicks, gone, first, refused, retryIn>>

(* Mutant of CheckFails: the first answer decides, be it a failure. *)
CheckFailsRound(c, h) ==
  /\ pc[c] = "checking" /\ ~gone[c] /\ h \in checks
  /\ May(h, "fails_check")
  /\ Failed(h, 0)
  /\ checks' = {}
  /\ mirror' = [mirror EXCEPT ![c] = NoHost]
  /\ pc' = [pc EXCEPT ![c] = "ending"]
  /\ UNCHANGED <<mode, current, roundAge, selecting, checkTicks, gone, first, refused, retryIn>>

(* A check fails, or runs into checkTimeout.  The last one ends the round. *)
CheckFails(c, h) ==
  /\ pc[c] = "checking" /\ ~gone[c] /\ h \in checks
  /\ May(h, "fails_check")
  /\ Failed(h, 0)
  /\ checks' = checks \ {h}
  /\ mirror' = [mirror EXCEPT ![c] = NoHost]
  /\ pc' = [pc EXCEPT ![c] = IF checks' = {} THEN "ending" ELSE "checking"]
  /\ UNCHANGED <<mode, current, roundAge, selecting, checkTicks, gone, first, refused, retryIn>>

(* Mutant of AbandonChecks: the leader returns without ending its round. *)
AbandonRound(c) ==
  /\ pc[c] = "checking" /\ gone[c]
  /\ checks' = {}
  /\ Return(c)
  /\ UNCHANGED <<mode, health, current, roundAge, selecting, checkTicks, retryIn>>

(* A leader whose context ended learns nothing from the checks. *)
AbandonChecks(c) ==
  /\ pc[c] = "checking" /\ gone[c]
  /\ checks' = {}
  /\ mirror' = [mirror EXCEPT ![c] = NoHost]
  /\ pc' = [pc EXCEPT ![c] = "ending"]
  /\ UNCHANGED <<mode, health, current, roundAge, selecting, checkTicks, gone, first, refused,
                 retryIn>>

(* The call that ends a round leaves Select; every waiting call looks again. *)
Released(c, next) ==
  [d \in Callers |-> IF d = c THEN next ELSE IF pc[d] = "waiting" THEN "select" ELSE pc[d]]

(* The end of a round.  What a call that was given up is told, nobody asks. *)
EndRound(c) ==
  /\ pc[c] = "ending"
  /\ roundAge' = IF gone[c] THEN roundAge ELSE 0
  /\ current' = IF mirror[c] = NoHost THEN current ELSE mirror[c]
  /\ selecting' = NoCaller
  /\ checkTicks' = 0
  /\ IF mirror[c] = NoHost
     THEN /\ pc' = Released(c, "idle") /\ Forget(c)
          /\ IF gone[c] THEN UNCHANGED retryIn ELSE Unavailable(c, roundAge')
     ELSE pc' = Released(c, "attempt") /\ UNCHANGED <<gone, first, mirror, refused, retryIn>>
  /\ UNCHANGED <<mode, health, checks>>

(* The context ends: noticed before selecting and while waiting. *)
Cancelled(c) ==
  /\ pc[c] \in {"select", "waiting"} /\ gone[c]
  /\ Return(c)
  /\ UNCHANGED <<mode, health, selectVars, retryIn>>

(***************************************************************************)
(* onMirrorFrom: the operation on one mirror, then on another              *)
(***************************************************************************)

(* The operation works on the mirror; it is recorded afterwards, in Record *)
(* and, for a refusal elsewhere, Blame.                                    *)
AttemptWorks(c) ==
  /\ pc[c] = "attempt"
  /\ May(mirror[c], "works")
  /\ pc' = [pc EXCEPT ![c] = IF refused[c] THEN "blame" ELSE "record"]
  /\ UNCHANGED <<mode, health, selectVars, gone, first, mirror, refused, retryIn>>

(* What follows a failed attempt: the first is judged, the second ends the call. *)
AfterFailure(c, forbidden) ==
  IF first[c] = NoHost
  THEN /\ pc' = [pc EXCEPT ![c] = "judge"]
       /\ refused' = [refused EXCEPT ![c] = forbidden]
       /\ UNCHANGED <<gone, first, mirror>>
  ELSE Return(c)

(* The mirror did not answer, or did with 5xx or with 429, which may name  *)
(* the time to wait.                                                       *)
ResponseFailure(h) == \E retryAfter \in RetryAfters \cup {0} : Failed(h, retryAfter)

(* Mutant of AttemptFails: a cancelled request counts against the mirror. *)
AttemptFailsAlways(c) ==
  /\ pc[c] = "attempt"
  /\ gone[c] \/ May(mirror[c], "fails")
  /\ ResponseFailure(mirror[c])
  /\ AfterFailure(c, FALSE)
  /\ UNCHANGED <<mode, selectVars, retryIn>>

(* The mirror does not answer, or answers 5xx or 429: doGet holds it, *)
(* unless the call's own context is what ended the request.           *)
AttemptFails(c) ==
  /\ pc[c] = "attempt"
  /\ gone[c] \/ May(mirror[c], "fails")
  /\ IF gone[c] THEN UNCHANGED health
     ELSE ResponseFailure(mirror[c])
  /\ AfterFailure(c, FALSE)
  /\ UNCHANGED <<mode, selectVars, retryIn>>

(* Mutant of AttemptRefused: a refusal counts against the mirror at once. *)
AttemptRefusedHolds(c) ==
  /\ pc[c] = "attempt"
  /\ May(mirror[c], "refuses")
  /\ Failed(mirror[c], 0)
  /\ AfterFailure(c, TRUE)
  /\ UNCHANGED <<mode, selectVars, retryIn>>

(* The mirror answers 403 and a fresh session does not help. *)
AttemptRefused(c) ==
  /\ pc[c] = "attempt"
  /\ May(mirror[c], "refuses")
  /\ AfterFailure(c, TRUE)
  /\ UNCHANGED <<mode, health, selectVars, retryIn>>

(* The answer is not the mirror's failure, such as a missing record. *)
AttemptNotFound(c) ==
  /\ pc[c] = "attempt"
  /\ May(mirror[c], "not_found")
  /\ AfterFailure(c, FALSE)
  /\ UNCHANGED <<mode, health, selectVars, retryIn>>

(* Retry on another mirror only a refusal or a failure of the mirror. *)
Judge(c) ==
  /\ pc[c] = "judge"
  /\ IF gone[c] \/ (~refused[c] /\ Eligible(mirror[c]))
     THEN Return(c)
     ELSE /\ pc' = [pc EXCEPT ![c] = "select"]
          /\ first' = [first EXCEPT ![c] = mirror[c]]
          /\ mirror' = [mirror EXCEPT ![c] = NoHost]
          /\ UNCHANGED <<gone, refused>>
  /\ UNCHANGED <<mode, health, selectVars, retryIn>>

(* Another mirror served what the first refused: the first is held. *)
Blame(c) ==
  /\ pc[c] = "blame"
  /\ Failed(first[c], 0)
  /\ pc' = [pc EXCEPT ![c] = "record"]
  /\ UNCHANGED <<mode, selectVars, gone, first, mirror, refused, retryIn>>

(* The whole operation worked on the mirror. *)
Record(c) ==
  /\ pc[c] = "record"
  /\ Succeeded(mirror[c])
  /\ Return(c)
  /\ UNCHANGED <<mode, selectVars, retryIn>>

(***************************************************************************)
(* The environment                                                         *)
(***************************************************************************)

(* The context of a call in progress ends. *)
GiveUp(c) ==
  /\ pc[c] # "idle" /\ ~gone[c]
  /\ gone' = [gone EXCEPT ![c] = TRUE]
  /\ UNCHANGED <<mode, health, selectVars, pc, first, mirror, refused, retryIn>>

Weather(h) ==
  /\ \E m \in Modes \ {mode[h]} : mode' = [mode EXCEPT ![h] = m]
  /\ UNCHANGED <<health, selectVars, callVars>>

(* Time passes; checkTimeout ends the checks of a round. *)
Tick ==
  /\ selecting # NoCaller => checkTicks < CheckTimeout
  /\ checkTicks' = IF selecting = NoCaller THEN 0 ELSE checkTicks + 1
  /\ health' = [h \in Hosts |->
                  [okAge |-> Cap(health[h].okAge + 1, FreshFor), failures |-> health[h].failures,
                   held |-> IF health[h].held > 0 THEN health[h].held - 1 ELSE 0]]
  /\ roundAge' = Cap(roundAge + 1, SweepInterval)
  /\ UNCHANGED <<mode, current, selecting, checks, callVars>>

(***************************************************************************)

Init ==
  /\ mode \in [Hosts -> Modes]
  /\ health = [h \in Hosts |-> NeverSeen]
  /\ current = NoHost
  /\ roundAge = SweepInterval
  /\ selecting = NoCaller
  /\ checks = {}
  /\ checkTicks = 0
  /\ pc = [c \in Callers |-> "idle"]
  /\ gone = [c \in Callers |-> FALSE]
  /\ first = [c \in Callers |-> NoHost]
  /\ mirror = [c \in Callers |-> NoHost]
  /\ refused = [c \in Callers |-> FALSE]
  /\ retryIn = [c \in Callers |-> 0]

(* What a call does by itself once started. *)
Proceed(c) ==
  \/ KeepCurrent(c) \/ AwaitRound(c) \/ UseFreshest(c) \/ Refuse(c) \/ StartRound(c)
  \/ \E h \in Hosts : CheckPasses(c, h) \/ CheckFails(c, h)
  \/ AbandonChecks(c) \/ EndRound(c) \/ Cancelled(c)
  \/ AttemptWorks(c) \/ AttemptFails(c) \/ AttemptRefused(c) \/ AttemptNotFound(c)
  \/ Judge(c) \/ Blame(c) \/ Record(c)

Step ==
  \/ \E h \in Hosts : Weather(h)
  \/ \E c \in Callers : Call(c) \/ GiveUp(c) \/ Proceed(c)

Next == Tick \/ Step

(* Calls run on goroutines the runtime schedules, every request and check  *)
(* has a timeout, and time passes.  Nobody has to call or to give up.      *)
Fairness == WF_vars(Tick) /\ \A c \in Callers : WF_vars(Proceed(c))

Spec == Init /\ [][Next]_vars /\ Fairness

(***************************************************************************)
(* Properties                                                              *)
(***************************************************************************)

Stages == {"idle", "select", "waiting", "checking", "ending", "attempt", "judge", "blame", "record"}

(* Every variable holds what its Go counterpart can hold: holds and ages   *)
(* stay within their bounds, a mirror is on hold only with a failure       *)
(* counted, and a round has a leader exactly while a call is checking.     *)
TypeOK ==
  /\ mode \in [Hosts -> Modes]
  /\ health \in [Hosts -> [okAge : 0..FreshFor, failures : 0..FailureCap, held : Nat]]
  /\ current \in Hosts \cup {NoHost}
  /\ roundAge \in 0..SweepInterval
  /\ selecting \in Callers \cup {NoCaller}
  /\ checks \subseteq Hosts
  /\ checkTicks \in 0..CheckTimeout
  /\ pc \in [Callers -> Stages]
  /\ gone \in [Callers -> BOOLEAN]
  /\ first \in [Callers -> Hosts \cup {NoHost}]
  /\ mirror \in [Callers -> Hosts \cup {NoHost}]
  /\ refused \in [Callers -> BOOLEAN]
  /\ retryIn \in [Callers -> 0..SweepInterval]
  /\ \A c \in Callers : selecting = c <=> pc[c] \in {"checking", "ending"}

(* onMirrorFrom: the second attempt never runs on the mirror that failed   *)
(* the first, although callers that exclude different mirrors share one    *)
(* round of checks and one Selector.current.                               *)
RetryGoesElsewhere ==
  \A c \in Callers : pc[c] \in {"attempt", "blame", "record"} => mirror[c] # first[c]

(* health.go: whatever a mirror sends as Retry-After and however often it  *)
(* fails, it is on hold for at most maxHold, and never without a failure   *)
(* counted against it.                                                     *)
HoldsAreBounded ==
  \A h \in Hosts : health[h].held <= MaxHold /\ (health[h].held > 0 => health[h].failures > 0)

(* Whether a call made after d quiet ticks would contact some mirror. *)
WouldContact(d) == (\E h \in Hosts : health[h].held <= d) \/ roundAge + d >= SweepInterval

(* Select fails without contact, or after a round of failed checks, and    *)
(* its error is what the caller, still there, is told.                     *)
LeftWithoutMirror(c) ==
  /\ pc[c] \in {"select", "ending"} /\ pc'[c] = "idle"
  /\ ~gone[c] /\ first[c] = NoHost

(* selector.go, unavailable: a call that fails for want of a mirror, be it *)
(* without contact or after a round of failed checks in which holds ended  *)
(* or other calls' requests worked, is told a time to come within          *)
(* sweepInterval, and a call made then makes contact.  One made earlier    *)
(* does not, unless a mirror is free already when the error is made.       *)
RetryInIsKept ==
  [][\A c \in Callers : LeftWithoutMirror(c) =>
       \E r \in 1..SweepInterval :
         /\ retryIn'[c] = r
         /\ WouldContact(r)'
         /\ WouldContact(r - 1)' => \E h \in Hosts : Eligible(h)']_vars

(* selector.go:244: whatever the error, its RetryIn "is how long until a   *)
(* call would contact a mirror again": none would earlier.  It is not so   *)
(* when a hold ran out during the round that failed.                       *)
RetryInIsExact ==
  [][\A c \in Callers : LeftWithoutMirror(c) =>
       \E r \in 1..SweepInterval :
         retryIn'[c] = r /\ WouldContact(r)' /\ ~WouldContact(r - 1)']_vars

(* health.go, Passed: a mirror that answers checks while failing requests  *)
(* keeps its failures; only an operation that worked on it forgives them.  *)
OnlySuccessForgives ==
  [][\A h \in Hosts : health'[h].failures < health[h].failures
       => \E c \in Callers : pc[c] = "record" /\ mirror[c] = h]_vars

(* The call takes this step: it moves on, or hears of one of its checks. *)
Acts(c) == pc'[c] # pc[c] \/ (selecting = c /\ checks' # checks)

(* The call learns about the mirror from a request or a check of its own. *)
Contacts(c, h) == (pc[c] = "attempt" /\ mirror[c] = h) \/ (pc[c] = "checking" /\ h \in checks)

(* Whether what the call learned may be held against the mirror: it lives  *)
(* and contacts it, or another mirror served what this one had refused.    *)
MayHold(c, h) == \/ Contacts(c, h) /\ ~gone[c]
                 \/ pc[c] = "blame" /\ first[c] = h /\ mirror[c] # h

(* A mirror whose hold grows is held by the call that takes the step. *)
OnlyContactsHold ==
  \A h \in Hosts : health'[h].held > health[h].held
                     => \E c \in Callers : Acts(c) /\ MayHold(c, h)

(* client_http.go and mirrors.go: whoever holds a mirror back is a call    *)
(* that contacts it and whose own context lives, or one that learned       *)
(* before that another mirror served what this one had refused.            *)
GivingUpHoldsNobody == [][OnlyContactsHold]_vars

Rounds == INSTANCE SingleFlight
            WITH leader <- selecting, waiting <- {c \in Callers : pc[c] = "waiting"}

(* Select: concurrent calls share one round of checks, and the end of the  *)
(* round releases every call that waits for it, even when its leader gave  *)
(* up: the rounds implement SingleFlight.                                  *)
RoundsAreShared == Rounds!Spec

(* Select: once some mirror works and keeps working, calls stop failing    *)
(* with UnavailableError: holds end and sweeps go on, whatever the other   *)
(* mirrors do and whichever calls give up.                                 *)
WorkingMirrorIsFound ==
  \A h \in Hosts : <>[](mode[h] = "up") => <>[][\A c \in Callers : ~LeftWithoutMirror(c)]_vars
=============================================================================
