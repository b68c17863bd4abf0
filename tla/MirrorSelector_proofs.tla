------------------------ MODULE MirrorSelector_proofs -----------------------
(***************************************************************************)
(* Which mirror a retry runs on, how long mirrors are held back, and what  *)
(* forgives or causes a hold, for any number of mirrors and calls and any  *)
(* intervals.                                                              *)
(***************************************************************************)
EXTENDS MirrorSelector, WellFoundedInduction, TLAPS

(* A round checks no mirror that its leader excludes. *)
ChecksSpareExcluded == \A c \in Callers : pc[c] = "checking" => first[c] \notin checks

(* The mirror a round has won is not the one its leader excludes. *)
WinnerIsAnother ==
  \A c \in Callers : pc[c] = "ending" /\ mirror[c] # NoHost => mirror[c] # first[c]

(* A call that has left Select runs on a mirror. *)
RunsOnMirror ==
  \A c \in Callers : pc[c] \in {"attempt", "judge", "blame", "record"} => mirror[c] \in Hosts

(* Only a second attempt knows of a refusal before it. *)
RefusedBefore ==
  \A c \in Callers : (refused[c] /\ pc[c] # "judge") \/ pc[c] = "blame" => first[c] \in Hosts

(* The states of the mirrors, with their bounds. *)
HealthType ==
  /\ health \in [Hosts -> [okAge : 0..FreshFor, failures : 0..FailureCap, held : Nat]]
  /\ HoldsAreBounded

MirrorInv ==
  /\ TypeOK /\ HoldsAreBounded
  /\ ChecksSpareExcluded /\ WinnerIsAnother /\ RunsOnMirror /\ RefusedBefore
  /\ RetryGoesElsewhere

USE NullAssumption, HoldAssumption, AgeAssumption, CheckAssumption, RetryAfterAssumption

(* The count of failures is bounded. *)
LEMMA FailureCapIsCount == FailureCap \in Nat \ {0}
<1>1. \E n \in 1..MaxHold : n = MaxHold \/ HoldFor(n) = MaxHold
  OBVIOUS
<1>2. FailureCap \in 1..MaxHold
  BY <1>1 DEF FailureCap
<1>3. QED
  BY <1>2

(* A failure of one mirror keeps the bounds, takes no failure back, and    *)
(* leaves the other mirrors alone.                                         *)
LEMMA FailedKeeps ==
  ASSUME HealthType, NEW h \in Hosts, NEW retryAfter \in RetryAfters \cup {0},
         Failed(h, retryAfter)
  PROVE  /\ HealthType'
         /\ \A g \in Hosts : health'[g].failures >= health[g].failures
         /\ \A g \in Hosts : g # h => health'[g] = health[g]
<1> USE FailureCapIsCount DEF HealthType, HoldsAreBounded
<1>1. CASE UNCHANGED health
  BY <1>1
<1>2. CASE ~UNCHANGED health
  <2> DEFINE failures == Cap(health[h].failures + 1, FailureCap)
  <2>1. PICK hold \in IF retryAfter > 0 THEN {retryAfter} ELSE Jitter(HoldFor(failures)) :
          health' = [health EXCEPT ![h] = [okAge |-> health[h].okAge, failures |-> failures,
                                           held |-> Cap(hold, MaxHold)]]
    BY <1>2 DEF Failed
  <2>2. failures \in 1..FailureCap /\ failures >= health[h].failures
    BY DEF Cap
  <2>3. hold \in Nat \ {0}
    BY DEF Jitter
  <2>4. Cap(hold, MaxHold) \in 0..MaxHold
    BY <2>3 DEF Cap
  <2> HIDE DEF failures
  <2>5. QED
    BY <2>1, <2>2, <2>4
<1>3. QED
  BY <1>1, <1>2

(* Before the first call no mirror is known. *)
LEMMA InitEstablishes == Init => MirrorInv
BY FailureCapIsCount
DEF Init, NeverSeen, MirrorInv, TypeOK, HoldsAreBounded, Stages, ChecksSpareExcluded,
    WinnerIsAnother, RunsOnMirror, RefusedBefore, RetryGoesElsewhere

(* Where calls are, and what they know: all of the invariant but health. *)
CallsInv ==
  /\ mode \in [Hosts -> Modes]
  /\ current \in Hosts \cup {NoHost}
  /\ roundAge \in 0..SweepInterval
  /\ selecting \in Callers \cup {NoCaller}
  /\ checks \subseteq Hosts
  /\ pc \in [Callers -> Stages]
  /\ gone \in [Callers -> BOOLEAN]
  /\ first \in [Callers -> Hosts \cup {NoHost}]
  /\ mirror \in [Callers -> Hosts \cup {NoHost}]
  /\ refused \in [Callers -> BOOLEAN]
  /\ \A c \in Callers : selecting = c <=> pc[c] \in {"checking", "ending"}
  /\ ChecksSpareExcluded /\ WinnerIsAnother /\ RunsOnMirror /\ RefusedBefore
  /\ RetryGoesElsewhere

(* How long the round under way lasts, and what refused calls were told. *)
TimesType == checkTicks \in 0..CheckTimeout /\ retryIn \in [Callers -> 0..SweepInterval]

(* The invariant is about the mirrors, about the calls and about times. *)
LEMMA InvParts == MirrorInv <=> HealthType /\ CallsInv /\ TimesType
BY DEF MirrorInv, HealthType, CallsInv, TimesType, TypeOK

(* The steps that tell Health something, or let time pass. *)
LEMMA HealthSteps ==
  [Next]_vars => \/ UNCHANGED health
                 \/ Tick
                 \/ \E c \in Callers : \/ \E h \in Hosts : CheckPasses(c, h) \/ CheckFails(c, h)
                                       \/ AttemptFails(c) \/ Blame(c) \/ Record(c)
BY DEF Next, Step, Proceed, vars, Weather, Call, GiveUp, KeepCurrent, AwaitRound, UseFreshest,
       Refuse, StartRound, AbandonChecks, EndRound, Cancelled, AttemptWorks, AttemptRefused,
       AttemptNotFound, Judge

(* Every step keeps what is known of the mirrors. *)
LEMMA HealthIsKept == MirrorInv /\ [Next]_vars => HealthType'
<1> SUFFICES ASSUME MirrorInv, [Next]_vars
             PROVE  HealthType'
  OBVIOUS
<1>1. HealthType /\ CallsInv
  BY InvParts
<1>2. ASSUME UNCHANGED health PROVE HealthType'
  BY <1>1, <1>2 DEF HealthType, HoldsAreBounded
<1>3. CASE Tick
  BY <1>1, <1>3, FailureCapIsCount DEF Tick, HealthType, HoldsAreBounded, Cap
<1>4. ASSUME NEW c \in Callers, NEW h \in Hosts, CheckPasses(c, h) PROVE HealthType'
  BY <1>1, <1>4, FailureCapIsCount DEF CheckPasses, Passed, HealthType, HoldsAreBounded
<1>5. ASSUME NEW c \in Callers, NEW h \in Hosts, CheckFails(c, h) PROVE HealthType'
  BY <1>1, <1>5, FailedKeeps DEF CheckFails
<1>6. ASSUME NEW c \in Callers, AttemptFails(c) PROVE HealthType'
  BY <1>1, <1>2, <1>6, FailedKeeps DEF AttemptFails, ResponseFailure, CallsInv, RunsOnMirror
<1>7. ASSUME NEW c \in Callers, Blame(c) PROVE HealthType'
  BY <1>1, <1>7, FailedKeeps DEF Blame, CallsInv, RefusedBefore
<1>8. ASSUME NEW c \in Callers, Record(c) PROVE HealthType'
  <2>1. mirror[c] \in Hosts /\ Succeeded(mirror[c])
    BY <1>1, <1>8 DEF Record, CallsInv, RunsOnMirror
  <2>2. QED
    BY <1>1, <2>1, FailureCapIsCount DEF Succeeded, HealthType, HoldsAreBounded
<1>9. QED
  BY HealthSteps, <1>2, <1>3, <1>4, <1>5, <1>6, <1>7, <1>8

(* A call that returns, or whose attempt failed, keeps what is known. *)
LEMMA ReturnKeeps ==
  ASSUME CallsInv, NEW c \in Callers, pc[c] \notin {"checking", "ending"}, Return(c),
         UNCHANGED <<mode, selectVars>>
  PROVE  CallsInv'
BY DEF CallsInv, Stages, ChecksSpareExcluded, WinnerIsAnother, RunsOnMirror, RefusedBefore,
       RetryGoesElsewhere, selectVars, Return, Forget

(* What follows a failed attempt keeps what is known of the calls: a first   *)
(* failure goes to Select with its mirror excluded, a second one ends.       *)
LEMMA AfterFailureKeeps ==
  ASSUME CallsInv, NEW c \in Callers, NEW forbidden \in BOOLEAN, pc[c] = "attempt",
         AfterFailure(c, forbidden), UNCHANGED <<mode, selectVars>>
  PROVE  CallsInv'
<1>1. CASE first[c] = NoHost
  BY <1>1 DEF AfterFailure, CallsInv, Stages, ChecksSpareExcluded, WinnerIsAnother, RunsOnMirror,
       RefusedBefore, RetryGoesElsewhere, selectVars
<1>2. CASE first[c] # NoHost
  BY <1>2, ReturnKeeps DEF AfterFailure
<1>3. QED
  BY <1>1, <1>2

(* Every step keeps what is known of the calls. *)
LEMMA CallsAreKept == MirrorInv /\ [Next]_vars => CallsInv'
<1> SUFFICES ASSUME MirrorInv, [Next]_vars
             PROVE  CallsInv'
  OBVIOUS
<1>0. CallsInv
  BY InvParts
<1> USE <1>0 DEF CallsInv, Stages, ChecksSpareExcluded, WinnerIsAnother, RunsOnMirror,
                 RefusedBefore, RetryGoesElsewhere, selectVars, callVars
<1>1. CASE Tick
  BY <1>1 DEF Tick, Cap
<1>2. ASSUME NEW h \in Hosts, Weather(h) PROVE CallsInv'
  BY <1>2 DEF Weather
<1>3. ASSUME NEW c \in Callers, Call(c) PROVE CallsInv'
  BY <1>3 DEF Call
<1>4. ASSUME NEW c \in Callers, GiveUp(c) PROVE CallsInv'
  BY <1>4 DEF GiveUp
<1>5. ASSUME NEW c \in Callers, KeepCurrent(c) PROVE CallsInv'
  BY <1>5 DEF KeepCurrent, RunOn, Usable, Exclude
<1>6. ASSUME NEW c \in Callers, AwaitRound(c) PROVE CallsInv'
  BY <1>6 DEF AwaitRound
<1>7. ASSUME NEW c \in Callers, UseFreshest(c) PROVE CallsInv'
  BY <1>7 DEF UseFreshest, Freshest, RunOn, Usable, Exclude
<1>8. ASSUME NEW c \in Callers, Refuse(c) PROVE CallsInv'
  BY <1>8 DEF Refuse, Return, Forget
<1>9. ASSUME NEW c \in Callers, StartRound(c) PROVE CallsInv'
  BY <1>9 DEF StartRound, Candidates, Usable, Exclude
<1>10. ASSUME NEW c \in Callers, NEW h \in Hosts, CheckPasses(c, h) PROVE CallsInv'
  BY <1>10 DEF CheckPasses
<1>11. ASSUME NEW c \in Callers, NEW h \in Hosts, CheckFails(c, h) PROVE CallsInv'
  BY <1>11 DEF CheckFails
<1>12. ASSUME NEW c \in Callers, AbandonChecks(c) PROVE CallsInv'
  BY <1>12 DEF AbandonChecks
<1>13. ASSUME NEW c \in Callers, EndRound(c) PROVE CallsInv'
  <2>1. /\ current' \in Hosts \cup {NoHost} /\ roundAge' \in 0..SweepInterval
        /\ selecting' = NoCaller /\ UNCHANGED <<mode, checks>>
    BY <1>13 DEF EndRound
  <2>2. \A d \in Callers : d # c => /\ pc'[d] = IF pc[d] = "waiting" THEN "select" ELSE pc[d]
                                    /\ pc[d] \notin {"checking", "ending"}
                                    /\ gone'[d] = gone[d] /\ first'[d] = first[d]
                                    /\ mirror'[d] = mirror[d] /\ refused'[d] = refused[d]
    BY <1>13 DEF EndRound, Released, Forget
  <2>3. CASE mirror[c] = NoHost
    <3>1. /\ pc'[c] = "idle" /\ first'[c] = NoHost /\ mirror'[c] = NoHost /\ ~refused'[c]
          /\ pc' \in [Callers -> Stages] /\ gone' \in [Callers -> BOOLEAN]
          /\ first' \in [Callers -> Hosts \cup {NoHost}]
          /\ mirror' \in [Callers -> Hosts \cup {NoHost}] /\ refused' \in [Callers -> BOOLEAN]
      <4>1. /\ pc' = Released(c, "idle")
            /\ gone' = [gone EXCEPT ![c] = FALSE] /\ first' = [first EXCEPT ![c] = NoHost]
            /\ mirror' = [mirror EXCEPT ![c] = NoHost] /\ refused' = [refused EXCEPT ![c] = FALSE]
        BY <1>13, <2>3 DEF EndRound, Forget
      <4>2. pc' \in [Callers -> Stages] /\ pc'[c] = "idle"
        BY <4>1 DEF Released
      <4>3. QED
        BY <4>1, <4>2
    <3>2. QED
      BY <2>1, <2>2, <3>1
  <2>4. CASE mirror[c] # NoHost
    BY <1>13, <2>4 DEF EndRound, Released
  <2>5. QED
    BY <2>3, <2>4
<1>14. ASSUME NEW c \in Callers, Cancelled(c) PROVE CallsInv'
  BY <1>14 DEF Cancelled, Return, Forget
<1>15. ASSUME NEW c \in Callers, AttemptWorks(c) PROVE CallsInv'
  BY <1>15 DEF AttemptWorks
<1>16. ASSUME NEW c \in Callers, AttemptFails(c) PROVE CallsInv'
  BY <1>0, <1>16, AfterFailureKeeps DEF AttemptFails
<1>17. ASSUME NEW c \in Callers, AttemptRefused(c) PROVE CallsInv'
  BY <1>0, <1>17, AfterFailureKeeps DEF AttemptRefused
<1>18. ASSUME NEW c \in Callers, AttemptNotFound(c) PROVE CallsInv'
  BY <1>0, <1>18, AfterFailureKeeps DEF AttemptNotFound
<1>19. ASSUME NEW c \in Callers, Judge(c) PROVE CallsInv'
  <2>1. CASE gone[c] \/ (~refused[c] /\ Eligible(mirror[c]))
    BY <1>0, <1>19, <2>1, ReturnKeeps DEF Judge
  <2>2. CASE ~(gone[c] \/ (~refused[c] /\ Eligible(mirror[c])))
    BY <1>19, <2>2 DEF Judge
  <2>3. QED
    BY <2>1, <2>2
<1>20. ASSUME NEW c \in Callers, Blame(c) PROVE CallsInv'
  BY <1>20 DEF Blame
<1>21. ASSUME NEW c \in Callers, Record(c) PROVE CallsInv'
  BY <1>21 DEF Record, Return, Forget
<1>22. CASE UNCHANGED vars
  BY <1>22 DEF vars
<1>23. QED
  BY <1>1, <1>2, <1>3, <1>4, <1>5, <1>6, <1>7, <1>8, <1>9, <1>10, <1>11, <1>12, <1>13, <1>14,
     <1>15, <1>16, <1>17, <1>18, <1>19, <1>20, <1>21, <1>22 DEF Next, Step, Proceed

(* A set of naturals has a least element. *)
LEMMA LeastOfNaturals ==
  ASSUME NEW S, S \subseteq Nat, S # {}
  PROVE  Min(S) \in S /\ \A y \in S : Min(S) <= y
<1>1. PICK x \in S : \A y \in S : ~(<<y, x>> \in OpToRel(<, Nat))
  BY NatLessThanWellFounded, WFMin
<1>2. ASSUME NEW y \in S, ~(x <= y) PROVE FALSE
  <2>1. y < x /\ <<y, x>> \in Nat \X Nat
    BY <1>2
  <2>2. <<y, x>>[1] < <<y, x>>[2]
    BY <2>1
  <2>3. <<y, x>> \in {ss \in Nat \X Nat : ss[1] < ss[2]}
    BY <2>1, <2>2
  <2>4. <<y, x>> \in OpToRel(<, Nat)
    BY <2>3 DEF OpToRel
  <2> QED
    BY <1>1, <2>4
<1> QED
  BY <1>2 DEF Min

(* What a refused call is told: the first of the next sweep and the ends   *)
(* of the holds.                                                           *)
LEMMA RetryInIsFirst ==
  ASSUME HealthType, NEW age \in 0..(SweepInterval - 1)
  PROVE  /\ RetryIn(age) \in 1..SweepInterval /\ RetryIn(age) <= SweepInterval - age
         /\ RetryIn(age) = SweepInterval - age \/ \E h \in Hosts : health[h].held = RetryIn(age)
         /\ \A h \in Hosts : health[h].held > 0 => RetryIn(age) <= health[h].held
<1> DEFINE times == {SweepInterval - age} \cup {health[h].held : h \in Hosts}
           ahead == {d \in times : d > 0}
<1>1. \A h \in Hosts : health[h].held \in Nat
  BY DEF HealthType
<1>2. ahead \subseteq Nat /\ SweepInterval - age \in ahead
  BY <1>1
<1>3. RetryIn(age) = Min(ahead)
  BY <1>2 DEF RetryIn
<1> HIDE DEF ahead
<1>4. RetryIn(age) \in ahead /\ RetryIn(age) \in Nat /\ \A d \in ahead : RetryIn(age) <= d
  BY <1>2, <1>3, LeastOfNaturals
<1>5. RetryIn(age) > 0 /\ RetryIn(age) \in times
  BY <1>4 DEF ahead
<1>6. \A h \in Hosts : health[h].held > 0 => RetryIn(age) <= health[h].held
  <2>1. ASSUME NEW h \in Hosts, health[h].held > 0 PROVE RetryIn(age) <= health[h].held
    <3>1. health[h].held \in ahead
      BY <2>1 DEF ahead
    <3>2. QED
      BY <1>4, <3>1
  <2>2. QED
    BY <2>1
<1>7. RetryIn(age) = SweepInterval - age \/ \E h \in Hosts : health[h].held = RetryIn(age)
  BY <1>5
<1>8. RetryIn(age) <= SweepInterval - age
  BY <1>2, <1>4
<1> QED
  BY <1>4, <1>5, <1>6, <1>7, <1>8

(* A refused call, if there is an error for it to hear, is told a time to  *)
(* come, and the others keep what they were told.                          *)
LEMMA UnavailableKeeps ==
  ASSUME HealthType, TimesType, NEW c \in Callers, NEW age \in 0..(SweepInterval - 1),
         Unavailable(c, age)
  PROVE  retryIn' \in [Callers -> 0..SweepInterval]
<1>1. RetryIn(age) \in 0..SweepInterval
  BY RetryInIsFirst
<1>2. QED
  BY <1>1 DEF Unavailable, TimesType

(* Select fails without contact only before the next sweep. *)
LEMMA RefusedBeforeSweep ==
  ASSUME CallsInv, NEW c \in Callers, Refuse(c)
  PROVE  /\ first[c] = NoHost => roundAge < SweepInterval
         /\ Usable(Exclude(c)) = {}
<1>1. Candidates(Exclude(c)) = {}
  BY DEF Refuse
<1>2. Usable(Exclude(c)) = {}
  BY <1>1 DEF Candidates
<1>3. CASE first[c] = NoHost
  BY <1>1, <1>2, <1>3, HostsAssumption DEF Candidates, Exclude
<1>4. QED
  BY <1>2, <1>3

(* Every step keeps what is known of rounds and of what calls were told. *)
LEMMA TimesAreKept == MirrorInv /\ [Next]_vars => TimesType'
<1> SUFFICES ASSUME MirrorInv, [Next]_vars
             PROVE  TimesType'
  OBVIOUS
<1>0. HealthType /\ CallsInv /\ TimesType
  BY InvParts
<1>1. ASSUME UNCHANGED <<checkTicks, retryIn>> PROVE TimesType'
  BY <1>0, <1>1 DEF TimesType
<1>2. CASE Tick
  BY <1>0, <1>2 DEF Tick, TimesType, callVars
<1>3. ASSUME NEW c \in Callers, Call(c) PROVE TimesType'
  BY <1>0, <1>3 DEF Call, TimesType, selectVars
<1>4. ASSUME NEW c \in Callers, Refuse(c) PROVE TimesType'
  <2>1. Unavailable(c, roundAge) /\ UNCHANGED checkTicks
    BY <1>4 DEF Refuse, selectVars
  <2>2. CASE first[c] = NoHost
    <3>1. roundAge \in 0..(SweepInterval - 1)
      BY <1>0, <1>4, <2>2, RefusedBeforeSweep DEF CallsInv
    <3>2. QED
      BY <1>0, <2>1, <3>1, UnavailableKeeps DEF TimesType
  <2>3. CASE first[c] # NoHost
    BY <1>1, <2>1, <2>3 DEF Unavailable
  <2>4. QED
    BY <2>2, <2>3
<1>5. ASSUME NEW c \in Callers, EndRound(c) PROVE TimesType'
  <2>1. checkTicks' = 0 /\ (UNCHANGED retryIn \/ (~gone[c] /\ Unavailable(c, roundAge')))
    BY <1>5 DEF EndRound
  <2>2. ~gone[c] => roundAge' = 0
    BY <1>5 DEF EndRound
  <2>3. CASE UNCHANGED retryIn
    BY <1>0, <2>1, <2>3 DEF TimesType
  <2>4. CASE ~gone[c] /\ Unavailable(c, roundAge')
    BY <1>0, <2>1, <2>2, <2>4, UnavailableKeeps DEF TimesType
  <2>5. QED
    BY <2>1, <2>3, <2>4
<1>6. CASE UNCHANGED vars
  BY <1>1, <1>6 DEF vars, selectVars, callVars
<1>7. ASSUME NEW h \in Hosts, Weather(h) PROVE TimesType'
  BY <1>1, <1>7 DEF Weather, selectVars, callVars
<1>8. ASSUME NEW c \in Callers, GiveUp(c) \/ KeepCurrent(c) \/ AwaitRound(c) \/ UseFreshest(c)
      PROVE  TimesType'
  BY <1>1, <1>8 DEF GiveUp, KeepCurrent, AwaitRound, UseFreshest, RunOn, selectVars
<1>9. ASSUME NEW c \in Callers, NEW h \in Hosts,
             StartRound(c) \/ CheckPasses(c, h) \/ CheckFails(c, h) \/ AbandonChecks(c)
      PROVE  TimesType'
  BY <1>1, <1>9 DEF StartRound, CheckPasses, CheckFails, AbandonChecks
<1>10. ASSUME NEW c \in Callers,
              Cancelled(c) \/ AttemptWorks(c) \/ AttemptFails(c) \/ AttemptRefused(c)
       PROVE  TimesType'
  BY <1>1, <1>10 DEF Cancelled, AttemptWorks, AttemptFails, AttemptRefused, selectVars
<1>11. ASSUME NEW c \in Callers, AttemptNotFound(c) \/ Judge(c) \/ Blame(c) \/ Record(c)
       PROVE  TimesType'
  BY <1>1, <1>11 DEF AttemptNotFound, Judge, Blame, Record, selectVars
<1>12. QED
  BY <1>2, <1>3, <1>4, <1>5, <1>6, <1>7, <1>8, <1>9, <1>10, <1>11, HostsAssumption
  DEF Next, Step, Proceed

(* The invariant holds in every state. *)
LEMMA InvHolds == Spec => []MirrorInv
<1>1. MirrorInv /\ [Next]_vars => MirrorInv'
  <2>1. ASSUME MirrorInv, [Next]_vars PROVE MirrorInv'
    <3>1. HealthType' /\ CallsInv' /\ TimesType'
      BY <2>1, HealthIsKept, CallsAreKept, TimesAreKept
    <3>2. QED
      BY <3>1 DEF MirrorInv, HealthType, CallsInv, TimesType, TypeOK
  <2>2. QED
    BY <2>1
<1>2. QED
  BY <1>1, InitEstablishes, PTL DEF Spec

(* Every variable keeps its type, and a round has exactly one leader. *)
THEOREM MirrorTypeIsKept == Spec => []TypeOK
<1>1. MirrorInv => TypeOK
  BY DEF MirrorInv
<1>2. QED
  BY <1>1, InvHolds, PTL

(* health.go: no mirror is held back for longer than maxHold, nor without  *)
(* a failure counted against it.                                           *)
THEOREM HoldsEnd == Spec => []HoldsAreBounded
<1>1. MirrorInv => HoldsAreBounded
  BY DEF MirrorInv
<1>2. QED
  BY <1>1, InvHolds, PTL

(* onMirrorFrom: a second attempt never runs on the mirror that failed the *)
(* first, though calls that exclude different mirrors share their rounds.  *)
THEOREM RetryIsElsewhere == Spec => []RetryGoesElsewhere
<1>1. MirrorInv => RetryGoesElsewhere
  BY DEF MirrorInv
<1>2. QED
  BY <1>1, InvHolds, PTL

(* Who may take failures back, and who may hold a mirror back. *)
Forgiven(h) == health'[h].failures < health[h].failures
HeldBack(h) == health'[h].held > health[h].held

(* Who forgives a mirror its failures, and who holds it back. *)
LEMMA WhoChangesHealth ==
  ASSUME MirrorInv, [Next]_vars, NEW g \in Hosts
  PROVE  /\ Forgiven(g) => \E c \in Callers : pc[c] = "record" /\ mirror[c] = g
         /\ HeldBack(g) => \E c \in Callers : Acts(c) /\ MayHold(c, g)
<1> DEFINE Explained ==
      /\ Forgiven(g) => \E c \in Callers : pc[c] = "record" /\ mirror[c] = g
      /\ HeldBack(g) => \E c \in Callers : Acts(c) /\ MayHold(c, g)
<1>1. HealthType /\ RunsOnMirror /\ RefusedBefore /\ RetryGoesElsewhere
  BY InvParts DEF MirrorInv
<1>0. /\ pc \in [Callers -> Stages] /\ checks \subseteq Hosts
      /\ \A c \in Callers : selecting = c <=> pc[c] \in {"checking", "ending"}
  BY DEF MirrorInv, TypeOK
<1>2. health[g] \in [okAge : 0..FreshFor, failures : 0..FailureCap, held : Nat]
  BY <1>1 DEF HealthType
<1>3. CASE UNCHANGED health
  BY <1>2, <1>3, FailureCapIsCount DEF Forgiven, HeldBack
<1>4. CASE Tick
  BY <1>2, <1>4, FailureCapIsCount DEF Tick, Forgiven, HeldBack
<1>5. ASSUME NEW c \in Callers, NEW h \in Hosts, CheckPasses(c, h) PROVE Explained
  BY <1>1, <1>2, <1>5, FailureCapIsCount DEF CheckPasses, Passed, HealthType, Forgiven, HeldBack
<1>6. ASSUME NEW c \in Callers, NEW h \in Hosts, CheckFails(c, h) PROVE Explained
  <2>1. ~gone[c] /\ Failed(h, 0) /\ Contacts(c, h)
    BY <1>6 DEF CheckFails, Contacts
  <2>2. /\ health'[g].failures >= health[g].failures /\ HealthType'
        /\ g # h => health'[g] = health[g]
    BY <1>1, <2>1, FailedKeeps
  <2>3. ~Forgiven(g) /\ (g # h => ~HeldBack(g))
    BY <1>2, <2>2, FailureCapIsCount DEF HealthType, Forgiven, HeldBack
  <2>4. Acts(c)
    BY <1>0, <1>6 DEF CheckFails, Acts
  <2>5. QED
    BY <2>1, <2>3, <2>4 DEF MayHold
<1>7. ASSUME NEW c \in Callers, AttemptFails(c), ~UNCHANGED health PROVE Explained
  <2>1. PICK retryAfter \in RetryAfters \cup {0} : Failed(mirror[c], retryAfter)
    BY <1>7 DEF AttemptFails, ResponseFailure
  <2>2. mirror[c] \in Hosts /\ ~gone[c] /\ Contacts(c, mirror[c])
    BY <1>1, <1>7 DEF AttemptFails, RunsOnMirror, Contacts
  <2>3. /\ health'[g].failures >= health[g].failures /\ HealthType'
        /\ g # mirror[c] => health'[g] = health[g]
    BY <1>1, <2>1, <2>2, FailedKeeps
  <2>4. ~Forgiven(g) /\ (g # mirror[c] => ~HeldBack(g))
    BY <1>2, <2>3, FailureCapIsCount DEF HealthType, Forgiven, HeldBack
  <2>5. Acts(c)
    BY <1>0, <1>7 DEF AttemptFails, AfterFailure, Return, Acts
  <2>6. QED
    BY <2>2, <2>4, <2>5 DEF MayHold
<1>8. ASSUME NEW c \in Callers, Blame(c) PROVE Explained
  <2>1. /\ first[c] \in Hosts /\ Failed(first[c], 0) /\ pc[c] = "blame" /\ mirror[c] # first[c]
        /\ Acts(c)
    BY <1>0, <1>1, <1>8 DEF Blame, RefusedBefore, RetryGoesElsewhere, Acts
  <2>2. /\ health'[g].failures >= health[g].failures /\ HealthType'
        /\ g # first[c] => health'[g] = health[g]
    BY <1>1, <2>1, FailedKeeps
  <2>3. ~Forgiven(g) /\ (g # first[c] => ~HeldBack(g))
    BY <1>2, <2>2, FailureCapIsCount DEF HealthType, Forgiven, HeldBack
  <2>4. QED
    BY <2>1, <2>3 DEF MayHold
<1>9. ASSUME NEW c \in Callers, Record(c) PROVE Explained
  <2>1. mirror[c] \in Hosts /\ Succeeded(mirror[c]) /\ pc[c] = "record"
    BY <1>1, <1>9 DEF Record, RunsOnMirror
  <2>2. ~HeldBack(g) /\ (g # mirror[c] => ~Forgiven(g))
    BY <1>1, <1>2, <2>1, FailureCapIsCount DEF Succeeded, HealthType, Forgiven, HeldBack
  <2>3. QED
    BY <2>1, <2>2
<1>10. QED
  BY HealthSteps, <1>3, <1>4, <1>5, <1>6, <1>7, <1>8, <1>9

(* health.go, Passed: a mirror that answers checks while failing requests  *)
(* keeps its failures; only an operation that worked on it forgives them.  *)
THEOREM SuccessForgives == Spec => OnlySuccessForgives
<1>1. MirrorInv /\ [Next]_vars =>
        [\A h \in Hosts : health'[h].failures < health[h].failures
           => \E c \in Callers : pc[c] = "record" /\ mirror[c] = h]_vars
  BY WhoChangesHealth DEF Forgiven
<1>2. QED
  BY <1>1, InvHolds, PTL DEF Spec, OnlySuccessForgives

(* client_http.go: the call that holds a mirror back contacts it and has a *)
(* living context, or it learned before its context ended that another     *)
(* mirror served what this one had refused.                                *)
THEOREM CancelledHoldNobody == Spec => GivingUpHoldsNobody
<1>1. MirrorInv /\ [Next]_vars =>
        [OnlyContactsHold]_vars
  BY WhoChangesHealth DEF HeldBack, OnlyContactsHold
<1>2. QED
  BY <1>1, InvHolds, PTL DEF Spec, GivingUpHoldsNobody

(* The call that Select leaves without a mirror is refused without contact *)
(* or ends a round of failed checks, and it is told a time to come.        *)
LEMMA WhoIsLeft ==
  ASSUME MirrorInv, [Next]_vars, NEW c \in Callers, LeftWithoutMirror(c)
  PROVE  /\ UNCHANGED health /\ roundAge' \in 0..(SweepInterval - 1)
         /\ retryIn'[c] = RetryIn(roundAge')
<1>0. HealthType /\ CallsInv /\ TimesType
  BY InvParts
<1>1. pc[c] \in {"select", "ending"} /\ pc'[c] = "idle" /\ ~gone[c] /\ first[c] = NoHost
  BY DEF LeftWithoutMirror
<1>2. pc \in [Callers -> Stages]
  BY <1>0 DEF CallsInv
<1>3. Refuse(c) \/ EndRound(c)
  <2>1. ASSUME NEW d \in Callers, Call(d) \/ KeepCurrent(d) \/ AwaitRound(d) \/ UseFreshest(d)
        PROVE  FALSE
    BY <1>1, <1>2, <2>1 DEF Call, KeepCurrent, AwaitRound, UseFreshest, RunOn
  <2>2. ASSUME NEW d \in Callers, NEW h \in Hosts,
               StartRound(d) \/ CheckPasses(d, h) \/ CheckFails(d, h) \/ AbandonChecks(d)
        PROVE  FALSE
    BY <1>1, <1>2, <2>2 DEF StartRound, CheckPasses, CheckFails, AbandonChecks
  <2>3. ASSUME NEW d \in Callers, Cancelled(d) \/ AttemptWorks(d) \/ Judge(d) \/ Blame(d) \/ Record(d)
        PROVE  FALSE
    BY <1>1, <1>2, <2>3 DEF Cancelled, AttemptWorks, Judge, Blame, Record, Return
  <2>4. ASSUME NEW d \in Callers, AttemptFails(d) \/ AttemptRefused(d) \/ AttemptNotFound(d)
        PROVE  FALSE
    BY <1>1, <1>2, <2>4 DEF AttemptFails, AttemptRefused, AttemptNotFound, AfterFailure, Return
  <2>5. ASSUME NEW d \in Callers, d # c, Refuse(d) \/ EndRound(d) PROVE FALSE
    BY <1>0, <1>1, <1>2, <2>5 DEF Refuse, EndRound, Return, Released
  <2>6. pc' # pc
    BY <1>1
  <2>7. QED
    BY <2>1, <2>2, <2>3, <2>4, <2>5, <2>6, HostsAssumption
    DEF Next, Step, Proceed, Tick, Weather, GiveUp, vars, callVars
<1>4. CASE Refuse(c)
  <2>1. UNCHANGED health /\ roundAge' = roundAge /\ Unavailable(c, roundAge)
    BY <1>4 DEF Refuse, selectVars
  <2>2. roundAge \in 0..(SweepInterval - 1)
    BY <1>0, <1>1, <1>4, RefusedBeforeSweep DEF CallsInv
  <2>3. QED
    BY <1>0, <1>1, <2>1, <2>2 DEF Unavailable, TimesType
<1>5. CASE EndRound(c)
  <2>1. roundAge' = 0 /\ UNCHANGED health
    BY <1>1, <1>5 DEF EndRound
  <2>2. CASE mirror[c] = NoHost
    <3>1. Unavailable(c, roundAge')
      BY <1>1, <1>5, <2>2 DEF EndRound
    <3>2. QED
      BY <1>0, <1>1, <2>1, <3>1 DEF Unavailable, TimesType
  <2>3. CASE mirror[c] # NoHost
    BY <1>1, <1>5, <2>3 DEF EndRound, Released
  <2>4. QED
    BY <2>2, <2>3
<1>6. QED
  BY <1>3, <1>4, <1>5

(* selector.go, unavailable: a call left without a mirror, without contact *)
(* or after a round of failed checks, is told a time within sweepInterval  *)
(* at which a call makes contact; and none does before, unless a mirror is *)
(* free already, as one is whose hold ran out during the round.            *)
THEOREM RetryInIsTrue == Spec => RetryInIsKept
<1>1. ASSUME MirrorInv, [Next]_vars, HealthType', NEW c \in Callers, LeftWithoutMirror(c)
      PROVE  \E r \in 1..SweepInterval :
               /\ retryIn'[c] = r
               /\ WouldContact(r)'
               /\ WouldContact(r - 1)' => \E h \in Hosts : Eligible(h)'
  <2>1. HealthType
    BY <1>1, InvParts
  <2>2. PICK age \in 0..(SweepInterval - 1) : /\ UNCHANGED health /\ roundAge' = age
                                              /\ retryIn'[c] = RetryIn(age)
    BY <1>1, WhoIsLeft
  <2>3. PICK r \in 1..SweepInterval :
          /\ r = RetryIn(age) /\ r <= SweepInterval - age
          /\ r = SweepInterval - age \/ \E h \in Hosts : health[h].held = r
          /\ \A h \in Hosts : health[h].held > 0 => r <= health[h].held
    BY <2>1, RetryInIsFirst
  <2>4. \A h \in Hosts : health'[h].held = health[h].held /\ health[h].held \in Nat
    BY <2>1, <2>2 DEF HealthType
  <2>5. WouldContact(r)'
    <3>1. (\E h \in Hosts : health'[h].held <= r) \/ age + r >= SweepInterval
      BY <2>3, <2>4
    <3>2. QED
      BY <2>2, <3>1 DEF WouldContact
  <2>6. ASSUME \A h \in Hosts : ~Eligible(h)' PROVE ~WouldContact(r - 1)'
    <3>1. \A h \in Hosts : health[h].held > 0
      BY <2>4, <2>6 DEF Eligible
    <3>2. ~\E h \in Hosts : health'[h].held <= r - 1
      BY <2>3, <2>4, <3>1
    <3>3. ~(age + (r - 1) >= SweepInterval)
      BY <2>3
    <3>4. QED
      BY <2>2, <3>2, <3>3 DEF WouldContact
  <2>7. QED
    BY <2>2, <2>3, <2>5, <2>6
<1>2. MirrorInv /\ MirrorInv' /\ [Next]_vars =>
        [\A c \in Callers : LeftWithoutMirror(c) =>
           \E r \in 1..SweepInterval :
             /\ retryIn'[c] = r
             /\ WouldContact(r)'
             /\ WouldContact(r - 1)' => \E h \in Hosts : Eligible(h)']_vars
  BY <1>1 DEF MirrorInv, HealthType, TypeOK
<1> QED
  BY <1>2, InvHolds, PTL DEF Spec, RetryInIsKept

(* The calls that wait for a round. *)
Waiting == {c \in Callers : pc[c] = "waiting"}

(* A step of a call that does not wait, and will not, changes no round. *)
LEMMA RoundGoesOn ==
  ASSUME pc \in [Callers -> Stages], NEW c \in Callers, pc[c] # "waiting",
         \/ UNCHANGED pc
         \/ \E s \in Stages \ {"waiting"} : pc' = [pc EXCEPT ![c] = s],
         UNCHANGED selecting
  PROVE  UNCHANGED Rounds!vars
<1>1. \A d \in Callers : pc'[d] = "waiting" <=> pc[d] = "waiting"
  OBVIOUS
<1>2. QED
  BY <1>1 DEF Rounds!vars

(* Every step of the selection is a step of the shared rounds, or none. *)
LEMMA StepIsOfRounds == MirrorInv /\ [Next]_vars => [Rounds!Next]_(Rounds!vars)
<1> SUFFICES ASSUME MirrorInv, [Next]_vars
             PROVE  Rounds!Next \/ UNCHANGED Rounds!vars
  OBVIOUS
<1> DEFINE Goal == Rounds!Next \/ UNCHANGED Rounds!vars
<1>0. CallsInv
  BY InvParts
<1> USE <1>0 DEF CallsInv, Stages, selectVars, callVars
<1>1. ASSUME UNCHANGED <<selecting, pc>> PROVE Goal
  BY <1>1 DEF Rounds!vars
<1>2. CASE Tick
  BY <1>1, <1>2 DEF Tick
<1>3. ASSUME NEW h \in Hosts, Weather(h) PROVE Goal
  BY <1>1, <1>3 DEF Weather
<1>4. ASSUME NEW c \in Callers, GiveUp(c) PROVE Goal
  BY <1>1, <1>4 DEF GiveUp
<1>5. ASSUME NEW c \in Callers, Call(c) PROVE Goal
  BY <1>5, RoundGoesOn DEF Call
<1>6. ASSUME NEW c \in Callers, KeepCurrent(c) PROVE Goal
  BY <1>6, RoundGoesOn DEF KeepCurrent, RunOn
<1>7. ASSUME NEW c \in Callers, AwaitRound(c) PROVE Goal
  <2>1. Waiting' = Waiting \cup {c} /\ c \notin Waiting
    BY <1>7 DEF AwaitRound, Waiting
  <2>2. selecting \notin {NoCaller, c} /\ UNCHANGED selecting
    BY <1>7 DEF AwaitRound
  <2>3. QED
    BY <2>1, <2>2 DEF Waiting, Rounds!Next, Rounds!Wait
<1>8. ASSUME NEW c \in Callers, UseFreshest(c) PROVE Goal
  BY <1>8, RoundGoesOn DEF UseFreshest, RunOn
<1>9. ASSUME NEW c \in Callers, Refuse(c) PROVE Goal
  BY <1>9, RoundGoesOn DEF Refuse, Return
<1>10. ASSUME NEW c \in Callers, StartRound(c) PROVE Goal
  <2>1. Waiting' = Waiting
    BY <1>10 DEF StartRound, Waiting
  <2>2. selecting = NoCaller /\ selecting' = c
    BY <1>10 DEF StartRound
  <2>3. QED
    BY <2>1, <2>2 DEF Waiting, Rounds!Next, Rounds!Lead
<1>11. ASSUME NEW c \in Callers, NEW h \in Hosts, CheckPasses(c, h) PROVE Goal
  BY <1>11, RoundGoesOn DEF CheckPasses
<1>12. ASSUME NEW c \in Callers, NEW h \in Hosts, CheckFails(c, h) PROVE Goal
  BY <1>12, RoundGoesOn DEF CheckFails
<1>13. ASSUME NEW c \in Callers, AbandonChecks(c) PROVE Goal
  BY <1>13, RoundGoesOn DEF AbandonChecks
<1>14. ASSUME NEW c \in Callers, EndRound(c) PROVE Goal
  <2>1. selecting = c /\ selecting # NoCaller /\ selecting' = NoCaller
    BY <1>14 DEF EndRound
  <2>2. pc' \in {Released(c, "idle"), Released(c, "attempt")}
    BY <1>14 DEF EndRound
  <2>3. Waiting' = {}
    BY <2>2 DEF Released, Waiting
  <2>4. QED
    BY <2>1, <2>3 DEF Waiting, Rounds!Next, Rounds!Finish
<1>15. ASSUME NEW c \in Callers, Cancelled(c) PROVE Goal
  <2>1. CASE pc[c] = "select"
    BY <1>15, <2>1, RoundGoesOn DEF Cancelled, Return
  <2>2. CASE pc[c] = "waiting"
    <3>1. Waiting' = Waiting \ {c} /\ c \in Waiting /\ UNCHANGED selecting
      BY <1>15, <2>2 DEF Cancelled, Return, Waiting
    <3>2. QED
      BY <3>1 DEF Waiting, Rounds!Next, Rounds!Quit
  <2>3. QED
    BY <1>15, <2>1, <2>2 DEF Cancelled
<1>16. ASSUME NEW c \in Callers, AttemptWorks(c) PROVE Goal
  BY <1>16, RoundGoesOn DEF AttemptWorks
<1>17. ASSUME NEW c \in Callers, AttemptFails(c) PROVE Goal
  BY <1>17, RoundGoesOn DEF AttemptFails, AfterFailure, Return
<1>18. ASSUME NEW c \in Callers, AttemptRefused(c) PROVE Goal
  BY <1>18, RoundGoesOn DEF AttemptRefused, AfterFailure, Return
<1>19. ASSUME NEW c \in Callers, AttemptNotFound(c) PROVE Goal
  BY <1>19, RoundGoesOn DEF AttemptNotFound, AfterFailure, Return
<1>20. ASSUME NEW c \in Callers, Judge(c) PROVE Goal
  BY <1>20, RoundGoesOn DEF Judge, Return
<1>21. ASSUME NEW c \in Callers, Blame(c) PROVE Goal
  BY <1>21, RoundGoesOn DEF Blame
<1>22. ASSUME NEW c \in Callers, Record(c) PROVE Goal
  BY <1>22, RoundGoesOn DEF Record, Return
<1>23. CASE UNCHANGED vars
  BY <1>1, <1>23 DEF vars
<1>24. QED
  BY <1>2, <1>3, <1>4, <1>5, <1>6, <1>7, <1>8, <1>9, <1>10, <1>11, <1>12, <1>13, <1>14, <1>15,
     <1>16, <1>17, <1>18, <1>19, <1>20, <1>21, <1>22, <1>23 DEF Next, Step, Proceed

(* selector.go, Select: concurrent calls share their rounds of checks, and *)
(* the end of a round releases every call that waits for it, even when its *)
(* leader gave up.  This is SingleFlight but for its fairness.             *)
THEOREM RoundsAreOneAtATime == Spec => Rounds!Init /\ [][Rounds!Next]_(Rounds!vars)
<1>1. Init => Rounds!Init
  BY DEF Init, Rounds!Init
<1>2. QED
  BY <1>1, StepIsOfRounds, InvHolds, PTL DEF Spec
=============================================================================
