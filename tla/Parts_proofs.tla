---------------------------- MODULE Parts_proofs ----------------------------
(***************************************************************************)
(* What the parts of the program promise, for every value of their         *)
(* constants.  A step of Parts is a step of one part and leaves the others *)
(* as they are, so each part's invariant is proved about its own steps.    *)
(***************************************************************************)
EXTENDS Parts, Integers, SequenceTheorems, WellFoundedInduction, TLAPS

(***************************************************************************)
(* The DOI lookup                                                          *)
(***************************************************************************)

LookupType ==
  /\ holds \in SUBSET Records
  /\ {seen, candidates, batch} \subseteq Seq(Records)
  /\ reading \in [Records -> {"unread", "reading", "match", "other", "error"}]
  /\ match \in Records \cup {None}

(* No record becomes a candidate twice. *)
SeenOnce == \A i, j \in 1..Len(seen) : seen[i] = seen[j] => i = j

(* The candidates whose results were taken. *)
Taken == Len(seen) - Len(batch) - Len(candidates)

(* What is left of the candidates is in their order: those that are read   *)
(* now, then those that no batch has taken.                                *)
LeftInOrder ==
  /\ Taken >= 0
  /\ \A i \in 1..Len(batch) : batch[i] = seen[Taken + i]
  /\ \A i \in 1..Len(candidates) : candidates[i] = seen[Taken + Len(batch) + i]

(* A result that was taken was no match, and an error is remembered. *)
TakenAreNoMatch ==
  \A i \in 1..Taken : /\ reading[seen[i]] \in {"other", "error"}
                      /\ reading[seen[i]] = "error" => failure

FailureIsKept == unanswered => failure

MatchesHold == \A r \in Records : reading[r] = "match" => r \in holds

(* Where the lookup is says what it has. *)
LookupStages ==
  /\ lookup = "idle" => \A r \in Records : reading[r] = "unread"
  /\ lookup \in {"idle", "scidb", "metadata"} => seen = <<>>
  /\ lookup \in {"search", "missing"} => batch = <<>> /\ candidates = <<>>
  /\ lookup = "missing" => ~failure

FoundIsNext ==
  match \in Records => /\ lookup = "found" /\ batch # <<>>
                       /\ match = Head(batch) /\ match \in holds

LookupInv ==
  /\ LookupType /\ SeenOnce /\ LeftInOrder /\ TakenAreNoMatch /\ FailureIsKept /\ MatchesHold
  /\ LookupStages /\ FoundIsNext

LEMMA LookupStarts == DL!Init => LookupInv
<1> SUFFICES ASSUME DL!Init PROVE LookupInv
  OBVIOUS
<1>1. seen = <<>> /\ candidates = <<>> /\ batch = <<>> /\ Len(<<>>) = 0
  BY EmptySeq DEF DL!Init
<1>2. LookupType
  BY <1>1, EmptySeq DEF DL!Init, LookupType
<1>3. SeenOnce /\ LeftInOrder /\ TakenAreNoMatch
  BY <1>1 DEF SeenOnce, LeftInOrder, TakenAreNoMatch, Taken
<1>4. FailureIsKept /\ MatchesHold /\ LookupStages /\ FoundIsNext
  BY <1>1, LookupAssumption DEF DL!Init, FailureIsKept, MatchesHold, LookupStages, FoundIsNext
<1> QED
  BY <1>2, <1>3, <1>4 DEF LookupInv

(* What the sequences of a lookup have. *)
LEMMA LookupSequences ==
  ASSUME LookupType
  PROVE  /\ Len(seen) \in Nat /\ Len(batch) \in Nat /\ Len(candidates) \in Nat
         /\ \A i \in 1..Len(seen) : seen[i] \in Records
         /\ \A i \in 1..Len(batch) : batch[i] \in Records
         /\ \A i \in 1..Len(candidates) : candidates[i] \in Records
         /\ batch = <<>> <=> Len(batch) = 0
         /\ candidates = <<>> <=> Len(candidates) = 0
         /\ seen = <<>> <=> Len(seen) = 0
  BY EmptySeq, LenProperties DEF LookupType

(* The steps that leave the candidates and their readers alone. *)
SmallStep ==
  \/ DL!Ask \/ DL!NoAccess \/ DL!SciDBAnswers \/ DL!SciDBFails
  \/ DL!DOIOrgAnswers \/ DL!DOIOrgFails \/ DL!DOIOrgDiffers
  \/ DL!Conclude \/ DL!NextQuery \/ DL!GiveUp \/ UNCHANGED lookupVars

LEMMA SmallStepsKeep ==
  ASSUME LookupInv, SmallStep
  PROVE  LookupInv'
<1> USE DEF LookupInv, SmallStep, DL!Ask, DL!NoAccess, DL!SciDBAnswers, DL!SciDBFails,
            DL!DOIOrgAnswers, DL!DOIOrgFails, DL!DOIOrgDiffers, DL!SearchFor, DL!Conclude,
            DL!NextQuery, DL!GiveUp, lookupVars
<1>1. UNCHANGED <<seen, candidates, batch, reading, match>>
  OBVIOUS
<1>2. (failure' = failure /\ unanswered' = unanswered) \/ failure' = TRUE
  OBVIOUS
<1>3. LookupType'
  BY <1>1 DEF LookupType
<1>4. SeenOnce' /\ LeftInOrder'
  BY <1>1 DEF SeenOnce, LeftInOrder, Taken
<1>5. TakenAreNoMatch'
  BY <1>1, <1>2 DEF TakenAreNoMatch, Taken
<1>6. FailureIsKept'
  BY <1>2 DEF FailureIsKept
<1>7. MatchesHold'
  BY <1>1 DEF MatchesHold, LookupStages
<1>8. LookupStages'
  <2>1. lookup' = "idle" => lookup = "idle"
    BY DEF DL!Over
  <2>2. lookup' \in {"idle", "scidb", "metadata"} => seen = <<>>
    BY DEF DL!Over, LookupStages
  <2>3. lookup' \in {"search", "missing"} => batch = <<>> /\ candidates = <<>>
    <3>1. CASE lookup = "metadata" /\ seen = <<>>
      BY <3>1, EmptySeq, LookupSequences DEF LeftInOrder, Taken
    <3>2. CASE lookup # "metadata"
      BY <3>2 DEF DL!Over, LookupStages
    <3> QED
      BY <3>1, <3>2 DEF LookupStages
  <2>4. lookup' = "missing" => ~failure'
    <3>1. CASE DL!Conclude
      BY <3>1
    <3>2. CASE ~DL!Conclude
      BY <3>2 DEF DL!Over, LookupStages
    <3> QED
      BY <3>1, <3>2
  <2> QED
    BY <1>1, <2>1, <2>2, <2>3, <2>4 DEF LookupStages
<1>9. FoundIsNext'
  BY <1>1 DEF FoundIsNext, DL!Over
<1> QED
  BY <1>3, <1>4, <1>5, <1>6, <1>7, <1>8, <1>9

LEMMA ReaderEndsKeeps ==
  ASSUME LookupInv, NEW r \in Records, DL!ReaderEnds(r)
  PROVE  LookupInv'
<1> USE DEF LookupInv
<1>1. /\ reading[r] = "reading"
      /\ UNCHANGED <<holds, lookup, seen, candidates, batch, unanswered, failure, match>>
      /\ \E end \in {"match", "other", "error"} : /\ reading' = [reading EXCEPT ![r] = end]
                                                  /\ end = "match" => r \in holds
  BY DEF DL!ReaderEnds
<1>2. PICK end \in {"match", "other", "error"} : /\ reading' = [reading EXCEPT ![r] = end]
                                                 /\ end = "match" => r \in holds
  BY <1>1
<1>3. LookupType'
  BY <1>1, <1>2 DEF LookupType
<1>4. SeenOnce' /\ LeftInOrder' /\ FailureIsKept' /\ FoundIsNext'
  BY <1>1 DEF SeenOnce, LeftInOrder, Taken, FailureIsKept, FoundIsNext
<1>5. TakenAreNoMatch'
  <2> SUFFICES ASSUME NEW i \in 1..Taken
               PROVE  /\ reading'[seen[i]] \in {"other", "error"}
                      /\ reading'[seen[i]] = "error" => failure
    BY <1>1 DEF TakenAreNoMatch, Taken
  <2>1. seen[i] # r
    BY <1>1 DEF TakenAreNoMatch
  <2>2. seen[i] \in Records
    BY LookupSequences DEF LeftInOrder, Taken
  <2>3. reading'[seen[i]] = reading[seen[i]]
    BY <1>2, <2>1, <2>2 DEF LookupType
  <2> QED
    BY <2>3 DEF TakenAreNoMatch
<1>6. MatchesHold'
  BY <1>1, <1>2 DEF MatchesHold, LookupType
<1>7. LookupStages'
  BY <1>1 DEF LookupStages
<1> QED
  BY <1>3, <1>4, <1>5, <1>6, <1>7

(* The head of the batch is the candidate after those that were taken. *)
LEMMA HeadOfBatch ==
  ASSUME LookupInv, batch # <<>>
  PROVE  /\ Head(batch) \in Records
         /\ Len(batch) >= 1 /\ Taken \in Nat /\ Taken < Len(seen)
         /\ Head(batch) = seen[Taken + 1]
<1>1. Len(batch) >= 1
  BY LookupSequences DEF LookupInv
<1>2. Head(batch) = batch[1]
  BY DEF LookupInv, LookupType
<1> QED
  BY <1>1, <1>2, LookupSequences DEF LookupInv, LeftInOrder, Taken

LEMMA TakeKeeps ==
  ASSUME LookupInv, DL!TakeError \/ DL!TakeOther
  PROVE  LookupInv'
<1> USE DEF LookupInv
<1>1. /\ lookup = "verify" /\ batch # <<>> /\ batch' = Tail(batch)
      /\ UNCHANGED <<holds, lookup, seen, candidates, reading, match>>
      /\ reading[Head(batch)] \in {"other", "error"}
  BY DEF DL!TakeError, DL!TakeOther
<1>2. \/ reading[Head(batch)] = "error" /\ failure' = TRUE
      \/ reading[Head(batch)] = "other" /\ UNCHANGED <<failure, unanswered>>
  BY DEF DL!TakeError, DL!TakeOther
<1>3. /\ Tail(batch) \in Seq(Records) /\ Len(Tail(batch)) = Len(batch) - 1
      /\ \A i \in 1..Len(Tail(batch)) : Tail(batch)[i] = batch[i + 1]
  BY <1>1, HeadTailProperties DEF LookupType
<1>4. Taken' = Taken + 1
  BY <1>1, <1>3, LookupSequences DEF Taken
<1>5. LookupType'
  BY <1>1, <1>3 DEF LookupType
<1>6. SeenOnce'
  BY <1>1 DEF SeenOnce
<1>7. LeftInOrder'
  <2>1. Taken' >= 0
    BY <1>4, <1>1, HeadOfBatch
  <2>2. \A i \in 1..Len(batch') : batch'[i] = seen'[Taken' + i]
    <3> TAKE i \in 1..Len(batch')
    <3>1. i + 1 \in 1..Len(batch) /\ batch'[i] = batch[i + 1]
      BY <1>1, <1>3, LookupSequences
    <3>2. batch[i + 1] = seen[Taken + (i + 1)]
      BY <3>1 DEF LeftInOrder
    <3>3. Taken + (i + 1) = Taken' + i
      BY <1>1, <1>4, HeadOfBatch
    <3> QED
      BY <1>1, <3>1, <3>2, <3>3
  <2>3. \A i \in 1..Len(candidates') : candidates'[i] = seen'[Taken' + Len(batch') + i]
    <3>1. Taken' + Len(batch') = Taken + Len(batch)
      BY <1>1, <1>3, <1>4, HeadOfBatch, LookupSequences
    <3> QED
      BY <1>1, <3>1 DEF LeftInOrder
  <2> QED
    BY <2>1, <2>2, <2>3 DEF LeftInOrder
<1>8. TakenAreNoMatch'
  <2> SUFFICES ASSUME NEW i \in 1..Taken'
               PROVE  /\ reading[seen[i]] \in {"other", "error"}
                      /\ reading[seen[i]] = "error" => failure'
    BY <1>1 DEF TakenAreNoMatch
  <2>1. CASE i = Taken + 1
    BY <1>1, <1>2, <2>1, HeadOfBatch
  <2>2. CASE i # Taken + 1
    <3>1. i \in 1..Taken
      BY <1>1, <1>4, <2>2, HeadOfBatch
    <3> QED
      BY <1>2, <3>1 DEF TakenAreNoMatch
  <2> QED
    BY <2>1, <2>2
<1>9. FailureIsKept'
  BY <1>2 DEF FailureIsKept
<1>10. MatchesHold'
  BY <1>1 DEF MatchesHold
<1>11. LookupStages' /\ FoundIsNext'
  BY <1>1 DEF LookupStages, FoundIsNext
<1> QED
  BY <1>5, <1>6, <1>7, <1>8, <1>9, <1>10, <1>11

LEMMA TakeMatchKeeps ==
  ASSUME LookupInv, DL!TakeMatch
  PROVE  LookupInv'
<1> USE DEF LookupInv
<1>1. /\ batch # <<>> /\ reading[Head(batch)] = "match"
      /\ match' = Head(batch) /\ lookup' = "found"
      /\ UNCHANGED <<holds, seen, candidates, batch, reading, unanswered, failure>>
  BY DEF DL!TakeMatch
<1>2. Head(batch) \in Records
  BY <1>1, HeadOfBatch
<1>3. LookupType'
  BY <1>1, <1>2 DEF LookupType
<1>4. SeenOnce' /\ LeftInOrder' /\ TakenAreNoMatch' /\ FailureIsKept' /\ MatchesHold'
  BY <1>1 DEF SeenOnce, LeftInOrder, TakenAreNoMatch, Taken, FailureIsKept, MatchesHold
<1>5. LookupStages'
  BY <1>1 DEF LookupStages
<1>6. FoundIsNext'
  BY <1>1, <1>2 DEF FoundIsNext, MatchesHold
<1> QED
  BY <1>3, <1>4, <1>5, <1>6

(* A batch is the front of the candidates, and leaves the rest. *)
LEMMA TakeAndLeave ==
  ASSUME NEW S, NEW s \in Seq(S), NEW n \in Nat
  PROVE  /\ DL!Take(s, n) \in Seq(S) /\ DL!Leave(s, n) \in Seq(S)
         /\ Len(DL!Take(s, n)) + Len(DL!Leave(s, n)) = Len(s)
         /\ \A i \in 1..Len(DL!Take(s, n)) : DL!Take(s, n)[i] = s[i]
         /\ \A i \in 1..Len(DL!Leave(s, n)) :
              DL!Leave(s, n)[i] = s[Len(DL!Take(s, n)) + i]
<1> DEFINE m == IF Len(s) < n THEN Len(s) ELSE n
<1>1. Len(s) \in Nat /\ m \in Nat /\ m <= Len(s) /\ \A i \in 1..Len(s) : s[i] \in S
  BY LenProperties
<1> HIDE DEF m
<1>2. DL!Take(s, n) = SubSeq(s, 1, m)
  BY DEF DL!Take, m
<1>3. /\ DL!Take(s, n) \in Seq(S) /\ Len(DL!Take(s, n)) = m
      /\ \A i \in 1..m : DL!Take(s, n)[i] = s[i]
  <2>1. \A i \in 1..m : s[i] \in S
    BY <1>1
  <2>2. /\ SubSeq(s, 1, m) \in Seq(S)
        /\ Len(SubSeq(s, 1, m)) = IF 1 <= m THEN m - 1 + 1 ELSE 0
        /\ \A i \in 1..m - 1 + 1 : SubSeq(s, 1, m)[i] = s[1 + i - 1]
    BY <1>1, <2>1, SubSeqProperties
  <2>3. m - 1 + 1 = m /\ \A i \in 1..m : 1 + i - 1 = i
    BY <1>1
  <2> QED
    BY <1>1, <1>2, <2>2, <2>3
<1>4. DL!Leave(s, n) = SubSeq(s, m + 1, Len(s))
  BY <1>3 DEF DL!Leave
<1>5. /\ DL!Leave(s, n) \in Seq(S) /\ Len(DL!Leave(s, n)) = Len(s) - m
      /\ \A i \in 1..Len(s) - m : DL!Leave(s, n)[i] = s[m + i]
  <2>1. \A i \in m + 1..Len(s) : s[i] \in S
    BY <1>1
  <2>2. /\ SubSeq(s, m + 1, Len(s)) \in Seq(S)
        /\ Len(SubSeq(s, m + 1, Len(s))) = IF m + 1 <= Len(s) THEN Len(s) - (m + 1) + 1 ELSE 0
        /\ \A i \in 1..Len(s) - (m + 1) + 1 : SubSeq(s, m + 1, Len(s))[i] = s[m + 1 + i - 1]
    <3>1. m + 1 \in Int /\ Len(s) \in Int
      BY <1>1
    <3> QED
      BY <2>1, <3>1, SubSeqProperties
  <2>3. Len(s) - (m + 1) + 1 = Len(s) - m /\ \A i \in 1..Len(s) - m : m + 1 + i - 1 = m + i
    BY <1>1
  <2> QED
    <3>1. Len(DL!Leave(s, n)) = Len(s) - m
      BY <1>1, <1>4, <2>2
    <3>2. ASSUME NEW i \in 1..Len(s) - m
          PROVE  DL!Leave(s, n)[i] = s[m + i]
      <4>1. i \in 1..Len(s) - (m + 1) + 1 /\ m + 1 + i - 1 = m + i
        BY <1>1
      <4> QED
        BY <1>4, <2>2, <4>1
    <3> QED
      BY <1>4, <2>2, <3>1, <3>2
<1> QED
  BY <1>1, <1>3, <1>5

LEMMA StartBatchKeeps ==
  ASSUME LookupInv, DL!StartBatch
  PROVE  LookupInv'
<1> USE DEF LookupInv
<1>1. /\ lookup = "verify" /\ batch = <<>>
      /\ batch' = DL!Take(candidates, AtOnce) /\ candidates' = DL!Leave(candidates, AtOnce)
      /\ reading' = [r \in Records |-> IF r \in DL!ToSet(batch') THEN "reading" ELSE reading[r]]
      /\ UNCHANGED <<holds, lookup, seen, unanswered, failure, match>>
  BY DEF DL!StartBatch
<1>2. candidates \in Seq(Records) /\ AtOnce \in Nat
  BY LookupAssumption DEF LookupType
<1>3. /\ batch' \in Seq(Records) /\ candidates' \in Seq(Records)
      /\ Len(batch') + Len(candidates') = Len(candidates)
      /\ \A i \in 1..Len(batch') : batch'[i] = candidates[i]
      /\ \A i \in 1..Len(candidates') : candidates'[i] = candidates[Len(batch') + i]
  BY <1>1, <1>2, TakeAndLeave
<1>4. Len(batch') \in Nat /\ Len(candidates') \in Nat /\ DOMAIN batch' = 1..Len(batch')
  BY <1>3, LenProperties
<1>5. Len(batch) = 0 /\ Taken' = Taken /\ Taken = Len(seen) - Len(candidates) /\ Taken \in Nat
  <2>1. Len(batch) = 0 /\ Len(seen) \in Nat /\ Len(candidates) \in Nat
    BY <1>1, LookupSequences
  <2>2. Taken = Len(seen) - Len(candidates)
    BY <2>1 DEF Taken
  <2>3. Taken' = Len(seen) - Len(batch') - Len(candidates')
    BY <1>1 DEF Taken
  <2>4. Taken >= 0
    BY DEF LeftInOrder
  <2>5. Taken' = Len(seen) - Len(candidates)
    BY <1>3, <1>4, <2>1, <2>3
  <2>6. Taken \in Nat
    BY <2>1, <2>2, <2>4
  <2> QED
    BY <2>1, <2>2, <2>5, <2>6
<1>6. \A i \in 1..Len(candidates) : candidates[i] = seen[Taken + i]
  BY <1>5 DEF LeftInOrder
<1>7. LookupType'
  BY <1>1, <1>3 DEF LookupType
<1>8. SeenOnce'
  BY <1>1 DEF SeenOnce
<1>9. LeftInOrder'
  <2>1. \A i \in 1..Len(batch') : batch'[i] = seen'[Taken' + i]
    <3> TAKE i \in 1..Len(batch')
    <3>1. i \in 1..Len(candidates)
      BY <1>3, <1>4, LookupSequences
    <3> QED
      BY <1>1, <1>3, <1>5, <1>6, <3>1
  <2>2. \A i \in 1..Len(candidates') : candidates'[i] = seen'[Taken' + Len(batch') + i]
    <3> TAKE i \in 1..Len(candidates')
    <3>1. Len(batch') + i \in 1..Len(candidates)
      BY <1>3, <1>4, LookupSequences
    <3>2. candidates[Len(batch') + i] = seen[Taken + (Len(batch') + i)]
      BY <1>6, <3>1
    <3>3. Taken + (Len(batch') + i) = Taken + Len(batch') + i
      BY <1>4, <1>5
    <3> QED
      BY <1>1, <1>3, <1>5, <3>2, <3>3
  <2> QED
    BY <1>5, <2>1, <2>2 DEF LeftInOrder
<1>10. TakenAreNoMatch'
  <2> SUFFICES ASSUME NEW i \in 1..Taken
               PROVE  reading'[seen[i]] = reading[seen[i]]
    BY <1>1, <1>5 DEF TakenAreNoMatch
  <2>1. i \in 1..Len(seen) /\ seen[i] \in Records
    BY <1>5, LookupSequences
  <2>2. ASSUME NEW k \in 1..Len(batch'), seen[i] = batch'[k]
        PROVE  FALSE
    <3>1. k \in 1..Len(candidates) /\ Taken + k \in 1..Len(seen)
      BY <1>3, <1>4, <1>5, LookupSequences
    <3>2. seen[i] = seen[Taken + k]
      BY <1>3, <1>6, <2>2, <3>1
    <3>3. i = Taken + k
      BY <2>1, <3>1, <3>2 DEF SeenOnce
    <3> QED
      BY <1>5, <3>3
  <2>3. seen[i] \notin DL!ToSet(batch')
    BY <1>4, <2>2 DEF DL!ToSet
  <2> QED
    BY <1>1, <2>1, <2>3
<1>11. FailureIsKept'
  BY <1>1 DEF FailureIsKept
<1>12. MatchesHold'
  BY <1>1 DEF MatchesHold
<1>13. LookupStages' /\ FoundIsNext'
  BY <1>1 DEF LookupStages, FoundIsNext
<1> QED
  BY <1>7, <1>8, <1>9, <1>10, <1>11, <1>12, <1>13

(* New candidates are records, none of them twice and none of those seen. *)
LEMMA CandidatesAreNew ==
  ASSUME LookupType, NEW more \in DL!NewCandidates
  PROVE  /\ more \in Seq(Records) /\ Len(more) \in Nat
         /\ \A i, j \in 1..Len(more) : more[i] = more[j] => i = j
         /\ \A i \in 1..Len(more), j \in 1..Len(seen) : more[i] # seen[j]
<1> DEFINE fitting == {r \in Records : (title => r \in Titled) /\ r \notin DL!ToSet(seen)}
<1>1. PICK n \in 0..(MaxRecords - Len(seen)) : more \in [1..n -> fitting]
  BY DEF DL!NewCandidates
<1>2. n \in Nat
  BY <1>1, LookupAssumption, LookupSequences
<1>3. more \in [1..n -> Records] /\ \A i \in 1..n : more[i] \notin DL!ToSet(seen)
  BY <1>1
<1>4. more \in Seq(Records)
  BY <1>2, <1>3, SeqDef
<1>5. DOMAIN more = 1..Len(more) /\ Len(more) \in Nat
  BY <1>4, LenProperties
<1>6. DOMAIN more = 1..n
  BY <1>3
<1>7. \A i, j \in 1..Len(more) : more[i] = more[j] => i = j
  BY <1>5 DEF DL!NewCandidates
<1>8. \A i \in 1..Len(more), j \in 1..Len(seen) : more[i] # seen[j]
  <2> TAKE i \in 1..Len(more), j \in 1..Len(seen)
  <2>1. more[i] \notin DL!ToSet(seen)
    BY <1>3, <1>5, <1>6
  <2>2. j \in DOMAIN seen
    BY LenProperties DEF LookupType
  <2> QED
    BY <2>1, <2>2 DEF DL!ToSet
<1> QED
  BY <1>4, <1>5, <1>7, <1>8

LEMMA SearchKeeps ==
  ASSUME LookupInv, DL!Search
  PROVE  LookupInv'
<1> USE DEF LookupInv
<1>1. /\ lookup = "search" /\ lookup' = "verify"
      /\ candidates' \in DL!NewCandidates /\ seen' = seen \o candidates'
      /\ UNCHANGED <<holds, batch, reading, match>>
  BY DEF DL!Search
<1>2. \E both \in BOOLEAN : /\ unanswered' = (unanswered \/ ~both)
                           /\ failure' = (failure \/ ~both)
  BY DEF DL!Search
<1>3. batch = <<>> /\ Len(batch) = 0 /\ Len(candidates) = 0 /\ Len(seen) \in Nat
  BY <1>1, LookupSequences DEF LookupStages
<1>4. /\ candidates' \in Seq(Records) /\ Len(candidates') \in Nat
      /\ \A i, j \in 1..Len(candidates') : candidates'[i] = candidates'[j] => i = j
      /\ \A i \in 1..Len(candidates'), j \in 1..Len(seen) : candidates'[i] # seen[j]
  BY <1>1, CandidatesAreNew
<1>5. /\ seen' \in Seq(Records) /\ Len(seen') = Len(seen) + Len(candidates')
      /\ \A i \in 1..Len(seen) + Len(candidates') :
           seen'[i] = IF i <= Len(seen) THEN seen[i] ELSE candidates'[i - Len(seen)]
  BY <1>1, <1>4, ConcatProperties DEF LookupType
<1>6. Taken = Len(seen) /\ Taken' = Len(seen)
  BY <1>1, <1>3, <1>4, <1>5 DEF Taken
<1>7. LookupType'
  BY <1>1, <1>4, <1>5 DEF LookupType
<1>8. SeenOnce'
  <2> SUFFICES ASSUME NEW i \in 1..Len(seen'), NEW j \in 1..Len(seen'), seen'[i] = seen'[j]
               PROVE  i = j
    BY DEF SeenOnce
  <2>1. CASE i <= Len(seen) /\ j <= Len(seen)
    BY <1>3, <1>4, <1>5, <2>1 DEF SeenOnce
  <2>2. CASE i <= Len(seen) /\ ~(j <= Len(seen))
    <3>1. i \in 1..Len(seen) /\ j - Len(seen) \in 1..Len(candidates')
      BY <1>3, <1>4, <1>5, <2>2
    <3> QED
      BY <1>4, <1>5, <2>2, <3>1
  <2>3. CASE ~(i <= Len(seen)) /\ j <= Len(seen)
    <3>1. j \in 1..Len(seen) /\ i - Len(seen) \in 1..Len(candidates')
      BY <1>3, <1>4, <1>5, <2>3
    <3> QED
      BY <1>4, <1>5, <2>3, <3>1
  <2>4. CASE ~(i <= Len(seen)) /\ ~(j <= Len(seen))
    <3>1. i - Len(seen) \in 1..Len(candidates') /\ j - Len(seen) \in 1..Len(candidates')
      BY <1>3, <1>4, <1>5, <2>4
    <3>2. candidates'[i - Len(seen)] = candidates'[j - Len(seen)]
      BY <1>5, <2>4
    <3>3. i - Len(seen) = j - Len(seen)
      BY <1>4, <3>1, <3>2
    <3> QED
      BY <1>3, <1>4, <1>5, <3>3
  <2> QED
    BY <2>1, <2>2, <2>3, <2>4
<1>9. LeftInOrder'
  <2>1. \A i \in 1..Len(batch') : batch'[i] = seen'[Taken' + i]
    BY <1>1, <1>3
  <2>2. \A i \in 1..Len(candidates') : candidates'[i] = seen'[Taken' + Len(batch') + i]
    <3> TAKE i \in 1..Len(candidates')
    <3>1. /\ Taken' + Len(batch') + i = Len(seen) + i
          /\ Len(seen) + i \in 1..Len(seen) + Len(candidates')
          /\ ~(Len(seen) + i <= Len(seen)) /\ (Len(seen) + i) - Len(seen) = i
      BY <1>1, <1>3, <1>4, <1>6
    <3> QED
      BY <1>5, <3>1
  <2> QED
    BY <1>3, <1>6, <2>1, <2>2 DEF LeftInOrder
<1>10. TakenAreNoMatch'
  <2> SUFFICES ASSUME NEW i \in 1..Len(seen)
               PROVE  /\ reading[seen'[i]] \in {"other", "error"}
                      /\ reading[seen'[i]] = "error" => failure'
    BY <1>1, <1>6 DEF TakenAreNoMatch
  <2>1. seen'[i] = seen[i]
    BY <1>3, <1>4, <1>5
  <2>2. reading[seen[i]] \in {"other", "error"} /\ (reading[seen[i]] = "error" => failure)
    BY <1>6 DEF TakenAreNoMatch
  <2>3. failure => failure'
    BY <1>2
  <2> QED
    BY <2>1, <2>2, <2>3
<1>11. FailureIsKept'
  BY <1>2 DEF FailureIsKept
<1>12. MatchesHold'
  BY <1>1 DEF MatchesHold
<1>13. LookupStages' /\ FoundIsNext'
  BY <1>1 DEF LookupStages, FoundIsNext
<1> QED
  BY <1>7, <1>8, <1>9, <1>10, <1>11, <1>12, <1>13

LEMMA LookupElsewhere ==
  ASSUME [PartsNext]_vars
  PROVE  DL!Next \/ UNCHANGED lookupVars
BY DEF PartsNext, Deliver, Search, Read, LookUp, Stats, Requesting, Store, Launch, Account,
       vars, clientVars, papersVars

THEOREM LookupInvariant == PartsSpec => []LookupInv
<1>1. PartsInit => LookupInv
  BY LookupStarts DEF PartsInit
<1>2. LookupInv /\ [PartsNext]_vars => LookupInv'
  <2> SUFFICES ASSUME LookupInv, DL!Next \/ UNCHANGED lookupVars
               PROVE  LookupInv'
    BY LookupElsewhere
  <2>1. CASE SmallStep
    BY <2>1, SmallStepsKeep
  <2>2. CASE \E r \in Records : DL!ReaderEnds(r)
    BY <2>2, ReaderEndsKeeps
  <2>3. CASE DL!TakeError \/ DL!TakeOther
    BY <2>3, TakeKeeps
  <2>4. CASE DL!Search \/ DL!StartBatch \/ DL!TakeMatch
    BY <2>4, SearchKeeps, StartBatchKeeps, TakeMatchKeeps
  <2> QED
    BY <2>1, <2>2, <2>3, <2>4 DEF DL!Next, SmallStep
<1> QED
  BY <1>1, <1>2, PTL DEF PartsSpec

(* doi_lookup.go, matchCandidates: whatever order the concurrent readers   *)
(* end in, the lookup returns the first candidate that carries the DOI.    *)
THEOREM FirstMatchIsReturned == PartsSpec => []FirstMatchWins
<1>1. LookupInv => FirstMatchWins
  <2> SUFFICES ASSUME LookupInv, match \in Records
               PROVE  /\ match \in holds
                      /\ \A i \in DOMAIN seen :
                           (\A j \in 1..i : seen[j] # match) => reading[seen[i]] \in {"other", "error"}
    BY DEF FirstMatchWins, DL!FirstMatchWins
  <2>1. /\ match \in holds /\ match = seen[Taken + 1] /\ Taken \in Nat /\ Taken < Len(seen)
    BY HeadOfBatch DEF LookupInv, FoundIsNext
  <2>2. ASSUME NEW i \in DOMAIN seen, \A j \in 1..i : seen[j] # match
        PROVE  reading[seen[i]] \in {"other", "error"}
    <3>1. i \in 1..Len(seen) /\ Len(seen) \in Nat
      BY LookupSequences, LenProperties DEF LookupInv, LookupType
    <3>2. ~(Taken + 1 <= i)
      BY <2>1, <2>2, <3>1
    <3>3. i \in 1..Taken
      BY <2>1, <3>1, <3>2
    <3> QED
      BY <3>3 DEF LookupInv, TakenAreNoMatch
  <2> QED
    BY <2>1, <2>2
<1> QED
  BY <1>1, LookupInvariant, PTL

(* doi_lookup.go, LookupDOI: a DOI is reported as absent only when every   *)
(* archive request answered and every candidate was read.                  *)
THEOREM MissesAreConclusive == PartsSpec => []MissIsConclusive
<1>1. LookupInv => MissIsConclusive
  <2> SUFFICES ASSUME LookupInv, lookup = "missing"
               PROVE  ~unanswered /\ \A i \in DOMAIN seen : reading[seen[i]] = "other"
    BY DEF MissIsConclusive, DL!MissIsConclusive
  <2>1. batch = <<>> /\ candidates = <<>> /\ ~failure
    BY DEF LookupInv, LookupStages
  <2>2. Len(seen) \in Nat /\ Len(batch) = 0 /\ Len(candidates) = 0
    BY <2>1, LookupSequences DEF LookupInv
  <2>3. Taken = Len(seen) /\ DOMAIN seen = 1..Len(seen)
    BY <2>2, LenProperties DEF LookupInv, LookupType, Taken
  <2> QED
    BY <2>1, <2>3 DEF LookupInv, TakenAreNoMatch, FailureIsKept
<1> QED
  BY <1>1, LookupInvariant, PTL

(***************************************************************************)
(* The counters of files                                                   *)
(***************************************************************************)

FSP == INSTANCE FileStats_proofs

(* The calls behave as FileStats says. *)
LEMMA StatsBehave == PartsSpec => FSP!Spec
<1>1. PartsInit => FSP!Init
  BY DEF PartsInit, FS!Init, FSP!Init
<1>2. [PartsNext]_vars => [FSP!Next]_FSP!svars
  <2>1. ASSUME [PartsNext]_vars
        PROVE  FS!Next \/ UNCHANGED statsVars
    BY <2>1 DEF PartsNext, Deliver, Search, Read, LookUp, Stats, Requesting, Store, Launch,
                Account, vars, clientVars, papersVars
  <2>2. FS!Next => FSP!Next
    BY DEF FS!Next, FSP!Next, FS!Ask, FSP!Ask, FS!Look, FSP!Look,
             FS!StartWorkers, FSP!StartWorkers, FS!CloseJobs, FSP!CloseJobs,
             FS!Finish, FSP!Finish, FS!BudgetEnds, FSP!BudgetEnds, FS!Cancel, FSP!Cancel,
             FS!HandOver, FSP!HandOver, FS!WorkerStep, FSP!WorkerStep, FS!TakeSlot, FSP!TakeSlot,
             FS!LeaveSlots, FSP!LeaveSlots, FS!LookAgain, FSP!LookAgain, FS!Fetched, FSP!Fetched,
             FS!FetchFails, FSP!FetchFails, FS!Tick, FSP!Tick, FS!Hit, FSP!Hit,
             FS!Cached, FSP!Cached, FS!Position, FSP!Position, FS!Entry, FSP!Entry,
             FS!RemoveAt, FSP!RemoveAt, FS!Others, FSP!Others, FS!AfterGet, FSP!AfterGet,
             FS!AfterPut, FSP!AfterPut, FS!Serve, FSP!Serve, FS!ToSet, FSP!ToSet
  <2> QED
    BY <2>1, <2>2 DEF statsVars, FSP!svars
<1> QED
  BY <1>1, <1>2, PTL DEF PartsSpec, FSP!Spec

(* client_stats.go: never more requests than slots, and when every call is *)
(* over, by whatever way its workers left, all slots are free.             *)
THEOREM SlotsAreFree == PartsSpec => []SlotsAreReturned
<1>1. FSP!Spec => []FSP!SlotsAreReturned
  BY StatsAssumption, FSP!SlotsComeBack DEF FSP!SlotsAssumption
<1>2. FSP!SlotsAreReturned => SlotsAreReturned
  BY DEF FSP!SlotsAreReturned, SlotsAreReturned, FS!SlotsAreReturned
<1> QED
  BY <1>1, <1>2, StatsBehave, PTL

(* client_stats.go: no call is given counters as old as TTL, or two answers *)
(* for a hash, and the cache has one entry for a hash and never too many.   *)
THEOREM StatsAreFresh == PartsSpec => []ServesFreshStats
<1>1. FSP!Spec => []FSP!ServesFreshStats
  BY StatsAssumption, FSP!AnswersStayFresh DEF FSP!SlotsAssumption, FSP!FreshAssumption
<1>2. FSP!ServesFreshStats => ServesFreshStats
  BY DEF FSP!ServesFreshStats, ServesFreshStats, FS!ServesFreshStats
<1> QED
  BY <1>1, <1>2, StatsBehave, PTL

(***************************************************************************)
(* An account that every mirror refuses                                    *)
(***************************************************************************)

Refusing == mode \in [Hosts -> {"refusing"}]

NobodyHeld ==
  /\ hosts \in [Hosts -> [okAge : Nat, failures : Nat, held : Nat]]
  /\ \A h \in Hosts : hosts[h].held = 0

(* No attempt works, so no call has anybody to blame. *)
AttemptsFail ==
  /\ pc \in [Callers -> {"idle", "select", "waiting", "checking", "ending", "attempt", "judge"}]
  /\ mirror \in [Callers -> Hosts \cup {NoHost}]
  /\ \A c \in Callers : pc[c] \in {"attempt", "judge"} => mirror[c] \in Hosts

AccountInv == Refusing /\ NobodyHeld /\ AttemptsFail

LEMMA AccountStarts == AC!Init => AccountInv
<1> SUFFICES ASSUME AC!Init PROVE AccountInv
  OBVIOUS
<1>1. NobodyHeld
  BY AccountAssumption DEF AC!Init, AC!NeverSeen, NobodyHeld
<1>2. Refusing /\ AttemptsFail
  BY DEF AC!Init, Refusing, AttemptsFail
<1> QED
  BY <1>1, <1>2 DEF AccountInv

(* A mirror that refuses passes checks, and does nothing else. *)
LEMMA RefusingMirrors ==
  ASSUME Refusing, NEW h \in Hosts
  PROVE  /\ ~AC!May(h, "fails_check") /\ ~AC!May(h, "works") /\ ~AC!May(h, "fails")
         /\ ~AC!May(h, "not_found")
<1>1. mode[h] = "refusing"
  BY DEF Refusing
<1>2. AC!Possible["refusing"] = {"passes", "refuses"}
  BY DEF AC!Possible
<1> QED
  BY <1>1, <1>2 DEF AC!May

(* The steps that tell the mirrors' health nothing. *)
LEMMA AccountSteps ==
  ASSUME AccountInv, AC!Next \/ UNCHANGED accountVars
  PROVE  \/ UNCHANGED hosts
         \/ AC!Tick
         \/ \E c \in Callers, h \in Hosts : AC!CheckPasses(c, h)
<1> USE DEF AccountInv
<1>1. ASSUME NEW c \in Callers, NEW h \in Hosts, AC!CheckFails(c, h) PROVE FALSE
  BY <1>1, RefusingMirrors DEF AC!CheckFails
<1>2. ASSUME NEW c \in Callers, AC!AttemptFails(c) PROVE UNCHANGED hosts
  BY <1>2, RefusingMirrors DEF AC!AttemptFails, AttemptsFail
<1>3. ASSUME NEW c \in Callers, AC!Blame(c) \/ AC!Record(c) PROVE FALSE
  BY <1>3 DEF AC!Blame, AC!Record, AttemptsFail
<1>4. CASE AC!Next
  <2>1. \/ UNCHANGED hosts
        \/ AC!Tick
        \/ \E c \in Callers : \/ \E h \in Hosts : AC!CheckPasses(c, h) \/ AC!CheckFails(c, h)
                              \/ AC!AttemptFails(c) \/ AC!Blame(c) \/ AC!Record(c)
    BY <1>4 DEF AC!Next, AC!Step, AC!Proceed, AC!Weather, AC!Call, AC!GiveUp, AC!KeepCurrent,
         AC!AwaitRound, AC!UseFreshest, AC!Refuse, AC!StartRound, AC!AbandonChecks, AC!EndRound,
         AC!Cancelled, AC!AttemptWorks, AC!AttemptRefused, AC!AttemptNotFound, AC!Judge
  <2> QED
    BY <1>1, <1>2, <1>3, <2>1
<1> QED
  BY <1>4 DEF accountVars

LEMMA NobodyIsHeld ==
  ASSUME AccountInv, AC!Next \/ UNCHANGED accountVars
  PROVE  NobodyHeld'
<1>1. CASE UNCHANGED hosts
  BY <1>1 DEF AccountInv, NobodyHeld
<1>2. CASE AC!Tick
  BY <1>2, AccountAssumption DEF AC!Tick, AC!Cap, AccountInv, NobodyHeld
<1>3. ASSUME NEW c \in Callers, NEW h \in Hosts, AC!CheckPasses(c, h) PROVE NobodyHeld'
  BY <1>3 DEF AC!CheckPasses, AC!Passed, AccountInv, NobodyHeld
<1> QED
  BY <1>1, <1>2, <1>3, AccountSteps

(* A call that returns. *)
LEMMA ReturnLeavesMirror ==
  ASSUME AttemptsFail, NEW c \in Callers, AC!Return(c)
  PROVE  AttemptsFail'
BY DEF AttemptsFail, AC!Return, AC!Forget

LEMMA AttemptsStillFail ==
  ASSUME AccountInv, AC!Next \/ UNCHANGED accountVars
  PROVE  AttemptsFail'
<1> USE DEF AccountInv, AttemptsFail
<1>1. CASE UNCHANGED <<pc, mirror>>
  BY <1>1
<1>2. ASSUME NEW c \in Callers, AC!Call(c) \/ AC!AwaitRound(c) \/ AC!StartRound(c)
      PROVE  AttemptsFail'
  BY <1>2 DEF AC!Call, AC!AwaitRound, AC!StartRound
<1>3. ASSUME NEW c \in Callers, NEW h \in Hosts, AC!RunOn(c, h) PROVE AttemptsFail'
  BY <1>3 DEF AC!RunOn
<1>4. ASSUME NEW c \in Callers, AC!KeepCurrent(c) \/ AC!UseFreshest(c) PROVE AttemptsFail'
  BY <1>3, <1>4 DEF AC!KeepCurrent, AC!UseFreshest, AC!Freshest, AC!Usable
<1>5. ASSUME NEW c \in Callers, AC!Refuse(c) \/ AC!Cancelled(c) PROVE AttemptsFail'
  BY <1>5, ReturnLeavesMirror DEF AC!Refuse, AC!Cancelled
<1>6. ASSUME NEW c \in Callers, NEW h \in Hosts, AC!CheckPasses(c, h) PROVE AttemptsFail'
  BY <1>6 DEF AC!CheckPasses
<1>7. ASSUME NEW c \in Callers, AC!AbandonChecks(c) PROVE AttemptsFail'
  BY <1>7 DEF AC!AbandonChecks
<1>8. ASSUME NEW c \in Callers, AC!EndRound(c) PROVE AttemptsFail'
  <2>1. CASE mirror[c] = NoHost
    BY <1>8, <2>1 DEF AC!EndRound, AC!Released, AC!Forget
  <2>2. CASE mirror[c] # NoHost
    BY <1>8, <2>2 DEF AC!EndRound, AC!Released
  <2> QED
    BY <2>1, <2>2
<1>9. ASSUME NEW c \in Callers, NEW forbidden, AC!AfterFailure(c, forbidden), pc[c] = "attempt"
      PROVE  AttemptsFail'
  <2>1. CASE first[c] = NoHost
    BY <1>9, <2>1 DEF AC!AfterFailure
  <2>2. CASE first[c] # NoHost
    BY <1>9, <2>2, ReturnLeavesMirror DEF AC!AfterFailure
  <2> QED
    BY <2>1, <2>2
<1>10. ASSUME NEW c \in Callers,
              AC!AttemptFails(c) \/ AC!AttemptRefused(c) \/ AC!AttemptNotFound(c)
       PROVE  AttemptsFail'
  BY <1>9, <1>10 DEF AC!AttemptFails, AC!AttemptRefused, AC!AttemptNotFound
<1>11. ASSUME NEW c \in Callers, AC!Judge(c) PROVE AttemptsFail'
  <2>1. CASE AC!Return(c)
    BY <2>1, ReturnLeavesMirror
  <2>2. CASE ~AC!Return(c)
    BY <1>11, <2>2 DEF AC!Judge
  <2> QED
    BY <2>1, <2>2
<1>12. ASSUME NEW c \in Callers,
              \/ \E h \in Hosts : AC!CheckFails(c, h)
              \/ AC!AttemptWorks(c) \/ AC!Blame(c) \/ AC!Record(c)
       PROVE  FALSE
  BY <1>12, RefusingMirrors DEF AC!CheckFails, AC!AttemptWorks, AC!Blame, AC!Record
<1>13. CASE AC!Next
  <2>1. \/ UNCHANGED <<pc, mirror>>
        \/ \E c \in Callers : AC!Call(c) \/ AC!Proceed(c)
    BY <1>13 DEF AC!Next, AC!Step, AC!Tick, AC!Weather, AC!GiveUp, AC!callVars
  <2> QED
    BY <1>1, <1>2, <1>4, <1>5, <1>6, <1>7, <1>8, <1>10, <1>11, <1>12, <2>1 DEF AC!Proceed
<1> QED
  BY <1>1, <1>13 DEF accountVars

(* mirrors.go, onMirrorFrom: when every mirror refuses the account, no     *)
(* mirror is held back for it.                                             *)
THEOREM AccountHoldsNobody == PartsSpec => []AccountTroubleHoldsNobody
<1>1. PartsInit => AccountInv
  BY AccountStarts DEF PartsInit
<1>2. AccountInv /\ [PartsNext]_vars => AccountInv'
  <2> SUFFICES ASSUME AccountInv, [PartsNext]_vars
               PROVE  AccountInv'
    OBVIOUS
  <2>1. AC!Next \/ UNCHANGED accountVars
    BY DEF PartsNext, Deliver, Search, Read, LookUp, Stats, Requesting, Store, Launch, Account,
           vars, clientVars, papersVars
  <2>2. Refusing'
    <3>1. CASE AC!Next
      BY <3>1 DEF AccountInv, Refusing, AC!Next, AC!Step, AC!Proceed, AC!Tick, AC!Weather,
         AC!Call, AC!GiveUp, AC!KeepCurrent, AC!AwaitRound, AC!UseFreshest, AC!Refuse,
         AC!StartRound, AC!CheckPasses, AC!CheckFails, AC!AbandonChecks, AC!EndRound,
         AC!Cancelled, AC!AttemptWorks, AC!AttemptFails, AC!AttemptRefused,
         AC!AttemptNotFound, AC!Judge, AC!Blame, AC!Record
    <3> QED
      BY <2>1, <3>1 DEF AccountInv, Refusing, accountVars
  <2> QED
    BY <2>1, <2>2, NobodyIsHeld, AttemptsStillFail DEF AccountInv
<1>3. AccountInv => AccountTroubleHoldsNobody
  BY DEF AccountInv, NobodyHeld, AccountTroubleHoldsNobody, AC!Eligible
<1> QED
  BY <1>1, <1>2, <1>3, PTL DEF PartsSpec

(***************************************************************************)
(* The download of a paper                                                 *)
(***************************************************************************)

Elements(s) == {s[i] : i \in DOMAIN s}

(* What the elements of short and of changed sequences are. *)
LEMMA ElementsOf ==
  /\ Elements(<<>>) = {}
  /\ \A x : Elements(<<x>>) = {x}
  /\ \A x, y : Elements(<<x, y>>) = {x, y}
BY DEF Elements

LEMMA ElementsOfAppend ==
  ASSUME NEW S, NEW s \in Seq(S), NEW x \in S
  PROVE  Elements(Append(s, x)) = Elements(s) \cup {x}
<1>1. /\ Len(s) \in Nat /\ Len(Append(s, x)) = Len(s) + 1
      /\ DOMAIN s = 1..Len(s) /\ DOMAIN Append(s, x) = 1..(Len(s) + 1)
      /\ Append(s, x)[Len(s) + 1] = x
      /\ \A i \in 1..Len(s) : Append(s, x)[i] = s[i]
  BY AppendProperties, LenProperties
<1> HIDE DEF Elements
<1>2. ASSUME NEW e \in Elements(Append(s, x)) PROVE e \in Elements(s) \cup {x}
  <2>1. PICK i \in 1..(Len(s) + 1) : e = Append(s, x)[i]
    BY <1>1 DEF Elements
  <2>2. i \in 1..Len(s) \/ i = Len(s) + 1
    BY <1>1, <2>1
  <2> QED
    BY <1>1, <2>1, <2>2 DEF Elements
<1>3. ASSUME NEW e \in Elements(s) PROVE e \in Elements(Append(s, x))
  <2>1. PICK i \in 1..Len(s) : e = s[i]
    BY <1>1, <1>3 DEF Elements
  <2>2. i \in 1..(Len(s) + 1)
    BY <1>1
  <2> QED
    BY <1>1, <2>1, <2>2 DEF Elements
<1>4. x \in Elements(Append(s, x))
  <2>1. Len(s) + 1 \in 1..(Len(s) + 1)
    BY <1>1
  <2> QED
    BY <1>1, <2>1 DEF Elements
<1> QED
  BY <1>2, <1>3, <1>4

LEMMA ElementsOfConcat ==
  ASSUME NEW S, NEW s \in Seq(S), NEW t \in Seq(S)
  PROVE  s \o t \in Seq(S) /\ Elements(s \o t) = Elements(s) \cup Elements(t)
<1>1. /\ s \o t \in Seq(S) /\ Len(s) \in Nat /\ Len(t) \in Nat
      /\ DOMAIN s = 1..Len(s) /\ DOMAIN t = 1..Len(t) /\ DOMAIN (s \o t) = 1..(Len(s) + Len(t))
      /\ \A i \in 1..(Len(s) + Len(t)) :
           (s \o t)[i] = IF i <= Len(s) THEN s[i] ELSE t[i - Len(s)]
  BY ConcatProperties, LenProperties
<1>2. ASSUME NEW i \in 1..(Len(s) + Len(t)) PROVE (s \o t)[i] \in Elements(s) \cup Elements(t)
  <2>1. CASE i <= Len(s)
    BY <1>1, <2>1 DEF Elements
  <2>2. CASE ~(i <= Len(s))
    <3>1. i - Len(s) \in 1..Len(t)
      BY <1>1, <2>2
    <3> QED
      BY <1>1, <2>2, <3>1 DEF Elements
  <2> QED
    BY <2>1, <2>2
<1>3. ASSUME NEW i \in 1..Len(s) PROVE s[i] \in Elements(s \o t)
  <2>1. i \in 1..(Len(s) + Len(t)) /\ (s \o t)[i] = s[i]
    BY <1>1
  <2> QED
    BY <1>1, <2>1 DEF Elements
<1>4. ASSUME NEW i \in 1..Len(t) PROVE t[i] \in Elements(s \o t)
  <2>1. Len(s) + i \in 1..(Len(s) + Len(t)) /\ (s \o t)[Len(s) + i] = t[i]
    BY <1>1
  <2> QED
    BY <1>1, <2>1 DEF Elements
<1> QED
  BY <1>1, <1>2, <1>3, <1>4 DEF Elements

LEMMA ElementsOfTail ==
  ASSUME NEW S, NEW s \in Seq(S), s # <<>>
  PROVE  /\ Tail(s) \in Seq(S) /\ Head(s) \in S
         /\ Elements(s) = {Head(s)} \cup Elements(Tail(s))
<1>1. /\ Tail(s) \in Seq(S) /\ Head(s) \in S /\ Head(s) = s[1]
      /\ Len(s) \in Nat /\ Len(s) > 0 /\ Len(Tail(s)) = Len(s) - 1
      /\ DOMAIN s = 1..Len(s) /\ DOMAIN Tail(s) = 1..(Len(s) - 1)
      /\ \A i \in 1..(Len(s) - 1) : Tail(s)[i] = s[i + 1]
  BY HeadTailProperties, LenProperties, EmptySeq
<1>2. ASSUME NEW i \in 1..Len(s) PROVE s[i] \in {Head(s)} \cup Elements(Tail(s))
  <2>1. CASE i = 1
    BY <1>1, <2>1
  <2>2. CASE i # 1
    <3>1. i - 1 \in 1..(Len(s) - 1) /\ s[i] = Tail(s)[i - 1]
      BY <1>1, <2>2
    <3> QED
      BY <1>1, <3>1 DEF Elements
  <2> QED
    BY <2>1, <2>2
<1>3. ASSUME NEW i \in 1..(Len(s) - 1) PROVE Tail(s)[i] \in Elements(s)
  <2>1. i + 1 \in 1..Len(s) /\ Tail(s)[i] = s[i + 1]
    BY <1>1
  <2> QED
    BY <1>1, <2>1 DEF Elements
<1>4. Head(s) \in Elements(s)
  BY <1>1 DEF Elements
<1> QED
  BY <1>1, <1>2, <1>3, <1>4 DEF Elements

(* A set of naturals has a least. *)
LEMMA LeastNatural ==
  ASSUME NEW S, S \subseteq Nat, S # {}
  PROVE  \E x \in S : \A y \in S : x <= y
<1>1. PICK x \in S : \A y \in S : ~(<<y, x>> \in OpToRel(<, Nat))
  BY NatLessThanWellFounded, WFMin
<1>2. ASSUME NEW y \in S, ~(x <= y) PROVE FALSE
  <2>1. y < x /\ <<y, x>> \in Nat \X Nat
    BY <1>2
  <2>2. <<y, x>>[1] < <<y, x>>[2]
    BY <2>1
  <2>3. <<y, x>> \in {ss \in Nat \X Nat : ss[1] < ss[2]}
    BY <2>1, <2>2
  <2>4. <<y, x>> \in OpToRel(<, Nat)
    BY <2>3 DEF OpToRel
  <2> QED
    BY <1>1, <2>4
<1> QED
  BY <1>2

(* Some locations of a work have a first. *)
LEMMA BestIsOne ==
  ASSUME NEW w \in Works, NEW S, S \subseteq w.locations, S # {}
  PROVE  PD!Best(w, S) \in S
<1> DEFINE rank(l) == PD!VersionRank(l.version)
<1>1. \A l : rank(l) \in Nat
  BY DEF PD!VersionRank
<1>2. w.thesis \in BOOLEAN /\ \A l \in S : l.name \in Nat /\ l.repository \in BOOLEAN
  BY WorkAssumption
<1>3. PICK R \in SUBSET S : /\ R # {}
                            /\ \A l \in R, m \in S \ R : w.thesis /\ l.repository # m.repository /\ l.repository
                            /\ \A l, m \in R : ~(w.thesis /\ l.repository # m.repository)
  <2>1. CASE w.thesis /\ \E l \in S : l.repository
    <3> DEFINE stored == {l \in S : l.repository}
    <3>1. stored \in SUBSET S /\ stored # {}
      BY <2>1
    <3>2. \A l \in stored, m \in S \ stored : w.thesis /\ l.repository # m.repository /\ l.repository
      BY <1>2, <2>1
    <3>3. \A l, m \in stored : ~(w.thesis /\ l.repository # m.repository)
      BY <1>2
    <3> HIDE DEF stored
    <3> QED
      BY <3>1, <3>2, <3>3
  <2>2. CASE ~(w.thesis /\ \E l \in S : l.repository)
    BY <1>2, <2>2
  <2> QED
    BY <2>1, <2>2
<1>4. PICK x \in R : \A y \in R : rank(x) <= rank(y)
  <2> DEFINE ranks == {rank(l) : l \in R}
  <2>1. ranks \subseteq Nat /\ ranks # {}
    BY <1>1, <1>3
  <2>2. \E r \in ranks : \A q \in ranks : r <= q
    BY <2>1, LeastNatural
  <2> QED
    BY <2>2
<1> DEFINE equals == {l \in R : rank(l) = rank(x)}
<1>5. PICK l \in equals : \A m \in equals : l.name <= m.name
  <2> DEFINE names == {m.name : m \in equals}
  <2>1. names \subseteq Nat /\ names # {}
    BY <1>2, <1>3, <1>4
  <2>2. \E n \in names : \A q \in names : n <= q
    BY <2>1, LeastNatural
  <2> QED
    BY <2>2
<1>6. \A m \in S : PD!Before(w, l, m)
  <2> SUFFICES ASSUME NEW m \in S PROVE PD!Before(w, l, m)
    OBVIOUS
  <2>1. CASE m \notin R
    BY <1>3, <1>5, <2>1 DEF PD!Before
  <2>2. CASE m \in R /\ rank(m) # rank(x)
    <3>1. rank(l) < rank(m) /\ rank(l) # rank(m) /\ ~(w.thesis /\ l.repository # m.repository)
      BY <1>1, <1>3, <1>4, <1>5, <2>2
    <3> QED
      BY <3>1 DEF PD!Before
  <2>3. CASE m \in equals
    <3>1. rank(l) = rank(m) /\ l.name <= m.name /\ ~(w.thesis /\ l.repository # m.repository)
      BY <1>3, <1>5, <2>3
    <3> QED
      BY <3>1 DEF PD!Before
  <2> QED
    BY <2>1, <2>2, <2>3
<1> QED
  BY <1>5, <1>6 DEF PD!Best

(* The sources of a download, and what they may have failed with. *)
Sources ==
  {PD!Whole(r) : r \in {"lookup", "hosted_tei_xml", "hosted_pdf", "archive"}}
  \cup {PD!External(l) : l \in UNION {w.locations : w \in Works}}

Failures == [source : Sources, how : PD!Terminal \cup {"failed", "no_content"}]

(* The open copies come as one, or as two with different addresses. *)
LEMMA CopiesOf ==
  ASSUME NEW w \in Works, NEW o
  PROVE  LET copies == {l \in w.locations : PD!FitsRequest(w, o, l)}
         IN  \/ copies = {} /\ PD!ExternalCandidates(w, o) = <<>>
             \/ \E l \in copies : /\ PD!ExternalCandidates(w, o) = <<PD!External(l)>>
                                  /\ \A m \in copies : m.url = l.url
             \/ \E k, l \in copies : /\ PD!ExternalCandidates(w, o) = <<PD!External(k), PD!External(l)>>
                                     /\ k.url # l.url
<1> DEFINE copies == {l \in w.locations : PD!FitsRequest(w, o, l)}
           best == PD!Best(w, copies)
           others == {l \in copies : l.url # best.url}
           second == PD!Best(w, others)
<1>1. CASE copies = {}
  BY <1>1 DEF PD!ExternalCandidates
<1>2. CASE copies # {}
  <2>1. best \in copies
    BY <1>2, BestIsOne
  <2>2. CASE others = {}
    <3>1. PD!ExternalCandidates(w, o) = <<PD!External(best)>>
      BY <1>2, <2>2 DEF PD!ExternalCandidates
    <3>2. \A m \in copies : m.url = best.url
      BY <2>2
    <3> HIDE DEF best, copies, others
    <3> QED
      BY <2>1, <3>1, <3>2 DEF copies
  <2>3. CASE others # {}
    <3>1. others \subseteq w.locations
      OBVIOUS
    <3>2. second \in others
      BY <2>3, <3>1, BestIsOne
    <3>3. PD!ExternalCandidates(w, o) = <<PD!External(best), PD!External(second)>>
      BY <1>2, <2>3 DEF PD!ExternalCandidates
    <3>4. second \in copies /\ best.url # second.url
      BY <3>2
    <3> HIDE DEF best, second, copies, others
    <3> QED
      BY <2>1, <3>3, <3>4 DEF copies
  <2> QED
    BY <2>2, <2>3
<1> QED
  BY <1>1, <1>2

(* What a source must be for a request. *)
Fit(c, o, w) ==
  /\ o.location # None => c.location = o.location
  /\ o.version # None => c.version = o.version
  /\ o.artifact = "tei_xml" => c.route = "hosted_tei_xml"
  /\ o.doi # None /\ o.artifact = "pdf" /\ o.location = None => o.doi = w.doi \/ o.doi = c.doi

(* The hosted copy and the open copies are candidates, if they may serve. *)
LEMMA CandidatesOf ==
  ASSUME NEW w \in Works, NEW o, ~PD!Refused(o), o.location = None
  PROVE  LET xml == IF o.artifact = "tei_xml" /\ w.xml THEN {PD!Whole("hosted_tei_xml")} ELSE {}
             pdf == IF o.artifact = "pdf" /\ w.pdf /\ o.version = None /\ ~PD!AlternateDOI(w, o)
                    THEN {PD!Whole("hosted_pdf")} ELSE {}
             ext == IF o.artifact = "pdf" THEN Elements(PD!ExternalCandidates(w, o)) ELSE {}
         IN  /\ PD!Candidates(w, o) \in Seq(Sources)
             /\ Elements(PD!Candidates(w, o)) = xml \cup pdf \cup ext
<1>1. o.artifact \in {"pdf", "tei_xml"}
  BY DEF PD!Refused
<1>2. \A r \in {"hosted_tei_xml", "hosted_pdf"} : PD!Whole(r) \in Sources
  BY DEF Sources
<1>3. <<>> \in Seq(Sources) /\ \A x \in Sources : <<x>> \in Seq(Sources)
  OBVIOUS
<1>4. CASE o.artifact = "tei_xml"
  <2>1. PD!Candidates(w, o) = IF w.xml THEN <<PD!Whole("hosted_tei_xml")>> ELSE <<>>
    BY <1>4 DEF PD!Candidates
  <2> QED
    BY <1>2, <1>3, <1>4, <2>1, ElementsOf
<1>5. CASE o.artifact = "pdf"
  <2> DEFINE hosted == IF w.pdf /\ o.version = None /\ ~PD!AlternateDOI(w, o)
                       THEN <<PD!Whole("hosted_pdf")>> ELSE <<>>
             copies == {l \in w.locations : PD!FitsRequest(w, o, l)}
  <2>1. PD!Candidates(w, o) = hosted \o PD!ExternalCandidates(w, o)
    BY <1>5 DEF PD!Candidates
  <2>2. hosted \in Seq(Sources)
    BY <1>2, <1>3
  <2>3. \A l \in copies : PD!External(l) \in Sources
    BY DEF Sources
  <2>4. PD!ExternalCandidates(w, o) \in Seq(Sources)
    <3>1. \A x, y \in Sources : <<x, y>> \in Seq(Sources)
      OBVIOUS
    <3>2. \/ PD!ExternalCandidates(w, o) = <<>>
          \/ \E l \in copies : PD!ExternalCandidates(w, o) = <<PD!External(l)>>
          \/ \E k, l \in copies : PD!ExternalCandidates(w, o) = <<PD!External(k), PD!External(l)>>
      BY CopiesOf, Zenon
    <3> HIDE DEF copies
    <3> QED
      BY <1>3, <2>3, <3>1, <3>2
  <2>5. Elements(hosted) = IF w.pdf /\ o.version = None /\ ~PD!AlternateDOI(w, o)
                           THEN {PD!Whole("hosted_pdf")} ELSE {}
    BY ElementsOf
  <2> HIDE DEF hosted
  <2>6. /\ PD!Candidates(w, o) \in Seq(Sources)
        /\ Elements(PD!Candidates(w, o)) = Elements(hosted) \cup Elements(PD!ExternalCandidates(w, o))
    BY <2>1, <2>2, <2>4, ElementsOfConcat
  <2> QED
    BY <1>5, <2>5, <2>6
<1> QED
  BY <1>1, <1>4, <1>5

(* Every candidate is what was asked for. *)
LEMMA CandidatesAreFit ==
  ASSUME NEW w \in Works, NEW o, ~PD!Refused(o), ~PD!NotThere(w, o)
  PROVE  /\ PD!Candidates(w, o) \in Seq(Sources)
         /\ \A c \in Elements(PD!Candidates(w, o)) : Fit(c, o, w)
<1>1. CASE o.location # None
  <2> DEFINE l == PD!Chosen(w, o)
  <2>1. o.artifact = "pdf"
    BY <1>1 DEF PD!Refused
  <2>2. l \in w.locations /\ l.name = o.location
    BY <1>1 DEF PD!NotThere, PD!Chosen
  <2>3. o.version # None => l.version = o.version
    BY <1>1 DEF PD!NotThere
  <2>4. PD!Candidates(w, o) = <<PD!External(l)>>
    BY <1>1 DEF PD!Candidates
  <2>5. PD!External(l) \in Sources /\ Fit(PD!External(l), o, w)
    BY <1>1, <2>1, <2>2, <2>3 DEF Sources, Fit, PD!External
  <2> HIDE DEF l
  <2> QED
    BY <2>4, <2>5, ElementsOf
<1>2. CASE o.location = None
  <2>1. o.artifact = "tei_xml" => o.version = None
    BY DEF PD!Refused
  <2>2. o.artifact = "tei_xml" => Fit(PD!Whole("hosted_tei_xml"), o, w)
    BY <1>2, <2>1 DEF Fit, PD!Whole
  <2>3. o.artifact = "pdf" /\ o.version = None /\ ~PD!AlternateDOI(w, o)
          => Fit(PD!Whole("hosted_pdf"), o, w)
    BY <1>2 DEF Fit, PD!Whole, PD!AlternateDOI
  <2>4. ASSUME NEW l \in w.locations, PD!FitsRequest(w, o, l), o.artifact = "pdf"
        PROVE  Fit(PD!External(l), o, w)
    BY <1>2, <2>4 DEF Fit, PD!External, PD!FitsRequest, PD!AlternateDOI
  <2>5. o.artifact = "pdf" => \A c \in Elements(PD!ExternalCandidates(w, o)) : Fit(c, o, w)
    BY <2>4, CopiesOf, ElementsOf
  <2> QED
    BY <1>2, <2>2, <2>3, <2>5, CandidatesOf
<1> QED
  BY <1>1, <1>2

DownloadType ==
  /\ todo \in Seq(Sources) /\ failures \in Seq(Failures)
  /\ found \in Works \cup {None}

(* OpenAlex is asked only for a request that was accepted and that it may serve. *)
FoundForRequest ==
  /\ step \in {"idle", "begin", "lookup"} => found = None
  /\ step = "fetch" => found # None
  /\ found # None \/ step \in {"lookup", "fallback"} =>
       ~PD!Refused(asked) /\ asked.hash = None /\ asked.provider # "anna"

CandidatesFit == step = "fetch" => \A c \in Elements(todo) : Fit(c, asked, found)

(* The archive is asked for what it may serve. *)
ArchiveFits ==
  step = "archive" =>
    /\ asked.provider \in {"auto", "anna"} /\ ~PD!Constrained(asked)
    /\ PD!ArchiveDOI # None \/ asked.hash # None
    /\ asked.id # None => asked.doi = None /\ found # None

(* What has failed so far. *)
Tried == {failures[i].source : i \in DOMAIN failures}

(* The call is past the candidates, or was ended before. *)
PastCandidates ==
  \/ step \in {"fallback", "archive"} \/ (step = "done" /\ answer.by = "anna")
  \/ PD!FailedThroughout

(* No candidate is passed over. *)
NoneIsSkipped ==
  found # None =>
    /\ step = "fetch" => Elements(PD!Candidates(found, asked)) \subseteq Elements(todo) \cup Tried
    /\ PastCandidates => Elements(PD!Candidates(found, asked)) \subseteq Tried

(* A call that fails has asked the archive if that may serve it. *)
ArchiveIsAsked ==
  PD!FailedThroughout /\ asked.provider = "auto" /\ ~PD!Constrained(asked)
  /\ asked.doi # None /\ setup.archive => PD!Whole("archive") \in Tried

DownloadInv ==
  /\ DownloadType /\ FoundForRequest /\ CandidatesFit /\ ArchiveFits
  /\ NoneIsSkipped /\ ArchiveIsAsked /\ SelectionIsKept

LEMMA DownloadStarts == PD!Init => DownloadInv
<1> SUFFICES ASSUME PD!Init PROVE DownloadInv
  OBVIOUS
<1>1. step = "idle" /\ found = None /\ todo = <<>> /\ failures = <<>>
  BY DEF PD!Init
<1>2. DownloadType
  BY <1>1 DEF DownloadType
<1>3. FoundForRequest /\ CandidatesFit /\ ArchiveFits /\ NoneIsSkipped /\ ArchiveIsAsked
  BY <1>1 DEF FoundForRequest, CandidatesFit, ArchiveFits, NoneIsSkipped, ArchiveIsAsked,
              PD!FailedThroughout
<1>4. SelectionIsKept
  BY <1>1 DEF SelectionIsKept, PD!SelectionIsKept
<1> QED
  BY <1>2, <1>3, <1>4 DEF DownloadInv

(* What one more failure adds. *)
LEMMA FailureAdds ==
  ASSUME DownloadType, NEW s \in Sources, NEW how \in PD!Terminal \cup {"failed", "no_content"},
         failures' = Append(failures, [source |-> s, how |-> how])
  PROVE  /\ failures' \in Seq(Failures)
         /\ Tried' = Tried \cup {s}
         /\ how \in PD!Terminal => PD!EndedEarly'
<1> DEFINE f == [source |-> s, how |-> how]
<1>1. f \in Failures /\ f.source = s /\ f.how = how
  BY DEF Failures
<1>2. failures \in Seq(Failures)
  BY DEF DownloadType
<1> HIDE DEF f
<1>3. failures' = Append(failures, f)
  BY DEF f
<1>4. failures' \in Seq(Failures) /\ Elements(failures') = Elements(failures) \cup {f}
  BY <1>1, <1>2, <1>3, ElementsOfAppend, AppendProperties
<1>5. Tried = {e.source : e \in Elements(failures)} /\ Tried' = {e.source : e \in Elements(failures')}
  BY DEF Tried, Elements
<1>6. how \in PD!Terminal => PD!EndedEarly'
  <2>1. \E i \in DOMAIN failures' : failures'[i] = f
    BY <1>4 DEF Elements
  <2> QED
    BY <1>1, <2>1 DEF PD!EndedEarly
<1> QED
  BY <1>1, <1>4, <1>5, <1>6

(* A call that keeps what it has and goes on. *)
DownloadSame == UNCHANGED <<asked, found, todo, failures, answer>>

LEMMA BeginKeeps == ASSUME DownloadInv, PD!Begin PROVE DownloadInv'
<1> USE DEF DownloadInv
<1>1. DownloadSame /\ found = None /\ UNCHANGED <<setup, ended>>
  BY DEF PD!Begin, DownloadSame, FoundForRequest
<1>2. step' \in {"refused", "archive", "failed", "lookup"}
  BY DEF PD!Begin
<1>3. DownloadType' /\ CandidatesFit' /\ NoneIsSkipped' /\ SelectionIsKept'
  BY <1>1, <1>2 DEF DownloadSame, DownloadType, CandidatesFit, NoneIsSkipped, SelectionIsKept,
                    PD!SelectionIsKept
<1>4. FoundForRequest'
  BY <1>1, <1>2 DEF PD!Begin, DownloadSame, FoundForRequest, PD!ArchiveOnly
<1>5. ArchiveFits'
  <2> SUFFICES ASSUME step' = "archive" PROVE ArchiveFits'
    BY DEF ArchiveFits
  <2>1. CASE PD!Plain(asked)
    <3>1. ~((asked.doi = None) <=> (asked.hash = None))
      BY <2>1 DEF PD!Begin
    <3> QED
      BY <1>1, <2>1, <3>1 DEF DownloadSame, PD!Plain, ArchiveFits, PD!ArchiveDOI, PD!Constrained
  <2>2. CASE ~PD!Plain(asked)
    <3>1. ~PD!Refused(asked) /\ PD!ArchiveOnly(asked)
      BY <2>2 DEF PD!Begin
    <3>2. asked.provider \in {"auto", "anna"} /\ ~PD!Constrained(asked) /\ asked.id = None
      BY <3>1 DEF PD!Refused, PD!ArchiveOnly, PD!Constrained, PD!Identifiers
    <3>3. asked.doi # None \/ asked.hash # None
      BY <3>1, <3>2 DEF PD!Refused, PD!Identifiers
    <3> QED
      BY <1>1, <3>2, <3>3 DEF DownloadSame, ArchiveFits, PD!ArchiveDOI, PD!Constrained
  <2> QED
    BY <2>1, <2>2
<1>6. ArchiveIsAsked'
  <2>1. step' = "failed" => ended
    BY DEF PD!Begin
  <2> QED
    BY <1>1, <2>1 DEF ArchiveIsAsked, PD!FailedThroughout, PD!EndedEarly
<1> QED
  BY <1>3, <1>4, <1>5, <1>6

LEMMA LookupFindsKeeps == ASSUME DownloadInv, PD!Lookup PROVE DownloadInv'
<1> USE DEF DownloadInv
<1>1. PICK w \in Works :
        /\ found' = w
        /\ IF PD!NotThere(w, asked)
           THEN step' = "refused" /\ UNCHANGED <<todo, failures>>
           ELSE /\ todo' = PD!Candidates(w, asked)
                /\ failures' = IF todo' = <<>>
                               THEN Append(failures, [source |-> PD!Whole("lookup"), how |-> "no_content"])
                               ELSE failures
                /\ step' = "fetch"
  BY DEF PD!Lookup
<1>2. /\ UNCHANGED <<asked, answer>> /\ w # None
      /\ ~PD!Refused(asked) /\ asked.hash = None /\ asked.provider # "anna"
  BY WorkAssumption DEF PD!Lookup, FoundForRequest
<1>3. CASE PD!NotThere(w, asked)
  BY <1>1, <1>2, <1>3 DEF DownloadType, FoundForRequest, CandidatesFit, ArchiveFits,
     NoneIsSkipped, PastCandidates, ArchiveIsAsked, PD!FailedThroughout, SelectionIsKept,
     PD!SelectionIsKept
<1>4. CASE ~PD!NotThere(w, asked)
  <2>1. /\ todo' \in Seq(Sources) /\ todo' = PD!Candidates(w, asked) /\ step' = "fetch"
        /\ \A c \in Elements(todo') : Fit(c, asked, w)
    BY <1>1, <1>2, <1>4, CandidatesAreFit
  <2>2. failures' \in Seq(Failures)
    <3>1. PD!Whole("lookup") \in Sources
      BY DEF Sources
    <3>2. failures \in Seq(Failures)
      BY DEF DownloadType
    <3>3. CASE todo' = <<>>
      BY <1>1, <1>4, <3>1, <3>3, FailureAdds
    <3> QED
      BY <1>1, <1>4, <3>2, <3>3
  <2>3. DownloadType' /\ FoundForRequest' /\ CandidatesFit' /\ NoneIsSkipped'
    BY <1>1, <1>2, <2>1, <2>2 DEF DownloadType, FoundForRequest, CandidatesFit, NoneIsSkipped,
       PastCandidates, PD!FailedThroughout
  <2>4. ArchiveFits' /\ ArchiveIsAsked' /\ SelectionIsKept'
    BY <2>1 DEF ArchiveFits, ArchiveIsAsked, PD!FailedThroughout, SelectionIsKept, PD!SelectionIsKept
  <2> QED
    BY <2>3, <2>4
<1> QED
  BY <1>3, <1>4

LEMMA LookupFailsKeeps == ASSUME DownloadInv, PD!LookupFails PROVE DownloadInv'
<1> USE DEF DownloadInv
<1>1. /\ step = "lookup" /\ step' = "fallback" /\ found = None
      /\ ~PD!Refused(asked) /\ asked.hash = None /\ asked.provider # "anna"
      /\ UNCHANGED <<asked, found, todo, answer>>
  BY DEF PD!LookupFails, FoundForRequest
<1>2. failures' \in Seq(Failures)
  <2>1. PD!Whole("lookup") \in Sources
    BY DEF Sources
  <2> QED
    BY <2>1, FailureAdds DEF PD!LookupFails
<1> QED
  BY <1>1, <1>2 DEF DownloadType, FoundForRequest, CandidatesFit, ArchiveFits, NoneIsSkipped,
     ArchiveIsAsked, PD!FailedThroughout, SelectionIsKept, PD!SelectionIsKept

LEMMA FetchedKeeps == ASSUME DownloadInv, PD!Fetched PROVE DownloadInv'
<1> USE DEF DownloadInv
<1>1. /\ step = "fetch" /\ step' = "done" /\ todo # <<>>
      /\ UNCHANGED <<asked, found, todo, failures>>
      /\ answer' = [by |-> "openalex", copy |-> Head(todo), doi |-> found.doi, hash |-> None]
  BY DEF PD!Fetched
<1>2. found # None /\ ~PD!Refused(asked) /\ asked.hash = None /\ asked.provider # "anna"
  BY <1>1 DEF FoundForRequest
<1>3. Fit(Head(todo), asked, found)
  BY <1>1, ElementsOfTail DEF CandidatesFit, DownloadType
<1>4. SelectionIsKept'
  <2>1. asked.provider # "auto" => asked.provider = "openalex"
    BY <1>2 DEF PD!Refused
  <2>2. asked.id # None => asked.doi = None
    BY <1>2 DEF PD!Refused, PD!Identifiers
  <2> QED
    BY <1>1, <1>2, <1>3, <2>1, <2>2 DEF SelectionIsKept, PD!SelectionIsKept, Fit
<1> QED
  BY <1>1, <1>2, <1>4 DEF DownloadType, FoundForRequest, CandidatesFit, ArchiveFits,
     NoneIsSkipped, PastCandidates, ArchiveIsAsked, PD!FailedThroughout

LEMMA FetchFailsKeeps ==
  ASSUME DownloadInv, NEW how \in PD!Terminal \cup {"failed"}, PD!FetchFails(how)
  PROVE  DownloadInv'
<1> USE DEF DownloadInv
<1>1. /\ step = "fetch" /\ todo # <<>> /\ todo' = Tail(todo)
      /\ UNCHANGED <<asked, found, answer>>
      /\ failures' = Append(failures, [source |-> Head(todo), how |-> how])
      /\ step' = IF how \in PD!Terminal THEN "failed" ELSE "fetch"
  BY DEF PD!FetchFails
<1>2. /\ todo' \in Seq(Sources) /\ Head(todo) \in Sources
      /\ Elements(todo) = {Head(todo)} \cup Elements(todo')
  BY <1>1, ElementsOfTail DEF DownloadType
<1>3. /\ failures' \in Seq(Failures) /\ Tried' = Tried \cup {Head(todo)}
      /\ how \in PD!Terminal => PD!EndedEarly'
  BY <1>1, <1>2, FailureAdds
<1>4. step' = "fetch" \/ (step' = "failed" /\ PD!EndedEarly')
  BY <1>1, <1>3
<1>5. DownloadType' /\ FoundForRequest' /\ CandidatesFit'
  BY <1>1, <1>2, <1>3, <1>4 DEF DownloadType, FoundForRequest, CandidatesFit
<1>6. ArchiveFits' /\ ArchiveIsAsked' /\ SelectionIsKept'
  BY <1>4 DEF ArchiveFits, ArchiveIsAsked, PD!FailedThroughout, SelectionIsKept, PD!SelectionIsKept
<1>7. NoneIsSkipped'
  <2>1. ~PastCandidates'
    BY <1>4 DEF PastCandidates, PD!FailedThroughout
  <2> QED
    BY <1>1, <1>2, <1>3, <2>1 DEF NoneIsSkipped
<1> QED
  BY <1>5, <1>6, <1>7

LEMMA NoMoreCandidatesKeeps == ASSUME DownloadInv, PD!NoMoreCandidates PROVE DownloadInv'
<1> USE DEF DownloadInv
<1>1. /\ step = "fetch" /\ step' = "fallback" /\ todo = <<>>
      /\ UNCHANGED <<asked, found, todo, failures, answer>>
  BY DEF PD!NoMoreCandidates
<1>2. Tried' = Tried
  BY <1>1 DEF Tried
<1> QED
  BY <1>1, <1>2, ElementsOf DEF DownloadType, FoundForRequest, CandidatesFit, ArchiveFits,
     NoneIsSkipped, ArchiveIsAsked, PD!FailedThroughout, SelectionIsKept, PD!SelectionIsKept

LEMMA FallbackKeeps == ASSUME DownloadInv, PD!Fallback PROVE DownloadInv'
<1> USE DEF DownloadInv
<1>1. /\ step = "fallback" /\ step' \in {"archive", "failed"}
      /\ step' = "archive" <=> PD!ArchiveMayServe(asked, found) /\ setup.archive
      /\ UNCHANGED <<asked, setup, found, todo, failures, ended, answer>>
  BY DEF PD!Fallback
<1>2. ~PD!Refused(asked)
  BY <1>1 DEF FoundForRequest
<1>3. asked.id # None => asked.doi = None
  BY <1>2 DEF PD!Refused, PD!Identifiers
<1>4. DownloadType' /\ FoundForRequest' /\ CandidatesFit' /\ SelectionIsKept'
  BY <1>1 DEF DownloadType, FoundForRequest, CandidatesFit, SelectionIsKept, PD!SelectionIsKept
<1>5. NoneIsSkipped'
  BY <1>1 DEF NoneIsSkipped, PastCandidates, Tried
<1>6. ArchiveFits'
  BY <1>1, <1>3 DEF ArchiveFits, PD!ArchiveMayServe, PD!ArchiveDOI, PD!Constrained
<1>7. ArchiveIsAsked'
  BY <1>1 DEF ArchiveIsAsked, PD!ArchiveMayServe, PD!FailedThroughout, PD!Constrained
<1> QED
  BY <1>4, <1>5, <1>6, <1>7

LEMMA FromArchiveKeeps == ASSUME DownloadInv, PD!FromArchive PROVE DownloadInv'
<1> USE DEF DownloadInv
<1>1. /\ step = "archive" /\ step' = "done"
      /\ UNCHANGED <<asked, found, todo, failures>>
      /\ answer' = [by |-> "anna", copy |-> PD!Whole("archive"), doi |-> PD!ArchiveDOI, hash |-> asked.hash]
  BY DEF PD!FromArchive
<1>2. /\ asked.provider \in {"auto", "anna"} /\ ~PD!Constrained(asked)
      /\ PD!ArchiveDOI # None \/ asked.hash # None
      /\ asked.id # None => asked.doi = None /\ found # None
  BY <1>1 DEF ArchiveFits
<1>3. SelectionIsKept'
  BY <1>1, <1>2 DEF SelectionIsKept, PD!SelectionIsKept, PD!ArchiveDOI, PD!Constrained
<1>4. NoneIsSkipped'
  BY <1>1 DEF NoneIsSkipped, PastCandidates, Tried
<1> QED
  BY <1>1, <1>3, <1>4 DEF DownloadType, FoundForRequest, CandidatesFit, ArchiveFits,
     ArchiveIsAsked, PD!FailedThroughout

LEMMA ArchiveFailsKeeps == ASSUME DownloadInv, PD!ArchiveFails PROVE DownloadInv'
<1> USE DEF DownloadInv
<1>1. /\ step = "archive" /\ step' = "failed"
      /\ UNCHANGED <<asked, found, todo, answer>>
      /\ failures' = Append(failures, [source |-> PD!Whole("archive"), how |-> "failed"])
  BY DEF PD!ArchiveFails
<1>2. PD!Whole("archive") \in Sources
  BY DEF Sources
<1>3. failures' \in Seq(Failures) /\ Tried' = Tried \cup {PD!Whole("archive")}
  BY <1>1, <1>2, FailureAdds
<1>4. NoneIsSkipped'
  BY <1>1, <1>3 DEF NoneIsSkipped, PastCandidates
<1> QED
  BY <1>1, <1>3, <1>4 DEF DownloadType, FoundForRequest, CandidatesFit, ArchiveFits,
     ArchiveIsAsked, SelectionIsKept, PD!SelectionIsKept

(* The call begins, its context ends, or it stops for that. *)
LEMMA OthersKeep ==
  ASSUME DownloadInv, PD!Call \/ PD!GiveUp \/ PD!Abandon \/ UNCHANGED downloadVars
  PROVE  DownloadInv'
<1> USE DEF DownloadInv
<1>1. CASE PD!Call
  <2>1. step = "idle" /\ step' = "begin" /\ found = None /\ UNCHANGED <<found, todo, failures, answer>>
    BY <1>1 DEF PD!Call, FoundForRequest
  <2> QED
    BY <2>1 DEF DownloadType, FoundForRequest, CandidatesFit, ArchiveFits, NoneIsSkipped,
       ArchiveIsAsked, PD!FailedThroughout, SelectionIsKept, PD!SelectionIsKept
<1>2. CASE PD!GiveUp \/ PD!Abandon
  <2>1. /\ UNCHANGED <<asked, found, todo, failures, answer>> /\ ended'
        /\ step' = step \/ (step' = "failed" /\ step \in {"lookup", "fetch"})
        /\ step # "done" /\ step # "idle"
    BY <1>2 DEF PD!GiveUp, PD!Abandon
  <2>2. ~PD!FailedThroughout'
    BY <2>1 DEF PD!FailedThroughout, PD!EndedEarly
  <2>3. NoneIsSkipped'
    BY <2>1, <2>2 DEF NoneIsSkipped, PastCandidates, Tried
  <2>4. ArchiveFits'
    BY <2>1 DEF ArchiveFits, PD!Constrained, PD!ArchiveDOI
  <2> QED
    BY <2>1, <2>2, <2>3, <2>4 DEF DownloadType, FoundForRequest, CandidatesFit,
       ArchiveIsAsked, SelectionIsKept, PD!SelectionIsKept
<1>3. CASE UNCHANGED downloadVars
  BY <1>3 DEF downloadVars, DownloadType, FoundForRequest, CandidatesFit, ArchiveFits,
     NoneIsSkipped, PastCandidates, Tried, ArchiveIsAsked, SelectionIsKept, PD!SelectionIsKept,
     PD!FailedThroughout, PD!EndedEarly, PD!Constrained, PD!ArchiveDOI
<1> QED
  BY <1>1, <1>2, <1>3

(* Every other part leaves the download alone. *)
LEMMA DownloadElsewhere == ASSUME [PartsNext]_vars PROVE PD!Next \/ UNCHANGED downloadVars
BY DEF PartsNext, vars, papersVars, Deliver, Search, Read, LookUp, Stats, Requesting, Store,
       Launch, Account

(* The inductive invariant of a download holds throughout. *)
THEOREM DownloadInvariant == PartsSpec => []DownloadInv
<1>1. PartsInit => DownloadInv
  BY DownloadStarts DEF PartsInit
<1>2. DownloadInv /\ [PartsNext]_vars => DownloadInv'
  <2> SUFFICES ASSUME DownloadInv, [PartsNext]_vars PROVE DownloadInv'
    OBVIOUS
  <2>1. PD!Next \/ UNCHANGED downloadVars
    BY DownloadElsewhere
  <2>2. ASSUME NEW how \in PD!Terminal \cup {"failed"}, PD!FetchFails(how) PROVE DownloadInv'
    BY <2>2, FetchFailsKeeps
  <2> QED
    BY <2>1, <2>2, BeginKeeps, LookupFindsKeeps, LookupFailsKeeps, FetchedKeeps,
       NoMoreCandidatesKeeps, FallbackKeeps, FromArchiveKeeps, ArchiveFailsKeeps, OthersKeep
       DEF PD!Next
<1> QED
  BY <1>1, <1>2, PTL DEF PartsSpec

(* SelectionIsKept of PaperDownload.tla, for every set of works and of     *)
(* options: whatever failed on the way, what papers/download.go delivers   *)
(* has the hash, provider, location, version, artifact and DOI asked for.  *)
THEOREM SelectionIsSafe == PartsSpec => []SelectionIsKept
<1>1. DownloadInv => SelectionIsKept
  BY DEF DownloadInv
<1> QED
  BY <1>1, DownloadInvariant, PTL

(* A failure for each candidate is what SourcesInOrder asks for. *)
LEMMA AllAreTried ==
  ASSUME DownloadInv, found # None, PastCandidates
  PROVE  /\ \A c \in PD!HostedCopies : PD!Asked(c)
         /\ (\E u, v \in PD!TriedCopies : u # v) \/ PD!UsableCopies \subseteq PD!TriedCopies
<1>1. /\ found \in Works /\ ~PD!Refused(asked)
      /\ Elements(PD!Candidates(found, asked)) \subseteq Tried
  BY DEF DownloadInv, DownloadType, FoundForRequest, NoneIsSkipped
<1>2. \A s \in Tried : PD!Asked(s)
  BY DEF Tried, PD!Asked
<1>3. \A l : PD!External(l) \in Tried => l.url \in PD!TriedCopies
  <2> SUFFICES ASSUME NEW l, PD!External(l) \in Tried PROVE l.url \in PD!TriedCopies
    OBVIOUS
  <2>1. PICK i \in DOMAIN failures : failures[i].source = PD!External(l)
    BY DEF Tried
  <2>2. failures[i].source.route = "external_pdf" /\ failures[i].source.url = l.url
    BY <2>1 DEF PD!External
  <2> QED
    BY <2>1, <2>2 DEF PD!TriedCopies
<1>4. asked.artifact \in {"pdf", "tei_xml"} /\ (asked.artifact = "tei_xml" => asked.location = None)
  BY <1>1 DEF PD!Refused
<1>5. CASE asked.location # None
  BY <1>4, <1>5 DEF PD!HostedCopies, PD!UsableCopies
<1>6. CASE asked.location = None
  <2>1. PD!HostedCopies \subseteq Elements(PD!Candidates(found, asked))
    BY <1>1, <1>4, <1>6, CandidatesOf DEF PD!HostedCopies
  <2>2. asked.artifact = "pdf" =>
          Elements(PD!ExternalCandidates(found, asked)) \subseteq Tried
    BY <1>1, <1>6, CandidatesOf
  <2>3. CASE asked.artifact = "pdf"
    <3> DEFINE copies == {l \in found.locations : PD!FitsRequest(found, asked, l)}
    <3>1. PD!UsableCopies = {l.url : l \in copies}
      BY <1>1, <1>6, <2>3 DEF PD!UsableCopies
    <3>2. \/ copies = {}
          \/ \E l \in copies : /\ PD!ExternalCandidates(found, asked) = <<PD!External(l)>>
                               /\ \A m \in copies : m.url = l.url
          \/ \E k, l \in copies :
               /\ PD!ExternalCandidates(found, asked) = <<PD!External(k), PD!External(l)>>
               /\ k.url # l.url
      BY <1>1, CopiesOf
    <3> HIDE DEF copies
    <3>3. CASE copies = {}
      BY <1>2, <1>1, <2>1, <3>1, <3>3
    <3>4. ASSUME NEW l \in copies, \A m \in copies : m.url = l.url,
                 PD!ExternalCandidates(found, asked) = <<PD!External(l)>>
          PROVE  PD!UsableCopies \subseteq PD!TriedCopies
      <4>1. l.url \in PD!TriedCopies
        BY <1>3, <2>2, <2>3, <3>4, ElementsOf
      <4> QED
        BY <3>1, <3>4, <4>1
    <3>5. ASSUME NEW k \in copies, NEW l \in copies, k.url # l.url,
                 PD!ExternalCandidates(found, asked) = <<PD!External(k), PD!External(l)>>
          PROVE  \E u, v \in PD!TriedCopies : u # v
      BY <1>3, <2>2, <2>3, <3>5, ElementsOf
    <3> QED
      BY <1>1, <1>2, <2>1, <3>2, <3>3, <3>4, <3>5
  <2>4. CASE asked.artifact = "tei_xml"
    BY <1>1, <1>2, <2>1, <2>4 DEF PD!UsableCopies
  <2> QED
    BY <1>4, <2>3, <2>4
<1> QED
  BY <1>5, <1>6

(* SourcesInOrder of PaperDownload.tla, for every set of works and of      *)
(* options: the archive is asked, or the call fails, only after the hosted *)
(* copy and two open copies failed, and never without asking the archive   *)
(* where that may serve it.                                                *)
THEOREM SourcesAreInOrder == PartsSpec => []SourcesInOrder
<1>1. DownloadInv => SourcesInOrder
  <2> SUFFICES ASSUME DownloadInv PROVE SourcesInOrder
    OBVIOUS
  <2>1. found # None /\ (PD!FailedThroughout \/ (step = "done" /\ answer.by = "anna")) =>
          /\ \A c \in PD!HostedCopies : PD!Asked(c)
          /\ (\E u, v \in PD!TriedCopies : u # v) \/ PD!UsableCopies \subseteq PD!TriedCopies
    BY AllAreTried DEF PastCandidates
  <2>2. PD!FailedThroughout /\ asked.provider = "auto" /\ ~PD!Constrained(asked)
        /\ asked.doi # None /\ setup.archive => PD!Asked(PD!Whole("archive"))
    BY DEF DownloadInv, ArchiveIsAsked, Tried, PD!Asked
  <2> QED
    BY <2>1, <2>2 DEF SourcesInOrder, PD!SourcesInOrder
<1> QED
  BY <1>1, DownloadInvariant, PTL

(***************************************************************************)
(* A search and its continuations                                          *)
(***************************************************************************)

Pages == [by : {"openalex", "anna"}, after : Nat, upto : Nat, downloadable : BOOLEAN]

SearchType ==
  /\ state \in {"idle", "begin", "refused", "legacy", "archive", "openalex", "empty", "fallback",
                "failed", "done"}
  /\ hits \in [openalex : Nat, anna : Nat]
  /\ got \in Seq(Pages)

(* Where the page of some arguments starts, at the provider they name.     *)
From(o) ==
  IF o.tool = "details" THEN (o.page - 1) * PerPage
  ELSE IF o.provider = "anna" THEN (o.page - 1) * ArchivePage
  ELSE IF o.cursor = None THEN (o.page - 1) * o.limit ELSE o.cursor

(* The arguments are those of the first call, further on. *)
CarriesOn(o) ==
  /\ o \in PS!Arguments
  /\ o.tool = wanted.tool /\ o.terms = wanted.terms /\ o.limit = wanted.limit
  /\ o.downloadable = wanted.downloadable
  /\ o.cursor = None <=> wanted.cursor = None
  /\ wanted.provider \in {"auto", o.provider}
  /\ o.tool = "search" => o.query = wanted.query /\ o.limit # 0
  /\ o.tool = "details" =>
       o.query # "words" /\ o.limit = PerPage /\ o.cursor = None /\ o.terms = "none"

(* A hit that is listed up to here was delivered, if it is wanted. *)
Covered(n) ==
  \A h \in 1..n : \/ wanted.downloadable /\ h % 2 = 0
                  \/ \E i \in DOMAIN got : PS!Shows(got[i], h)

(* The arguments go on where the pages end, and will not be refused. *)
GoesOn(o) ==
  /\ \A i \in DOMAIN got : got[i].by = o.provider /\ got[i].upto <= From(o)
  /\ o.provider = "openalex" /\ wanted.page = 1 => Covered(From(o))
  /\ \/ o.tool = "details" /\ o.provider = "openalex" /\ o.query = "wid"
     \/ /\ o.tool = "search" /\ o.provider = "anna" /\ ~PS!Exact(o)
        /\ o.terms \in {"none", "both", "archive"} /\ o.cursor = None
     \/ /\ o.tool = "search" /\ o.provider = "openalex" /\ ~PS!Exact(o)
        /\ o.terms \notin {"archive", "mixed"} /\ ~PS!BeyondCap(o)

SearchChain ==
  /\ state = "idle" => got = <<>>
  /\ state = "done" => got # <<>>
  /\ state # "idle" => CarriesOn(args) /\ wanted.cursor \in {None, 0}
  /\ state # "idle" /\ got = <<>> => args = wanted
  /\ got # <<>> /\ state # "done" => GoesOn(args)
  /\ next # None => state = "done" /\ CarriesOn(next) /\ GoesOn(next)

(* Who is asked may be asked. *)
AskedRightly ==
  /\ state \in {"legacy", "archive", "openalex", "empty", "fallback"} => args.tool = "search"
  /\ state \in {"legacy", "archive"} => args.provider # "openalex" /\ ~PS!OpenAlexTerms(args)
  /\ state = "archive" => args.terms \notin {"value", "sort", "mixed"}
  /\ state \in {"openalex", "empty"} => args.provider # "anna" /\ ~PS!ArchiveTerms(args)
  /\ state \in {"openalex", "empty", "fallback"} => args.terms # "mixed"
  /\ state \in {"empty", "fallback"} => PS!MayFallBack
  /\ state = "empty" => hits.openalex = 0 /\ ~PS!Exact(args)

PagesInOrder ==
  \A i, j \in DOMAIN got : got[i].by = got[j].by /\ (i < j => got[i].upto <= got[j].after)

PagesMatch ==
  \A i \in DOMAIN got :
    IF got[i].by = "anna"
    THEN wanted.provider # "openalex" /\ (wanted.tool = "search" => ~PS!OpenAlexTerms(wanted))
    ELSE wanted.provider # "anna" /\ ~PS!ArchiveTerms(wanted)

(* A chain that is at its end has delivered what is listed. *)
EndsAtLast ==
  state = "done" /\ next = None /\ (\A i \in DOMAIN got : got[i].by = "openalex")
  /\ wanted.page = 1 /\ (wanted.tool = "details" \/ ~PS!Exact(wanted)) =>
    Covered(PS!Least(hits.openalex, PS!Listed(wanted)))

SearchInv ==
  /\ SearchType /\ SearchChain /\ AskedRightly /\ PagesInOrder /\ PagesMatch /\ EndsAtLast
  /\ state = "refused" => got = <<>>

LEMMA Multiples ==
  ASSUME NEW a \in Nat \ {0}, NEW b \in Nat
  PROVE  /\ (a - 1) * b \in Nat /\ a * b \in Nat /\ ((a + 1) - 1) * b = a * b
         /\ (a - 1) * b + b = a * b /\ a = 1 => (a - 1) * b = 0
OBVIOUS

LEMMA ShareBounds ==
  ASSUME NEW total \in Nat, NEW skip \in Nat, NEW limit \in Nat
  PROVE  LET n == PS!Share(total, skip, limit)
         IN  n \in Nat /\ n <= limit /\ (skip + n < total => n = limit)
BY DEF PS!Share, PS!Least

LEMMA FromIsNatural == ASSUME NEW o, CarriesOn(o) PROVE From(o) \in Nat
<1>1. o.page \in Nat \ {0} /\ o.limit \in Nat /\ (o.cursor # None => o.cursor \in Nat)
  BY DEF CarriesOn, PS!Arguments
<1>2. (o.page - 1) * PerPage \in Nat /\ (o.page - 1) * ArchivePage \in Nat /\ (o.page - 1) * o.limit \in Nat
  BY <1>1, SearchAssumption, Multiples
<1> QED
  BY <1>1, <1>2 DEF From

(* What one more page adds to the chain. *)
LEMMA PageIsAdded ==
  ASSUME SearchInv, state \notin {"idle", "done"}, UNCHANGED <<wanted, args, hits>>,
         NEW provider \in {"openalex", "anna"}, NEW skip \in Nat, NEW n \in Nat,
         PS!Deliver(provider, skip, n),
         got # <<>> => provider = args.provider /\ skip = From(args)
  PROVE  /\ SearchType' /\ PagesInOrder' /\ got' # <<>> /\ state' = "done"
         /\ \A i \in DOMAIN got' : got'[i].by = provider /\ got'[i].upto <= skip + n
         /\ provider = "openalex" /\ wanted.page = 1 /\ (got = <<>> => skip = 0) => Covered(skip + n)'
<1> USE DEF SearchInv
<1> DEFINE p == [by |-> provider, after |-> skip, upto |-> skip + n, downloadable |-> args.downloadable]
<1>1. CarriesOn(args) /\ (got # <<>> => GoesOn(args)) /\ got \in Seq(Pages)
  BY DEF SearchChain, SearchType
<1>2. p \in Pages
  BY <1>1 DEF Pages, CarriesOn, PS!Arguments
<1>3. got' = Append(got, p) /\ state' = "done"
  BY DEF PS!Deliver
<1>4. /\ got' \in Seq(Pages) /\ Len(got) \in Nat /\ Len(got') = Len(got) + 1 /\ DOMAIN got = 1..Len(got)
      /\ DOMAIN got' = 1..(Len(got) + 1) /\ got'[Len(got) + 1] = p
      /\ \A i \in 1..Len(got) : got'[i] = got[i] /\ got[i] \in Pages
  BY <1>1, <1>2, <1>3, AppendProperties, LenProperties, ElementOfSeq
<1>5. SearchType' /\ got' # <<>>
  BY <1>3, <1>4, EmptySeq DEF SearchType
<1>6. \A i \in DOMAIN got : got[i].by = provider /\ got[i].upto <= skip
  BY <1>1, <1>4, EmptySeq DEF GoesOn
<1>7. p.by = provider /\ p.after = skip /\ p.upto = skip + n /\ p.downloadable = args.downloadable
  OBVIOUS
<1> HIDE DEF p
<1>8. \A i \in DOMAIN got' : i = Len(got) + 1 \/ i \in DOMAIN got
  BY <1>4
<1>9. \A i \in DOMAIN got' : got'[i].by = provider /\ got'[i].upto <= skip + n
  <2>1. \A i \in DOMAIN got : got[i].upto \in Nat /\ got[i].upto <= skip + n
    BY <1>4, <1>6 DEF Pages
  <2> QED
    BY <1>4, <1>6, <1>7, <1>8, <2>1
<1>10. PagesInOrder'
  <2> SUFFICES ASSUME NEW i \in DOMAIN got', NEW j \in DOMAIN got', i < j
               PROVE  got'[i].upto <= got'[j].after
    BY <1>9 DEF PagesInOrder
  <2>1. i \in DOMAIN got
    BY <1>4
  <2>2. CASE j = Len(got) + 1
    BY <1>4, <1>6, <1>7, <2>1, <2>2
  <2>3. CASE j \in DOMAIN got
    BY <1>4, <2>1, <2>3 DEF PagesInOrder
  <2> QED
    BY <1>8, <2>2, <2>3
<1>11. ASSUME provider = "openalex", wanted.page = 1, got = <<>> => skip = 0 PROVE Covered(skip + n)'
  <2> SUFFICES ASSUME NEW h \in 1..(skip + n), ~(wanted.downloadable /\ h % 2 = 0)
               PROVE  \E i \in DOMAIN got' : PS!Shows(got'[i], h)
    BY DEF Covered
  <2>1. CASE h <= skip
    <3>1. got # <<>> /\ Covered(skip)
      BY <1>1, <1>11, <2>1 DEF GoesOn
    <3>2. PICK i \in DOMAIN got : PS!Shows(got[i], h)
      BY <2>1, <3>1 DEF Covered
    <3> QED
      BY <1>4, <3>2
  <2>2. CASE h > skip
    <3>1. wanted.downloadable = args.downloadable /\ wanted.downloadable \in BOOLEAN
      BY <1>1 DEF CarriesOn, PS!Arguments
    <3>2. wanted.downloadable => h % 2 = 1
      BY <3>1
    <3>3. PS!Shows(p, h)
      BY <1>7, <2>2, <3>1, <3>2 DEF PS!Shows
    <3> QED
      BY <1>4, <3>3
  <2> QED
    BY <2>1, <2>2
<1> QED
  BY <1>3, <1>5, <1>9, <1>10, <1>11

(* A call that delivers nothing keeps the invariant if it asks rightly. *)
LEMMA StillLooking ==
  ASSUME SearchInv, state \notin {"idle", "done"}, UNCHANGED <<wanted, args, hits, got, next>>,
         state' \in {"refused", "legacy", "archive", "openalex", "empty", "fallback", "failed"},
         state' = "refused" => got = <<>>, AskedRightly'
  PROVE  SearchInv'
<1>1. SearchType' /\ PagesInOrder' /\ PagesMatch' /\ EndsAtLast'
  BY DEF SearchInv, SearchType, PagesInOrder, PagesMatch, EndsAtLast
<1>2. next = None
  BY DEF SearchInv, SearchChain
<1>3. \A o : GoesOn(o)' <=> GoesOn(o)
  BY DEF GoesOn, Covered
<1>4. \A o : CarriesOn(o)' <=> CarriesOn(o)
  BY DEF CarriesOn
<1>5. SearchChain'
  BY <1>2, <1>3, <1>4 DEF SearchInv, SearchChain
<1> QED
  BY <1>1, <1>5 DEF SearchInv

LEMMA SearchStarts == PS!Init => SearchInv
<1> SUFFICES ASSUME PS!Init PROVE SearchInv
  OBVIOUS
<1>1. state = "idle" /\ got = <<>> /\ next = None /\ hits = [openalex |-> 0, anna |-> 0]
  BY DEF PS!Init
<1> QED
  BY <1>1 DEF SearchInv, SearchType, SearchChain, AskedRightly, PagesInOrder, PagesMatch, EndsAtLast

LEMMA StartKeeps == ASSUME SearchInv, PS!Start PROVE SearchInv'
<1>1. /\ wanted' \in PS!Searches \cup PS!Details /\ args' = wanted' /\ state' = "begin"
      /\ hits' \in [openalex : HitCounts, anna : HitCounts] /\ UNCHANGED <<got, next>>
      /\ got = <<>> /\ next = None
  BY DEF PS!Start, SearchInv, SearchChain
<1>2. SearchType'
  BY <1>1, SearchAssumption DEF SearchInv, SearchType
<1>3. CarriesOn(args)' /\ wanted'.cursor \in {None, 0}
  <2>1. \A o \in PS!Searches \cup PS!Details :
          /\ o \in PS!Arguments /\ o.cursor \in {None, 0}
          /\ o.tool = "search" => o.limit # 0
          /\ o.tool = "details" =>
               o.query # "words" /\ o.limit = PerPage /\ o.cursor = None /\ o.terms = "none"
    <3>1. 1..2 \subseteq Nat \ {0} /\ {1} \subseteq Nat \ {0} /\ {FALSE} \subseteq BOOLEAN
          /\ Limits \subseteq Nat /\ 0 \notin Limits /\ {PerPage} \subseteq Nat
      BY SearchAssumption
    <3>2. \A o \in PS!Searches : /\ o \in PS!Arguments /\ o.cursor \in {None, 0}
                                /\ o.tool = "search" /\ o.limit # 0
      <4> SUFFICES ASSUME NEW o \in PS!Searches
                   PROVE  /\ o \in PS!Arguments /\ o.cursor \in {None, 0}
                          /\ o.tool = "search" /\ o.limit # 0
        OBVIOUS
      <4>1. /\ o.tool = "search" /\ o.query \in {"words", "doi", "wid"} /\ o.page \in 1..2
            /\ o.cursor \in {None, 0} /\ o.limit \in Limits /\ o.downloadable \in BOOLEAN
            /\ o.provider \in {"auto", "anna", "openalex"}
            /\ o.terms \in {"none", "both", "archive", "openalex", "value", "sort", "mixed"}
        BY DEF PS!Searches
      <4>2. o = [tool |-> o.tool, query |-> o.query, provider |-> o.provider, terms |-> o.terms,
                 page |-> o.page, cursor |-> o.cursor, limit |-> o.limit, downloadable |-> o.downloadable]
        BY DEF PS!Searches
      <4>3. o.page \in Nat \ {0} /\ o.limit \in Nat
        BY <3>1, <4>1
      <4>5. o.cursor \in Nat \cup {None}
        BY <4>1
      <4>4. o \in PS!Arguments
        BY <4>1, <4>2, <4>3, <4>5 DEF PS!Arguments
      <4> QED
        BY <3>1, <4>1, <4>4
    <3>3. \A o \in PS!Details : /\ o \in PS!Arguments /\ o.cursor = None /\ o.terms = "none"
                               /\ o.tool = "details" /\ o.limit = PerPage /\ o.query # "words"
      BY <3>1 DEF PS!Details, PS!Arguments
    <3> QED
      BY <3>2, <3>3
  <2>2. /\ wanted' \in PS!Arguments /\ wanted'.cursor \in {None, 0}
        /\ wanted'.tool = "search" => wanted'.limit # 0
        /\ wanted'.tool = "details" =>
             /\ wanted'.query # "words" /\ wanted'.limit = PerPage
             /\ wanted'.cursor = None /\ wanted'.terms = "none"
    BY <1>1, <2>1
  <2> QED
    BY <1>1, <2>2 DEF CarriesOn
<1> QED
  BY <1>1, <1>2, <1>3 DEF SearchInv, SearchChain, AskedRightly, PagesInOrder, PagesMatch, EndsAtLast

LEMMA FollowKeeps == ASSUME SearchInv, PS!Follow PROVE SearchInv'
<1>1. /\ args' = next /\ next' = None /\ state' = "begin" /\ next # None
      /\ UNCHANGED <<wanted, hits, got>>
  BY DEF PS!Follow
<1>2. CarriesOn(next) /\ GoesOn(next) /\ wanted.cursor \in {None, 0} /\ state = "done"
  BY <1>1 DEF SearchInv, SearchChain
<1>3. CarriesOn(args)' /\ GoesOn(args)'
  <2>1. CarriesOn(next) => CarriesOn(args)'
    BY <1>1 DEF CarriesOn
  <2>2. GoesOn(next) => GoesOn(args)'
    BY <1>1 DEF GoesOn, Covered, From, PS!Exact, PS!BeyondCap
  <2> QED
    BY <1>2, <2>1, <2>2
<1>4. got # <<>>
  BY <1>2 DEF SearchInv, SearchChain
<1> QED
  BY <1>1, <1>2, <1>3, <1>4 DEF SearchInv, SearchType, SearchChain, AskedRightly, PagesInOrder,
     PagesMatch, EndsAtLast

LEMMA BeginsRightly == ASSUME SearchInv, PS!Begin PROVE SearchInv'
<1>1. /\ state = "begin" /\ args.tool = "search" /\ UNCHANGED <<wanted, args, conf, hits, got, next>>
      /\ state' =
           CASE PS!Legacy(args) -> IF PS!UnknownToArchive(args) THEN "refused" ELSE "legacy"
             [] ~PS!Legacy(args) /\ PS!Incompatible(args) -> "refused"
             [] ~PS!Legacy(args) /\ ~PS!Incompatible(args) /\ PS!ToArchive(args) -> "archive"
             [] OTHER -> "openalex"
  BY DEF PS!Begin
<1>2. CarriesOn(args) /\ (got # <<>> => GoesOn(args))
  BY <1>1 DEF SearchInv, SearchChain
<1>3. args.provider \in {"auto", "anna", "openalex"}
  BY <1>2 DEF CarriesOn, PS!Arguments
<1>4. CASE PS!Legacy(args) /\ PS!UnknownToArchive(args)
  <2>1. state' = "refused"
    BY <1>1, <1>4
  <2>2. got = <<>>
    BY <1>1, <1>2, <1>4 DEF GoesOn, PS!Legacy, PS!UnknownToArchive
  <2> QED
    BY <1>1, <2>1, <2>2, StillLooking DEF AskedRightly
<1>5. CASE PS!Legacy(args) /\ ~PS!UnknownToArchive(args)
  <2>1. state' = "legacy"
    BY <1>1, <1>5
  <2>2. args.provider # "openalex" /\ ~PS!OpenAlexTerms(args)
    BY <1>5 DEF PS!Legacy, PS!UnknownToArchive, PS!OpenAlexTerms
  <2> QED
    BY <1>1, <2>1, <2>2, StillLooking DEF AskedRightly, PS!OpenAlexTerms
<1>6. CASE ~PS!Legacy(args) /\ PS!Incompatible(args)
  <2>1. state' = "refused"
    BY <1>1, <1>6
  <2>2. got = <<>>
    BY <1>1, <1>2, <1>6 DEF GoesOn, PS!Legacy, PS!Incompatible, PS!Exact, PS!ArchiveTerms, PS!OpenAlexTerms
  <2> QED
    BY <1>1, <2>1, <2>2, StillLooking DEF AskedRightly
<1>7. CASE ~PS!Legacy(args) /\ ~PS!Incompatible(args) /\ PS!ToArchive(args)
  <2>1. state' = "archive"
    BY <1>1, <1>7
  <2>2. /\ args.provider # "openalex" /\ ~PS!OpenAlexTerms(args)
        /\ args.terms \notin {"value", "sort", "mixed"}
    BY <1>3, <1>7 DEF PS!Incompatible, PS!ToArchive, PS!ArchiveTerms, PS!OpenAlexTerms
  <2> QED
    BY <1>1, <2>1, <2>2, StillLooking DEF AskedRightly, PS!OpenAlexTerms
<1>8. CASE ~PS!Legacy(args) /\ ~PS!Incompatible(args) /\ ~PS!ToArchive(args)
  <2>1. state' = "openalex"
    BY <1>1, <1>8
  <2>2. args.provider # "anna" /\ ~PS!ArchiveTerms(args) /\ args.terms # "mixed"
    BY <1>8 DEF PS!Incompatible, PS!ToArchive
  <2> QED
    BY <1>1, <2>1, <2>2, StillLooking DEF AskedRightly, PS!ArchiveTerms
<1> QED
  BY <1>4, <1>5, <1>6, <1>7, <1>8

(* The calls that deliver nothing. *)
LEMMA LooksOn ==
  ASSUME SearchInv,
         PS!NothingFound \/ PS!OpenAlexRefuses \/ PS!OpenAlexFails \/ PS!ArchiveFails \/ PS!DetailsFail
  PROVE  SearchInv'
<1>1. CASE PS!NothingFound
  <2>1. /\ state = "openalex" /\ state' = "empty" /\ PS!MayFallBack /\ ~PS!Exact(args)
        /\ hits.openalex = 0 /\ UNCHANGED <<wanted, args, conf, hits, got, next>>
    BY <1>1 DEF PS!NothingFound
  <2>2. AskedRightly'
    BY <2>1 DEF SearchInv, AskedRightly, PS!MayFallBack, PS!Exact, PS!OpenAlexTerms, PS!ArchiveTerms
  <2> QED
    BY <2>1, <2>2, StillLooking
<1>2. CASE PS!OpenAlexRefuses
  <2>1. /\ state = "openalex" /\ UNCHANGED <<wanted, args, hits, got, next>>
        /\ state' = IF PS!BeyondCap(args) THEN "refused" ELSE "failed"
    BY <1>2 DEF PS!OpenAlexRefuses
  <2>2. PS!BeyondCap(args) => got = <<>>
    BY <2>1 DEF SearchInv, SearchChain, AskedRightly, GoesOn
  <2> QED
    BY <2>1, <2>2, StillLooking DEF AskedRightly
<1>3. CASE PS!OpenAlexFails
  <2>1. /\ state = "openalex" /\ UNCHANGED <<wanted, args, conf, hits, got, next>>
        /\ state' = IF PS!MayFallBack THEN "fallback" ELSE "failed"
    BY <1>3 DEF PS!OpenAlexFails
  <2>2. AskedRightly'
    BY <2>1 DEF SearchInv, AskedRightly, PS!MayFallBack, PS!OpenAlexTerms
  <2> QED
    BY <2>1, <2>2, StillLooking
<1>4. CASE PS!ArchiveFails \/ PS!DetailsFail
  <2>1. /\ state \notin {"idle", "done"} /\ state' = "failed"
        /\ UNCHANGED <<wanted, args, hits, got, next>>
    BY <1>4 DEF PS!ArchiveFails, PS!DetailsFail
  <2> QED
    BY <2>1, StillLooking DEF AskedRightly
<1> QED
  BY <1>1, <1>2, <1>3, <1>4

(* A call that delivers a page keeps the invariant if it offers rightly. *)
LEMMA PageKeeps ==
  ASSUME SearchInv, state \notin {"idle", "done"}, UNCHANGED <<wanted, args, hits>>,
         NEW provider \in {"openalex", "anna"}, NEW skip \in Nat, NEW n \in Nat,
         PS!Deliver(provider, skip, n),
         got # <<>> => provider = args.provider /\ skip = From(args),
         IF provider = "anna"
         THEN wanted.provider # "openalex" /\ (wanted.tool = "search" => ~PS!OpenAlexTerms(wanted))
         ELSE wanted.provider # "anna" /\ ~PS!ArchiveTerms(wanted),
         next' # None => CarriesOn(next') /\ GoesOn(next)',
         EndsAtLast'
  PROVE  SearchInv'
<1>1. /\ SearchType' /\ PagesInOrder' /\ got' # <<>> /\ state' = "done"
      /\ \A i \in DOMAIN got' : got'[i].by = provider
  BY PageIsAdded
<1>2. PagesMatch'
  BY <1>1 DEF PagesMatch, PS!OpenAlexTerms, PS!ArchiveTerms
<1>3. CarriesOn(args) /\ wanted.cursor \in {None, 0}
  BY DEF SearchInv, SearchChain
<1>4. CarriesOn(args)' /\ (next' # None => CarriesOn(next)')
  BY <1>3 DEF CarriesOn
<1>5. SearchChain' /\ AskedRightly'
  BY <1>1, <1>3, <1>4 DEF SearchChain, AskedRightly
<1> QED
  BY <1>1, <1>2, <1>5 DEF SearchInv

(* What an answer offers carries the call on. *)
LEMMA OffersCarryOn ==
  ASSUME NEW o, CarriesOn(o), NEW p \in {"openalex", "anna"}, o.provider \in {"auto", p}
  PROVE  /\ \A c \in Nat : o.tool = "search" /\ o.cursor # None =>
              CarriesOn([o EXCEPT !.provider = p, !.cursor = c])
         /\ o.tool = "search" => CarriesOn([o EXCEPT !.provider = p, !.page = @ + 1])
         /\ o.tool = "details" =>
              CarriesOn([o EXCEPT !.provider = p, !.query = "wid", !.page = @ + 1])
<1>1. o \in PS!Arguments /\ o.page \in Nat \ {0} /\ o.page + 1 \in Nat \ {0} /\ None \notin Nat
  BY SearchAssumption DEF CarriesOn, PS!Arguments
<1>2. ASSUME NEW c \in Nat, o.tool = "search", o.cursor # None
      PROVE  CarriesOn([o EXCEPT !.provider = p, !.cursor = c])
  BY <1>1, <1>2 DEF CarriesOn, PS!Arguments
<1>3. ASSUME o.tool = "search" PROVE CarriesOn([o EXCEPT !.provider = p, !.page = @ + 1])
  BY <1>1, <1>3 DEF CarriesOn, PS!Arguments
<1>4. ASSUME o.tool = "details"
      PROVE  CarriesOn([o EXCEPT !.provider = p, !.query = "wid", !.page = @ + 1])
  BY <1>1, <1>4 DEF CarriesOn, PS!Arguments
<1> QED
  BY <1>2, <1>3, <1>4

LEMMA OpenAlexKeeps == ASSUME SearchInv, PS!OpenAlexAnswers PROVE SearchInv'
<1> DEFINE skip == IF args.cursor = None THEN (args.page - 1) * args.limit ELSE args.cursor
           n == IF PS!Exact(args) THEN 1 ELSE PS!Share(hits.openalex, skip, args.limit)
<1>1. /\ state = "openalex" /\ ~PS!BeyondCap(args) /\ PS!Deliver("openalex", skip, n)
      /\ UNCHANGED <<wanted, args, hits>>
      /\ next' = CASE PS!Exact(args) -> None
                   [] ~PS!Exact(args) /\ args.cursor # None /\ skip + n < hits.openalex ->
                        [args EXCEPT !.provider = "openalex", !.cursor = skip + n]
                   [] ~PS!Exact(args) /\ args.cursor = None /\ PS!MorePages(args) ->
                        [args EXCEPT !.provider = "openalex", !.page = @ + 1]
                   [] OTHER -> None
  BY DEF PS!OpenAlexAnswers
<1>2. /\ CarriesOn(args) /\ wanted.cursor \in {None, 0} /\ args.tool = "search"
      /\ got = <<>> => args = wanted
      /\ got # <<>> => GoesOn(args)
      /\ args.provider # "anna" /\ ~PS!ArchiveTerms(args) /\ args.terms # "mixed"
  BY <1>1 DEF SearchInv, SearchChain, AskedRightly
<1>3. /\ args \in PS!Arguments /\ args.page \in Nat \ {0} /\ args.limit \in Nat
      /\ args.cursor \in Nat \cup {None} /\ args.provider \in {"auto", "openalex"}
      /\ hits.openalex \in Nat /\ None \notin Nat /\ Listable \in Nat
  BY <1>2, SearchAssumption DEF CarriesOn, PS!Arguments, SearchInv, SearchType
<1>4. From(args) = skip /\ skip \in Nat
  BY <1>2, FromIsNatural DEF From
<1>5. n \in Nat /\ (~PS!Exact(args) => n <= args.limit /\ (skip + n < hits.openalex => n = args.limit))
  BY <1>3, <1>4, ShareBounds
<1>6. got # <<>> => args.provider = "openalex"
  BY <1>2 DEF GoesOn
<1>7. wanted.page = 1 /\ got = <<>> => skip = 0
  BY <1>2, <1>3, Multiples
<1>8. wanted.provider # "anna" /\ ~PS!ArchiveTerms(wanted)
  BY <1>2, <1>3 DEF CarriesOn, PS!ArchiveTerms
<1>0. PICK s \in Nat, m \in Nat : s = skip /\ m = n
  BY <1>4, <1>5
<1> HIDE DEF skip, n
<1>9. /\ \A i \in DOMAIN got' : got'[i].by = "openalex" /\ got'[i].upto <= s + m
      /\ wanted.page = 1 => Covered(s + m)'
  BY <1>0, <1>1, <1>4, <1>5, <1>6, <1>7, PageIsAdded
<1>10. PS!Exact(args) <=> PS!Exact(wanted)
  BY <1>2 DEF CarriesOn, PS!Exact
<1>11. args.cursor = None => s + args.limit = args.page * args.limit /\ args.page * args.limit \in Nat
  BY <1>0, <1>3, Multiples DEF skip
<1>12. (next' # None => CarriesOn(next') /\ GoesOn(next)') /\ EndsAtLast'
  <2>1. CASE PS!Exact(args)
    <3>1. next' = None
      BY <1>1, <2>1
    <3>2. wanted' = wanted /\ wanted.tool = "search" /\ PS!Exact(wanted)
      BY <1>1, <1>2, <1>10, <2>1 DEF CarriesOn
    <3>3. EndsAtLast'
      BY <3>2 DEF EndsAtLast, PS!Exact
    <3> QED
      BY <3>1, <3>3
  <2>2. CASE ~PS!Exact(args) /\ args.cursor # None /\ s + m < hits.openalex
    <3>1. next' = [args EXCEPT !.provider = "openalex", !.cursor = s + m]
      BY <1>0, <1>1, <2>2
    <3>2. CarriesOn(next') /\ next' # None
      <4>1. CarriesOn([args EXCEPT !.provider = "openalex", !.cursor = s + m])
        <5>1. PICK c \in Nat : c = s + m
          OBVIOUS
        <5>2. CarriesOn([args EXCEPT !.provider = "openalex", !.cursor = c])
          BY <1>2, <1>3, <2>2, OffersCarryOn
        <5> QED
          BY <5>1, <5>2
      <4> QED
        BY <3>1, <4>1, SearchAssumption DEF CarriesOn
    <3>3. /\ next'.tool = "search" /\ next'.provider = "openalex" /\ next'.cursor = s + m
          /\ next'.query = args.query /\ next'.terms = args.terms /\ next'.page = args.page
      BY <1>2, <1>3, <3>1 DEF PS!Arguments
    <3>4. From(next') = s + m
      BY <1>0, <1>3, <1>4, <1>5, <3>3 DEF From
    <3>5. ~PS!Exact(next') /\ next'.terms \notin {"archive", "mixed"} /\ ~PS!BeyondCap(next')
      BY <1>0, <1>1, <1>2, <1>3, <1>4, <1>5, <2>2, <3>3 DEF PS!Exact, PS!BeyondCap, PS!ArchiveTerms
    <3>6. GoesOn(next)'
      <4>1. \A i \in DOMAIN got' : got'[i].by = next'.provider /\ got'[i].upto <= From(next')
        BY <1>9, <3>3, <3>4
      <4>2. next'.provider = "openalex" /\ wanted'.page = 1 => Covered(From(next))'
        BY <1>1, <1>9, <3>4 DEF Covered, From
      <4> QED
        BY <3>3, <3>5, <4>1, <4>2 DEF GoesOn, PS!Exact, PS!BeyondCap, From
    <3> QED
      BY <3>2, <3>6 DEF EndsAtLast
  <2>3. CASE ~PS!Exact(args) /\ args.cursor = None /\ PS!MorePages(args)
    <3>1. next' = [args EXCEPT !.provider = "openalex", !.page = @ + 1]
      BY <1>1, <2>3
    <3>2. CarriesOn(next') /\ next' # None
      <4>1. CarriesOn([args EXCEPT !.provider = "openalex", !.page = @ + 1])
        BY <1>2, <1>3, OffersCarryOn
      <4> QED
        BY <3>1, <4>1, SearchAssumption DEF CarriesOn
    <3>3. /\ next'.tool = "search" /\ next'.provider = "openalex" /\ next'.cursor = None
          /\ next'.query = args.query /\ next'.terms = args.terms /\ next'.page = args.page + 1
          /\ next'.limit = args.limit
      BY <1>2, <1>3, <2>3, <3>1 DEF PS!Arguments
    <3>4. From(next') = s + m
      <4>1. From(next') = args.page * args.limit
        BY <1>3, <3>3, Multiples DEF From
      <4>2. s + m = args.page * args.limit
        BY <1>0, <1>3, <1>4, <1>5, <1>11, <2>3 DEF PS!MorePages
      <4> QED
        BY <4>1, <4>2
    <3>5. ~PS!Exact(next') /\ next'.terms \notin {"archive", "mixed"} /\ ~PS!BeyondCap(next')
      <4>1. args.limit # 0
        BY <1>2 DEF CarriesOn
      <4>2. Listable \div args.limit \in Int
        BY <1>3, <4>1
      <4>3. args.page + 1 <= Listable \div args.limit
        BY <1>3, <2>3, <4>2 DEF PS!MorePages
      <4> QED
        BY <1>2, <1>3, <2>3, <3>3, <4>2, <4>3 DEF PS!Exact, PS!BeyondCap, PS!ArchiveTerms
    <3>6. GoesOn(next)'
      <4>1. \A i \in DOMAIN got' : got'[i].by = next'.provider /\ got'[i].upto <= From(next')
        BY <1>9, <3>3, <3>4
      <4>2. next'.provider = "openalex" /\ wanted'.page = 1 => Covered(From(next))'
        BY <1>1, <1>9, <3>4 DEF Covered, From
      <4> QED
        BY <3>3, <3>5, <4>1, <4>2 DEF GoesOn, PS!Exact, PS!BeyondCap, From
    <3> QED
      BY <3>2, <3>6 DEF EndsAtLast
  <2>4. CASE /\ ~PS!Exact(args)
             /\ ~(args.cursor # None /\ s + m < hits.openalex)
             /\ ~(args.cursor = None /\ PS!MorePages(args))
    <3>1. next' = None
      BY <1>0, <1>1, <2>4
    <3>2. PS!Listed(wanted) \in Int /\ PS!Least(hits.openalex, PS!Listed(wanted)) <= s + m
      <4>1. CASE args.cursor # None
        <5>1. PS!Listed(wanted) = hits.openalex
          BY <1>2, <4>1 DEF CarriesOn, PS!Listed
        <5> QED
          BY <1>0, <1>3, <1>4, <1>5, <2>4, <4>1, <5>1 DEF PS!Least
      <4>2. CASE args.cursor = None
        <5> DEFINE last == Listable \div args.limit
        <5>1. last \in Int /\ PS!Listed(wanted) = last * args.limit
          BY <1>2, <1>3, <4>2 DEF CarriesOn, PS!Listed
        <5>2. args.page <= last /\ (args.page * args.limit < hits.openalex => args.page >= last)
          BY <1>1, <1>3, <2>4, <4>2, <5>1 DEF PS!BeyondCap, PS!MorePages
        <5>3. last * args.limit \in Int
          BY <1>3, <5>1
        <5> HIDE DEF last
        <5>4. CASE args.page * args.limit < hits.openalex
          <6>1. last = args.page
            <7>1. args.page >= last /\ args.page <= last
              BY <5>2, <5>4
            <7> QED
              BY <1>3, <5>1, <7>1
          <6>2. s + m = args.page * args.limit
            BY <1>0, <1>3, <1>4, <1>5, <1>11, <2>4, <4>2, <5>4
          <6> QED
            BY <1>3, <5>1, <5>3, <6>1, <6>2 DEF PS!Least
        <5>5. CASE ~(args.page * args.limit < hits.openalex)
          <6>1. s + m >= hits.openalex
            BY <1>0, <1>3, <1>4, <1>5, <1>11, <2>4, <4>2, <5>5
          <6> QED
            BY <1>0, <1>3, <1>4, <1>5, <5>1, <5>3, <6>1 DEF PS!Least
        <5> QED
          BY <5>4, <5>5
      <4> QED
        BY <4>1, <4>2
    <3>3. EndsAtLast'
      <4> SUFFICES ASSUME wanted'.page = 1
                   PROVE  Covered(PS!Least(hits.openalex, PS!Listed(wanted)))'
        BY DEF EndsAtLast
      <4>1. Covered(s + m)'
        BY <1>1, <1>9
      <4>2. PS!Least(hits.openalex, PS!Listed(wanted))' = PS!Least(hits.openalex, PS!Listed(wanted))
        BY <1>1 DEF PS!Least, PS!Listed
      <4>3. PS!Least(hits.openalex, PS!Listed(wanted)) \in Int
        BY <1>3, <3>2 DEF PS!Least
      <4>4. \A h \in 1..PS!Least(hits.openalex, PS!Listed(wanted)) : h \in 1..(s + m)
        BY <3>2, <4>3
      <4> QED
        BY <4>1, <4>2, <4>4 DEF Covered
    <3> QED
      BY <3>1, <3>3
  <2> QED
    BY <2>1, <2>2, <2>3, <2>4
<1> QED
  BY <1>0, <1>1, <1>4, <1>5, <1>6, <1>8, <1>12, PageKeeps

LEMMA StaysEmptyKeeps == ASSUME SearchInv, PS!StaysEmpty PROVE SearchInv'
<1>1. /\ state = "empty" /\ PS!Deliver("openalex", 0, 0) /\ UNCHANGED <<wanted, args, hits, next>>
  BY DEF PS!StaysEmpty
<1>2. /\ CarriesOn(args) /\ (got # <<>> => GoesOn(args)) /\ next = None /\ hits.openalex = 0
      /\ args.provider = "auto" /\ ~PS!ArchiveTerms(args)
  BY <1>1 DEF SearchInv, SearchChain, AskedRightly, PS!MayFallBack
<1>3. got = <<>>
  BY <1>2 DEF GoesOn
<1>4. wanted.provider # "anna" /\ ~PS!ArchiveTerms(wanted)
  BY <1>2 DEF CarriesOn, PS!ArchiveTerms
<1>5. EndsAtLast'
  <2>1. hits'.openalex = 0
    BY <1>1, <1>2
  <2>2. PS!Listed(wanted)' \in Int
    <3>1. args.tool = "search" /\ args.limit \in Nat \ {0} /\ wanted'.limit = args.limit
      BY <1>1, <1>2 DEF SearchInv, AskedRightly, CarriesOn, PS!Arguments
    <3>2. (Listable \div args.limit) * args.limit \in Int
      BY <3>1, SearchAssumption
    <3> QED
      BY <2>1, <3>1, <3>2 DEF PS!Listed
  <2>3. \A h \in 1..PS!Least(hits.openalex, PS!Listed(wanted))' : FALSE
    BY <2>1, <2>2 DEF PS!Least
  <2> QED
    BY <2>3 DEF EndsAtLast, Covered
<1> QED
  BY <1>1, <1>2, <1>3, <1>4, <1>5, PageKeeps

LEMMA ArchiveKeeps == ASSUME SearchInv, PS!ArchiveAnswers PROVE SearchInv'
<1> DEFINE skip == (args.page - 1) * ArchivePage
           n == IF PS!Exact(args) THEN 1 ELSE PS!Share(hits.anna, skip, ArchivePage)
<1>1. /\ state \in {"archive", "fallback", "empty", "legacy"}
      /\ PS!Deliver("anna", skip, PS!Trimmed(n)) /\ UNCHANGED <<wanted, args, hits>>
      /\ next' = IF state # "legacy" /\ ~PS!Exact(args) /\ PS!MoreInArchive
                 THEN [args EXCEPT !.provider = "anna", !.page = @ + 1] ELSE None
  BY DEF PS!ArchiveAnswers
<1>2. /\ CarriesOn(args) /\ args.tool = "search" /\ (got # <<>> => GoesOn(args))
      /\ args.provider # "openalex" /\ ~PS!OpenAlexTerms(args)
      /\ state # "legacy" => args.terms \notin {"value", "sort", "mixed"}
      /\ state \in {"fallback", "empty"} => args.provider = "auto"
  BY <1>1 DEF SearchInv, SearchChain, AskedRightly, PS!MayFallBack, PS!OpenAlexTerms
<1>3. /\ args \in PS!Arguments /\ args.page \in Nat \ {0} /\ args.limit \in Nat
      /\ args.provider \in {"auto", "anna"} /\ args.cursor = None
      /\ state # "legacy" => args.terms \in {"none", "both", "archive"}
      /\ hits.anna \in Nat /\ ArchivePage \in Nat
  BY <1>2, SearchAssumption DEF CarriesOn, PS!Arguments, SearchInv, SearchType, PS!OpenAlexTerms
<1>4. skip \in Nat /\ skip + ArchivePage = args.page * ArchivePage /\ args.page * ArchivePage \in Nat
  BY <1>3, Multiples
<1>5. n \in Nat /\ (~PS!Exact(args) => n <= ArchivePage)
  BY <1>3, <1>4, ShareBounds
<1>6. PS!Trimmed(n) \in Nat /\ PS!Trimmed(n) <= n
  BY <1>3, <1>5 DEF PS!Trimmed, PS!Least
<1>7. got # <<>> => args.provider = "anna"
  BY <1>2 DEF GoesOn
<1>8. args.provider = "anna" => From(args) = skip
  BY <1>2 DEF From
<1>9. wanted.provider # "openalex" /\ (wanted.tool = "search" => ~PS!OpenAlexTerms(wanted))
  BY <1>2, <1>3 DEF CarriesOn, PS!OpenAlexTerms
<1> HIDE DEF skip
<1>10. PICK s \in Nat, m \in Nat : s = skip /\ m = PS!Trimmed(n)
  BY <1>4, <1>6
<1>11. PICK u \in Nat : u = n
  BY <1>5
<1> HIDE DEF n
<1>12. /\ \A i \in DOMAIN got' : got'[i].by = "anna" /\ got'[i].upto <= s + m
       /\ got' # <<>> /\ got' \in Seq(Pages)
  BY <1>1, <1>7, <1>8, <1>10, PageIsAdded DEF SearchType
<1>13. EndsAtLast'
  <2>1. 1 \in DOMAIN got'
    BY <1>12, EmptySeq, LenProperties
  <2> QED
    BY <1>12, <2>1 DEF EndsAtLast
<1>14. ASSUME next' # None PROVE CarriesOn(next') /\ GoesOn(next)'
  <2>1. /\ next' = [args EXCEPT !.provider = "anna", !.page = @ + 1]
        /\ state # "legacy" /\ ~PS!Exact(args)
    BY <1>1, <1>14
  <2>2. CarriesOn(next')
    BY <1>2, <1>3, <2>1, OffersCarryOn
  <2>3. /\ next'.tool = "search" /\ next'.provider = "anna" /\ next'.cursor = None
        /\ next'.query = args.query /\ next'.terms = args.terms /\ next'.page = args.page + 1
    BY <1>2, <1>3, <2>1 DEF PS!Arguments
  <2>4. From(next') = args.page * ArchivePage
    BY <1>3, <2>3, Multiples DEF From
  <2>5. s + m <= args.page * ArchivePage
    BY <1>3, <1>4, <1>5, <1>6, <1>10, <1>11, <2>1
  <2>6. \A i \in DOMAIN got' : got'[i].by = next'.provider /\ got'[i].upto <= From(next')
    <3>1. \A i \in DOMAIN got' : got'[i].upto \in Nat
      <4>1. \A i \in DOMAIN got' : got'[i] \in Pages
        BY <1>12, LenProperties, ElementOfSeq
      <4> QED
        BY <4>1 DEF Pages
    <3>2. PICK f \in Nat : f = From(next') /\ s + m <= f
      BY <1>4, <2>4, <2>5
    <3> QED
      BY <1>12, <2>3, <3>1, <3>2
  <2>7. GoesOn(next)'
    BY <1>3, <2>1, <2>3, <2>6 DEF GoesOn, PS!Exact, From
  <2> QED
    BY <2>2, <2>7
<1> QED
  BY <1>1, <1>7, <1>8, <1>9, <1>10, <1>13, <1>14, PageKeeps

LEMMA DetailsKeep == ASSUME SearchInv, PS!DetailsAnswers PROVE SearchInv'
<1> DEFINE oa == args.query = "wid" \/ (args.query = "doi" /\ args.provider # "anna"
                                        /\ (conf.key \/ args.provider = "openalex"))
           skip == (args.page - 1) * PerPage
           n == IF oa THEN PS!Share(hits.openalex, skip, PerPage) ELSE 1
<1>1. /\ state = "begin" /\ args.tool = "details" /\ UNCHANGED <<wanted, args, hits>>
      /\ IF oa THEN args.provider # "anna" ELSE args.query = "hash" => args.provider # "openalex"
      /\ PS!Deliver(IF oa THEN "openalex" ELSE "anna", IF oa THEN skip ELSE 0, n)
      /\ next' = IF oa /\ skip + n < hits.openalex
                 THEN [args EXCEPT !.provider = "openalex", !.query = "wid", !.page = @ + 1]
                 ELSE None
  BY DEF PS!DetailsAnswers
<1>2. /\ CarriesOn(args) /\ (got = <<>> => args = wanted) /\ (got # <<>> => GoesOn(args))
  BY <1>1 DEF SearchInv, SearchChain
<1>3. /\ args \in PS!Arguments /\ args.page \in Nat \ {0} /\ args.query \in {"hash", "doi", "wid"}
      /\ args.provider \in {"auto", "anna", "openalex"} /\ wanted.terms = "none"
      /\ wanted.tool = "details" /\ hits.openalex \in Nat /\ PerPage \in Nat
  BY <1>1, <1>2, SearchAssumption DEF CarriesOn, PS!Arguments, SearchInv, SearchType
<1>4. /\ skip \in Nat /\ skip + PerPage = args.page * PerPage /\ args.page * PerPage \in Nat
      /\ args.page = 1 => skip = 0
  BY <1>3, Multiples
<1>5. n \in Nat /\ (oa => n <= PerPage /\ (skip + n < hits.openalex => n = PerPage))
  BY <1>3, <1>4, ShareBounds
<1>6. got # <<>> => args.provider = "openalex" /\ oa
  BY <1>1, <1>2 DEF GoesOn
<1>7. From(args) = skip
  BY <1>1 DEF From
<1>8. ~oa => wanted.provider # "openalex"
  BY <1>1, <1>2, <1>3 DEF CarriesOn
<1>9. oa => wanted.provider # "anna" /\ ~PS!ArchiveTerms(wanted)
  BY <1>1, <1>2, <1>3 DEF CarriesOn, PS!ArchiveTerms
<1>10. PICK s \in Nat, m \in Nat : s = skip /\ m = n
  BY <1>4, <1>5
<1> HIDE DEF skip, n
<1>11. CASE oa
  <2>1. PS!Deliver("openalex", s, m)
    BY <1>1, <1>10, <1>11
  <2>2. /\ \A i \in DOMAIN got' : got'[i].by = "openalex" /\ got'[i].upto <= s + m
        /\ wanted.page = 1 => Covered(s + m)'
    BY <1>1, <1>2, <1>4, <1>6, <1>7, <1>10, <2>1, PageIsAdded
  <2>3. CASE s + m < hits.openalex
    <3>1. next' = [args EXCEPT !.provider = "openalex", !.query = "wid", !.page = @ + 1]
      BY <1>1, <1>10, <1>11, <2>3
    <3>2. CarriesOn(next') /\ next' # None
      <4>1. CarriesOn([args EXCEPT !.provider = "openalex", !.query = "wid", !.page = @ + 1])
        BY <1>1, <1>2, <1>3, <1>11, OffersCarryOn
      <4> QED
        BY <3>1, <4>1, SearchAssumption DEF CarriesOn
    <3>3. /\ next'.tool = "details" /\ next'.provider = "openalex" /\ next'.query = "wid"
          /\ next'.page = args.page + 1
      BY <1>1, <1>3, <3>1 DEF PS!Arguments
    <3>4. From(next') = s + m
      <4>1. From(next') = args.page * PerPage
        BY <1>3, <3>3, Multiples DEF From
      <4> QED
        BY <1>3, <1>4, <1>5, <1>10, <1>11, <2>3, <4>1
    <3>5. /\ \A i \in DOMAIN got' : got'[i].by = next'.provider /\ got'[i].upto <= From(next')
          /\ next'.provider = "openalex" /\ wanted'.page = 1 => Covered(From(next))'
      BY <1>1, <2>2, <3>3, <3>4 DEF Covered, From
    <3>6. GoesOn(next)'
      BY <3>3, <3>5 DEF GoesOn, From
    <3>7. EndsAtLast'
      BY <3>2 DEF EndsAtLast
    <3> QED
      BY <1>1, <1>6, <1>7, <1>9, <1>10, <1>11, <2>1, <3>2, <3>6, <3>7, PageKeeps
  <2>4. CASE ~(s + m < hits.openalex)
    <3>1. next' = None
      BY <1>1, <1>10, <1>11, <2>4
    <3>2. PS!Least(hits.openalex, PS!Listed(wanted))' = hits.openalex
      BY <1>1, <1>3 DEF PS!Least, PS!Listed
    <3>3. \A h \in 1..hits.openalex : h \in 1..(s + m)
      BY <1>3, <2>4
    <3>4. EndsAtLast'
      <4> SUFFICES ASSUME wanted'.page = 1
                   PROVE  Covered(PS!Least(hits.openalex, PS!Listed(wanted)))'
        BY DEF EndsAtLast
      <4>1. Covered(s + m)'
        BY <1>1, <2>2
      <4> QED
        BY <3>2, <3>3, <4>1 DEF Covered
    <3> QED
      BY <1>1, <1>6, <1>7, <1>9, <1>10, <1>11, <2>1, <3>1, <3>4, PageKeeps
  <2> QED
    BY <2>3, <2>4
<1>12. CASE ~oa
  <2>1. PS!Deliver("anna", 0, m) /\ next' = None /\ got = <<>>
    BY <1>1, <1>6, <1>10, <1>12
  <2>2. /\ \A i \in DOMAIN got' : got'[i].by = "anna"
        /\ got' # <<>> /\ got' \in Seq(Pages)
    BY <1>1, <2>1, PageIsAdded DEF SearchType
  <2>3. EndsAtLast'
    <3>1. 1 \in DOMAIN got'
      BY <2>2, EmptySeq, LenProperties
    <3> QED
      BY <2>2, <3>1 DEF EndsAtLast
  <2>4. wanted.tool # "search"
    BY <1>3
  <2> QED
    BY <1>1, <1>8, <1>12, <2>1, <2>3, <2>4, PageKeeps
<1> QED
  BY <1>11, <1>12

(* Every other part leaves the search alone. *)
LEMMA SearchElsewhere == ASSUME [PartsNext]_vars PROVE PS!Next \/ UNCHANGED searchVars
BY DEF PartsNext, vars, papersVars, Deliver, Search, Read, LookUp, Stats, Requesting, Store,
       Launch, Account

(* The inductive invariant of a chain of searches holds throughout. *)
THEOREM SearchInvariant == PartsSpec => []SearchInv
<1>1. PartsInit => SearchInv
  BY SearchStarts DEF PartsInit
<1>2. SearchInv /\ [PartsNext]_vars => SearchInv'
  <2> SUFFICES ASSUME SearchInv, [PartsNext]_vars PROVE SearchInv'
    OBVIOUS
  <2>1. PS!Next \/ UNCHANGED searchVars
    BY SearchElsewhere
  <2>2. CASE UNCHANGED searchVars
    <3>1. \A o : (CarriesOn(o)' <=> CarriesOn(o)) /\ (GoesOn(o)' <=> GoesOn(o))
      BY <2>2 DEF searchVars, CarriesOn, GoesOn, Covered
    <3>2. SearchChain'
      BY <2>2, <3>1 DEF searchVars, SearchInv, SearchChain
    <3>3. AskedRightly'
      BY <2>2 DEF searchVars, SearchInv, AskedRightly, PS!MayFallBack
    <3>4. SearchType' /\ PagesInOrder' /\ PagesMatch'
      BY <2>2 DEF searchVars, SearchInv, SearchType, PagesInOrder, PagesMatch
    <3>5. EndsAtLast'
      BY <2>2 DEF searchVars, SearchInv, EndsAtLast, Covered, PS!Least, PS!Listed
    <3> QED
      BY <2>2, <3>2, <3>3, <3>4, <3>5 DEF searchVars, SearchInv
  <2> QED
    BY <2>1, <2>2, StartKeeps, FollowKeeps, BeginsRightly, LooksOn, OpenAlexKeeps, StaysEmptyKeeps,
       ArchiveKeeps, DetailsKeep DEF PS!Next
<1> QED
  BY <1>1, <1>2, PTL DEF PartsSpec

(* AnswersMatchFilters of PaperSearch.tla, for any numbers of hits, sizes  *)
(* of pages and arguments: paper_service.go and papers/search.go let only  *)
(* a provider that was allowed, and that understands every filter of the   *)
(* first call, answer, at once, after a fallback or on a later page.       *)
THEOREM EveryAnswerMatches == PartsSpec => []AnswersMatchFilters
<1>1. SearchInv => AnswersMatchFilters
  BY DEF SearchInv, SearchType, Pages, PagesMatch, AnswersMatchFilters, PS!AnswersMatchFilters,
         PS!Providers
<1> QED
  BY <1>1, SearchInvariant, PTL

(* NextArgsLoseNothing of PaperSearch.tla, for any numbers of hits and     *)
(* sizes of pages: arguments that papers/search.go and papers/details.go   *)
(* offer are not refused, and replaying them delivers every hit or         *)
(* location that is listed, once and in order.                             *)
THEOREM NothingIsLost == PartsSpec => []NextArgsLoseNothing
<1>1. SearchInv => NextArgsLoseNothing
  <2> SUFFICES ASSUME SearchInv PROVE NextArgsLoseNothing
    OBVIOUS
  <2>1. PS!Providers = {"openalex"} => \A i \in DOMAIN got : got[i].by = "openalex"
    BY DEF PS!Providers
  <2> QED
    BY <2>1 DEF SearchInv, PagesInOrder, EndsAtLast, Covered, NextArgsLoseNothing,
                PS!NextArgsLoseNothing
<1> QED
  BY <1>1, SearchInvariant, PTL

(***************************************************************************)
(* mirrors.json and its only process                                       *)
(***************************************************************************)

States == [ok : Nat, fail : Nat, until : Nat]
Known == [Hosts -> States]
Doings == {MS!Idle} \cup [at : {"changed"}, host : Hosts, state : States]
          \cup [at : {"merged"}, ours : Known, merged : Known]

StoreType ==
  /\ time \in Nat /\ time <= LastMoment
  /\ file \in Known
  /\ loaded \in [Procs -> BOOLEAN] /\ behind \in [Procs -> BOOLEAN]
  /\ health \in [Procs -> Known] /\ saved \in [Procs -> Known]
  /\ agent \in [Procs -> [Agents -> Doings]]

Past(s) == s.ok <= time /\ s.fail <= time

(* A state that is not dropped for its times being ahead of the clock. *)
Near(s) == s.ok <= time + Skew /\ s.fail <= time + Skew

(* The file still has for the mirror what was found ahead of the clock. *)
Ahead(h) == MS!FoundAhead(file[h])

(* A state learned by now, whose hold is over or no longer than it may be. *)
Settled(s) == Past(s) /\ (MS!Cut(s).until = s.until \/ s.until <= time)

(* A state that came from one that was found ahead of the clock. *)
FromAhead(s, h) ==
  /\ Ahead(h) /\ Near(file[h]) /\ MS!Latest(s) <= MS!Latest(file[h])
  /\ s.until <= MS!Latest(file[h]) + MaxHold

(* One state is the other, but for a hold that a reader would cut. *)
SameAs(s, t) == MS!Cut(s) = MS!Cut(t)

Merging(p, a) == agent[p][a].at = "merged"

(* What a write makes of a mirror's state: it is what the process knew, or *)
(* the file keeps what was found ahead of the clock.                       *)
WritesOurs(p, a, h) ==
  /\ SameAs(agent[p][a].merged[h], agent[p][a].ours[h])
  /\ Settled(agent[p][a].ours[h]) /\ Settled(health[p][h])
KeepsAhead(p, a, h) ==
  /\ Ahead(h) /\ MS!FoundAhead(agent[p][a].merged[h])
  /\ MS!Latest(agent[p][a].merged[h]) = MS!Latest(file[h])
  /\ Near(agent[p][a].merged[h])

(* What is known was learned by now, or came from a state that was found   *)
(* ahead of the clock.                                                     *)
TimesAreSound ==
  /\ \A h \in Hosts : Ahead(h) \/ Past(file[h])
  /\ \A p \in Procs, h \in Hosts :
       /\ Settled(health[p][h]) \/ FromAhead(health[p][h], h)
       /\ MS!Latest(health[p][h]) = 0 => health[p][h] = MS!Unknown
  /\ \A p \in Procs, a \in Agents, h \in Hosts :
       Merging(p, a) => WritesOurs(p, a, h) \/ KeepsAhead(p, a, h)

(* A process knows nothing before it has read the file. *)
NothingBeforeLoading ==
  \A p \in Procs : ~loaded[p] =>
    /\ \A h \in Hosts : health[p][h] = MS!Unknown /\ saved[p][h] = MS!Unknown
    /\ \A a \in Agents : agent[p][a] = MS!Idle

(* What is known is no older than the file, and than what is written.      *)
MemoryIsNewest ==
  \A p \in Procs, h \in Hosts :
    /\ loaded[p] /\ MS!Applies(file[h]) =>
         \/ Ahead(h)
         \/ MS!Latest(file[h]) < MS!Latest(health[p][h])
         \/ SameAs(file[h], health[p][h])
    /\ \A a \in Agents : Merging(p, a) =>
         \/ KeepsAhead(p, a, h)
         \/ MS!Latest(agent[p][a].ours[h]) < MS!Latest(health[p][h])
         \/ agent[p][a].ours[h] = health[p][h]

SavedIsInFile ==
  \A p \in Procs, h \in Hosts : loaded[p] =>
    \/ Ahead(h) \/ saved[p][h] = MS!Unknown
    \/ SameAs(saved[p][h], file[h]) /\ Settled(saved[p][h])

OneMerges ==
  \A p \in Procs : \A a, b \in Agents : Merging(p, a) /\ Merging(p, b) => a = b

(* A change that is reported is a hold or a success. *)
ChangesTell ==
  \A p \in Procs, a \in Agents :
    agent[p][a].at = "changed" => agent[p][a].state.until # 0 \/ agent[p][a].state.ok # 0

(* The last change of a mirror is still to be reported. *)
ToReport(p, h) == \E a \in Agents : agent[p][a] = [at |-> "changed", host |-> h, state |-> health[p][h]]

(* What is written has all that is known, but for changes that are to be reported. *)
WritesAll ==
  \A p \in Procs, a \in Agents, h \in Hosts :
    Merging(p, a) => agent[p][a].ours[h] = health[p][h] \/ ToReport(p, h)

(* The file has what is known of a mirror. *)
InFile(p, h) ==
  /\ MS!SameHold(file[h], health[p][h])
  /\ health[p][h].ok # 0 => file[h].ok # 0 /\ health[p][h].ok < file[h].ok + SaveEvery

(* What is known is in the file, or on its way there. *)
OnItsWay ==
  \A p \in Procs, h \in Hosts :
    \/ behind[p] \/ MS!Latest(health[p][h]) = 0 \/ MS!Saving(p) \/ Ahead(h)
    \/ InFile(p, h) \/ ToReport(p, h)

StoreInv ==
  /\ StoreType /\ TimesAreSound /\ NothingBeforeLoading /\ MemoryIsNewest /\ SavedIsInFile
  /\ OneMerges /\ ChangesTell /\ WritesAll /\ OnItsWay

LEMMA CutStates ==
  ASSUME NEW s \in States
  PROVE  /\ MS!Cut(s) \in States /\ MS!Cut(s).ok = s.ok /\ MS!Cut(s).fail = s.fail
         /\ MS!Cut(s).until <= IF s.fail = 0 THEN 0 ELSE s.fail + MaxHold
         /\ MS!Cut(s).until <= s.until
         /\ s.until <= (IF s.fail = 0 THEN 0 ELSE s.fail + MaxHold) => MS!Cut(s) = s
         /\ MS!Latest(MS!Cut(s)) = MS!Latest(s)
         /\ MS!Cut(MS!Cut(s)) = MS!Cut(s)
<1>1. MaxHold \in Nat /\ s.ok \in Nat /\ s.fail \in Nat /\ s.until \in Nat
  BY StoreAssumption DEF States
<1> DEFINE limit == IF s.fail = 0 THEN 0 ELSE s.fail + MaxHold
           u == IF s.until > limit THEN limit ELSE s.until
           t == [ok |-> s.ok, fail |-> s.fail, until |-> u]
<1>2. limit \in Nat /\ u \in Nat /\ u <= limit /\ u <= s.until /\ (s.until <= limit => u = s.until)
  BY <1>1
<1>3. MS!Cut(s) = [s EXCEPT !.until = u]
  BY DEF MS!Cut
<1>4. s = [ok |-> s.ok, fail |-> s.fail, until |-> s.until]
  BY DEF States
<1> HIDE DEF u
<1>5. MS!Cut(s) = t
  BY <1>3, <1>4
<1>6. MS!Cut(t) = t
  <2>1. ~(t.until > IF t.fail = 0 THEN 0 ELSE t.fail + MaxHold)
    BY <1>1, <1>2
  <2>2. MS!Cut(t) = [t EXCEPT !.until = t.until]
    BY <2>1 DEF MS!Cut
  <2> QED
    BY <2>2
<1> QED
  BY <1>1, <1>2, <1>4, <1>5, <1>6 DEF States, MS!Latest

LEMMA LatestIsNatural ==
  ASSUME NEW s \in States
  PROVE  /\ MS!Latest(s) \in Nat /\ s.ok <= MS!Latest(s) /\ s.fail <= MS!Latest(s)
         /\ MS!Latest(s) \in {s.ok, s.fail}
         /\ MS!Latest(s) = 0 => MS!Cut(s) = MS!Unknown
<1>1. s.ok \in Nat /\ s.fail \in Nat /\ s.until \in Nat
  BY DEF States
<1>2. /\ MS!Latest(s) \in Nat /\ s.ok <= MS!Latest(s) /\ s.fail <= MS!Latest(s)
      /\ MS!Latest(s) \in {s.ok, s.fail}
  BY <1>1 DEF MS!Latest
<1>3. ASSUME MS!Latest(s) = 0 PROVE MS!Cut(s) = MS!Unknown
  <2>1. /\ MS!Cut(s).ok = 0 /\ MS!Cut(s).fail = 0 /\ MS!Cut(s).until <= 0 /\ MS!Cut(s) \in States
    BY <1>1, <1>2, <1>3, CutStates
  <2>2. MS!Cut(s).until = 0
    BY <2>1 DEF States
  <2> QED
    BY <2>1, <2>2 DEF States, MS!Unknown
<1> QED
  BY <1>2, <1>3

LEMMA NothingIsKnown ==
  time \in Nat => /\ MS!Unknown \in States /\ Settled(MS!Unknown) /\ MS!Cut(MS!Unknown) = MS!Unknown
                  /\ MS!Latest(MS!Unknown) = 0
<1> SUFFICES ASSUME time \in Nat
             PROVE  /\ MS!Unknown \in States /\ Settled(MS!Unknown)
                    /\ MS!Cut(MS!Unknown) = MS!Unknown /\ MS!Latest(MS!Unknown) = 0
  OBVIOUS
<1>1. MS!Unknown \in States /\ MS!Latest(MS!Unknown) = 0 /\ Past(MS!Unknown)
  BY DEF MS!Unknown, States, Past, MS!Latest
<1>2. MS!Cut(MS!Unknown) = MS!Unknown
  BY <1>1, LatestIsNatural
<1> QED
  BY <1>1, <1>2 DEF Settled

(* States that are the same have the same times. *)
LEMMA SameTimes ==
  ASSUME NEW s \in States, NEW t \in States, SameAs(s, t)
  PROVE  s.ok = t.ok /\ s.fail = t.fail /\ MS!Latest(s) = MS!Latest(t)
<1>1. /\ MS!Cut(s).ok = s.ok /\ MS!Cut(s).fail = s.fail
      /\ MS!Cut(t).ok = t.ok /\ MS!Cut(t).fail = t.fail
  BY CutStates
<1> QED
  BY <1>1 DEF SameAs, MS!Latest

(* What was found ahead of the clock is still that when it is read. *)
LEMMA AheadWhenCut ==
  ASSUME NEW s \in States, MS!FoundAhead(s)
  PROVE  MS!FoundAhead(MS!Cut(s))
<1>1. PICK f \in Saved : MS!Latest(f) > FirstMoment /\ s \in {f, MS!Cut(f)}
  BY DEF MS!FoundAhead
<1>2. f \in States
  BY <1>1, StoreAssumption DEF States
<1>3. MS!Cut(s) = MS!Cut(f)
  BY <1>1, <1>2, CutStates
<1> QED
  BY <1>1, <1>3 DEF MS!FoundAhead

(* What is settled stays settled. *)
LEMMA StaysSettled ==
  ASSUME time \in Nat, time' \in Nat, time <= time', NEW s \in States
  PROVE  /\ Past(s) => Past(s)' /\ s.ok <= time' /\ s.fail <= time'
         /\ Near(s) => Near(s)'
         /\ Settled(s) => Settled(s)'
<1>1. s.ok \in Nat /\ s.fail \in Nat /\ s.until \in Nat /\ Skew \in Nat
  BY StoreAssumption DEF States
<1>2. Past(s) => Past(s)' /\ s.ok <= time' /\ s.fail <= time'
  BY <1>1 DEF Past
<1>3. Near(s) => Near(s)'
  BY <1>1 DEF Near
<1>4. (s.until <= time => s.until <= time') /\ (MS!Cut(s).until = s.until => (MS!Cut(s).until)' = s.until)
  BY <1>1 DEF MS!Cut
<1> QED
  BY <1>2, <1>3, <1>4 DEF Settled

(* What a process reads, whatever the file holds. *)
LEMMA ReadsSoundStates ==
  ASSUME StoreType, TimesAreSound
  PROVE  /\ MS!Read \in Known
         /\ \A h \in Hosts :
              /\ MS!Read[h] = IF MS!Applies(file[h]) THEN MS!Cut(file[h]) ELSE MS!Unknown
              /\ Settled(MS!Read[h]) \/ FromAhead(MS!Read[h], h)
              /\ MS!Latest(MS!Read[h]) = 0 => MS!Read[h] = MS!Unknown
<1> SUFFICES ASSUME NEW h \in Hosts
             PROVE  /\ MS!Read[h] \in States
                    /\ MS!Read[h] = IF MS!Applies(file[h]) THEN MS!Cut(file[h]) ELSE MS!Unknown
                    /\ Settled(MS!Read[h]) \/ FromAhead(MS!Read[h], h)
                    /\ MS!Latest(MS!Read[h]) = 0 => MS!Read[h] = MS!Unknown
  BY DEF MS!Read, Known
<1>1. MS!Read[h] = IF MS!Applies(file[h]) THEN MS!Cut(file[h]) ELSE MS!Unknown
  BY DEF MS!Read
<1>2. file[h] \in States /\ time \in Nat /\ {Skew, MaxHold} \subseteq Nat
  BY StoreAssumption DEF StoreType, Known
<1> DEFINE c == MS!Cut(file[h])
<1>3. CASE MS!Applies(file[h])
  <2>1. /\ c \in States /\ c.ok = file[h].ok /\ c.fail = file[h].fail /\ MS!Cut(c) = c
        /\ c.until <= IF file[h].fail = 0 THEN 0 ELSE file[h].fail + MaxHold
        /\ MS!Latest(c) = MS!Latest(file[h])
    BY <1>2, CutStates
  <2>2. MS!Latest(c) = 0 => c = MS!Unknown
    BY <2>1, LatestIsNatural
  <2>3. CASE Past(file[h])
    <3>1. Settled(c)
      BY <2>1, <2>3 DEF Settled, Past
    <3> QED
      BY <1>1, <1>3, <2>1, <2>2, <3>1
  <2>4. CASE Ahead(h)
    <3>1. Near(file[h])
      BY <1>3 DEF MS!Applies, Near
    <3>2. MS!Latest(file[h]) \in Nat /\ file[h].fail <= MS!Latest(file[h]) /\ file[h].fail \in Nat
      BY <1>2, LatestIsNatural DEF States
    <3>3. c.until \in Nat
      BY <2>1 DEF States
    <3>4. c.until <= MS!Latest(file[h]) + MaxHold /\ MS!Latest(c) <= MS!Latest(file[h])
      BY <1>2, <2>1, <3>2, <3>3
    <3>5. FromAhead(c, h)
      BY <2>4, <3>1, <3>4 DEF FromAhead
    <3> QED
      BY <1>1, <1>3, <2>1, <2>2, <3>5
  <2> QED
    BY <2>3, <2>4 DEF TimesAreSound
<1>4. CASE ~MS!Applies(file[h])
  BY <1>1, <1>2, <1>4, NothingIsKnown
<1> QED
  BY <1>3, <1>4

(* What a request learns at a moment: its kinds, by the hold they leave. *)
LEMMA KindsOfChanges ==
  ASSUME time \in Nat, NEW x \in States, NEW s \in MS!Learns(x, time + 1)
  PROVE  /\ s \in States /\ (s.until # 0 \/ s.ok # 0)
         /\ \/ s.ok = time + 1 /\ s.fail = x.fail /\ s.until = 0
            \/ /\ s.ok = x.ok /\ s.fail = time + 1
               /\ \/ s.until <= time + 1 + MaxHold
                  \/ s.until = x.until /\ time + 1 < x.until
<1>1. /\ x.ok \in Nat /\ x.fail \in Nat /\ x.until \in Nat /\ MaxHold \in Nat
      /\ x = [ok |-> x.ok, fail |-> x.fail, until |-> x.until]
  BY StoreAssumption DEF States
<1>2. \/ s = [x EXCEPT !.ok = time + 1, !.until = 0]
      \/ \E hold \in 1..MaxHold :
           \/ s = [x EXCEPT !.fail = time + 1, !.until = time + 1 + hold]
           \/ s = [x EXCEPT !.fail = time + 1,
                            !.until = IF time + 1 < @ THEN @ ELSE time + 1 + hold]
  BY DEF MS!Learns
<1>3. CASE s = [x EXCEPT !.ok = time + 1, !.until = 0]
  <2>1. s = [ok |-> time + 1, fail |-> x.fail, until |-> 0]
    BY <1>1, <1>3
  <2> QED
    BY <1>1, <2>1 DEF States
<1>4. ASSUME NEW u \in Nat, s = [x EXCEPT !.fail = time + 1, !.until = u],
             u # 0, u <= time + 1 + MaxHold \/ (u = x.until /\ time + 1 < x.until)
      PROVE  /\ s \in States /\ s.until # 0
             /\ s.ok = x.ok /\ s.fail = time + 1
             /\ s.until <= time + 1 + MaxHold \/ (s.until = x.until /\ time + 1 < x.until)
  <2>1. s = [ok |-> x.ok, fail |-> time + 1, until |-> u]
    BY <1>1, <1>4
  <2> QED
    BY <1>1, <1>4, <2>1 DEF States
<1>5. ASSUME NEW hold \in 1..MaxHold,
             \/ s = [x EXCEPT !.fail = time + 1, !.until = time + 1 + hold]
             \/ s = [x EXCEPT !.fail = time + 1,
                              !.until = IF time + 1 < @ THEN @ ELSE time + 1 + hold]
      PROVE  \E u \in Nat : /\ s = [x EXCEPT !.fail = time + 1, !.until = u] /\ u # 0
                            /\ u <= time + 1 + MaxHold \/ (u = x.until /\ time + 1 < x.until)
  <2>1. /\ time + 1 + hold \in Nat /\ time + 1 + hold # 0 /\ time + 1 + hold <= time + 1 + MaxHold
        /\ time + 1 < x.until => x.until # 0
    BY <1>1
  <2> QED
    BY <1>1, <1>5, <2>1
<1> QED
  BY <1>2, <1>3, <1>4, <1>5

(* What is learned of a mirror is settled, and the newest, unless what was *)
(* known came from a state that is still ahead of the clock.               *)
LEMMA LearnsSoundStates ==
  ASSUME time \in Nat, time' = time + 1, UNCHANGED file, NEW h \in Hosts, file[h] \in States,
         NEW x \in States, NEW s \in MS!Learns(x, time + 1), Settled(x) \/ FromAhead(x, h)
  PROVE  /\ s \in States /\ MS!Latest(s) \in Nat /\ MS!Latest(s) >= time + 1
         /\ s.until # 0 \/ s.ok # 0
         /\ Settled(x) => Settled(s)' /\ MS!Latest(s) = time + 1
         /\ Settled(s)' \/ FromAhead(s, h)'
<1> DEFINE l == MS!Latest(file[h])
<1>1. /\ x.ok \in Nat /\ x.fail \in Nat /\ x.until \in Nat /\ {MaxHold, Skew} \subseteq Nat /\ l \in Nat
      /\ file[h].ok <= l /\ file[h].fail <= l
  BY StoreAssumption, LatestIsNatural DEF States
<1>2. /\ s \in States /\ (s.until # 0 \/ s.ok # 0)
      /\ \/ s.ok = time + 1 /\ s.fail = x.fail /\ s.until = 0
         \/ /\ s.ok = x.ok /\ s.fail = time + 1
            /\ \/ s.until <= time + 1 + MaxHold
               \/ s.until = x.until /\ time + 1 < x.until
  BY KindsOfChanges
<1>3. /\ MS!Latest(s) \in Nat /\ s.ok <= MS!Latest(s) /\ s.fail <= MS!Latest(s)
      /\ MS!Latest(s) \in {s.ok, s.fail} /\ s.ok \in Nat /\ s.fail \in Nat /\ s.until \in Nat
  BY <1>2, LatestIsNatural DEF States
<1>4. MS!Latest(s) >= time + 1
  BY <1>2, <1>3
<1> DEFINE Bounded == s.ok <= time + 1 /\ s.fail <= time + 1
                      /\ s.until <= IF s.fail = 0 THEN 0 ELSE s.fail + MaxHold
<1>5. Bounded => Settled(s)'
  <2> SUFFICES ASSUME Bounded PROVE Settled(s)'
    OBVIOUS
  <2>1. MS!Cut(s) = s
    BY <1>2, CutStates
  <2> QED
    BY <2>1 DEF Settled, Past, MS!Cut
<1>6. CASE Settled(x)
  <2>1. x.ok <= time /\ x.fail <= time
    BY <1>6 DEF Settled, Past
  <2>2. time + 1 < x.until => x.until <= time + MaxHold
    <3> SUFFICES ASSUME time + 1 < x.until PROVE x.until <= time + MaxHold
      OBVIOUS
    <3>1. MS!Cut(x).until = x.until
      BY <1>1, <1>6 DEF Settled
    <3>2. x.until <= IF x.fail = 0 THEN 0 ELSE x.fail + MaxHold
      BY <3>1, CutStates
    <3> QED
      BY <1>1, <2>1, <3>2
  <2>3. Bounded
    BY <1>1, <1>2, <1>3, <2>1, <2>2
  <2>4. MS!Latest(s) = time + 1
    BY <1>3, <1>4, <2>3
  <2> QED
    BY <1>2, <1>3, <1>4, <1>5, <2>3, <2>4
<1>7. CASE FromAhead(x, h) /\ ~Settled(x)
  <2>1. /\ Ahead(h) /\ Near(file[h]) /\ MS!Latest(x) <= l /\ x.until <= l + MaxHold
        /\ x.ok <= MS!Latest(x) /\ x.fail <= MS!Latest(x) /\ MS!Latest(x) \in Nat
    BY <1>7, LatestIsNatural DEF FromAhead
  <2>2. CASE MS!Latest(s) <= l
    <3>1. s.until <= l + MaxHold
      BY <1>1, <1>2, <1>3, <2>1, <2>2
    <3>2. Near(file[h])' /\ Ahead(h)' /\ MS!Latest(file[h])' = l
      <4>1. Near(file[h])'
        BY <2>1, StaysSettled
      <4> QED
        BY <2>1, <4>1 DEF Ahead, MS!FoundAhead, MS!Latest, MS!Cut
    <3>3. FromAhead(s, h)'
      BY <2>2, <3>1, <3>2 DEF FromAhead, MS!Latest
    <3> QED
      BY <1>2, <1>3, <1>4, <1>7, <3>3
  <2>3. CASE MS!Latest(s) > l
    <3>1. s.ok <= time + 1 /\ s.fail <= time + 1 /\ l < time + 1
      BY <1>1, <1>2, <1>3, <2>1, <2>3
    <3>2. Bounded
      BY <1>1, <1>2, <1>3, <2>1, <3>1
    <3> QED
      BY <1>2, <1>3, <1>4, <1>5, <1>7, <3>2
  <2> QED
    BY <1>1, <1>3, <2>2, <2>3
<1> QED
  BY <1>6, <1>7

LEMMA StoreStarts == MS!Init => StoreInv
<1> SUFFICES ASSUME MS!Init PROVE StoreInv
  OBVIOUS
<1>1. /\ time = FirstMoment /\ file \in [Hosts -> Saved] /\ saved = health
      /\ loaded = [p \in Procs |-> FALSE] /\ behind = [p \in Procs |-> FALSE]
      /\ health = [p \in Procs |-> [h \in Hosts |-> MS!Unknown]]
      /\ agent = [p \in Procs |-> [a \in Agents |-> MS!Idle]]
  BY DEF MS!Init
<1>2. time \in Nat /\ time <= LastMoment
  BY <1>1, StoreAssumption
<1>3. MS!Unknown \in States /\ Settled(MS!Unknown) /\ MS!Latest(MS!Unknown) = 0
  BY <1>2, NothingIsKnown
<1>4. StoreType
  <2>1. [h \in Hosts |-> MS!Unknown] \in Known
    BY <1>3 DEF Known
  <2>2. file \in Known
    BY <1>1, StoreAssumption DEF Known, States
  <2> QED
    BY <1>1, <1>2, <2>1, <2>2 DEF StoreType, Doings
<1>5. \A p \in Procs, a \in Agents : agent[p][a].at = "idle"
  BY <1>1 DEF MS!Idle
<1>6. ASSUME NEW h \in Hosts PROVE Ahead(h) \/ Past(file[h])
  <2>1. file[h] \in Saved /\ file[h] \in States
    BY <1>1, <1>4 DEF StoreType, Known
  <2>2. CASE MS!Latest(file[h]) > FirstMoment
    BY <2>1, <2>2 DEF Ahead, MS!FoundAhead
  <2>3. CASE ~(MS!Latest(file[h]) > FirstMoment)
    <3>1. MS!Latest(file[h]) <= time /\ file[h].ok <= MS!Latest(file[h]) /\ file[h].ok \in Nat
          /\ file[h].fail <= MS!Latest(file[h]) /\ file[h].fail \in Nat /\ MS!Latest(file[h]) \in Nat
      BY <1>1, <1>2, <2>1, <2>3, LatestIsNatural DEF States
    <3> QED
      BY <1>2, <3>1 DEF Past
  <2> QED
    BY <2>2, <2>3
<1>7. TimesAreSound /\ OneMerges /\ ChangesTell /\ WritesAll
  BY <1>1, <1>3, <1>5, <1>6 DEF TimesAreSound, Merging, OneMerges, ChangesTell, WritesAll
<1> QED
  BY <1>1, <1>3, <1>4, <1>5, <1>7 DEF StoreInv, NothingBeforeLoading, MemoryIsNewest, SavedIsInFile,
     OnItsWay, Merging

LEMMA LaterAppliesLess ==
  ASSUME StoreType, StoreType', TimesAreSound, UNCHANGED file, time <= time', NEW h \in Hosts,
         MS!Applies(file[h])', ~Ahead(h)
  PROVE  MS!Applies(file[h])
<1>1. /\ file[h].ok \in Nat /\ file[h].fail \in Nat /\ file[h] \in States
      /\ time \in Nat /\ time' \in Nat /\ {Skew, StaleAfter} \subseteq Nat
  BY StoreAssumption DEF StoreType, Known, States
<1>2. MS!Latest(file[h]) + StaleAfter >= time' /\ MS!Latest(file[h]) \in Nat
  BY <1>1, LatestIsNatural DEF MS!Applies, MS!Latest
<1>3. file[h].ok <= time /\ file[h].fail <= time
  BY DEF TimesAreSound, Past
<1> QED
  BY <1>1, <1>2, <1>3 DEF MS!Applies

(* What is in the file stays so while time passes. *)
LEMMA StaysInFile ==
  ASSUME StoreType, StoreType', UNCHANGED file, time <= time', NEW p \in Procs, NEW h \in Hosts,
         health'[p][h] = health[p][h], InFile(p, h)
  PROVE  InFile(p, h)'
<1>1. /\ file[h] \in States /\ health[p][h] \in States /\ time \in Nat /\ time' \in Nat
  BY DEF StoreType, Known
<1>2. MS!Cut(file[h]).until \in Nat /\ MS!Cut(health[p][h]).until \in Nat
  BY <1>1, CutStates DEF States
<1>3. MS!Cut(file[h])' = MS!Cut(file[h]) /\ MS!Cut(health[p][h])' = MS!Cut(health[p][h])
  BY DEF MS!Cut
<1> QED
  BY <1>1, <1>2, <1>3 DEF InFile, MS!SameHold

LEMMA KindsOfDoings ==
  ASSUME NEW d \in Doings
  PROVE  /\ d.at \in {"idle", "changed", "merged"} /\ (d.at = "idle" => d = MS!Idle)
         /\ d.at = "changed" => /\ d.host \in Hosts /\ d.state \in States
                                /\ d = [at |-> "changed", host |-> d.host, state |-> d.state]
         /\ d.at = "merged" => /\ d.ours \in Known /\ d.merged \in Known
BY DEF Doings, MS!Idle

(* What a write makes of a mirror's state stays so while the file does. *)
LEMMA StaysToBeWritten ==
  ASSUME StoreType, UNCHANGED file, time' \in Nat, time <= time', NEW p \in Procs, NEW a \in Agents,
         NEW h \in Hosts, Merging(p, a), agent'[p][a] = agent[p][a]
  PROVE  /\ KeepsAhead(p, a, h) => KeepsAhead(p, a, h)'
         /\ WritesOurs(p, a, h) /\ Settled(health[p][h])' => WritesOurs(p, a, h)'
         /\ Ahead(h)' = Ahead(h)
<1>1. agent[p][a].ours[h] \in States /\ agent[p][a].merged[h] \in States /\ time \in Nat
  BY KindsOfDoings DEF StoreType, Merging, Known
<1>2. Ahead(h)' = Ahead(h)
  BY DEF Ahead, MS!FoundAhead, MS!Latest, MS!Cut
<1>3. ASSUME KeepsAhead(p, a, h) PROVE KeepsAhead(p, a, h)'
  <2>1. Near(agent[p][a].merged[h])' 
    <3> DEFINE m == agent[p][a].merged[h]
    <3>1. m.ok <= time' + Skew /\ m.fail <= time' + Skew
      BY <1>1, <1>3, StoreAssumption DEF KeepsAhead, Near, States
    <3> QED
      BY <3>1 DEF Near
  <2> QED
    BY <1>2, <1>3, <2>1 DEF KeepsAhead, MS!FoundAhead, MS!Latest, MS!Cut
<1>4. ASSUME WritesOurs(p, a, h), Settled(health[p][h])' PROVE WritesOurs(p, a, h)'
  <2> DEFINE o == agent[p][a].ours[h]
  <2>1. Settled(o) /\ o \in States
    BY <1>1, <1>4 DEF WritesOurs
  <2>2. /\ o.ok <= time' /\ o.fail <= time' /\ (MS!Cut(o).until = o.until \/ o.until <= time')
    <3> HIDE DEF o
    <3> QED
      BY <1>1, <2>1 DEF Settled, Past, States
  <2>3. Settled(agent[p][a].ours[h])'
    BY <2>2 DEF Settled, Past, MS!Cut
  <2> QED
    BY <1>4, <2>3 DEF WritesOurs, SameAs, MS!Cut
<1> QED
  BY <1>2, <1>3, <1>4

(* Time passes. *)
LEMMA TickKeeps ==
  ASSUME StoreInv, MS!Tick \/ UNCHANGED storeVars
  PROVE  StoreInv'
<1> USE DEF StoreInv
<1>1. /\ time' \in {time, time + 1} /\ time' <= LastMoment
      /\ UNCHANGED <<file, loaded, health, saved, agent, behind>>
  BY StoreAssumption DEF MS!Tick, storeVars, StoreType
<1>2. time \in Nat /\ time' \in Nat /\ time <= time'
  BY <1>1 DEF StoreType
<1>3. StoreType'
  BY <1>1, <1>2 DEF StoreType
<1>4. ASSUME NEW h \in Hosts
      PROVE  /\ Ahead(h)' = Ahead(h) /\ file[h] \in States
             /\ Past(file[h]) => Past(file[h])'
             /\ Near(file[h]) => Near(file[h])'
  <2>1. file[h] \in States
    BY DEF StoreType, Known
  <2>2. Ahead(h)' = Ahead(h)
    BY <1>1 DEF Ahead, MS!FoundAhead, MS!Latest, MS!Cut
  <2>3. /\ Past(file[h]) => file[h].ok <= time' /\ file[h].fail <= time'
        /\ Near(file[h]) => file[h].ok <= time' + Skew /\ file[h].fail <= time' + Skew
    BY <1>2, <2>1, StoreAssumption DEF Past, Near, States
  <2> QED
    BY <1>1, <2>1, <2>2, <2>3 DEF Past, Near
<1>6. ASSUME NEW p \in Procs, NEW h \in Hosts
      PROVE  /\ Settled(health[p][h]) => Settled(health[p][h])'
             /\ FromAhead(health[p][h], h) => FromAhead(health[p][h], h)'
             /\ Settled(saved[p][h]) => Settled(saved[p][h])'
  <2>1. health[p][h] \in States /\ saved[p][h] \in States
    BY DEF StoreType, Known
  <2>2. ASSUME NEW x \in States PROVE Settled(x) => Settled(x)'
    BY <1>2, StaysSettled
  <2>3. PICK x \in States : x = health[p][h]
    BY <2>1
  <2>4. PICK y \in States : y = saved[p][h]
    BY <2>1
  <2>5. Settled(health[p][h]) => Settled(health[p][h])'
    BY <1>1, <2>2, <2>3 DEF Settled, Past, MS!Cut
  <2>6. Settled(saved[p][h]) => Settled(saved[p][h])'
    BY <1>1, <2>2, <2>4 DEF Settled, Past, MS!Cut
  <2>7. ASSUME FromAhead(health[p][h], h) PROVE FromAhead(health[p][h], h)'
    <3>1. Ahead(h)' /\ Near(file[h])'
      BY <1>4, <2>7 DEF FromAhead
    <3>2. MS!Latest(file[h])' = MS!Latest(file[h]) /\ MS!Latest(health[p][h])' = MS!Latest(health[p][h])
      BY <1>1 DEF MS!Latest
    <3> QED
      BY <1>1, <2>7, <3>1, <3>2 DEF FromAhead
  <2> QED
    BY <2>5, <2>6, <2>7
<1>7. TimesAreSound'
  <2>1. \A h \in Hosts : (Ahead(h) \/ Past(file[h]))'
    BY <1>4 DEF TimesAreSound
  <2>2. \A p \in Procs, h \in Hosts :
          /\ (Settled(health[p][h]) \/ FromAhead(health[p][h], h))'
          /\ (MS!Latest(health[p][h]) = 0 => health[p][h] = MS!Unknown)'
    BY <1>1, <1>6 DEF TimesAreSound, MS!Latest
  <2>3. ASSUME NEW p \in Procs, NEW a \in Agents, NEW h \in Hosts, Merging(p, a)
        PROVE  (WritesOurs(p, a, h) \/ KeepsAhead(p, a, h))'
    <3>1. WritesOurs(p, a, h) => Settled(health[p][h])'
      BY <1>6 DEF WritesOurs
    <3> QED
      BY <1>1, <1>2, <2>3, <3>1, StaysToBeWritten DEF TimesAreSound
  <2> QED
    BY <1>1, <2>1, <2>2, <2>3 DEF TimesAreSound, Merging
<1>8. \A h \in Hosts : MS!Applies(file[h])' => MS!Applies(file[h]) \/ Ahead(h)'
  BY <1>1, <1>2, <1>3, <1>4, LaterAppliesLess
<1>9. MemoryIsNewest'
  <2>1. ASSUME NEW p \in Procs, NEW h \in Hosts, loaded[p], MS!Applies(file[h])', ~Ahead(h)'
        PROVE  MS!Latest(file[h]) < MS!Latest(health[p][h]) \/ SameAs(file[h], health[p][h])
    BY <1>4, <1>8, <2>1 DEF MemoryIsNewest
  <2>2. ASSUME NEW p \in Procs, NEW h \in Hosts, NEW a \in Agents, Merging(p, a), ~KeepsAhead(p, a, h)'
        PROVE  MS!Latest(agent[p][a].ours[h]) < MS!Latest(health[p][h])
               \/ agent[p][a].ours[h] = health[p][h]
    BY <1>1, <1>2, <2>2, StaysToBeWritten DEF MemoryIsNewest
  <2> QED
    BY <1>1, <2>1, <2>2 DEF MemoryIsNewest, Merging, SameAs, MS!Latest, MS!Cut
<1>10. SavedIsInFile'
  BY <1>1, <1>4, <1>6 DEF SavedIsInFile, SameAs, MS!Cut
<1>11. OnItsWay'
  <2>1. \A p \in Procs, h \in Hosts : /\ InFile(p, h) => InFile(p, h)'
                                      /\ ToReport(p, h) => ToReport(p, h)'
    BY <1>1, <1>2, <1>3, StaysInFile DEF ToReport
  <2> QED
    BY <1>1, <1>4, <2>1 DEF OnItsWay, MS!Latest, MS!Saving
<1>12. NothingBeforeLoading' /\ OneMerges' /\ ChangesTell' /\ WritesAll'
  BY <1>1 DEF NothingBeforeLoading, OneMerges, ChangesTell, WritesAll, Merging, ToReport
<1> QED
  BY <1>3, <1>7, <1>9, <1>10, <1>11, <1>12

LEMMA LoadKeeps == ASSUME StoreInv, NEW p \in Procs, Procs = {p}, MS!Load(p) PROVE StoreInv'
<1> USE DEF StoreInv
<1>1. /\ ~loaded[p] /\ UNCHANGED <<time, file, agent, behind>>
      /\ loaded' = [loaded EXCEPT ![p] = TRUE]
      /\ health' = [health EXCEPT ![p] = MS!Newer(@, MS!Read)]
      /\ saved' = [saved EXCEPT ![p] = MS!Read]
  BY DEF MS!Load
<1>2. /\ \A h \in Hosts : health[p][h] = MS!Unknown
      /\ \A a \in Agents : agent[p][a] = MS!Idle
  BY <1>1 DEF NothingBeforeLoading
<1>3. /\ MS!Read \in Known
      /\ \A h \in Hosts :
           /\ MS!Read[h] = IF MS!Applies(file[h]) THEN MS!Cut(file[h]) ELSE MS!Unknown
           /\ Settled(MS!Read[h]) \/ FromAhead(MS!Read[h], h)
           /\ MS!Latest(MS!Read[h]) = 0 => MS!Read[h] = MS!Unknown
  BY ReadsSoundStates
<1>4. MS!Unknown \in States /\ MS!Latest(MS!Unknown) = 0
  BY NothingIsKnown DEF StoreType
<1>5. MS!Newer(health[p], MS!Read) = MS!Read
  <2>1. ASSUME NEW h \in Hosts PROVE MS!Newer(health[p], MS!Read)[h] = MS!Read[h]
    <3>1. MS!Read[h] \in States
      BY <1>3 DEF Known
    <3>2. CASE MS!Latest(MS!Read[h]) = 0
      BY <1>2, <1>3, <1>4, <3>1, <3>2 DEF MS!Newer
    <3>3. CASE MS!Latest(MS!Read[h]) # 0
      <4>1. MS!Latest(MS!Read[h]) > 0
        BY <3>1, <3>3, LatestIsNatural
      <4> QED
        BY <1>2, <1>4, <4>1 DEF MS!Newer
    <3> QED
      BY <3>2, <3>3
  <2> QED
    BY <1>3, <2>1 DEF MS!Newer, Known
<1>6. loaded'[p] /\ health'[p] = MS!Read /\ saved'[p] = MS!Read
  BY <1>1, <1>5 DEF StoreType
<1>7. StoreType'
  BY <1>1, <1>3, <1>5 DEF StoreType
<1>8. \A a \in Agents : agent'[p][a].at = "idle"
  BY <1>1, <1>2 DEF MS!Idle
<1>9. \A h \in Hosts : /\ Ahead(h)' = Ahead(h)
                       /\ Past(file[h])' = Past(file[h])
                       /\ MS!Applies(file[h])' = MS!Applies(file[h])
  BY <1>1 DEF Ahead, Past, MS!Applies, MS!FoundAhead, MS!Latest, MS!Cut
<1>10. TimesAreSound'
  <2>1. ASSUME NEW h \in Hosts
        PROVE  /\ (Settled(health[p][h]) \/ FromAhead(health[p][h], h))'
               /\ (MS!Latest(health[p][h]) = 0 => health[p][h] = MS!Unknown)'
    <3>1. PICK x \in States : x = MS!Read[h]
      BY <1>3 DEF Known
    <3>2. Settled(x)' = Settled(x) /\ FromAhead(x, h)' = FromAhead(x, h)
      BY <1>1, <1>9 DEF Settled, Past, FromAhead, Near, MS!Latest, MS!Cut
    <3>3. health'[p][h] = x
      BY <1>6, <3>1
    <3>4. Settled(health[p][h])' = Settled(x)' /\ FromAhead(health[p][h], h)' = FromAhead(x, h)'
      BY <3>3 DEF Settled, Past, FromAhead, MS!Latest, MS!Cut
    <3> QED
      BY <1>3, <3>1, <3>2, <3>3, <3>4 DEF MS!Latest
  <2> QED
    BY <1>8, <1>9, <2>1 DEF TimesAreSound, Merging
<1>11. ASSUME NEW h \in Hosts, MS!Applies(file[h])
       PROVE  SameAs(file[h], health[p][h])'
  <2>1. health'[p][h] = MS!Cut(file[h]) /\ file[h] \in States
    BY <1>3, <1>6, <1>11 DEF StoreType, Known
  <2>2. PICK c \in States : c = MS!Cut(file[h]) /\ MS!Cut(c) = c
    BY <2>1, CutStates
  <2>3. MS!Cut(file[h])' = c
    BY <1>1, <2>2 DEF MS!Cut
  <2>4. MS!Cut(health[p][h])' = c
    BY <2>1, <2>2 DEF MS!Cut
  <2> QED
    BY <2>3, <2>4 DEF SameAs
<1>12. MemoryIsNewest'
  BY <1>8, <1>9, <1>11 DEF MemoryIsNewest, Merging
<1>13. SavedIsInFile'
  <2> SUFFICES ASSUME NEW h \in Hosts, ~Ahead(h)', saved'[p][h] # MS!Unknown
               PROVE  SameAs(saved[p][h], file[h])' /\ Settled(saved[p][h])'
    BY DEF SavedIsInFile
  <2>1. saved'[p][h] = health'[p][h] /\ MS!Applies(file[h])
    BY <1>3, <1>6
  <2>2. Settled(health[p][h])'
    BY <1>10 DEF TimesAreSound, FromAhead
  <2> QED
    BY <1>11, <2>1, <2>2 DEF SameAs, Settled, Past, MS!Cut
<1>14. OnItsWay'
  <2> SUFFICES ASSUME NEW h \in Hosts, MS!Latest(MS!Read[h]) # 0
               PROVE  InFile(p, h)'
    BY <1>6 DEF OnItsWay, MS!Latest
  <2>1. MS!Read[h] = MS!Cut(file[h]) /\ MS!Applies(file[h])
    BY <1>3, <1>4
  <2>2. file[h] \in States /\ MS!Cut(file[h]).ok = file[h].ok
    BY CutStates DEF StoreType, Known
  <2>3. file[h].ok < file[h].ok + SaveEvery
    BY <2>2, StoreAssumption DEF States
  <2>4. MS!SameHold(file[h], health[p][h])'
    BY <1>11, <2>1 DEF MS!SameHold, SameAs
  <2> QED
    BY <1>1, <1>6, <2>1, <2>2, <2>3, <2>4 DEF InFile
<1> QED
  BY <1>6, <1>7, <1>8, <1>10, <1>12, <1>13, <1>14 DEF NothingBeforeLoading, OneMerges, ChangesTell,
     WritesAll, Merging

(* One request of a process goes on. *)
LEMMA OneRequestGoesOn ==
  ASSUME StoreType, NEW p \in Procs, NEW a \in Agents, NEW d \in Doings,
         agent' = [agent EXCEPT ![p][a] = d]
  PROVE  /\ agent' \in [Procs -> [Agents -> Doings]] /\ agent'[p][a] = d
         /\ \A b \in Agents : b # a => agent'[p][b] = agent[p][b]
BY DEF StoreType

LEMMA UpdateKeeps ==
  ASSUME StoreInv, NEW p \in Procs, Procs = {p}, NEW a \in Agents, MS!Update(p, a)
  PROVE  StoreInv'
<1> USE DEF StoreInv
<1>1. /\ loaded[p] /\ agent[p][a] = MS!Idle /\ time < LastMoment /\ time' = time + 1
      /\ UNCHANGED <<file, loaded, saved, behind>>
  BY DEF MS!Update
<1>2. PICK h \in Hosts : \E s \in MS!Learns(health[p][h], time') :
        /\ health' = [health EXCEPT ![p][h] = s]
        /\ agent' = [agent EXCEPT ![p][a] = [at |-> "changed", host |-> h, state |-> s]]
  BY DEF MS!Update
<1>2a. PICK s \in MS!Learns(health[p][h], time') :
         /\ health' = [health EXCEPT ![p][h] = s]
         /\ agent' = [agent EXCEPT ![p][a] = [at |-> "changed", host |-> h, state |-> s]]
  BY <1>2
<1>3. /\ time \in Nat /\ time' \in Nat /\ time <= time' /\ LastMoment \in Nat /\ health[p] \in Known
      /\ \A k \in Hosts : health[p][k] \in States /\ saved[p][k] \in States /\ file[k] \in States
  BY <1>1, StoreAssumption DEF StoreType, Known
<1>4. PICK x \in States : x = health[p][h]
  BY <1>3
<1>5. /\ s \in States /\ MS!Latest(s) \in Nat /\ MS!Latest(s) >= time + 1
      /\ s.until # 0 \/ s.ok # 0
      /\ Settled(x) => Settled(s)' /\ MS!Latest(s) = time + 1
      /\ Settled(s)' \/ FromAhead(s, h)'
  <2>1. (Settled(x) \/ FromAhead(x, h)) /\ s \in MS!Learns(x, time + 1)
    BY <1>1, <1>4 DEF TimesAreSound
  <2> QED
    BY <1>1, <1>3, <2>1, LearnsSoundStates
<1> DEFINE d == [at |-> "changed", host |-> h, state |-> s]
<1>6. d \in Doings /\ d.at = "changed" /\ d.state = s
  BY <1>5 DEF Doings
<1>7. /\ agent' \in [Procs -> [Agents -> Doings]] /\ agent'[p][a] = d
      /\ \A b \in Agents : b # a => agent'[p][b] = agent[p][b]
  BY <1>2a, <1>6, OneRequestGoesOn
<1>8. d = [at |-> "changed", host |-> h, state |-> s]
  OBVIOUS
<1> HIDE DEF d
<1>9. /\ health' \in [Procs -> Known] /\ health'[p][h] = s
      /\ \A k \in Hosts : k # h => health'[p][k] = health[p][k]
  BY <1>2a, <1>3, <1>5 DEF StoreType, Known
<1>10. StoreType'
  BY <1>1, <1>3, <1>7, <1>9 DEF StoreType
<1>11. \A b \in Agents : agent'[p][b].at = "merged" => b # a /\ agent'[p][b] = agent[p][b] /\ Merging(p, b)
  BY <1>6, <1>7 DEF Merging
<1>12. \A k \in Hosts : /\ Ahead(k)' = Ahead(k)
                        /\ Past(file[k]) => Past(file[k])'
                        /\ Near(file[k]) => Near(file[k])'
  <2> SUFFICES ASSUME NEW k \in Hosts
               PROVE  /\ Ahead(k)' = Ahead(k)
                      /\ Past(file[k]) => Past(file[k])'
                      /\ Near(file[k]) => Near(file[k])'
    OBVIOUS
  <2>1. PICK f \in States : f = file[k]
    BY <1>3
  <2>2. (Past(f) => Past(f)') /\ (Near(f) => Near(f)')
    BY <1>3, StaysSettled
  <2> QED
    BY <1>1, <2>1, <2>2 DEF Ahead, Past, Near, MS!FoundAhead, MS!Latest, MS!Cut
<1>13. ASSUME NEW k \in Hosts
       PROVE  /\ Settled(health[p][k]) => Settled(health[p][k])'
              /\ Settled(saved[p][k]) => Settled(saved[p][k])'
              /\ Settled(health[p][k])' \/ FromAhead(health[p][k], k)'
              /\ MS!Latest(health[p][k])' = 0 => health'[p][k] = MS!Unknown
  <2>1. PICK v \in States : v = saved[p][k]
    BY <1>3
  <2>2. Settled(saved[p][k]) => Settled(saved[p][k])'
    <3>1. Settled(v) => Settled(v)'
      BY <1>3, StaysSettled
    <3> QED
      BY <1>1, <2>1, <3>1 DEF Settled, Past, MS!Cut
  <2>3. CASE k = h
    <3>1. Settled(health[p][k])' = Settled(s)' /\ FromAhead(health[p][k], k)' = FromAhead(s, h)'
          /\ MS!Latest(health[p][k])' = MS!Latest(s)
      BY <1>9, <2>3 DEF Settled, Past, FromAhead, MS!Latest, MS!Cut
    <3> QED
      BY <1>3, <1>4, <1>5, <2>2, <2>3, <3>1
  <2>4. CASE k # h
    <3>1. PICK y \in States : y = health[p][k]
      BY <1>3
    <3>2. health'[p][k] = y
      BY <1>9, <2>4, <3>1
    <3>3. Settled(y) => Settled(y)'
      BY <1>3, StaysSettled
    <3>4. /\ Settled(health[p][k])' = Settled(y)' /\ FromAhead(health[p][k], k)' = FromAhead(y, k)'
          /\ MS!Latest(health[p][k])' = MS!Latest(y)
      BY <3>2 DEF Settled, Past, FromAhead, MS!Latest, MS!Cut
    <3>5. FromAhead(y, k) => FromAhead(y, k)'
      <4> SUFFICES ASSUME FromAhead(y, k) PROVE FromAhead(y, k)'
        OBVIOUS
      <4>1. Ahead(k)' /\ Near(file[k])' /\ MS!Latest(file[k])' = MS!Latest(file[k])
        BY <1>1, <1>12 DEF FromAhead, MS!Latest
      <4> QED
        BY <4>1 DEF FromAhead, MS!Latest
    <3> QED
      BY <2>2, <3>1, <3>2, <3>3, <3>4, <3>5 DEF TimesAreSound
  <2> QED
    BY <2>3, <2>4
<1>14. ASSUME NEW b \in Agents, agent'[p][b].at = "merged", NEW k \in Hosts
       PROVE  /\ WritesOurs(p, b, k)' \/ KeepsAhead(p, b, k)'
              /\ \/ KeepsAhead(p, b, k)'
                 \/ MS!Latest(agent'[p][b].ours[k]) < MS!Latest(health'[p][k])
                 \/ agent'[p][b].ours[k] = health'[p][k]
  <2>1. agent'[p][b] = agent[p][b] /\ Merging(p, b) /\ agent[p][b].ours[k] \in States
    BY <1>11, <1>14, KindsOfDoings DEF Merging, StoreType, Known
  <2>2. /\ KeepsAhead(p, b, k) => KeepsAhead(p, b, k)'
        /\ WritesOurs(p, b, k) /\ Settled(health[p][k])' => WritesOurs(p, b, k)'
    BY <1>1, <1>3, <2>1, StaysToBeWritten
  <2>3. WritesOurs(p, b, k) \/ KeepsAhead(p, b, k)
    BY <2>1 DEF TimesAreSound
  <2>4. WritesOurs(p, b, k) => Settled(health[p][k])'
    BY <1>13 DEF WritesOurs
  <2>5. CASE KeepsAhead(p, b, k)
    BY <2>2, <2>5
  <2>6. CASE WritesOurs(p, b, k) /\ ~KeepsAhead(p, b, k)
    <3>1. CASE k = h
      <4>1. Settled(x) /\ Settled(agent[p][b].ours[k])
        BY <1>4, <2>6, <3>1 DEF WritesOurs
      <4>2. MS!Latest(agent[p][b].ours[k]) <= time /\ MS!Latest(agent[p][b].ours[k]) \in Nat
        BY <1>3, <2>1, <4>1, LatestIsNatural DEF Settled, Past
      <4> QED
        BY <1>3, <1>5, <1>9, <2>1, <2>2, <2>4, <2>6, <3>1, <4>1, <4>2
    <3>2. CASE k # h
      BY <1>9, <2>1, <2>2, <2>4, <2>6, <3>2 DEF MemoryIsNewest
    <3> QED
      BY <3>1, <3>2
  <2> QED
    BY <2>3, <2>5, <2>6
<1>15. TimesAreSound'
  BY <1>12, <1>13, <1>14 DEF TimesAreSound, Merging
<1>16. MemoryIsNewest'
  <2> SUFFICES ASSUME NEW k \in Hosts, MS!Applies(file[k])', ~Ahead(k)'
               PROVE  MS!Latest(file[k])' < MS!Latest(health[p][k])' \/ SameAs(file[k], health[p][k])'
    BY <1>14 DEF MemoryIsNewest, Merging, MS!Latest
  <2>1. MS!Applies(file[k])
    BY <1>1, <1>3, <1>10, <1>12, LaterAppliesLess
  <2>2. MS!Latest(file[k])' = MS!Latest(file[k])
    BY <1>1 DEF MS!Latest
  <2>3. CASE k = h
    <3>1. Past(file[k])
      BY <1>12 DEF TimesAreSound
    <3>2. MS!Latest(file[k]) <= time /\ MS!Latest(file[k]) \in Nat
      BY <1>3, <3>1, LatestIsNatural DEF Past
    <3>3. MS!Latest(health[p][k])' = MS!Latest(s)
      BY <1>9, <2>3 DEF MS!Latest
    <3> QED
      BY <1>3, <1>5, <2>2, <3>2, <3>3
  <2>4. CASE k # h
    <3>1. MS!Latest(file[k]) < MS!Latest(health[p][k]) \/ SameAs(file[k], health[p][k])
      BY <1>1, <1>12, <2>1 DEF MemoryIsNewest
    <3> QED
      BY <1>1, <1>9, <2>4, <3>1 DEF SameAs, MS!Latest, MS!Cut
  <2> QED
    BY <2>3, <2>4
<1>17. \A k \in Hosts : ToReport(p, k)' \/ (k # h /\ (ToReport(p, k) => ToReport(p, k)'))
  <2>1. ToReport(p, h)'
    BY <1>7, <1>8, <1>9 DEF ToReport
  <2>2. ASSUME NEW k \in Hosts, k # h, ToReport(p, k) PROVE ToReport(p, k)'
    <3>1. PICK b \in Agents : agent[p][b] = [at |-> "changed", host |-> k, state |-> health[p][k]]
      BY <2>2 DEF ToReport
    <3>2. b # a
      BY <1>1, <3>1 DEF MS!Idle
    <3> QED
      BY <1>7, <1>9, <2>2, <3>1, <3>2 DEF ToReport
  <2> QED
    BY <2>1, <2>2
<1>18. SavedIsInFile' /\ NothingBeforeLoading'
  <2>1. SavedIsInFile'
    BY <1>1, <1>12, <1>13 DEF SavedIsInFile, SameAs, MS!Cut
  <2> QED
    BY <1>1, <2>1 DEF NothingBeforeLoading
<1>19. OneMerges' /\ ChangesTell'
  BY <1>5, <1>6, <1>7, <1>11 DEF OneMerges, ChangesTell, Merging
<1>20. WritesAll'
  <2> SUFFICES ASSUME NEW b \in Agents, NEW k \in Hosts, agent'[p][b].at = "merged", ~ToReport(p, k)'
               PROVE  agent'[p][b].ours[k] = health'[p][k]
    BY DEF WritesAll, Merging
  <2> QED
    BY <1>9, <1>11, <1>17 DEF WritesAll
<1>21. OnItsWay'
  <2> SUFFICES ASSUME NEW k \in Hosts, ~ToReport(p, k)'
               PROVE  (behind[p] \/ MS!Latest(health[p][k]) = 0 \/ MS!Saving(p) \/ Ahead(k)
                       \/ InFile(p, k))'
    BY DEF OnItsWay
  <2>1. k # h /\ ~ToReport(p, k) /\ health'[p][k] = health[p][k]
    BY <1>9, <1>17
  <2>2. MS!Saving(p) => MS!Saving(p)'
    <3> SUFFICES ASSUME NEW b \in Agents, agent[p][b].at = "merged" PROVE agent'[p][b].at = "merged"
      BY DEF MS!Saving
    <3> QED
      BY <1>1, <1>7 DEF MS!Idle
  <2>3. InFile(p, k) => InFile(p, k)'
    BY <1>1, <1>3, <1>10, <2>1, StaysInFile
  <2> QED
    BY <1>1, <1>12, <2>1, <2>2, <2>3 DEF OnItsWay, MS!Latest
<1> QED
  BY <1>10, <1>15, <1>16, <1>18, <1>19, <1>20, <1>21

(* The clock and the file stand still, and so does what a request knows.   *)
LEMMA NothingLearned ==
  ASSUME StoreType, UNCHANGED <<time, file, health>>, NEW p \in Procs, NEW h \in Hosts
  PROVE  /\ Ahead(h)' = Ahead(h) /\ Past(file[h])' = Past(file[h])
         /\ MS!Applies(file[h])' = MS!Applies(file[h])
         /\ Settled(health[p][h])' = Settled(health[p][h])
         /\ FromAhead(health[p][h], h)' = FromAhead(health[p][h], h)
         /\ InFile(p, h) = InFile(p, h)'
BY DEF Ahead, Past, Near, Settled, FromAhead, InFile, MS!SameHold, MS!Applies, MS!FoundAhead,
   MS!Latest, MS!Cut

(* The change of one request is handled without anything being written. *)
LEMMA NothingWritten ==
  ASSUME StoreInv, NEW p \in Procs, Procs = {p}, UNCHANGED <<time, file, loaded, health, saved>>,
         \A b \in Agents : agent'[p][b].at # "merged"
  PROVE  TimesAreSound' /\ MemoryIsNewest' /\ SavedIsInFile' /\ OneMerges' /\ WritesAll'
<1> USE DEF StoreInv
<1>1. TimesAreSound'
  BY NothingLearned DEF TimesAreSound, Merging, MS!Latest
<1>2. MemoryIsNewest'
  <2>1. \A h \in Hosts : /\ MS!Latest(file[h])' = MS!Latest(file[h])
                         /\ MS!Latest(health[p][h])' = MS!Latest(health[p][h])
                         /\ SameAs(file[h], health[p][h])' = SameAs(file[h], health[p][h])
    BY DEF SameAs, MS!Latest, MS!Cut
  <2> QED
    BY <2>1, NothingLearned DEF MemoryIsNewest, Merging
<1>3. SavedIsInFile'
  BY NothingLearned DEF SavedIsInFile, SameAs, Settled, Past, MS!Cut
<1> QED
  BY <1>1, <1>2, <1>3 DEF OneMerges, WritesAll, Merging

LEMMA SkipKeeps ==
  ASSUME StoreInv, NEW p \in Procs, Procs = {p}, NEW a \in Agents, MS!Skip(p, a)
  PROVE  StoreInv'
<1> USE DEF StoreInv
<1>1. /\ agent[p][a].at = "changed" /\ ~MS!Saving(p)
      /\ MS!Unchanged(p, agent[p][a].host, agent[p][a].state)
      /\ agent' = [agent EXCEPT ![p][a] = MS!Idle]
      /\ UNCHANGED <<time, file, loaded, health, saved, behind>>
  BY DEF MS!Skip
<1>2. MS!Idle \in Doings /\ MS!Idle.at = "idle"
  BY DEF Doings, MS!Idle
<1>3. /\ agent' \in [Procs -> [Agents -> Doings]] /\ agent'[p][a] = MS!Idle
      /\ \A b \in Agents : b # a => agent'[p][b] = agent[p][b]
  BY <1>1, <1>2, OneRequestGoesOn
<1>4. \A b \in Agents : agent'[p][b].at # "merged"
  BY <1>1, <1>2, <1>3 DEF MS!Saving
<1>5. loaded[p]
  BY <1>1, <1>2 DEF NothingBeforeLoading
<1>6. StoreType'
  BY <1>1, <1>3 DEF StoreType
<1>7. TimesAreSound' /\ MemoryIsNewest' /\ SavedIsInFile' /\ OneMerges' /\ WritesAll'
  BY <1>1, <1>4, NothingWritten
<1>8. NothingBeforeLoading' /\ ChangesTell'
  BY <1>1, <1>2, <1>3, <1>5 DEF NothingBeforeLoading, ChangesTell
<1>9. OnItsWay'
  <2> SUFFICES ASSUME NEW h \in Hosts, ~behind[p], MS!Latest(health[p][h]) # 0, ~Ahead(h),
                      ~ToReport(p, h)'
               PROVE  InFile(p, h)
    BY <1>1, NothingLearned DEF OnItsWay, MS!Latest
  <2>1. CASE ~ToReport(p, h)
    BY <1>1, <2>1 DEF OnItsWay
  <2>2. CASE ToReport(p, h)
    <3>1. PICK b \in Agents : agent[p][b] = [at |-> "changed", host |-> h, state |-> health[p][h]]
      BY <2>2 DEF ToReport
    <3>2. b = a
      BY <1>1, <1>3, <3>1 DEF ToReport
    <3> DEFINE s == health[p][h]
               v == saved[p][h]
    <3>3. /\ s.until = v.until
          /\ s.ok = 0 \/ (v.ok # 0 /\ s.ok < v.ok + SaveEvery)
          /\ s.until # 0 \/ s.ok # 0
      BY <1>1, <3>1, <3>2 DEF MS!Unchanged, ChangesTell
    <3>4. v # MS!Unknown
      BY <3>3 DEF MS!Unknown
    <3>5. SameAs(v, file[h]) /\ Settled(v)
      BY <1>5, <3>4 DEF SavedIsInFile
    <3>6. Settled(s)
      BY DEF TimesAreSound, FromAhead
    <3>7. v \in States /\ s \in States /\ file[h] \in States /\ time \in Nat
      BY DEF StoreType, Known
    <3>8. v.ok = file[h].ok /\ MS!Cut(v) = MS!Cut(file[h])
      BY <3>5, <3>7, SameTimes DEF SameAs
    <3>9. MS!SameHold(file[h], health[p][h])
      <4>1. CASE s.until <= time
        <5>1. MS!Cut(v).until <= v.until /\ MS!Cut(s).until <= s.until
              /\ MS!Cut(v).until \in Nat /\ MS!Cut(s).until \in Nat /\ s.until \in Nat
          BY <3>7, CutStates DEF States
        <5> QED
          BY <3>3, <3>7, <3>8, <4>1, <5>1 DEF MS!SameHold
      <4>2. CASE ~(s.until <= time)
        BY <3>3, <3>5, <3>6, <3>8, <4>2 DEF Settled, MS!SameHold
      <4> QED
        BY <4>1, <4>2
    <3> QED
      BY <3>3, <3>8, <3>9 DEF InFile
  <2> QED
    BY <2>1, <2>2
<1> QED
  BY <1>6, <1>7, <1>8, <1>9

(* What a write is about to make of the file. *)
LEMMA MergesSoundStates ==
  ASSUME StoreInv, NEW p \in Procs, NEW a \in Agents, MS!Merge(p, a), NEW h \in Hosts
  PROVE  LET m == MS!Newer(MS!Read, health[p])[h]
         IN  /\ m \in States
             /\ \/ SameAs(m, health[p][h]) /\ Settled(health[p][h])
                \/ /\ Ahead(h) /\ MS!FoundAhead(m) /\ MS!Latest(m) = MS!Latest(file[h])
                   /\ Near(m)
<1> USE DEF StoreInv
<1> DEFINE m == MS!Newer(MS!Read, health[p])[h]
           l == MS!Latest(file[h])
           o == health[p][h]
<1>1. /\ agent[p][a].at = "changed" /\ loaded[p]
      /\ MS!Read[h] = IF MS!Applies(file[h]) THEN MS!Cut(file[h]) ELSE MS!Unknown
      /\ MS!Read[h] \in States
  BY ReadsSoundStates DEF MS!Merge, NothingBeforeLoading, MS!Idle, Known
<1>2. /\ file[h] \in States /\ o \in States /\ l \in Nat /\ MS!Latest(o) \in Nat /\ time \in Nat
      /\ MS!Latest(MS!Unknown) = 0 /\ MS!Unknown \in States /\ Settled(MS!Unknown)
      /\ {MaxHold, StaleAfter, Skew} \subseteq Nat /\ MaxHold <= StaleAfter
  BY NothingIsKnown, LatestIsNatural, StoreAssumption DEF StoreType, Known
<1>3. /\ MS!Latest(MS!Cut(file[h])) = l /\ MS!Cut(MS!Cut(file[h])) = MS!Cut(file[h])
      /\ MS!Cut(file[h]).ok = file[h].ok /\ MS!Cut(file[h]).fail = file[h].fail
  BY <1>2, CutStates
<1>4. m = IF MS!Latest(o) > MS!Latest(MS!Read[h]) THEN o ELSE MS!Read[h]
  BY DEF MS!Newer
<1>5. CASE MS!Latest(o) > MS!Latest(MS!Read[h])
  <2>1. m = o
    BY <1>4, <1>5
  <2>2. Settled(o)
    <3>1. CASE Settled(o)
      BY <3>1
    <3>2. CASE FromAhead(o, h)
      <4>1. /\ file[h].ok <= time + Skew /\ file[h].fail <= time + Skew /\ MS!Latest(o) <= l
            /\ o.until <= l + MaxHold
        BY <3>2 DEF FromAhead, Near
      <4>2. ~MS!Applies(file[h])
        BY <1>1, <1>2, <1>3, <1>5, <4>1
      <4>3. ~(l + StaleAfter >= time)
        BY <4>1, <4>2 DEF MS!Applies
      <4>4. o.until \in Nat /\ o.ok <= MS!Latest(o) /\ o.fail <= MS!Latest(o)
            /\ o.ok \in Nat /\ o.fail \in Nat
        BY <1>2, LatestIsNatural DEF States
      <4>5. o.ok <= time /\ o.fail <= time /\ o.until <= time
        BY <1>2, <4>1, <4>3, <4>4
      <4> QED
        BY <4>5 DEF Settled, Past
    <3> QED
      BY <3>1, <3>2 DEF TimesAreSound
  <2> QED
    BY <1>2, <2>1, <2>2 DEF SameAs
<1>6. CASE ~(MS!Latest(o) > MS!Latest(MS!Read[h])) /\ ~MS!Applies(file[h])
  <2>1. MS!Read[h] = MS!Unknown /\ m = MS!Unknown
    BY <1>1, <1>4, <1>6
  <2>2. o = MS!Unknown
    BY <1>2, <1>6, <2>1 DEF TimesAreSound
  <2> QED
    BY <1>2, <2>1, <2>2 DEF SameAs
<1>7. CASE ~(MS!Latest(o) > MS!Latest(MS!Read[h])) /\ MS!Applies(file[h])
  <2>1. MS!Read[h] = MS!Cut(file[h]) /\ m = MS!Cut(file[h]) /\ ~(l < MS!Latest(o))
    BY <1>1, <1>2, <1>3, <1>4, <1>7
  <2>2. CASE Ahead(h)
    <3>1. MS!FoundAhead(m)
      BY <1>2, <2>1, <2>2, AheadWhenCut DEF Ahead
    <3>2. Near(m)
      BY <1>3, <1>7, <2>1 DEF Near, MS!Applies
    <3> QED
      BY <1>1, <1>3, <2>1, <2>2, <3>1, <3>2
  <2>3. CASE ~Ahead(h)
    <3>1. SameAs(file[h], o)
      BY <1>1, <1>7, <2>1, <2>3 DEF MemoryIsNewest
    <3>2. Settled(o)
      BY <2>3 DEF TimesAreSound, FromAhead
    <3> QED
      BY <1>1, <1>3, <2>1, <3>1, <3>2 DEF SameAs
  <2> QED
    BY <2>2, <2>3
<1> QED
  BY <1>5, <1>6, <1>7

LEMMA MergeKeeps ==
  ASSUME StoreInv, NEW p \in Procs, Procs = {p}, NEW a \in Agents, MS!Merge(p, a)
  PROVE  StoreInv'
<1> USE DEF StoreInv
<1> DEFINE m == MS!Newer(MS!Read, health[p])
           d == [at |-> "merged", ours |-> health[p], merged |-> m]
<1>1. /\ agent[p][a].at = "changed" /\ ~MS!Saving(p) /\ agent' = [agent EXCEPT ![p][a] = d]
      /\ UNCHANGED <<time, file, loaded, health, saved, behind>>
  BY DEF MS!Merge
<1>2. loaded[p]
  BY <1>1 DEF NothingBeforeLoading, MS!Idle
<1>3. health[p] \in Known
  BY DEF StoreType
<1>4. \A h \in Hosts :
        /\ m[h] \in States
        /\ \/ SameAs(m[h], health[p][h]) /\ Settled(health[p][h])
           \/ /\ Ahead(h) /\ MS!FoundAhead(m[h]) /\ MS!Latest(m[h]) = MS!Latest(file[h])
              /\ Near(m[h])
  BY MergesSoundStates
<1>5. m \in Known
  BY <1>4 DEF MS!Newer, Known
<1> HIDE DEF m
<1>6. d \in Doings /\ d.at = "merged" /\ d.ours = health[p] /\ d.merged = m
  BY <1>3, <1>5 DEF Doings
<1> HIDE DEF d
<1>7. /\ agent' \in [Procs -> [Agents -> Doings]] /\ agent'[p][a] = d
      /\ \A b \in Agents : b # a => agent'[p][b] = agent[p][b]
  BY <1>1, <1>6, OneRequestGoesOn
<1>8. \A b \in Agents : agent'[p][b].at = "merged" => b = a
  BY <1>1, <1>7 DEF MS!Saving
<1>9. StoreType'
  BY <1>1, <1>7 DEF StoreType
<1>10. \A h \in Hosts : (WritesOurs(p, a, h) \/ KeepsAhead(p, a, h))'
  <2> SUFFICES ASSUME NEW h \in Hosts PROVE (WritesOurs(p, a, h) \/ KeepsAhead(p, a, h))'
    OBVIOUS
  <2>1. agent'[p][a].ours[h] = health[p][h] /\ agent'[p][a].merged[h] = m[h]
    BY <1>6, <1>7
  <2>2. CASE SameAs(m[h], health[p][h]) /\ Settled(health[p][h])
    <3>1. WritesOurs(p, a, h)'
      BY <1>1, <2>1, <2>2 DEF WritesOurs, SameAs, Settled, Past, MS!Cut
    <3> QED
      BY <3>1
  <2>3. CASE /\ Ahead(h) /\ MS!FoundAhead(m[h]) /\ MS!Latest(m[h]) = MS!Latest(file[h])
             /\ Near(m[h])
    <3>1. Ahead(h)' /\ Near(agent[p][a].merged[h])'
          /\ MS!Latest(agent[p][a].merged[h])' = MS!Latest(file[h])'
      BY <1>1, <2>1, <2>3, NothingLearned DEF Near, MS!Latest
    <3>2. MS!FoundAhead(agent[p][a].merged[h])'
      BY <2>1, <2>3 DEF MS!FoundAhead, MS!Latest, MS!Cut
    <3> QED
      BY <3>1, <3>2 DEF KeepsAhead
  <2> QED
    BY <1>4, <2>2, <2>3
<1>11. TimesAreSound'
  BY <1>1, <1>8, <1>10, NothingLearned DEF TimesAreSound, Merging, MS!Latest
<1>12. SavedIsInFile'
  BY <1>1, NothingLearned DEF SavedIsInFile, SameAs, Settled, Past, MS!Cut
<1>13. MemoryIsNewest'
  <2>1. \A h \in Hosts : /\ MS!Latest(file[h])' = MS!Latest(file[h])
                         /\ MS!Latest(health[p][h])' = MS!Latest(health[p][h])
                         /\ SameAs(file[h], health[p][h])' = SameAs(file[h], health[p][h])
    BY <1>1 DEF SameAs, MS!Latest, MS!Cut
  <2>2. \A b \in Agents : Merging(p, b)' => b = a /\ agent'[p][b].ours = health'[p]
    BY <1>1, <1>6, <1>7, <1>8 DEF Merging
  <2> QED
    BY <1>1, <2>1, <2>2, NothingLearned DEF MemoryIsNewest
<1>14. OneMerges' /\ WritesAll'
  BY <1>1, <1>6, <1>7, <1>8 DEF OneMerges, WritesAll, Merging
<1>15. NothingBeforeLoading' /\ ChangesTell'
  BY <1>1, <1>2, <1>6, <1>7 DEF NothingBeforeLoading, ChangesTell
<1>16. OnItsWay'
  <2>1. MS!Saving(p)'
    BY <1>6, <1>7 DEF MS!Saving
  <2> QED
    BY <2>1 DEF OnItsWay
<1> QED
  BY <1>9, <1>11, <1>12, <1>13, <1>14, <1>15, <1>16

LEMMA WriteKeeps ==
  ASSUME StoreInv, NEW p \in Procs, Procs = {p}, NEW a \in Agents, MS!Write(p, a)
  PROVE  StoreInv'
<1> USE DEF StoreInv
<1> DEFINE ours == agent[p][a].ours
           m == agent[p][a].merged
<1>1. /\ Merging(p, a) /\ file' = m /\ saved' = [saved EXCEPT ![p] = ours]
      /\ behind' = [behind EXCEPT ![p] = FALSE]
      /\ agent' = [agent EXCEPT ![p][a] = MS!Idle]
      /\ UNCHANGED <<time, loaded, health>>
  BY DEF MS!Write, Merging
<1>2. MS!Idle \in Doings /\ MS!Idle.at = "idle"
  BY DEF Doings, MS!Idle
<1>3. /\ agent' \in [Procs -> [Agents -> Doings]] /\ agent'[p][a] = MS!Idle
      /\ \A b \in Agents : b # a => agent'[p][b] = agent[p][b]
  BY <1>1, <1>2, OneRequestGoesOn
<1>4. loaded[p]
  BY <1>1, <1>2 DEF NothingBeforeLoading, Merging
<1>5. ours \in Known /\ m \in Known
  BY <1>1, KindsOfDoings DEF StoreType, Merging
<1>6. \A h \in Hosts :
        \/ SameAs(m[h], ours[h]) /\ Settled(ours[h]) /\ Settled(health[p][h])
        \/ /\ Ahead(h) /\ MS!FoundAhead(m[h]) /\ MS!Latest(m[h]) = MS!Latest(file[h])
           /\ Near(m[h])
  BY <1>1 DEF TimesAreSound, WritesOurs, KeepsAhead
<1>7. \A h \in Hosts :
        /\ \/ Ahead(h) /\ MS!FoundAhead(m[h])
           \/ MS!Latest(ours[h]) < MS!Latest(health[p][h])
           \/ ours[h] = health[p][h]
        /\ ours[h] = health[p][h] \/ ToReport(p, h)
  BY <1>1 DEF MemoryIsNewest, WritesAll, KeepsAhead
<1> HIDE DEF ours, m
<1>8. saved'[p] = ours /\ behind'[p] = FALSE
  BY <1>1 DEF StoreType
<1>9. StoreType'
  BY <1>1, <1>3, <1>5 DEF StoreType
<1>10. \A b \in Agents : agent'[p][b].at # "merged"
  BY <1>1, <1>2, <1>3 DEF OneMerges, Merging
<1>11. ASSUME NEW h \in Hosts
       PROVE  /\ Ahead(h)' = MS!FoundAhead(m[h]) /\ MS!Latest(file[h])' = MS!Latest(m[h])
              /\ Near(file[h])' = Near(m[h]) /\ Past(file[h])' = Past(m[h])
              /\ Settled(health[p][h])' = Settled(health[p][h])
              /\ MS!Latest(health[p][h])' = MS!Latest(health[p][h])
              /\ Settled(saved[p][h])' = Settled(ours[h])
              /\ SameAs(file[h], health[p][h])' = SameAs(m[h], health[p][h])
              /\ SameAs(saved[p][h], file[h])' = SameAs(ours[h], m[h])
              /\ m[h] \in States /\ ours[h] \in States /\ health[p][h] \in States
  <2>1. file'[h] = m[h] /\ saved'[p][h] = ours[h]
    BY <1>1, <1>8
  <2>2. m[h] \in States /\ ours[h] \in States /\ health[p][h] \in States
    BY <1>5 DEF Known, StoreType
  <2>3. /\ Ahead(h)' = MS!FoundAhead(m[h]) /\ MS!Latest(file[h])' = MS!Latest(m[h])
        /\ Near(file[h])' = Near(m[h]) /\ Past(file[h])' = Past(m[h])
    BY <1>1, <2>1 DEF Ahead, Past, Near, MS!FoundAhead, MS!Latest, MS!Cut
  <2>4. /\ Settled(health[p][h])' = Settled(health[p][h])
        /\ MS!Latest(health[p][h])' = MS!Latest(health[p][h])
        /\ Settled(saved[p][h])' = Settled(ours[h])
    BY <1>1, <2>1 DEF Past, Settled, MS!Latest, MS!Cut
  <2>5. /\ SameAs(file[h], health[p][h])' = SameAs(m[h], health[p][h])
        /\ SameAs(saved[p][h], file[h])' = SameAs(ours[h], m[h])
    BY <1>1, <2>1 DEF SameAs, MS!Cut
  <2> QED
    BY <2>2, <2>3, <2>4, <2>5
<1>12. TimesAreSound'
  <2>1. ASSUME NEW h \in Hosts
        PROVE  /\ Ahead(h)' \/ Past(file[h])'
               /\ Settled(health[p][h])' \/ FromAhead(health[p][h], h)'
               /\ MS!Latest(health[p][h])' = 0 => health'[p][h] = MS!Unknown
    <3>1. CASE SameAs(m[h], ours[h]) /\ Settled(ours[h]) /\ Settled(health[p][h])
      <4>1. Past(m[h])
        BY <1>11, <3>1, SameTimes DEF Settled, Past
      <4> QED
        BY <1>1, <1>11, <3>1, <4>1 DEF TimesAreSound
    <3>2. CASE /\ Ahead(h) /\ MS!FoundAhead(m[h]) /\ MS!Latest(m[h]) = MS!Latest(file[h])
               /\ Near(m[h])
      <4>1. Ahead(h)' /\ Near(file[h])' /\ MS!Latest(file[h])' = MS!Latest(file[h])
        BY <1>11, <3>2
      <4>2. FromAhead(health[p][h], h) => FromAhead(health[p][h], h)'
        <5> SUFFICES ASSUME FromAhead(health[p][h], h) PROVE FromAhead(health[p][h], h)'
          OBVIOUS
        <5>1. MS!Latest(health[p][h])' <= MS!Latest(file[h])' /\ health'[p][h].until <= MS!Latest(file[h])' + MaxHold
          BY <1>1, <1>11, <4>1 DEF FromAhead
        <5> QED
          BY <4>1, <5>1 DEF FromAhead
      <4> QED
        BY <1>1, <1>11, <4>1, <4>2 DEF TimesAreSound
    <3> QED
      BY <1>6, <3>1, <3>2
  <2> QED
    BY <1>10, <2>1 DEF TimesAreSound, Merging
<1>13. MemoryIsNewest'
  <2> SUFFICES ASSUME NEW h \in Hosts, ~Ahead(h)'
               PROVE  MS!Latest(file[h])' < MS!Latest(health[p][h])' \/ SameAs(file[h], health[p][h])'
    BY <1>10 DEF MemoryIsNewest, Merging
  <2>1. ~MS!FoundAhead(m[h])
    BY <1>11
  <2>2. SameAs(m[h], ours[h]) /\ MS!Latest(m[h]) = MS!Latest(ours[h])
    BY <1>6, <1>11, <2>1, SameTimes
  <2> QED
    BY <1>7, <1>11, <2>1, <2>2
<1>14. SavedIsInFile'
  BY <1>6, <1>11 DEF SavedIsInFile, SameAs
<1>15. NothingBeforeLoading' /\ ChangesTell' /\ OneMerges' /\ WritesAll'
  BY <1>1, <1>2, <1>3, <1>4, <1>10 DEF NothingBeforeLoading, ChangesTell, OneMerges, WritesAll, Merging
<1>16. OnItsWay'
  <2> SUFFICES ASSUME NEW h \in Hosts, ~Ahead(h)' PROVE InFile(p, h)' \/ ToReport(p, h)'
    BY DEF OnItsWay
  <2>1. CASE ours[h] = health[p][h]
    <3>1. SameAs(m[h], ours[h])
      BY <1>6, <1>11
    <3>2. m[h].ok = ours[h].ok /\ ours[h].ok < ours[h].ok + SaveEvery
      BY <1>11, <3>1, SameTimes, StoreAssumption DEF States
    <3>3. MS!SameHold(file[h], health[p][h])'
      BY <1>11, <2>1, <3>1 DEF SameAs, MS!SameHold
    <3> QED
      BY <1>1, <2>1, <3>2, <3>3 DEF InFile
  <2>2. CASE ToReport(p, h)
    <3>1. PICK b \in Agents : agent[p][b] = [at |-> "changed", host |-> h, state |-> health[p][h]]
      BY <2>2 DEF ToReport
    <3>2. b # a
      BY <1>1, <3>1 DEF Merging
    <3> QED
      BY <1>1, <1>3, <3>1, <3>2 DEF ToReport
  <2> QED
    BY <1>7, <2>1, <2>2
<1> QED
  BY <1>9, <1>12, <1>13, <1>14, <1>15, <1>16

LEMMA WriteFailsKeeps ==
  ASSUME StoreInv, NEW p \in Procs, Procs = {p}, NEW a \in Agents, MS!WriteFails(p, a)
  PROVE  StoreInv'
<1> USE DEF StoreInv
<1>1. /\ Merging(p, a) /\ behind' = [behind EXCEPT ![p] = TRUE]
      /\ agent' = [agent EXCEPT ![p][a] = MS!Idle]
      /\ UNCHANGED <<time, file, loaded, health, saved>>
  BY DEF MS!WriteFails, Merging
<1>2. MS!Idle \in Doings /\ MS!Idle.at = "idle"
  BY DEF Doings, MS!Idle
<1>3. /\ agent' \in [Procs -> [Agents -> Doings]] /\ agent'[p][a] = MS!Idle
      /\ \A b \in Agents : b # a => agent'[p][b] = agent[p][b]
  BY <1>1, <1>2, OneRequestGoesOn
<1>4. \A b \in Agents : agent'[p][b].at # "merged"
  BY <1>1, <1>2, <1>3 DEF OneMerges, Merging
<1>5. loaded[p] /\ behind'[p] = TRUE
  BY <1>1, <1>2 DEF NothingBeforeLoading, Merging, StoreType
<1>6. StoreType'
  BY <1>1, <1>3 DEF StoreType
<1>7. TimesAreSound' /\ MemoryIsNewest' /\ SavedIsInFile' /\ OneMerges' /\ WritesAll'
  BY <1>1, <1>4, NothingWritten
<1>8. NothingBeforeLoading' /\ ChangesTell' /\ OnItsWay'
  BY <1>1, <1>2, <1>3, <1>5 DEF NothingBeforeLoading, ChangesTell, OnItsWay
<1> QED
  BY <1>6, <1>7, <1>8

LEMMA RestartKeeps == ASSUME StoreInv, NEW p \in Procs, Procs = {p}, MS!Restart(p) PROVE StoreInv'
<1> USE DEF StoreInv
<1>1. /\ loaded' = [loaded EXCEPT ![p] = FALSE]
      /\ health' = [health EXCEPT ![p] = [h \in Hosts |-> MS!Unknown]]
      /\ saved' = [saved EXCEPT ![p] = [h \in Hosts |-> MS!Unknown]]
      /\ agent' = [agent EXCEPT ![p] = [a \in Agents |-> MS!Idle]]
      /\ behind' = [behind EXCEPT ![p] = FALSE]
      /\ UNCHANGED <<time, file>>
  BY DEF MS!Restart
<1>2. MS!Unknown \in States /\ Settled(MS!Unknown) /\ MS!Latest(MS!Unknown) = 0
  BY NothingIsKnown DEF StoreType
<1>3. MS!Idle \in Doings /\ MS!Idle.at = "idle"
  BY DEF Doings, MS!Idle
<1>4. [h \in Hosts |-> MS!Unknown] \in Known /\ [a \in Agents |-> MS!Idle] \in [Agents -> Doings]
  BY <1>2, <1>3 DEF Known
<1>5. StoreType'
  BY <1>1, <1>4 DEF StoreType
<1>6. /\ ~loaded'[p] /\ \A h \in Hosts : health'[p][h] = MS!Unknown /\ saved'[p][h] = MS!Unknown
      /\ \A a \in Agents : agent'[p][a] = MS!Idle
  BY <1>1 DEF StoreType
<1>7. TimesAreSound'
  <2>1. \A h \in Hosts : Ahead(h)' \/ Past(file[h])'
    BY <1>1 DEF TimesAreSound, Ahead, Past, MS!FoundAhead, MS!Latest, MS!Cut
  <2>2. \A h \in Hosts : Settled(health[p][h])'
    BY <1>1, <1>2, <1>6 DEF Settled, Past, MS!Cut
  <2> QED
    BY <1>3, <1>6, <2>1, <2>2 DEF TimesAreSound, Merging
<1>8. OnItsWay'
  BY <1>2, <1>6 DEF OnItsWay, MS!Latest
<1> QED
  BY <1>3, <1>5, <1>6, <1>7, <1>8 DEF NothingBeforeLoading, MemoryIsNewest, SavedIsInFile,
     OneMerges, ChangesTell, WritesAll, Merging

(* Every other part leaves the store alone. *)
LEMMA StoreElsewhere == ASSUME [PartsNext]_vars PROVE MS!Next \/ UNCHANGED storeVars
BY DEF PartsNext, vars, clientVars, Deliver, Search, Read, LookUp, Stats, Requesting, Store,
       Launch, Account

(* The inductive invariant of mirrors.json and its process holds throughout. *)
THEOREM StoreInvariant == PartsSpec => []StoreInv
<1>1. PartsInit => StoreInv
  BY StoreStarts DEF PartsInit
<1>2. StoreInv /\ [PartsNext]_vars => StoreInv'
  <2> SUFFICES ASSUME StoreInv, [PartsNext]_vars PROVE StoreInv'
    OBVIOUS
  <2>1. MS!Next \/ UNCHANGED storeVars
    BY StoreElsewhere
  <2>2. PICK p \in Procs : Procs = {p}
    BY StoreAssumption
  <2>3. ASSUME MS!Next, ~MS!Tick PROVE StoreInv'
    BY <2>2, <2>3, LoadKeeps, RestartKeeps, UpdateKeeps, SkipKeeps, MergeKeeps, WriteKeeps,
       WriteFailsKeeps DEF MS!Next
  <2> QED
    BY <2>1, <2>3, TickKeeps
<1> QED
  BY <1>1, <1>2, PTL DEF PartsSpec

(* FileCatchesUp of MirrorStore.tla, for any mirrors, requests, intervals  *)
(* and contents of mirrors.json, damaged or not, its times past or ahead   *)
(* of the clock: when store.go has handled every change of its only        *)
(* process, in whatever order the requests reported them, the file has     *)
(* every hold that is not over, and no success that is much older, of each *)
(* mirror of which it does not still have a state that was found ahead of  *)
(* the clock; and no hold lasts longer than a failure may cause.           *)
THEOREM TheFileCatchesUp == PartsSpec => []FileCatchesUp
<1>1. StoreInv => FileCatchesUp
  <2> SUFFICES ASSUME StoreInv, NEW p \in Procs, NEW h \in Hosts
               PROVE  /\ (\A a \in Agents : agent[p][a] = MS!Idle) /\ ~behind[p]
                         /\ MS!Latest(health[p][h]) # 0 /\ ~Ahead(h) => InFile(p, h)
                      /\ health[p][h].until <= time + Skew + MaxHold
    BY DEF FileCatchesUp, MS!FileCatchesUp, InFile, Ahead
  <2>1. ASSUME \A a \in Agents : agent[p][a] = MS!Idle PROVE ~MS!Saving(p) /\ ~ToReport(p, h)
    BY <2>1 DEF MS!Saving, ToReport, MS!Idle
  <2>2. health[p][h].until <= time + Skew + MaxHold
    <3> DEFINE s == health[p][h]
               f == file[h]
    <3>1. s \in States /\ f \in States /\ time \in Nat /\ {Skew, MaxHold} \subseteq Nat
      BY StoreAssumption DEF StoreInv, StoreType, Known
    <3>2. CASE Settled(s)
      <4>1. s.until <= time \/ s.until <= IF s.fail = 0 THEN 0 ELSE s.fail + MaxHold
        BY <3>1, <3>2, CutStates DEF Settled
      <4>2. s.fail <= time /\ s.fail \in Nat /\ s.until \in Nat
        BY <3>1, <3>2 DEF Settled, Past, States
      <4> QED
        BY <3>1, <4>1, <4>2
    <3>3. CASE FromAhead(s, h)
      <4>1. /\ MS!Latest(f) \in {f.ok, f.fail} /\ f.ok <= time + Skew /\ f.fail <= time + Skew
            /\ f.ok \in Nat /\ f.fail \in Nat /\ s.until \in Nat /\ s.until <= MS!Latest(f) + MaxHold
        BY <3>1, <3>3, LatestIsNatural DEF FromAhead, Near, States
      <4> QED
        BY <3>1, <4>1
    <3> QED
      BY <3>2, <3>3 DEF StoreInv, TimesAreSound
  <2> QED
    BY <2>1, <2>2 DEF StoreInv, OnItsWay
<1> QED
  BY <1>1, StoreInvariant, PTL

(***************************************************************************)
(* The reading of a text                                                   *)
(***************************************************************************)

Positions == [id : {0, 1}, digest : {0, 1}, paragraph : Nat, offset : Nat]

ReadType ==
  /\ tokens \in Nat /\ stack \in Seq(Names)
  /\ block \in [depth : Nat, name : Names \cup {None}, text : Seq(Nat)]
  /\ paragraphs \in Seq(Seq(Nat)) /\ body \in Seq(Nat) /\ read \in Seq(Nat)
  /\ source \in [id : {0, 1}, digest : {0, 1}]
  /\ phase \in {"extract", "unreadable", "ready", "paging", "full"}
  /\ {cursor, offered} \subseteq Positions \cup {None}
  /\ room \in Nat /\ page \in Seq(Seq(Nat)) /\ answered \in Nat

(* The first i elements are a place where blocks are text.                 *)
Within(s, i) ==
  /\ \E a, b \in 1..i : a < b /\ s[a] = "tei" /\ s[b] = "text"
  /\ \A a \in 1..i : s[a] \notin RP!Outside

BlockAt(s, i) == s[i] \in RP!Blocks /\ Within(s, i)

(* The block that is read is the outermost that is open. *)
BlockIsOutermost ==
  phase = "extract" =>
    IF block.depth = 0 THEN \A i \in 1..Len(stack) : ~BlockAt(stack, i)
    ELSE /\ block.depth \in 1..Len(stack) /\ block.name = stack[block.depth]
         /\ BlockAt(stack, block.depth)
         /\ \A i \in 1..(block.depth - 1) : ~BlockAt(stack, i)

BodyBlock == phase = "extract" /\ block.depth # 0 /\ block.name # "head"

(* What is in the body and in no paragraph yet. *)
Rest == IF BodyBlock THEN block.text ELSE <<>>

(* Each paragraph k is in the body after its first start[k] characters. *)
Lays(start) ==
  /\ start \in [1..(Len(paragraphs) + 1) -> Nat] /\ start[1] = 0
  /\ \A j, k \in 1..(Len(paragraphs) + 1) : j <= k => start[j] <= start[k]
  /\ \A k \in 1..Len(paragraphs) :
       /\ start[k + 1] = start[k] + Len(paragraphs[k])
       /\ start[k] + Len(paragraphs[k]) <= Len(body)
       /\ \A i \in 1..Len(paragraphs[k]) : body[start[k] + i] = paragraphs[k][i]
  /\ Len(body) = start[Len(paragraphs) + 1] + Len(Rest)
  /\ \A i \in 1..Len(Rest) : body[start[Len(paragraphs) + 1] + i] = Rest[i]

Current == cursor # None /\ cursor.digest = source.digest

(* What was read is the body up to the cursor. *)
ReadsTo(start) ==
  Current =>
    /\ cursor.paragraph \in 1..(Len(paragraphs) + 1)
    /\ IF cursor.paragraph <= Len(paragraphs)
       THEN cursor.offset <= Len(paragraphs[cursor.paragraph]) ELSE cursor.offset = 0
    /\ Len(read) = start[cursor.paragraph] + cursor.offset
    /\ Len(read) <= Len(body) /\ \A i \in 1..Len(read) : read[i] = body[i]

TextIsInPlace == phase # "unreadable" => \E start : Lays(start) /\ ReadsTo(start)

(* Where the reader is. *)
ReadStages ==
  /\ phase \in {"extract", "unreadable"} => cursor = None /\ answered = 0 /\ offered = None
  /\ phase \notin {"extract", "unreadable"} => paragraphs # <<>>
  /\ phase \in {"paging", "full"} => Current /\ offered = None
  /\ phase = "paging" /\ page = <<>> => room > 0 /\ cursor.paragraph <= Len(paragraphs)
  /\ phase = "full" => page # <<>> /\ cursor.paragraph <= Len(paragraphs)
  /\ phase = "ready" /\ answered > 0 => page # <<>> /\ cursor # None

(* A continuation is where the reading stopped, until the text changes. *)
OffersGoOn ==
  /\ cursor # None => cursor.digest <= source.digest
  /\ Current => cursor.id = source.id
  /\ offered # None =>
       /\ offered = cursor
       /\ Current => cursor.paragraph <= Len(paragraphs)
  /\ phase = "ready" /\ answered > 0 /\ offered = None /\ Current =>
       cursor.paragraph = Len(paragraphs) + 1

ReadInv ==
  ReadType /\ BlockIsOutermost /\ TextIsInPlace /\ ReadStages /\ OffersGoOn

(* A place in a stack is where the first elements of it lead. *)
LEMMA WithinIsContext ==
  ASSUME NEW s \in Seq(Names), NEW i \in 1..Len(s)
  PROVE  RP!ParagraphContext(SubSeq(s, 1, i)) <=> Within(s, i)
<1>1. /\ SubSeq(s, 1, i) \in Seq(Names) /\ Len(SubSeq(s, 1, i)) = i
      /\ \A a \in 1..i : SubSeq(s, 1, i)[a] = s[a]
  <2>1. \A a \in 1..i : s[a] \in Names
    BY LenProperties
  <2>2. 1 \in Int /\ i \in Int /\ i >= 1
    BY LenProperties
  <2> QED
    BY <2>1, <2>2, SubSeqProperties
<1>2. DOMAIN SubSeq(s, 1, i) = 1..i
  BY <1>1, LenProperties
<1> QED
  BY <1>1, <1>2 DEF RP!ParagraphContext, Within

LEMMA WithinOfAll ==
  ASSUME NEW s \in Seq(Names)
  PROVE  RP!ParagraphContext(s) <=> Within(s, Len(s))
BY LenProperties DEF RP!ParagraphContext, Within

(* Stacks that begin alike have the same blocks there. *)
LEMMA BlocksStay ==
  ASSUME NEW s, NEW t, NEW n \in Nat, \A a \in 1..n : s[a] = t[a]
  PROVE  \A i \in 1..n : BlockAt(s, i) <=> BlockAt(t, i)
<1> SUFFICES ASSUME NEW i \in 1..n PROVE BlockAt(s, i) <=> BlockAt(t, i)
  OBVIOUS
<1>1. \A a \in 1..i : s[a] = t[a]
  OBVIOUS
<1>2. Within(s, i) <=> Within(t, i)
  BY <1>1 DEF Within
<1> QED
  BY <1>1, <1>2 DEF BlockAt

(* Text is of the body just when the block that is read is no heading.     *)
LEMMA BodyIsRead ==
  ASSUME ReadType, BlockIsOutermost, phase = "extract"
  PROVE  RP!InBody(stack) <=> BodyBlock
<1> DEFINE At(i) == stack[i] \in RP!Blocks /\ RP!ParagraphContext(SubSeq(stack, 1, i))
<1>1. Len(stack) \in Nat /\ DOMAIN stack = 1..Len(stack) /\ block.depth \in Nat
  BY LenProperties DEF ReadType
<1>2. \A i \in 1..Len(stack) : At(i) <=> BlockAt(stack, i)
  BY WithinIsContext DEF ReadType, BlockAt
<1>3. RP!InBody(stack) <=> \E i \in 1..Len(stack) : /\ At(i) /\ stack[i] # "head"
                                                     /\ \A j \in 1..(i - 1) : ~At(j)
  BY <1>1 DEF RP!InBody
<1> HIDE DEF At
<1>4. RP!InBody(stack) <=> \E i \in 1..Len(stack) : /\ BlockAt(stack, i) /\ stack[i] # "head"
                                                     /\ \A j \in 1..(i - 1) : ~BlockAt(stack, j)
  <2>1. \A i \in 1..Len(stack) : \A j \in 1..(i - 1) : j \in 1..Len(stack)
    BY <1>1
  <2> QED
    BY <1>2, <1>3, <2>1
<1>5. CASE block.depth = 0
  BY <1>4, <1>5 DEF BlockIsOutermost, BodyBlock
<1>6. CASE block.depth # 0
  <2>1. /\ block.depth \in 1..Len(stack) /\ block.name = stack[block.depth]
        /\ BlockAt(stack, block.depth)
        /\ \A i \in 1..(block.depth - 1) : ~BlockAt(stack, i)
    BY <1>6 DEF BlockIsOutermost
  <2>2. \A i \in 1..Len(stack) :
          BlockAt(stack, i) /\ (\A j \in 1..(i - 1) : ~BlockAt(stack, j)) => i = block.depth
    <3> SUFFICES ASSUME NEW i \in 1..Len(stack), BlockAt(stack, i),
                        \A j \in 1..(i - 1) : ~BlockAt(stack, j)
                 PROVE  i = block.depth
      OBVIOUS
    <3>1. ~(i \in 1..(block.depth - 1)) /\ ~(block.depth \in 1..(i - 1))
      BY <2>1
    <3> QED
      BY <1>1, <2>1, <3>1
  <2> QED
    BY <1>4, <1>6, <2>1, <2>2 DEF BodyBlock
<1> QED
  BY <1>5, <1>6

LEMMA ReadStarts == RP!Init => ReadInv
<1> SUFFICES ASSUME RP!Init PROVE ReadInv
  OBVIOUS
<1>1. /\ stack = <<>> /\ block = RP!NoBlock /\ paragraphs = <<>> /\ body = <<>> /\ read = <<>>
      /\ phase = "extract" /\ cursor = None /\ offered = None /\ answered = 0
      /\ page = <<>> /\ source = [id |-> 0, digest |-> 0] /\ room = 0 /\ tokens = 0
  BY DEF RP!Init
<1>2. ReadType
  BY <1>1 DEF ReadType, RP!NoBlock
<1>3. BlockIsOutermost
  BY <1>1 DEF BlockIsOutermost, RP!NoBlock
<1>4. TextIsInPlace
  <2>1. Rest = <<>> /\ Len(<<>>) = 0
    BY <1>1 DEF Rest, BodyBlock, RP!NoBlock
  <2>2. Lays([k \in 1..1 |-> 0])
    <3>1. Len(paragraphs) + 1 = 1
      BY <1>1, <2>1
    <3> QED
      BY <1>1, <2>1, <3>1 DEF Lays
  <2>3. ReadsTo([k \in 1..1 |-> 0])
    BY <1>1 DEF ReadsTo, Current
  <2> QED
    BY <2>2, <2>3 DEF TextIsInPlace
<1>5. ReadStages /\ OffersGoOn
  BY <1>1 DEF ReadStages, OffersGoOn, Current
<1> QED
  BY <1>2, <1>3, <1>4, <1>5 DEF ReadInv

(* While a text is extracted nobody reads it. *)
LEMMA NobodyReads ==
  ASSUME ReadInv, phase = "extract", UNCHANGED <<cursor, offered, answered, source>>,
         phase' \in {"extract", "unreadable", "ready"},
         phase' = "ready" => paragraphs' # <<>>
  PROVE  ReadStages' /\ OffersGoOn' /\ \A start : ReadsTo(start)'
<1>1. cursor' = None /\ offered' = None /\ answered' = 0
  BY DEF ReadInv, ReadStages
<1> QED
  BY <1>1 DEF ReadStages, OffersGoOn, ReadsTo, Current

LEMMA OpenKeeps == ASSUME ReadInv, NEW name \in Names, RP!Open(name) PROVE ReadInv'
<1>1. /\ phase = "extract" /\ tokens' = tokens + 1 /\ stack' = Append(stack, name)
      /\ UNCHANGED <<paragraphs, body, source, cursor, room, page, offered, read, answered>>
  BY DEF RP!Open, RP!Token, RP!reading
<1>2. stack \in Seq(Names) /\ Len(stack) \in Nat /\ stack' \in Seq(Names)
      /\ Len(stack') = Len(stack) + 1 /\ stack'[Len(stack')] = name
      /\ \A i \in 1..Len(stack) : stack'[i] = stack[i]
  BY <1>1, AppendProperties, LenProperties DEF ReadInv, ReadType
<1>3. \A i \in 1..Len(stack) : BlockAt(stack, i) <=> BlockAt(stack', i)
  BY <1>2, BlocksStay
<1> DEFINE Starts == block.depth = 0 /\ RP!ParagraphContext(stack') /\ name \in RP!Blocks
           Opened == [depth |-> Len(stack'), name |-> name, text |-> <<>>]
<1>4. phase' \in {"extract", "unreadable"}
  BY <1>1 DEF RP!Open
<1>5. phase' = "extract" => block' = IF Starts THEN Opened ELSE block
  BY <1>1 DEF RP!Open
<1>6. block' \in [depth : Nat, name : Names \cup {None}, text : Seq(Nat)]
  <2>1. block' = block \/ block' = Opened
    BY DEF RP!Open
  <2>2. Opened \in [depth : Nat, name : Names \cup {None}, text : Seq(Nat)]
    BY <1>2
  <2> QED
    BY <2>1, <2>2 DEF ReadInv, ReadType
<1>7. ReadType'
  BY <1>1, <1>2, <1>4, <1>6 DEF ReadInv, ReadType
<1>8. Starts <=> block.depth = 0 /\ BlockAt(stack', Len(stack'))
  BY <1>2, WithinOfAll DEF BlockAt
<1> HIDE DEF Starts
<1>9. ASSUME phase' = "extract" PROVE BlockIsOutermost' /\ Rest' = Rest
  <2>1. CASE Starts
    <3>1. block' = Opened /\ block.depth = 0
      BY <1>5, <1>8, <1>9, <2>1
    <3>2. \A i \in 1..Len(stack) : ~BlockAt(stack', i)
      BY <1>1, <1>3, <3>1 DEF ReadInv, BlockIsOutermost
    <3>3. block'.depth = Len(stack) + 1 /\ block'.name = name /\ block'.text = <<>>
      BY <1>2, <3>1
    <3>4. BlockIsOutermost'
      BY <1>2, <1>8, <2>1, <3>2, <3>3 DEF BlockIsOutermost, BlockAt, Within
    <3>5. Rest' = <<>> /\ Rest = <<>>
      BY <3>1, <3>3 DEF Rest, BodyBlock
    <3> QED
      BY <3>4, <3>5
  <2>2. CASE ~Starts
    <3>1. block' = block
      BY <1>5, <1>9, <2>2
    <3>2. CASE block.depth = 0
      <4>1. \A i \in 1..Len(stack) : ~BlockAt(stack', i)
        BY <1>1, <1>3, <3>2 DEF ReadInv, BlockIsOutermost
      <4>2. ~BlockAt(stack', Len(stack'))
        BY <1>8, <2>2, <3>2
      <4>3. \A i \in 1..Len(stack') : ~BlockAt(stack', i)
        BY <1>2, <4>1, <4>2
      <4>4. BlockIsOutermost'
        BY <3>1, <3>2, <4>3 DEF BlockIsOutermost, BlockAt, Within
      <4> QED
        BY <1>1, <1>9, <3>1, <4>4 DEF Rest, BodyBlock
    <3>3. CASE block.depth # 0
      <4>1. /\ block.depth \in 1..Len(stack) /\ block.name = stack[block.depth]
            /\ BlockAt(stack, block.depth)
            /\ \A i \in 1..(block.depth - 1) : ~BlockAt(stack, i)
        BY <1>1, <3>3 DEF ReadInv, BlockIsOutermost
      <4>2. \A i \in 1..(block.depth - 1) : i \in 1..Len(stack)
        BY <1>2, <4>1
      <4>3. /\ block.depth \in 1..Len(stack') /\ block.name = stack'[block.depth]
            /\ BlockAt(stack', block.depth)
            /\ \A i \in 1..(block.depth - 1) : ~BlockAt(stack', i)
        BY <1>2, <1>3, <4>1, <4>2
      <4>4. BlockIsOutermost'
        BY <3>1, <3>3, <4>3 DEF BlockIsOutermost, BlockAt, Within
      <4> QED
        BY <1>1, <1>9, <3>1, <4>4 DEF Rest, BodyBlock
    <3> QED
      BY <3>2, <3>3
  <2> QED
    BY <2>1, <2>2
<1>10. BlockIsOutermost'
  BY <1>4, <1>9 DEF BlockIsOutermost
<1>11. ReadStages' /\ OffersGoOn' /\ \A start : ReadsTo(start)'
  BY <1>1, <1>4, NobodyReads
<1>12. TextIsInPlace'
  <2> SUFFICES ASSUME phase' # "unreadable" PROVE TextIsInPlace'
    BY DEF TextIsInPlace
  <2>1. PICK start : Lays(start)
    BY <1>1 DEF ReadInv, TextIsInPlace
  <2>2. Lays(start)'
    BY <1>1, <1>4, <1>9, <2>1 DEF Lays
  <2> QED
    BY <1>11, <2>2 DEF TextIsInPlace
<1> QED
  BY <1>7, <1>10, <1>11, <1>12 DEF ReadInv

LEMMA CharsKeep == ASSUME ReadInv, RP!Chars PROVE ReadInv'
<1>1. /\ phase = "extract" /\ tokens' = tokens + 1
      /\ block' = IF block.depth # 0 THEN [block EXCEPT !.text = Append(@, tokens)] ELSE block
      /\ body' = IF BodyBlock THEN Append(body, tokens) ELSE body
      /\ UNCHANGED <<stack, paragraphs, source, phase, cursor, room, page, offered, read, answered>>
  BY BodyIsRead DEF RP!Chars, RP!Token, RP!reading, ReadInv
<1>2. /\ tokens \in Nat /\ block \in [depth : Nat, name : Names \cup {None}, text : Seq(Nat)]
      /\ body \in Seq(Nat) /\ paragraphs \in Seq(Seq(Nat))
  BY DEF ReadInv, ReadType
<1>3. /\ Append(block.text, tokens) \in Seq(Nat)
      /\ Len(block.text) \in Nat /\ Len(Append(block.text, tokens)) = Len(block.text) + 1
      /\ Append(block.text, tokens)[Len(block.text) + 1] = tokens
      /\ \A i \in 1..Len(block.text) : Append(block.text, tokens)[i] = block.text[i]
  BY <1>2, AppendProperties, LenProperties
<1>4. /\ Append(body, tokens) \in Seq(Nat)
      /\ Len(body) \in Nat /\ Len(Append(body, tokens)) = Len(body) + 1
      /\ Append(body, tokens)[Len(body) + 1] = tokens
      /\ \A i \in 1..Len(body) : Append(body, tokens)[i] = body[i]
  BY <1>2, AppendProperties, LenProperties
<1>5. /\ block' \in [depth : Nat, name : Names \cup {None}, text : Seq(Nat)]
      /\ block'.depth = block.depth /\ block'.name = block.name
      /\ block.depth # 0 => block'.text = Append(block.text, tokens)
  BY <1>1, <1>2, <1>3
<1>6. ReadType'
  BY <1>1, <1>2, <1>4, <1>5 DEF ReadInv, ReadType
<1>7. BlockIsOutermost'
  BY <1>1, <1>5 DEF ReadInv, BlockIsOutermost, BlockAt, Within
<1>8. ReadStages' /\ OffersGoOn' /\ \A start : ReadsTo(start)'
  BY <1>1, NobodyReads
<1>9. TextIsInPlace'
  <2>1. PICK start : Lays(start)
    BY <1>1 DEF ReadInv, TextIsInPlace
  <2>2. CASE ~BodyBlock
    <3>1. Rest = <<>> /\ Rest' = <<>> /\ body' = body
      BY <1>1, <1>5, <2>2 DEF Rest, BodyBlock
    <3>2. Lays(start)'
      BY <1>1, <2>1, <3>1 DEF Lays
    <3> QED
      BY <1>8, <3>2 DEF TextIsInPlace
  <2>3. CASE BodyBlock
    <3>1. Rest = block.text /\ Rest' = Append(block.text, tokens) /\ body' = Append(body, tokens)
      BY <1>1, <1>5, <2>3 DEF Rest, BodyBlock
    <3> DEFINE n == Len(paragraphs)
    <3>2. n \in Nat /\ \A k \in 1..n : paragraphs[k] \in Seq(Nat) /\ Len(paragraphs[k]) \in Nat
      BY <1>2, LenProperties
    <3>3. start \in [1..(n + 1) -> Nat] /\ start[n + 1] \in Nat
      BY <2>1, <3>2 DEF Lays
    <3>4. Len(body) = start[n + 1] + Len(block.text)
      BY <2>1, <3>1 DEF Lays
    <3>5. ASSUME NEW k \in 1..n
          PROVE  /\ start[k + 1] = start[k] + Len(paragraphs[k])
                 /\ start[k] + Len(paragraphs[k]) <= Len(body')
                 /\ \A i \in 1..Len(paragraphs[k]) : body'[start[k] + i] = paragraphs[k][i]
      <4>0. k \in 1..(n + 1) /\ Len(paragraphs[k]) \in Nat
        BY <3>2
      <4>1. start[k] \in Nat /\ start[k] + Len(paragraphs[k]) <= Len(body)
            /\ start[k + 1] = start[k] + Len(paragraphs[k])
        BY <2>1, <3>3, <4>0 DEF Lays
      <4>2. ASSUME NEW i \in 1..Len(paragraphs[k]) PROVE body'[start[k] + i] = paragraphs[k][i]
        <5>1. start[k] + i \in 1..Len(body)
          BY <1>4, <4>0, <4>1
        <5>2. body[start[k] + i] = paragraphs[k][i]
          BY <2>1, <4>2 DEF Lays
        <5> QED
          BY <1>4, <3>1, <5>1, <5>2
      <4>3. Len(body) \in Nat /\ Len(body') = Len(body) + 1
        BY <1>4, <3>1
      <4>4. start[k] + Len(paragraphs[k]) <= Len(body')
        BY <4>0, <4>1, <4>3
      <4> QED
        BY <4>1, <4>2, <4>4
    <3>6. ASSUME NEW i \in 1..(Len(block.text) + 1)
          PROVE  body'[start[n + 1] + i] = Append(block.text, tokens)[i]
      <4>1. CASE i = Len(block.text) + 1
        <5>1. start[n + 1] + i = Len(body) + 1
          BY <1>3, <3>3, <3>4, <4>1
        <5> QED
          BY <1>3, <1>4, <3>1, <4>1, <5>1
      <4>2. CASE i # Len(block.text) + 1
        <5>0. i \in 1..Len(block.text)
          BY <1>3, <4>2
        <5>1. i \in 1..Len(block.text) /\ start[n + 1] + i \in 1..Len(body)
          <6>1. Len(block.text) \in Nat /\ Len(body) \in Nat /\ start[n + 1] \in Nat
            BY <1>3, <1>4, <3>3
          <6> QED
            BY <3>4, <5>0, <6>1
        <5>2. body[start[n + 1] + i] = block.text[i]
          BY <2>1, <3>1, <5>1 DEF Lays
        <5> QED
          BY <1>3, <1>4, <3>1, <5>1, <5>2
      <4> QED
        BY <4>1, <4>2
    <3>7. Len(body') = start[n + 1] + Len(Rest')
      BY <1>3, <1>4, <3>1, <3>3, <3>4
    <3>8. Lays(start)'
      BY <1>1, <1>3, <2>1, <3>1, <3>5, <3>6, <3>7 DEF Lays
    <3> QED
      BY <1>8, <3>8 DEF TextIsInPlace
  <2> QED
    BY <2>2, <2>3
<1> QED
  BY <1>6, <1>7, <1>8, <1>9 DEF ReadInv

(* Closing an element leaves the blocks below it as they are. *)
LEMMA FrontOfStack ==
  ASSUME ReadInv, stack # <<>>
  PROVE  /\ RP!Front(stack) \in Seq(Names) /\ Len(stack) \in Nat \ {0}
         /\ \A i \in 1..(Len(stack) - 1) : RP!Front(stack)[i] = stack[i]
         /\ Len(RP!Front(stack)) = Len(stack) - 1
         /\ \A i \in 1..(Len(stack) - 1) : BlockAt(RP!Front(stack), i) <=> BlockAt(stack, i)
<1>1. stack \in Seq(Names) /\ Len(stack) \in Nat \ {0}
  BY LenProperties, EmptySeq DEF ReadInv, ReadType
<1>2. 1 \in Int /\ Len(stack) - 1 \in Nat /\ \A i \in 1..(Len(stack) - 1) : stack[i] \in Names
  BY <1>1, LenProperties
<1>3. /\ RP!Front(stack) \in Seq(Names) /\ Len(RP!Front(stack)) = Len(stack) - 1
      /\ \A i \in 1..(Len(stack) - 1) : RP!Front(stack)[i] = stack[i]
  <2> DEFINE n == Len(stack) - 1
  <2>0. n \in Nat
    BY <1>1
  <2>2. RP!Front(stack) = SubSeq(stack, 1, n)
    BY DEF RP!Front
  <2> HIDE DEF n
  <2>1. n \in Int /\ (n = 0 \/ 1 <= n) /\ n - 1 + 1 = n /\ \A i \in 1..n : 1 + i - 1 = i
    BY <2>0
  <2>3. /\ SubSeq(stack, 1, n) \in Seq(Names)
        /\ Len(SubSeq(stack, 1, n)) = IF 1 <= n THEN n - 1 + 1 ELSE 0
        /\ \A i \in 1..(n - 1 + 1) : SubSeq(stack, 1, n)[i] = stack[1 + i - 1]
    <3>1. \A i \in 1..n : stack[i] \in Names
      BY <1>2 DEF n
    <3> QED
      BY <1>2, <2>1, <3>1, SubSeqProperties
  <2>4. RP!Front(stack) \in Seq(Names) /\ Len(RP!Front(stack)) = n
    BY <2>1, <2>2, <2>3
  <2>5. \A i \in 1..n : RP!Front(stack)[i] = stack[i]
    BY <2>1, <2>2, <2>3
  <2> QED
    BY <2>4, <2>5 DEF n
<1>4. \A i \in 1..(Len(stack) - 1) : BlockAt(RP!Front(stack), i) <=> BlockAt(stack, i)
  BY <1>2, <1>3, BlocksStay
<1> QED
  BY <1>1, <1>3, <1>4

(* A paragraph that is added is where the others end. *)
LEMMA ParagraphIsAdded ==
  ASSUME ReadType, NEW start, Lays(start), Rest = block.text,
         paragraphs' = Append(paragraphs, block.text), body' = body, Rest' = <<>>
  PROVE  \E then : Lays(then)'
<1>0. PICK n, end : n = Len(paragraphs) /\ end = Len(body)
  OBVIOUS
<1> DEFINE then == [k \in 1..(n + 2) |-> IF k <= n + 1 THEN start[k] ELSE end]
<1>1. /\ block.text \in Seq(Nat) /\ Len(block.text) \in Nat /\ end \in Nat /\ n \in Nat
      /\ \A k \in 1..n : Len(paragraphs[k]) \in Nat
  BY <1>0, LenProperties DEF ReadType
<1>2. /\ Len(paragraphs') = n + 1 /\ paragraphs'[n + 1] = block.text
      /\ \A k \in 1..n : paragraphs'[k] = paragraphs[k]
  BY <1>0, AppendProperties DEF ReadType
<1>3. /\ start \in [1..(n + 1) -> Nat] /\ start[1] = 0
      /\ \A j, k \in 1..(n + 1) : j <= k => start[j] <= start[k]
      /\ \A k \in 1..n :
           /\ start[k + 1] = start[k] + Len(paragraphs[k])
           /\ start[k] + Len(paragraphs[k]) <= end
           /\ \A i \in 1..Len(paragraphs[k]) : body[start[k] + i] = paragraphs[k][i]
      /\ end = start[n + 1] + Len(block.text)
      /\ \A i \in 1..Len(block.text) : body[start[n + 1] + i] = block.text[i]
  BY <1>0 DEF Lays
<1>4. /\ then \in [1..(n + 2) -> Nat] /\ then[n + 2] = end
      /\ \A k \in 1..(n + 1) : then[k] = start[k]
  BY <1>1, <1>3
<1> HIDE DEF then
<1>5. ASSUME NEW k \in 1..(n + 1)
      PROVE  /\ then[k + 1] = then[k] + Len(paragraphs'[k])
             /\ then[k] + Len(paragraphs'[k]) <= Len(body')
             /\ \A i \in 1..Len(paragraphs'[k]) : body'[then[k] + i] = paragraphs'[k][i]
  <2>1. CASE k = n + 1
    <3>1. k + 1 = n + 2 /\ then[k] = start[n + 1] /\ paragraphs'[k] = block.text
      BY <1>1, <1>2, <1>4, <2>1
    <3>2. Len(body') = end /\ end <= end
      BY <1>0, <1>1
    <3> QED
      BY <1>3, <1>4, <3>1, <3>2
  <2>2. CASE k # n + 1
    <3>1. k \in 1..n /\ k + 1 \in 1..(n + 1)
      BY <1>1, <2>2
    <3>2. then[k] = start[k] /\ then[k + 1] = start[k + 1] /\ paragraphs'[k] = paragraphs[k]
      BY <1>2, <1>4, <3>1
    <3> QED
      BY <1>0, <1>3, <3>1, <3>2
  <2> QED
    BY <2>1, <2>2
<1>6. Len(<<>>) = 0 /\ Len(body') = then[n + 2] + 0 /\ then[1] = 0
  BY <1>0, <1>1, <1>3, <1>4
<1>7. n + 1 + 1 = n + 2
  BY <1>1
<1>8. Lays(then)'
  <2>2. \A j, k \in 1..(n + 2) : j <= k => then[j] <= then[k]
    <3> SUFFICES ASSUME NEW j \in 1..(n + 2), NEW k \in 1..(n + 2), j <= k
                 PROVE  then[j] <= then[k]
      OBVIOUS
    <3>1. start[n + 1] \in Nat /\ start[n + 1] <= end /\ n + 1 \in 1..(n + 1)
      BY <1>1, <1>3
    <3>2. CASE k = n + 2 /\ j # n + 2
      <4>1. j \in 1..(n + 1) /\ j <= n + 1 /\ start[j] \in Nat
        BY <1>1, <1>3, <3>2
      <4>2. start[j] <= start[n + 1]
        BY <1>3, <3>1, <4>1
      <4> QED
        BY <1>1, <1>4, <3>1, <3>2, <4>1, <4>2
    <3>3. CASE k = n + 2 /\ j = n + 2
      BY <1>1, <1>4, <3>3
    <3>4. CASE k # n + 2
      <4>1. j \in 1..(n + 1) /\ k \in 1..(n + 1)
        BY <1>1, <3>4
      <4> QED
        BY <1>3, <1>4, <4>1
    <3> QED
      BY <3>2, <3>3, <3>4
  <2>1. /\ then \in [1..(Len(paragraphs') + 1) -> Nat]
        /\ Len(body') = then[Len(paragraphs') + 1] + Len(Rest')
        /\ \A i \in 1..Len(Rest') : body'[then[Len(paragraphs') + 1] + i] = Rest'[i]
    BY <1>2, <1>4, <1>6, <1>7
  <2>3. \A k \in 1..Len(paragraphs') :
          /\ then[k + 1] = then[k] + Len(paragraphs'[k])
          /\ then[k] + Len(paragraphs'[k]) <= Len(body')
          /\ \A i \in 1..Len(paragraphs'[k]) : body'[then[k] + i] = paragraphs'[k][i]
    BY <1>2, <1>5
  <2>4. \A j, k \in 1..(Len(paragraphs') + 1) : j <= k => then[j] <= then[k]
    BY <1>2, <1>7, <2>2
  <2>5. then[1] = 0
    BY <1>6
  <2>6. \A x : Lays(x)' <=>
          /\ x \in [1..(Len(paragraphs') + 1) -> Nat] /\ x[1] = 0
          /\ \A j, k \in 1..(Len(paragraphs') + 1) : j <= k => x[j] <= x[k]
          /\ \A k \in 1..Len(paragraphs') :
               /\ x[k + 1] = x[k] + Len(paragraphs'[k])
               /\ x[k] + Len(paragraphs'[k]) <= Len(body')
               /\ \A i \in 1..Len(paragraphs'[k]) : body'[x[k] + i] = paragraphs'[k][i]
          /\ Len(body') = x[Len(paragraphs') + 1] + Len(Rest')
          /\ \A i \in 1..Len(Rest') : body'[x[Len(paragraphs') + 1] + i] = Rest'[i]
    BY Zenon DEF Lays
  <2> QED
    BY ONLY <2>1, <2>3, <2>4, <2>5, <2>6
<1> QED
  BY <1>8

LEMMA CloseKeeps == ASSUME ReadInv, RP!Close PROVE ReadInv'
<1>1. /\ phase = "extract" /\ tokens' = tokens + 1 /\ stack # <<>> /\ stack' = RP!Front(stack)
      /\ UNCHANGED <<body, source, phase, cursor, room, page, offered, read, answered>>
  BY DEF RP!Close, RP!Token, RP!reading
<1> DEFINE Outermost == block.depth = Len(stack)
           Adds == Outermost /\ block.name # "head" /\ block.text # <<>>
<1>2. /\ paragraphs' = IF Adds THEN Append(paragraphs, block.text) ELSE paragraphs
      /\ block' = IF Outermost THEN RP!NoBlock ELSE block
  BY DEF RP!Close
<1>3. /\ stack' \in Seq(Names) /\ Len(stack) \in Nat \ {0} /\ Len(stack') = Len(stack) - 1
      /\ \A i \in 1..(Len(stack) - 1) : BlockAt(stack', i) <=> BlockAt(stack, i)
  BY <1>1, FrontOfStack
<1>4. ReadType'
  <2>1. block.text \in Seq(Nat) /\ paragraphs \in Seq(Seq(Nat))
        /\ block \in [depth : Nat, name : Names \cup {None}, text : Seq(Nat)]
    BY DEF ReadInv, ReadType
  <2>2. Append(paragraphs, block.text) \in Seq(Seq(Nat))
    BY <2>1, AppendProperties
  <2>3. RP!NoBlock \in [depth : Nat, name : Names \cup {None}, text : Seq(Nat)]
    BY DEF RP!NoBlock
  <2> QED
    BY <1>1, <1>2, <1>3, <2>1, <2>2, <2>3 DEF ReadInv, ReadType
<1>5. block.depth # 0 =>
        /\ block.depth \in 1..Len(stack) /\ block.name = stack[block.depth]
        /\ BlockAt(stack, block.depth)
        /\ \A i \in 1..(block.depth - 1) : ~BlockAt(stack, i)
  BY <1>1 DEF ReadInv, BlockIsOutermost
<1>6. BlockIsOutermost'
  <2>1. CASE Outermost
    <3>1. block'.depth = 0 /\ block.depth # 0
      BY <1>2, <1>3, <2>1 DEF RP!NoBlock
    <3>2. \A i \in 1..(Len(stack) - 1) : ~BlockAt(stack', i)
      BY <1>3, <1>5, <2>1, <3>1
    <3> QED
      BY <1>3, <3>1, <3>2 DEF BlockIsOutermost, BlockAt, Within
  <2>2. CASE ~Outermost /\ block.depth = 0
    <3>1. block' = block /\ \A i \in 1..Len(stack) : ~BlockAt(stack, i)
      BY <1>1, <1>2, <2>2 DEF ReadInv, BlockIsOutermost
    <3>2. \A i \in 1..(Len(stack) - 1) : ~BlockAt(stack', i)
      BY <1>3, <3>1
    <3> QED
      BY <1>3, <2>2, <3>1, <3>2 DEF BlockIsOutermost, BlockAt, Within
  <2>3. CASE ~Outermost /\ block.depth # 0
    <3>1. block' = block /\ block.depth \in 1..(Len(stack) - 1)
      BY <1>2, <1>3, <1>5, <2>3
    <3>2. \A i \in 1..(block.depth - 1) : i \in 1..(Len(stack) - 1)
      BY <1>3, <3>1
    <3>3. BlockAt(stack', block.depth) /\ \A i \in 1..(block.depth - 1) : ~BlockAt(stack', i)
      BY <1>3, <1>5, <2>3, <3>1, <3>2
    <3>4. block.name = stack'[block.depth]
      <4>1. \A i \in 1..(Len(stack) - 1) : stack'[i] = stack[i]
        BY <1>1, FrontOfStack
      <4> QED
        BY <1>5, <2>3, <3>1, <4>1
    <3> QED
      BY <1>3, <2>3, <3>1, <3>3, <3>4 DEF BlockIsOutermost, BlockAt, Within
  <2> QED
    BY <2>1, <2>2, <2>3
<1>7. ReadStages' /\ OffersGoOn' /\ \A start : ReadsTo(start)'
  BY <1>1, NobodyReads
<1>8. PICK start : Lays(start)
  BY <1>1 DEF ReadInv, TextIsInPlace
<1>9. \E then : Lays(then)'
  <2>1. CASE Adds
    <3>1. Rest = block.text /\ Rest' = <<>>
      BY <1>1, <1>2, <1>3, <2>1 DEF Rest, BodyBlock, RP!NoBlock
    <3> QED
      BY <1>1, <1>2, <1>8, <2>1, <3>1, ParagraphIsAdded DEF ReadInv
  <2>2. CASE ~Adds
    <3>1. Rest' = Rest
      BY <1>1, <1>2, <2>2 DEF Rest, BodyBlock, RP!NoBlock
    <3> QED
      BY <1>1, <1>2, <1>8, <2>2, <3>1 DEF Lays
  <2> QED
    BY <2>1, <2>2
<1> QED
  BY <1>4, <1>6, <1>7, <1>9 DEF ReadInv, TextIsInPlace

LEMMA ExtractedKeeps == ASSUME ReadInv, RP!Extracted PROVE ReadInv'
<1>1. /\ phase = "extract" /\ phase' \in {"ready", "unreadable"}
      /\ phase' = "ready" => stack = <<>> /\ paragraphs # <<>>
      /\ UNCHANGED <<tokens, stack, block, paragraphs, body, source, cursor, room, page, offered,
                     read, answered>>
  BY DEF RP!Extracted, RP!extraction, RP!reading
<1>2. ReadType' /\ BlockIsOutermost'
  BY <1>1 DEF ReadInv, ReadType, BlockIsOutermost
<1>3. ReadStages' /\ OffersGoOn' /\ \A start : ReadsTo(start)'
  BY <1>1, NobodyReads
<1>4. TextIsInPlace'
  <2> SUFFICES ASSUME phase' = "ready" PROVE TextIsInPlace'
    BY <1>1 DEF TextIsInPlace
  <2>1. PICK start : Lays(start)
    BY <1>1 DEF ReadInv, TextIsInPlace
  <2>2. block.depth = 0
    <3>1. Len(stack) = 0
      BY <1>1
    <3> QED
      BY <1>1, <3>1 DEF ReadInv, BlockIsOutermost
  <2>3. Rest = <<>> /\ Rest' = <<>>
    BY <1>1, <2>2 DEF Rest, BodyBlock
  <2>4. Lays(start)'
    BY <1>1, <2>1, <2>3 DEF Lays
  <2> QED
    BY <1>3, <2>4 DEF TextIsInPlace
<1> QED
  BY <1>2, <1>3, <1>4 DEF ReadInv

LEMMA AbstractKeeps == ASSUME ReadInv, RP!Abstract PROVE ReadInv'
<1>1. /\ phase = "extract" /\ phase' = IF body' # <<>> THEN "ready" ELSE "unreadable"
      /\ paragraphs' = <<body'>>
      /\ UNCHANGED <<tokens, stack, block, source, cursor, room, page, offered, read, answered>>
  BY DEF RP!Abstract, RP!reading
<1>2. body' \in Seq(Nat)
  <2>1. PICK n \in 0..MaxTokens : body' = [i \in 1..n |-> i]
    BY DEF RP!Abstract
  <2>2. n \in Nat
    BY ReadAssumption
  <2> QED
    BY <2>1, <2>2
<1>3. ReadType' /\ BlockIsOutermost'
  <2>1. <<body'>> \in Seq(Seq(Nat))
    BY <1>2
  <2> QED
    BY <1>1, <1>2, <2>1 DEF ReadInv, ReadType, BlockIsOutermost
<1>4. ReadStages' /\ OffersGoOn' /\ \A start : ReadsTo(start)'
  BY <1>1, NobodyReads
<1>5. TextIsInPlace'
  <2>0. PICK end : end = Len(body')
    OBVIOUS
  <2> DEFINE start == [k \in 1..2 |-> IF k = 1 THEN 0 ELSE end]
  <2>1. end \in Nat /\ Rest' = <<>> /\ Len(paragraphs') = 1 /\ paragraphs'[1] = body'
    <3>1. Rest' = <<>>
      BY <1>1 DEF Rest, BodyBlock
    <3>2. Len(<<body'>>) = 1 /\ <<body'>>[1] = body'
      OBVIOUS
    <3> QED
      BY <1>1, <1>2, <2>0, <3>1, <3>2, LenProperties
  <2>2. Lays(start)'
    <3>1. start \in [1..2 -> Nat] /\ start[1] = 0 /\ start[2] = end /\ Len(<<>>) = 0
      BY <2>1
    <3> HIDE DEF start
    <3>2. \A k \in 1..1 : k = 1
      OBVIOUS
    <3>3. /\ start[1 + 1] = start[1] + end /\ start[1] + end <= end
          /\ \A i \in 1..end : body'[start[1] + i] = body'[i]
          /\ end = start[1 + 1] + 0
      BY <2>1, <3>1
    <3>4. /\ start \in [1..(Len(paragraphs') + 1) -> Nat]
          /\ Len(body') = start[Len(paragraphs') + 1] + Len(Rest')
          /\ \A i \in 1..Len(Rest') : body'[start[Len(paragraphs') + 1] + i] = Rest'[i]
      BY <2>0, <2>1, <3>1, <3>3
    <3>5. \A k \in 1..Len(paragraphs') :
            /\ start[k + 1] = start[k] + Len(paragraphs'[k])
            /\ start[k] + Len(paragraphs'[k]) <= Len(body')
            /\ \A i \in 1..Len(paragraphs'[k]) : body'[start[k] + i] = paragraphs'[k][i]
      BY <2>0, <2>1, <3>2, <3>3
    <3>6. \A j, k \in 1..(Len(paragraphs') + 1) : j <= k => start[j] <= start[k]
      BY <2>1, <3>1
    <3> QED
      BY <3>1, <3>4, <3>5, <3>6 DEF Lays
  <2> QED
    BY <1>4, <2>2 DEF TextIsInPlace
<1> QED
  BY <1>3, <1>4, <1>5 DEF ReadInv

(* The reader moves and the text stays. *)
LEMMA TextStays ==
  ASSUME NEW start, UNCHANGED <<stack, block, paragraphs, body>>, ~BodyBlock, ~BodyBlock'
  PROVE  Lays(start)' <=> Lays(start)
<1>1. Rest = <<>> /\ Rest' = <<>>
  BY DEF Rest
<1> QED
  BY <1>1 DEF Lays

(* A paragraph begins within the text, and ends where the next one begins. *)
LEMMA StartsAreTyped ==
  ASSUME ReadType, NEW start, Lays(start)
  PROVE  /\ Len(paragraphs) \in Nat /\ Len(body) \in Nat
         /\ \A k \in 1..(Len(paragraphs) + 1) : start[k] \in Nat
         /\ \A k \in 1..Len(paragraphs) :
              /\ paragraphs[k] \in Seq(Nat) /\ Len(paragraphs[k]) \in Nat
              /\ start[k] \in Nat
              /\ start[k + 1] = start[k] + Len(paragraphs[k])
              /\ start[k] + Len(paragraphs[k]) <= Len(body)
<1>1. Len(paragraphs) \in Nat /\ Len(body) \in Nat
  BY LenProperties DEF ReadType
<1>2. \A k \in 1..(Len(paragraphs) + 1) : start[k] \in Nat
  BY DEF Lays
<1> QED
  <2> SUFFICES ASSUME NEW k \in 1..Len(paragraphs)
               PROVE  /\ paragraphs[k] \in Seq(Nat) /\ Len(paragraphs[k]) \in Nat
                      /\ start[k] \in Nat
                      /\ start[k + 1] = start[k] + Len(paragraphs[k])
                      /\ start[k] + Len(paragraphs[k]) <= Len(body)
    BY <1>1, <1>2
  <2>1. k \in 1..(Len(paragraphs) + 1)
    BY <1>1
  <2>2. paragraphs[k] \in Seq(Nat)
    BY LenProperties DEF ReadType
  <2> QED
    BY <1>2, <2>1, <2>2, LenProperties DEF Lays

LEMMA FirstCallKeeps == ASSUME ReadInv, NEW n \in ReadLimits, RP!FirstCall(n) PROVE ReadInv'
<1> DEFINE place == [id |-> source.id, digest |-> source.digest, paragraph |-> 1, offset |-> 0]
<1>1. /\ phase = "ready" /\ phase' = "paging" /\ cursor' = place /\ read' = <<>> /\ room' = n
      /\ page' = <<>> /\ offered' = None
      /\ UNCHANGED <<tokens, stack, block, paragraphs, body, source, answered>>
  BY DEF RP!FirstCall, RP!Begin, RP!extraction
<1>2. /\ place \in Positions /\ place # None /\ n \in Nat /\ n > 0
      /\ place.id = source.id /\ place.digest = source.digest
      /\ place.paragraph = 1 /\ place.offset = 0 /\ source.digest \in {0, 1}
  BY ReadAssumption DEF Positions, ReadInv, ReadType
<1> HIDE DEF place
<1>3. paragraphs # <<>> /\ Len(paragraphs) \in Nat /\ Len(paragraphs) >= 1
  BY <1>1, LenProperties, EmptySeq DEF ReadInv, ReadStages, ReadType
<1>4. ReadType' /\ BlockIsOutermost'
  BY <1>1, <1>2 DEF ReadInv, ReadType, BlockIsOutermost
<1>5. PICK start : Lays(start)
  BY <1>1 DEF ReadInv, TextIsInPlace
<1>6. Lays(start)'
  BY <1>1, <1>5, TextStays DEF BodyBlock
<1>7. ReadsTo(start)'
  <2>1. start[1] = 0 /\ Len(body) \in Nat /\ Len(paragraphs[1]) \in Nat /\ Len(<<>>) = 0
    BY <1>3, <1>5, StartsAreTyped DEF Lays, ReadInv
  <2> QED
    BY <1>1, <1>2, <1>3, <2>1 DEF ReadsTo, Current
<1>8. ReadStages' /\ OffersGoOn'
  BY <1>1, <1>2, <1>3 DEF ReadInv, ReadStages, OffersGoOn, Current
<1> QED
  BY <1>4, <1>6, <1>7, <1>8 DEF ReadInv, TextIsInPlace

LEMMA NextCallKeeps == ASSUME ReadInv, NEW n \in ReadLimits, RP!NextCall(n) PROVE ReadInv'
<1>1. /\ phase = "ready" /\ offered # None /\ offered.digest = source.digest /\ phase' = "paging"
      /\ cursor' = offered /\ read' = read /\ room' = n /\ page' = <<>> /\ offered' = None
      /\ UNCHANGED <<tokens, stack, block, paragraphs, body, source, answered>>
  BY DEF RP!NextCall, RP!SameText, RP!Begin, RP!extraction
<1>2. offered = cursor /\ Current /\ cursor.paragraph <= Len(paragraphs) /\ n \in Nat /\ n > 0
  BY <1>1, ReadAssumption DEF ReadInv, OffersGoOn, Current
<1>3. ReadType' /\ BlockIsOutermost'
  BY <1>1, <1>2 DEF ReadInv, ReadType, BlockIsOutermost
<1>4. PICK start : Lays(start) /\ ReadsTo(start)
  BY <1>1 DEF ReadInv, TextIsInPlace
<1>5. Lays(start)' /\ ReadsTo(start)'
  BY <1>1, <1>2, <1>4, TextStays DEF BodyBlock, ReadsTo, Current
<1>6. ReadStages' /\ OffersGoOn'
  BY <1>1, <1>2 DEF ReadInv, ReadStages, OffersGoOn, Current
<1> QED
  BY <1>3, <1>5, <1>6 DEF ReadInv, TextIsInPlace

LEMMA RefuseKeeps == ASSUME ReadInv, RP!Refuse PROVE ReadInv'
<1>1. /\ phase = "ready" /\ offered # None /\ ~RP!SameText(offered) /\ offered' = None
      /\ UNCHANGED <<tokens, stack, block, paragraphs, body, source, phase, cursor, room, page,
                     read, answered>>
  BY DEF RP!Refuse, RP!extraction
<1>2. ~Current
  BY <1>1 DEF ReadInv, OffersGoOn, Current, RP!SameText
<1>3. ReadType' /\ BlockIsOutermost'
  BY <1>1 DEF ReadInv, ReadType, BlockIsOutermost
<1>4. PICK start : Lays(start) /\ ReadsTo(start)
  BY <1>1 DEF ReadInv, TextIsInPlace
<1>5. Lays(start)' /\ ReadsTo(start)'
  BY <1>1, <1>2, <1>4, TextStays DEF BodyBlock, ReadsTo, Current
<1>6. ReadStages' /\ OffersGoOn'
  BY <1>1, <1>2 DEF ReadInv, ReadStages, OffersGoOn, Current
<1> QED
  BY <1>3, <1>5, <1>6 DEF ReadInv, TextIsInPlace

LEMMA EndPageKeeps == ASSUME ReadInv, RP!EndPage PROVE ReadInv'
<1>1. /\ phase = "full" \/ (phase = "paging" /\ ~RP!Fits)
      /\ offered' = (IF RP!AtEnd THEN None ELSE cursor) /\ answered' = answered + 1
      /\ phase' = "ready"
      /\ UNCHANGED <<tokens, stack, block, paragraphs, body, source, cursor, room, page, read>>
  BY DEF RP!EndPage, RP!extraction
<1>2. Current /\ cursor \in Positions /\ Len(paragraphs) \in Nat /\ answered \in Nat
  BY <1>1, LenProperties DEF ReadInv, ReadStages, ReadType, Current
<1>3. page # <<>>
  <2>1. ASSUME phase = "paging", page = <<>> PROVE RP!Fits
    BY <1>2, <2>1 DEF ReadInv, ReadStages, ReadType, RP!Fits, RP!AtEnd, RP!Separator, Positions
  <2> QED
    BY <1>1, <2>1 DEF ReadInv, ReadStages
<1>4. ReadType' /\ BlockIsOutermost'
  BY <1>1, <1>2 DEF ReadInv, ReadType, BlockIsOutermost
<1>5. PICK start : Lays(start) /\ ReadsTo(start)
  BY <1>1 DEF ReadInv, TextIsInPlace
<1>6. Lays(start)' /\ ReadsTo(start)'
  BY <1>1, <1>5, TextStays DEF BodyBlock, ReadsTo, Current
<1>7. RP!AtEnd <=> cursor.paragraph = Len(paragraphs) + 1
  BY <1>2, <1>5 DEF RP!AtEnd, ReadsTo, Positions
<1>8. RP!AtEnd \/ cursor.paragraph <= Len(paragraphs)
  BY <1>2 DEF RP!AtEnd, Positions
<1>9. ReadStages'
  BY <1>1, <1>2, <1>3 DEF ReadInv, ReadStages, Current
<1>10. OffersGoOn'
  BY <1>1, <1>2, <1>7, <1>8 DEF ReadInv, OffersGoOn, Current
<1> QED
  BY <1>4, <1>6, <1>9, <1>10 DEF ReadInv, TextIsInPlace

(* Arithmetic of a piece of a paragraph: the paragraph begins at b in the  *)
(* text, is l long and read up to o, and take characters are taken.        *)
LEMMA PieceInText ==
  ASSUME NEW b \in Nat, NEW o \in Nat, NEW l \in Nat, NEW take \in Nat, o + take <= l
  PROVE  take = l - o => b + o + take = b + l + 0
OBVIOUS

LEMMA TakePieceKeeps == ASSUME ReadInv, RP!TakePiece PROVE ReadInv'
<1> DEFINE k == cursor.paragraph
           sep == RP!Separator
           left == RP!Left
           take == IF left < room - sep THEN left ELSE room - sep
           piece == SubSeq(paragraphs[k], cursor.offset + 1, cursor.offset + take)
<1>1. /\ phase = "paging" /\ RP!Fits
      /\ page' = Append(page, piece) /\ read' = read \o piece /\ room' = room - take - sep
      /\ IF take < left
         THEN cursor' = [cursor EXCEPT !.offset = @ + take] /\ phase' = "full"
         ELSE cursor' = [cursor EXCEPT !.paragraph = @ + 1, !.offset = 0] /\ phase' = "paging"
      /\ UNCHANGED <<tokens, stack, block, paragraphs, body, source, offered, answered>>
  BY DEF RP!TakePiece, RP!extraction
<1>2. /\ Current /\ cursor \in Positions /\ offered = None /\ room \in Nat
      /\ Len(paragraphs) \in Nat /\ read \in Seq(Nat) /\ body \in Seq(Nat) /\ page \in Seq(Seq(Nat))
  BY <1>1, LenProperties DEF ReadInv, ReadStages, ReadType, Current
<1>3. PICK start : Lays(start) /\ ReadsTo(start)
  BY <1>1 DEF ReadInv, TextIsInPlace
<1>4. k \in 1..Len(paragraphs) /\ cursor.offset \in Nat /\ cursor.offset <= Len(paragraphs[k])
  BY <1>1, <1>2, <1>3 DEF RP!Fits, RP!AtEnd, ReadsTo, Positions
<1>5. /\ paragraphs[k] \in Seq(Nat) /\ Len(paragraphs[k]) \in Nat /\ start[k] \in Nat
      /\ start[k + 1] = start[k] + Len(paragraphs[k])
      /\ start[k] + Len(paragraphs[k]) <= Len(body) /\ Len(body) \in Nat
  BY <1>3, <1>4, StartsAreTyped DEF ReadInv
<1>6. sep \in {0, 2} /\ room > sep /\ left = Len(paragraphs[k]) - cursor.offset /\ left \in Nat
  BY <1>1, <1>4, <1>5 DEF RP!Fits, RP!Separator, RP!Left
<1> HIDE DEF sep, left
<1>7. take \in Nat /\ take <= left /\ take <= room - sep /\ room - take - sep \in Nat
  BY <1>2, <1>6
<1> HIDE DEF take
<1>8. /\ piece \in Seq(Nat) /\ Len(piece) = take
      /\ \A i \in 1..take : piece[i] = paragraphs[k][cursor.offset + i]
  <2> DEFINE from == cursor.offset + 1
             to == cursor.offset + take
  <2>1. /\ from \in Int /\ to \in Int /\ to - from + 1 = take
        /\ from <= to => to - from + 1 = take
        /\ ~(from <= to) => take = 0
        /\ \A i \in 1..take : from + i - 1 = cursor.offset + i
    BY <1>4, <1>7
  <2>2. ASSUME NEW i \in from..to PROVE paragraphs[k][i] \in Nat
    <3>1. i \in 1..Len(paragraphs[k])
      BY <1>4, <1>5, <1>6, <1>7
    <3> QED
      BY <1>5, <3>1, LenProperties
  <2> HIDE DEF from, to
  <2>3. /\ SubSeq(paragraphs[k], from, to) \in Seq(Nat)
        /\ Len(SubSeq(paragraphs[k], from, to)) = IF from <= to THEN to - from + 1 ELSE 0
        /\ \A i \in 1..(to - from + 1) :
             SubSeq(paragraphs[k], from, to)[i] = paragraphs[k][from + i - 1]
    BY <2>1, <2>2, SubSeqProperties
  <2>4. piece = SubSeq(paragraphs[k], from, to)
    BY DEF from, to
  <2> HIDE DEF piece
  <2> QED
    BY <2>1, <2>3, <2>4
<1> HIDE DEF piece
<1>9. /\ read' \in Seq(Nat) /\ Len(read) \in Nat /\ Len(read') = Len(read) + take
      /\ \A i \in 1..(Len(read) + take) :
           read'[i] = IF i <= Len(read) THEN read[i] ELSE piece[i - Len(read)]
  <2>1. /\ read \o piece \in Seq(Nat) /\ Len(read \o piece) = Len(read) + Len(piece)
        /\ \A i \in 1..(Len(read) + Len(piece)) :
             (read \o piece)[i] = IF i <= Len(read) THEN read[i] ELSE piece[i - Len(read)]
    BY <1>2, <1>8, ConcatProperties
  <2>2. Len(read) \in Nat /\ read' = read \o piece /\ Len(piece) = take
    BY <1>1, <1>2, <1>8, LenProperties
  <2> QED
    BY <2>1, <2>2
<1>10. /\ Len(read) = start[k] + cursor.offset
       /\ \A i \in 1..Len(read) : read[i] = body[i]
  BY <1>2, <1>3 DEF ReadsTo
<1>19. /\ Len(read) = start[k] + cursor.offset /\ cursor.offset + take <= Len(paragraphs[k])
       /\ start[k] \in Nat /\ cursor.offset \in Nat /\ take \in Nat /\ Len(read) \in Nat
       /\ Len(paragraphs[k]) \in Nat /\ Len(body) \in Nat /\ Len(paragraphs) \in Nat /\ k \in Nat
       /\ start[k + 1] = start[k] + Len(paragraphs[k]) /\ Len(read') = Len(read) + take
       /\ start[k] + Len(paragraphs[k]) <= Len(body)
       /\ k >= 1 /\ k <= Len(paragraphs)
       /\ ~(take < left) => take = Len(paragraphs[k]) - cursor.offset
  <2>1. cursor.offset + take <= Len(paragraphs[k])
    BY <1>4, <1>5, <1>6, <1>7
  <2>2. ~(take < left) => take = Len(paragraphs[k]) - cursor.offset
    BY <1>6, <1>7
  <2>3. k \in Nat /\ k >= 1 /\ k <= Len(paragraphs)
    BY <1>2, <1>4
  <2> QED
    BY <1>2, <1>4, <1>5, <1>7, <1>9, <1>10, <2>1, <2>2, <2>3
<1>11. ASSUME NEW i \in 1..(Len(read) + take) PROVE read'[i] = body[i]
  <2>1. CASE i <= Len(read)
    <3>1. i \in 1..Len(read)
      BY <1>9, <2>1
    <3> QED
      BY <1>9, <1>10, <2>1, <3>1
  <2>2. CASE ~(i <= Len(read))
    <3>1. PICK j \in 1..take : i = Len(read) + j
      <4>1. i - Len(read) \in 1..take /\ i = Len(read) + (i - Len(read))
        BY <1>7, <1>9, <2>2
      <4> QED
        BY <4>1
    <3>2. j = i - Len(read)
      BY <1>9, <3>1
    <3>3. cursor.offset + j \in 1..Len(paragraphs[k]) /\ start[k] + (cursor.offset + j) = i
      <4>0. j \in Nat /\ 1 <= j /\ j <= take
        BY <1>19, <3>1
      <4>1. /\ cursor.offset + j \in 1..Len(paragraphs[k])
            /\ start[k] + (cursor.offset + j) = start[k] + cursor.offset + j
        <5>0. PICK b, o, l : b = start[k] /\ o = cursor.offset /\ l = Len(paragraphs[k])
          OBVIOUS
        <5>1. b \in Nat /\ o \in Nat /\ l \in Nat /\ take \in Nat /\ o + take <= l
          BY <1>19, <5>0
        <5>2. o + j \in 1..l /\ b + (o + j) = b + o + j
          BY <4>0, <5>1
        <5> QED
          BY <5>0, <5>2
      <4>2. start[k] + cursor.offset + j = Len(read) + j
        BY <1>19
      <4> QED
        BY <3>1, <4>1, <4>2
    <3>4. body[start[k] + (cursor.offset + j)] = paragraphs[k][cursor.offset + j]
      BY <1>3, <1>4, <3>3 DEF Lays
    <3> QED
      BY <1>8, <1>9, <2>2, <3>1, <3>2, <3>3, <3>4
  <2> QED
    BY <2>1, <2>2
<1>12. /\ cursor' \in Positions /\ cursor' # None /\ cursor'.digest = cursor.digest
       /\ cursor'.id = cursor.id
       /\ take < left => cursor'.paragraph = k /\ cursor'.offset = cursor.offset + take
       /\ ~(take < left) => cursor'.paragraph = k + 1 /\ cursor'.offset = 0
  <2>1. cursor' \in Positions
    <3>1. cursor.offset + take \in Nat /\ cursor.paragraph + 1 \in Nat
      BY <1>2, <1>19 DEF Positions
    <3> QED
      <4>1. \/ cursor' = [cursor EXCEPT !.offset = cursor.offset + take]
            \/ cursor' = [cursor EXCEPT !.paragraph = cursor.paragraph + 1, !.offset = 0]
        BY <1>1
      <4> QED
        <5>1. ASSUME NEW x \in Nat PROVE [cursor EXCEPT !.offset = x] \in Positions
          BY <1>2 DEF Positions
        <5>2. ASSUME NEW x \in Nat
              PROVE [cursor EXCEPT !.paragraph = x, !.offset = 0] \in Positions
          BY <1>2 DEF Positions
        <5> QED
          BY <3>1, <4>1, <5>1, <5>2
  <2> QED
    BY <1>1, <1>2, <2>1, ReadAssumption DEF Positions, k
<1>13. page' \in Seq(Seq(Nat)) /\ page' # <<>>
  BY <1>1, <1>2, <1>8, AppendProperties
<1>14. ReadType' /\ BlockIsOutermost'
  <2>1. phase' \in {"full", "paging"} /\ room' \in Nat
    BY <1>1, <1>7
  <2> QED
    BY <1>1, <1>9, <1>12, <1>13, <2>1 DEF ReadInv, ReadType, BlockIsOutermost
<1>15. Lays(start)'
  BY <1>1, <1>3, TextStays DEF BodyBlock
<1>16. ReadsTo(start)'
  <2>1. Len(read') <= Len(body) /\ \A i \in 1..Len(read') : read'[i] = body[i]
    BY <1>11, <1>19
  <2>2. CASE take < left
    <3>1. cursor.offset + take <= Len(paragraphs[k]) /\ k \in 1..(Len(paragraphs) + 1)
          /\ k <= Len(paragraphs) /\ Len(read') = start[k] + (cursor.offset + take)
      BY <1>19
    <3> QED
      BY <1>1, <1>12, <2>1, <2>2, <3>1 DEF ReadsTo
  <2>3. CASE ~(take < left)
    <3>1. k + 1 \in 1..(Len(paragraphs) + 1) /\ Len(read') = start[k + 1] + 0
      <4>1. k + 1 \in 1..(Len(paragraphs) + 1)
        BY <1>19
      <4>2. start[k] + cursor.offset + take = start[k] + Len(paragraphs[k]) + 0
        BY <1>19, <2>3, PieceInText
      <4>3. Len(read') = start[k] + cursor.offset + take
        BY <1>19
      <4> QED
        BY <1>19, <4>1, <4>2, <4>3
    <3>2. k + 1 <= Len(paragraphs) => 0 <= Len(paragraphs[k + 1])
      <4> SUFFICES ASSUME k + 1 <= Len(paragraphs) PROVE 0 <= Len(paragraphs[k + 1])
        OBVIOUS
      <4>1. k + 1 \in 1..Len(paragraphs)
        BY <1>4
      <4> QED
        BY <1>3, <4>1, StartsAreTyped DEF ReadInv
    <3> QED
      BY <1>1, <1>12, <2>1, <2>3, <3>1, <3>2 DEF ReadsTo
  <2> QED
    BY <2>2, <2>3
<1>17. ReadStages'
  BY <1>1, <1>2, <1>4, <1>12, <1>13 DEF ReadInv, ReadStages, Current
<1>18. OffersGoOn'
  BY <1>1, <1>2, <1>12 DEF ReadInv, OffersGoOn, Current
<1> QED
  BY <1>14, <1>15, <1>16, <1>17, <1>18 DEF ReadInv, TextIsInPlace

(* A text without its first paragraph is laid out as before, that much earlier. *)
LEMMA TextWithoutFirst ==
  ASSUME ReadType, NEW start, Lays(start), Len(paragraphs) > 1, ~BodyBlock,
         paragraphs' = Tail(paragraphs), ~BodyBlock',
         body' = SubSeq(body, Len(Head(paragraphs)) + 1, Len(body))
  PROVE  /\ paragraphs' \in Seq(Seq(Nat)) /\ paragraphs' # <<>> /\ body' \in Seq(Nat)
         /\ \E then : Lays(then)'
<1>0. PICK n, d : n = Len(paragraphs) /\ d = start[2]
  OBVIOUS
<1>1. Rest = <<>> /\ Rest' = <<>> /\ Len(<<>>) = 0
  BY DEF Rest
<1>2. /\ n \in Nat /\ n > 1 /\ Len(body) \in Nat /\ 1 \in 1..n /\ 2 \in 1..(n + 1)
      /\ \A k \in 1..(n + 1) : start[k] \in Nat
      /\ \A k \in 1..n :
           /\ Len(paragraphs[k]) \in Nat /\ start[k + 1] = start[k] + Len(paragraphs[k])
           /\ start[k] + Len(paragraphs[k]) <= Len(body)
           /\ \A i \in 1..Len(paragraphs[k]) : body[start[k] + i] = paragraphs[k][i]
      /\ \A j, k \in 1..(n + 1) : j <= k => start[j] <= start[k]
      /\ start[1] = 0 /\ Len(body) = start[n + 1]
  <2>1. n \in Nat /\ n > 1 /\ Len(body) \in Nat /\ \A k \in 1..(n + 1) : start[k] \in Nat
    BY <1>0, StartsAreTyped
  <2>2. 1 \in 1..n /\ 2 \in 1..(n + 1) /\ n + 1 \in 1..(n + 1)
    BY <2>1
  <2>3. \A k \in 1..n :
          /\ Len(paragraphs[k]) \in Nat /\ start[k + 1] = start[k] + Len(paragraphs[k])
          /\ start[k] + Len(paragraphs[k]) <= Len(body)
    BY <1>0, StartsAreTyped
  <2>4. Len(body) = start[n + 1]
    <3>1. Len(body) = start[n + 1] + 0
      BY <1>0, <1>1 DEF Lays
    <3> QED
      BY <2>1, <2>2, <3>1
  <2> QED
    BY <1>0, <2>1, <2>2, <2>3, <2>4 DEF Lays
<1>3. d \in Nat /\ d = Len(paragraphs[1]) /\ d <= Len(body)
  <2>1. start[1 + 1] = start[1] + Len(paragraphs[1]) /\ start[1] = 0 /\ Len(paragraphs[1]) \in Nat
        /\ start[1] + Len(paragraphs[1]) <= Len(body)
    BY <1>2
  <2> QED
    BY <1>0, <2>1
<1>4. paragraphs # <<>> /\ Head(paragraphs) = paragraphs[1]
  BY <1>0, <1>2, EmptySeq
<1>5. /\ paragraphs' \in Seq(Seq(Nat)) /\ Len(paragraphs') = n - 1
      /\ \A k \in 1..(n - 1) : paragraphs'[k] = paragraphs[k + 1]
  BY <1>0, <1>4, HeadTailProperties DEF ReadType
<1>6. /\ body' \in Seq(Nat) /\ Len(body') = Len(body) - d
      /\ \A i \in 1..(Len(body) - d) : body'[i] = body[d + i]
  <2>0. PICK m : m = Len(body)
    OBVIOUS
  <2>1. /\ d + 1 \in Int /\ m \in Int /\ m - (d + 1) + 1 = m - d
        /\ (~(d + 1 <= m) => m - d = 0) /\ \A i \in 1..(m - d) : (d + 1) + i - 1 = d + i
    BY <1>2, <1>3, <2>0
  <2>2. \A i \in (d + 1)..m : body[i] \in Nat
    <3>1. \A i \in (d + 1)..m : i \in 1..m
      BY <1>2, <1>3, <2>0
    <3> QED
      BY <2>0, <3>1, LenProperties DEF ReadType
  <2>3. /\ SubSeq(body, d + 1, m) \in Seq(Nat)
        /\ Len(SubSeq(body, d + 1, m)) = IF d + 1 <= m THEN m - (d + 1) + 1 ELSE 0
        /\ \A i \in 1..(m - (d + 1) + 1) : SubSeq(body, d + 1, m)[i] = body[(d + 1) + i - 1]
    BY <2>1, <2>2, SubSeqProperties
  <2>4. body' = SubSeq(body, d + 1, m)
    BY <1>3, <1>4, <2>0
  <2> QED
    BY <2>0, <2>1, <2>3, <2>4
<1> DEFINE then == [k \in 1..n |-> start[k + 1] - d]
<1>7. \A k \in 1..n : k + 1 \in 1..(n + 1) /\ d <= start[k + 1] /\ start[k + 1] \in Nat
  <2> SUFFICES ASSUME NEW k \in 1..n
               PROVE  k + 1 \in 1..(n + 1) /\ d <= start[k + 1] /\ start[k + 1] \in Nat
    OBVIOUS
  <2>1. k + 1 \in 1..(n + 1) /\ 2 <= k + 1
    BY <1>2
  <2> QED
    BY <1>0, <1>2, <2>1
<1>8. then \in [1..n -> Nat] /\ \A k \in 1..n : then[k] = start[k + 1] - d
  <2>1. \A k \in 1..n : start[k + 1] - d \in Nat
    BY <1>3, <1>7
  <2> QED
    BY <2>1
<1> HIDE DEF then
<1>9. then[1] = 0 /\ then[n] = Len(body')
  BY <1>0, <1>2, <1>3, <1>6, <1>8
<1>10. ASSUME NEW k \in 1..(n - 1)
       PROVE  /\ then[k + 1] = then[k] + Len(paragraphs'[k])
              /\ then[k] + Len(paragraphs'[k]) <= Len(body')
              /\ \A i \in 1..Len(paragraphs'[k]) : body'[then[k] + i] = paragraphs'[k][i]
  <2>0. PICK b, l : b = start[k + 1] /\ l = Len(paragraphs[k + 1])
    OBVIOUS
  <2>1. k \in 1..n /\ k + 1 \in 1..n /\ (k + 1) + 1 \in 1..(n + 1)
    BY <1>2
  <2>2. /\ b \in Nat /\ l \in Nat /\ d <= b /\ start[(k + 1) + 1] = b + l /\ b + l <= Len(body)
    BY <1>2, <1>7, <2>0, <2>1
  <2>3. then[k] = b - d /\ then[k + 1] = (b + l) - d /\ Len(paragraphs'[k]) = l
    <3>1. then[k] = start[k + 1] - d /\ then[k + 1] = start[(k + 1) + 1] - d
      BY <1>8, <2>1
    <3>2. paragraphs'[k] = paragraphs[k + 1]
      BY <1>5
    <3> QED
      BY <2>0, <2>2, <3>1, <3>2
  <2>4. then[k + 1] = then[k] + l /\ then[k] + l <= Len(body')
    <3>1. Len(body) \in Nat /\ d \in Nat /\ d <= Len(body) /\ Len(body') = Len(body) - d
      BY <1>2, <1>3, <1>6
    <3>2. (b - d) + l = (b + l) - d /\ (b - d) + l <= Len(body) - d
      BY <2>2, <3>1
    <3> QED
      BY <2>3, <3>1, <3>2
  <2>5. ASSUME NEW i \in 1..l PROVE body'[then[k] + i] = paragraphs'[k][i]
    <3>1. then[k] + i \in 1..(Len(body) - d) /\ d + (then[k] + i) = b + i
      <4>1. Len(body) \in Nat /\ d \in Nat /\ b \in Nat /\ l \in Nat
        BY <1>2, <1>3, <2>2
      <4>2. (b - d) + i \in 1..(Len(body) - d) /\ d + ((b - d) + i) = b + i
        BY <2>2, <4>1
      <4> QED
        BY <2>3, <4>2
    <3>2. body'[then[k] + i] = body[b + i]
      BY <1>6, <3>1
    <3>3. body[b + i] = paragraphs[k + 1][i]
      BY <1>2, <2>0, <2>1, <2>5
    <3> QED
      BY <1>5, <3>2, <3>3
  <2> QED
    BY <2>3, <2>4, <2>5
<1>11. \A j, k \in 1..n : j <= k => then[j] <= then[k]
  <2> SUFFICES ASSUME NEW j \in 1..n, NEW k \in 1..n, j <= k PROVE then[j] <= then[k]
    OBVIOUS
  <2>1. j + 1 \in 1..(n + 1) /\ k + 1 \in 1..(n + 1) /\ j + 1 <= k + 1
    BY <1>2
  <2>2. start[j + 1] <= start[k + 1] /\ start[j + 1] \in Nat /\ start[k + 1] \in Nat
    BY <1>2, <2>1
  <2> QED
    BY <1>3, <1>8, <2>2
<1>12. Lays(then)'
  <2>1. Len(paragraphs') + 1 = n
    BY <1>2, <1>5
  <2>2. Len(body') = then[n] + 0
    BY <1>2, <1>3, <1>6, <1>9
  <2> QED
    <3>1. Len(paragraphs') = n - 1
      BY <1>5
    <3>2. /\ then \in [1..(Len(paragraphs') + 1) -> Nat] /\ then[1] = 0
          /\ \A j, k \in 1..(Len(paragraphs') + 1) : j <= k => then[j] <= then[k]
      BY <1>8, <1>9, <1>11, <2>1
    <3>3. /\ Len(body') = then[Len(paragraphs') + 1] + Len(Rest')
          /\ \A i \in 1..Len(Rest') : body'[then[Len(paragraphs') + 1] + i] = Rest'[i]
      BY <1>1, <2>1, <2>2
    <3> QED
      BY <1>10, <3>1, <3>2, <3>3 DEF Lays
<1>13. paragraphs' # <<>>
  <2>1. Len(paragraphs') # 0
    <3>1. n \in Nat /\ n > 1 /\ Len(paragraphs') = n - 1
      BY <1>2, <1>5
    <3>2. \A m : m = n - 1 => m # 0
      BY <3>1
    <3> QED
      BY <3>1, <3>2
  <2> QED
    BY <2>1, EmptySeq
<1> QED
  BY <1>5, <1>6, <1>12, <1>13

LEMMA ChangeKeeps == ASSUME ReadInv, RP!Change PROVE ReadInv'
<1>1. /\ phase = "ready" /\ Len(paragraphs) > 1 /\ source.digest = 0 /\ answered > 0
      /\ \/ source' = [source EXCEPT !.digest = 1]
         \/ source' = [id |-> 1, digest |-> 1]
      /\ paragraphs' = Tail(paragraphs)
      /\ body' = SubSeq(body, Len(Head(paragraphs)) + 1, Len(body))
      /\ UNCHANGED <<tokens, stack, block, phase, cursor, room, page, offered, read, answered>>
  BY DEF RP!Change, RP!reading
<1>2. PICK start : Lays(start)
  BY <1>1 DEF ReadInv, TextIsInPlace
<1>3. /\ paragraphs' \in Seq(Seq(Nat)) /\ paragraphs' # <<>> /\ body' \in Seq(Nat)
      /\ \E then : Lays(then)'
  BY <1>1, <1>2, TextWithoutFirst DEF ReadInv, BodyBlock
<1>4. source' \in [id : {0, 1}, digest : {0, 1}] /\ source'.digest = 1
  BY <1>1 DEF ReadInv, ReadType
<1>5. ReadType' /\ BlockIsOutermost'
  BY <1>1, <1>3, <1>4 DEF ReadInv, ReadType, BlockIsOutermost
<1>6. cursor # None => cursor.digest = 0
  BY <1>1 DEF ReadInv, OffersGoOn, ReadType, Positions
<1>7. ~Current'
  BY <1>1, <1>4, <1>6 DEF Current
<1>8. ReadStages'
  BY <1>1, <1>3 DEF ReadInv, ReadStages
<1>9. OffersGoOn'
  BY <1>1, <1>4, <1>6, <1>7 DEF ReadInv, OffersGoOn
<1> QED
  BY <1>3, <1>5, <1>7, <1>8, <1>9 DEF ReadInv, TextIsInPlace, ReadsTo

LEMMA ReadElsewhere == ASSUME [PartsNext]_vars PROVE RP!Next \/ UNCHANGED readVars
BY DEF PartsNext, vars, papersVars, Deliver, Search, Read, LookUp, Stats, Requesting, Store,
       Launch, Account

(* The inductive invariant of a chain of reading calls holds throughout. *)
THEOREM ReadInvariant == PartsSpec => []ReadInv
<1>1. PartsInit => ReadInv
  BY ReadStarts DEF PartsInit
<1>2. ReadInv /\ [PartsNext]_vars => ReadInv'
  <2> SUFFICES ASSUME ReadInv, [PartsNext]_vars PROVE ReadInv'
    OBVIOUS
  <2>1. RP!Next \/ UNCHANGED readVars
    BY ReadElsewhere
  <2>2. CASE UNCHANGED readVars
    <3>1. Rest' = Rest
      BY <2>2 DEF readVars, Rest, BodyBlock
    <3>2. \A start : (Lays(start)' <=> Lays(start)) /\ (ReadsTo(start)' <=> ReadsTo(start))
      BY <2>2, <3>1 DEF readVars, Lays, ReadsTo, Current
    <3>3. TextIsInPlace' /\ BlockIsOutermost'
      BY <2>2, <3>2 DEF readVars, ReadInv, TextIsInPlace, BlockIsOutermost, BlockAt, Within
    <3> QED
      BY <2>2, <3>3 DEF readVars, ReadInv, ReadType, ReadStages, OffersGoOn, Current
  <2> QED
    BY <2>1, <2>2, OpenKeeps, CharsKeep, CloseKeeps, ExtractedKeeps, AbstractKeeps, FirstCallKeeps,
       NextCallKeeps, RefuseKeeps, TakePieceKeeps, EndPageKeeps, ChangeKeeps DEF RP!Next
<1> QED
  BY <1>1, <1>2, PTL DEF PartsSpec

(* TextIsReadOnce of ReadPages.tla, for texts, limits and chains of any    *)
(* length: article_read (papers/read.go) returns the body of one artifact, *)
(* every character once and in order, however its blocks are nested and    *)
(* wherever its pages end, and all of it when it offers no continuation.   *)
THEOREM TextIsRead == PartsSpec => []TextIsReadOnce
<1>1. ReadInv => TextIsReadOnce
  <2> SUFFICES ASSUME ReadInv, phase = "ready", answered > 0
               PROVE  /\ page # <<>> /\ room >= 0
                      /\ source.digest = cursor.digest => RP!IsPrefix(read, body)
                      /\ source.digest = cursor.digest /\ offered = None => read = body
    BY DEF TextIsReadOnce, RP!TextIsReadOnce
  <2>1. page # <<>> /\ room >= 0 /\ cursor # None
    BY DEF ReadInv, ReadStages, ReadType
  <2>2. read \in Seq(Nat) /\ body \in Seq(Nat) /\ Len(read) \in Nat /\ Len(body) \in Nat
    BY LenProperties DEF ReadInv, ReadType
  <2>3. PICK start : Lays(start) /\ ReadsTo(start)
    BY DEF ReadInv, TextIsInPlace
  <2>4. ASSUME source.digest = cursor.digest PROVE RP!IsPrefix(read, body)
    <3>1. Len(read) <= Len(body) /\ \A i \in 1..Len(read) : read[i] = body[i]
      BY <2>1, <2>3, <2>4 DEF ReadsTo, Current
    <3>0. PICK n : n = Len(read)
      OBVIOUS
    <3>2. \A i \in 1..n : read[i] \in Nat /\ body[i] \in Nat
      <4>1. \A i \in 1..n : i \in 1..Len(body)
        BY <2>2, <3>0, <3>1
      <4> QED
        BY <2>2, <3>0, <4>1, LenProperties
    <3>3. 1 \in Int /\ n \in Int /\ n - 1 + 1 = n /\ (1 <= n \/ n = 0)
      BY <2>2, <3>0
    <3>4. /\ SubSeq(read, 1, n) \in Seq(Nat) /\ Len(SubSeq(read, 1, n)) = n
          /\ \A i \in 1..n : SubSeq(read, 1, n)[i] = read[1 + i - 1]
      BY <3>2, <3>3, SubSeqProperties
    <3>5. /\ SubSeq(body, 1, n) \in Seq(Nat) /\ Len(SubSeq(body, 1, n)) = n
          /\ \A i \in 1..n : SubSeq(body, 1, n)[i] = body[1 + i - 1]
      BY <3>2, <3>3, SubSeqProperties
    <3>6. \A i \in 1..n : 1 + i - 1 = i
      OBVIOUS
    <3>7. SubSeq(read, 1, n) = SubSeq(body, 1, n)
      BY <3>0, <3>1, <3>4, <3>5, <3>6, SeqEqual
    <3> QED
      BY <3>0, <3>1, <3>7 DEF RP!IsPrefix
  <2>5. ASSUME source.digest = cursor.digest, offered = None PROVE read = body
    <3>1. cursor.paragraph = Len(paragraphs) + 1
      BY <2>1, <2>5 DEF ReadInv, OffersGoOn, Current
    <3>2. Len(paragraphs) \in Nat /\ start[Len(paragraphs) + 1] \in Nat
      <4>1. Len(paragraphs) \in Nat
        BY LenProperties DEF ReadInv, ReadType
      <4> QED
        BY <2>3, <4>1, StartsAreTyped DEF ReadInv
    <3>3. Len(read) = start[Len(paragraphs) + 1] + 0
      BY <2>1, <2>3, <2>5, <3>1, <3>2 DEF ReadsTo, Current
    <3>4. Len(body) = start[Len(paragraphs) + 1] + 0
      <4>1. Rest = <<>> /\ Len(<<>>) = 0
        BY DEF Rest, BodyBlock
      <4> QED
        BY <2>3, <4>1 DEF Lays
    <3>5. \A i \in 1..Len(read) : read[i] = body[i]
      BY <2>1, <2>3, <2>5 DEF ReadsTo, Current
    <3> QED
      BY <2>2, <3>3, <3>4, <3>5, SeqEqual
  <2> QED
    BY <2>1, <2>4, <2>5
<1> QED
  BY <1>1, ReadInvariant, PTL
=============================================================================
