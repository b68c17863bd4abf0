------------------------------ MODULE DOILookup ------------------------------
(***************************************************************************)
(* A DOI lookup at the archive: SciDB's page, then searches by the title   *)
(* that doi.org names and by the DOI, whose hits are verified by reading   *)
(* their records, a few at a time (anna/doi_lookup.go).                    *)
(*                                                                         *)
(* A hit is the number of its record.  Every request here is one that      *)
(* MirrorSelector runs on one mirror after another; here it has an outcome.*)
(***************************************************************************)
EXTENDS Naturals, Sequences, SequencesExt

CONSTANTS
  Records,      \* records of the archive
  Titled,       \* records that have the title doi.org names
  MaxRecords,   \* records that one lookup reads (12)
  AtOnce,       \* records that are read at once (4)
  None

VARIABLES
  holds,       \* the records that carry the DOI
  lookup,      \* where the lookup is
  title,       \* whether doi.org named the title
  queries,     \* searches that are still to be made
  seen,        \* records that became candidates, in order
  candidates,  \* those of this search that no batch has taken
  batch,       \* records that are being read, in order
  reading,     \* how each record's reader is doing
  unanswered,  \* history: whether an archive request failed
  failure,     \* whether the lookup remembers a failure
  found        \* the record that was returned, None if it is SciDB's

lvars == <<holds, lookup, title, queries, seen, candidates, batch, reading, unanswered, failure, found>>

Over == lookup \in {"idle", "found", "missing", "failed", "ended"}

Take(s, n) == SubSeq(s, 1, IF Len(s) < n THEN Len(s) ELSE n)
Leave(s, n) == SubSeq(s, Len(Take(s, n)) + 1, Len(s))

Ask ==
  /\ lookup = "idle"
  /\ holds' \in SUBSET Records
  /\ lookup' = "scidb"
  /\ UNCHANGED <<title, queries, seen, candidates, batch, reading, unanswered, failure, found>>

(* Without access or a mirror nothing is asked. *)
NoAccess ==
  /\ lookup = "scidb"
  /\ lookup' = "failed"
  /\ UNCHANGED <<holds, title, queries, seen, candidates, batch, reading, unanswered, failure, found>>

(* SciDB's page, which counts only under its own address, has the paper, or *)
(* there is no such page.                                                   *)
SciDBAnswers ==
  /\ lookup = "scidb"
  /\ lookup' \in {"found", "metadata"}
  /\ UNCHANGED <<holds, title, queries, seen, candidates, batch, reading, unanswered, failure, found>>

(* SciDB does not answer.  A redirect that leaves it is not followed. *)
SciDBFails ==
  /\ lookup = "scidb"
  /\ lookup' = "metadata"
  /\ unanswered' = TRUE /\ failure' = TRUE
  /\ UNCHANGED <<holds, title, queries, seen, candidates, batch, reading, found>>

(* The DOI of a preprint is searched by its arXiv number too. *)
SearchFor(first) ==
  /\ lookup' = "search"
  /\ \E preprint \in {<<>>, <<"arxiv">>} : queries' = first \o <<"doi">> \o preprint
  /\ UNCHANGED <<holds, seen, candidates, batch, reading, unanswered, failure, found>>

(* doi.org names the title of the work. *)
DOIOrgAnswers ==
  /\ lookup = "metadata"
  /\ title' = TRUE
  /\ SearchFor(<<"title">>)

(* It names none, or does not answer before its own deadline, which is no  *)
(* failure of the lookup.                                                  *)
DOIOrgFails ==
  /\ lookup = "metadata"
  /\ title' = FALSE
  /\ SearchFor(<<>>)

(* It has the metadata of another DOI, which ends the lookup. *)
DOIOrgDiffers ==
  /\ lookup = "metadata"
  /\ lookup' = "failed"
  /\ UNCHANGED <<holds, title, queries, seen, candidates, batch, reading, unanswered, failure, found>>

(* The hits of a search that become candidates, whatever the indexes list: *)
(* of the right title, none twice, none seen before, and no more than the  *)
(* lookup may read.                                                        *)
NewCandidates ==
  LET fitting == {r \in Records : (title => r \in Titled) /\ r \notin ToSet(seen)}
  IN  {more \in UNION {[1..n -> fitting] : n \in 0..(MaxRecords - Len(seen))} :
         \A i, j \in DOMAIN more : more[i] = more[j] => i = j}

(* Both indexes are searched at once.  When one of them does not answer,   *)
(* the other's hits still count.                                           *)
Search ==
  /\ lookup = "search" /\ queries # <<>> /\ Len(seen) < MaxRecords
  /\ candidates' \in NewCandidates
  /\ seen' = seen \o candidates'
  /\ \E answered \in BOOLEAN : /\ unanswered' = (unanswered \/ ~answered)
                              /\ failure' = (failure \/ ~answered)
  /\ queries' = Tail(queries)
  /\ lookup' = "verify"
  /\ UNCHANGED <<holds, title, batch, reading, found>>

(* No search is left, or no record may be read any more. *)
Conclude ==
  /\ lookup = "search" /\ (queries = <<>> \/ Len(seen) >= MaxRecords)
  /\ lookup' = IF failure THEN "failed" ELSE "missing"
  /\ UNCHANGED <<holds, title, queries, seen, candidates, batch, reading, unanswered, failure, found>>

StartBatch ==
  /\ lookup = "verify" /\ batch = <<>> /\ candidates # <<>>
  /\ batch' = Take(candidates, AtOnce)
  /\ candidates' = Leave(candidates, AtOnce)
  /\ reading' = [r \in Records |-> IF r \in ToSet(batch') THEN "reading" ELSE reading[r]]
  /\ UNCHANGED <<holds, lookup, title, queries, seen, unanswered, failure, found>>

(* A reader leaves its result in a channel with room for it, so it ends    *)
(* whether or not anybody still waits.  A record that has moved is no match. *)
ReaderEnds(r) ==
  /\ reading[r] = "reading"
  /\ \/ reading' = [reading EXCEPT ![r] = IF r \in holds THEN "match" ELSE "other"]
     \/ reading' = [reading EXCEPT ![r] = "error"]
  /\ UNCHANGED <<holds, lookup, title, queries, seen, candidates, batch, unanswered, failure, found>>

(* Mutant of TakeError: the error of a reader is dropped. *)
DropError ==
  /\ lookup = "verify" /\ batch # <<>> /\ reading[Head(batch)] = "error"
  /\ batch' = Tail(batch)
  /\ unanswered' = TRUE
  /\ UNCHANGED <<holds, lookup, title, queries, seen, candidates, reading, failure, found>>

(* Results are taken in the order of the candidates. *)
TakeError ==
  /\ lookup = "verify" /\ batch # <<>> /\ reading[Head(batch)] = "error"
  /\ batch' = Tail(batch)
  /\ unanswered' = TRUE /\ failure' = TRUE
  /\ UNCHANGED <<holds, lookup, title, queries, seen, candidates, reading, found>>

TakeOther ==
  /\ lookup = "verify" /\ batch # <<>> /\ reading[Head(batch)] = "other"
  /\ batch' = Tail(batch)
  /\ UNCHANGED <<holds, lookup, title, queries, seen, candidates, reading, unanswered, failure, found>>

(* Mutant of TakeMatch: the match that was read first is taken. *)
TakeFastestMatch ==
  /\ lookup = "verify"
  /\ \E r \in ToSet(batch) : reading[r] = "match" /\ found' = r
  /\ lookup' = "found"
  /\ UNCHANGED <<holds, title, queries, seen, candidates, batch, reading, unanswered, failure>>

(* The other readers are cancelled. *)
TakeMatch ==
  /\ lookup = "verify" /\ batch # <<>> /\ reading[Head(batch)] = "match"
  /\ found' = Head(batch)
  /\ lookup' = "found"
  /\ UNCHANGED <<holds, title, queries, seen, candidates, batch, reading, unanswered, failure>>

NextQuery ==
  /\ lookup = "verify" /\ batch = <<>> /\ candidates = <<>>
  /\ lookup' = "search"
  /\ UNCHANGED <<holds, title, queries, seen, candidates, batch, reading, unanswered, failure, found>>

(* The caller's deadline or cancellation, which every wait also waits for. *)
GiveUp ==
  /\ ~Over
  /\ lookup' = "ended"
  /\ UNCHANGED <<holds, title, queries, seen, candidates, batch, reading, unanswered, failure, found>>

Init ==
  /\ holds = {} /\ lookup = "idle" /\ title = FALSE /\ queries = <<>> /\ seen = <<>>
  /\ candidates = <<>> /\ batch = <<>> /\ reading = [r \in Records |-> "unread"]
  /\ unanswered = FALSE /\ failure = FALSE /\ found = None

Next ==
  \/ Ask \/ NoAccess \/ SciDBAnswers \/ SciDBFails
  \/ DOIOrgAnswers \/ DOIOrgFails \/ DOIOrgDiffers
  \/ Search \/ Conclude \/ StartBatch
  \/ \E r \in Records : ReaderEnds(r)
  \/ TakeError \/ TakeOther \/ TakeMatch \/ NextQuery \/ GiveUp

Spec == Init /\ [][Next]_lvars

(***************************************************************************)
(* Properties                                                              *)
(***************************************************************************)

(* doi_lookup.go: "returns the first, in candidate order, whose record     *)
(* carries the DOI", although records are read at the same time and in     *)
(* batches: every earlier candidate was read and is another work, or could *)
(* not be read.                                                            *)
FirstMatchWins ==
  found \in Records =>
    /\ found \in holds
    /\ \A i \in DOMAIN seen :
         (\A j \in 1..i : seen[j] # found) => reading[seen[i]] \in {"other", "error"}

(* doi_lookup.go: "A miss is only conclusive when every archive request    *)
(* answered".  The DOI is reported as absent only when no request failed   *)
(* and every candidate was read without carrying it.                       *)
MissIsConclusive ==
  lookup = "missing" => ~unanswered /\ \A i \in DOMAIN seen : reading[seen[i]] = "other"
=============================================================================
