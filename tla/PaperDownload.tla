---------------------------- MODULE PaperDownload ----------------------------
(***************************************************************************)
(* One article_download: the choice between the archive alone and the      *)
(* coordinated way (paperDownload of paper_service.go), the checks of      *)
(* normalizeDownload, the candidates that OpenAlex knows, and the archive  *)
(* as the last resort (papers/download.go).                                *)
(*                                                                         *)
(* A DOI or W ID is a model value.  A location has the DOI, the version    *)
(* and the address of its copy; open says that eligibleLocation accepts    *)
(* it.  How bytes arrive is the subject of ArtifactDownload (OpenAlex and  *)
(* locations) and DownloadReuse (archive).                                 *)
(***************************************************************************)
EXTENDS Naturals, Sequences

CONSTANTS
  Requests,  \* the options that callers pass
  Works,     \* the works that OpenAlex may find
  None       \* an option that is not given, a DOI that a work does not have

VARIABLES
  asked,     \* the options, None before the call
  setup,     \* whether an OpenAlex key and archive credentials are configured
  found,     \* the work that the lookup found, or None
  todo,      \* candidates that are still to be tried
  failures,  \* the sources that failed, in order, and how
  ended,     \* whether the caller's context has ended
  step,      \* where the call is
  answer     \* what was delivered, or None

dvars == <<asked, setup, found, todo, failures, ended, step, answer>>

Versions == {"publishedVersion", "acceptedVersion", "submittedVersion"}

(* A W ID given as the DOI is taken for what it is. *)
Normal(o) ==
  IF o.doi \in {w.id : w \in Works} /\ o.id = None
  THEN [o EXCEPT !.id = o.doi, !.doi = None] ELSE o

Constrained(o) == o.location # None \/ o.version # None \/ o.artifact = "tei_xml"

AnotherFormat(o) == o.format \notin {None, "pdf"}

Identifiers == {"doi", "id", "hash"}

(* normalizeDownload refuses what is not one identifier of a known kind,   *)
(* and controls that the chosen provider or artifact does not have.        *)
Refused(o) ==
  \/ ~\E k \in Identifiers : \A j \in Identifiers : o[j] # None <=> j = k
  \/ o.provider \notin {"auto", "anna", "openalex"}
  \/ o.artifact \notin {"pdf", "tei_xml"}
  \/ o.version \notin Versions \cup {None}
  \/ o.hash # None /\ (o.provider = "openalex" \/ Constrained(o))
  \/ o.provider = "anna" /\ (o.id # None \/ Constrained(o))
  \/ /\ o.provider = "openalex" /\ AnotherFormat(o)
     /\ ~(o.artifact = "tei_xml" /\ o.format = "xml")
  \/ /\ o.artifact = "tei_xml"
     /\ o.location # None \/ o.version # None \/ o.format \notin {None, "xml"}
  \/ o.artifact = "pdf" /\ AnotherFormat(o) /\ (Constrained(o) \/ o.id # None)

(* Nothing but the archive can serve the request. *)
ArchiveOnly(o) ==
  \/ o.hash # None
  \/ o.provider = "anna"
  \/ o.artifact = "pdf" /\ AnotherFormat(o)
  \/ /\ o.provider = "auto" /\ ~setup.key
     /\ o.id = None /\ o.artifact = "pdf" /\ ~Constrained(o)

(* paperDownload leaves a plain request to the archive client. *)
Plain(o) ==
  /\ o.id = None /\ o.location = None /\ o.version = None /\ o.artifact = "pdf"
  /\ o.doi \notin {w.id : w \in Works}
  /\ o.provider = "anna" \/ (o.provider = "auto" /\ ~setup.key)

(***************************************************************************)
(* Candidates                                                              *)
(***************************************************************************)

VersionRank(v) == CASE v = "publishedVersion" -> 0
                    [] v = "acceptedVersion"  -> 1
                    [] v = "submittedVersion" -> 2
                    [] OTHER                  -> 3

(* The order of locations: a thesis first from its repository, then the    *)
(* published version, then by name.                                        *)
Before(w, l, m) ==
  IF w.thesis /\ l.repository # m.repository THEN l.repository
  ELSE IF VersionRank(l.version) # VersionRank(m.version)
       THEN VersionRank(l.version) < VersionRank(m.version)
       ELSE l.name <= m.name

(* The DOI asked for is another one than the work's own. *)
AlternateDOI(w, o) == o.doi # None /\ w.doi # o.doi

FitsRequest(w, o, l) ==
  /\ l.open
  /\ o.version # None => l.version = o.version
  /\ AlternateDOI(w, o) => l.doi = o.doi

(* A source of the whole work, not of one location. *)
Whole(route) == [route |-> route, location |-> None, url |-> None,
                  version |-> None, doi |-> None]

External(l) == [route |-> "external_pdf", location |-> l.name, url |-> l.url,
                version |-> l.version, doi |-> l.doi]

(* The first of some locations, in their order. *)
Best(w, copies) == CHOOSE l \in copies : \A m \in copies : Before(w, l, m)

(* The best location, and the best of those with another address. *)
ExternalCandidates(w, o) ==
  LET copies == {l \in w.locations : FitsRequest(w, o, l)}
      first  == Best(w, copies)
      others == {l \in copies : l.url # first.url}
  IN  IF copies = {} THEN <<>>
      ELSE IF others = {} THEN <<External(first)>>
      ELSE <<External(first), External(Best(w, others))>>

(* The location that was asked for by name. *)
Chosen(w, o) == CHOOSE l \in w.locations : l.name = o.location

(* It is unknown, of another version or without an open PDF. *)
NotThere(w, o) ==
  /\ o.location # None
  /\ \/ \A l \in w.locations : l.name # o.location
     \/ o.version \notin {None, Chosen(w, o).version}
     \/ ~Chosen(w, o).open

Candidates(w, o) ==
  IF o.location # None THEN <<External(Chosen(w, o))>>
  ELSE IF o.artifact = "tei_xml" THEN IF w.xml THEN <<Whole("hosted_tei_xml")>> ELSE <<>>
  ELSE (IF w.pdf /\ o.version = None /\ ~AlternateDOI(w, o)
        THEN <<Whole("hosted_pdf")>> ELSE <<>>) \o ExternalCandidates(w, o)

(* Mutant of ArchiveMayServe: a version that was asked for is forgotten. *)
ArchiveServesAnyVersion(o, w) ==
  /\ o.provider = "auto" /\ o.location = None /\ o.artifact = "pdf"
  /\ o.doi # None \/ (w # None /\ w.doi # None)

(* The archive is a resort for a DOI whose copy was not constrained. *)
ArchiveMayServe(o, w) ==
  /\ o.provider = "auto" /\ ~Constrained(o)
  /\ o.doi # None \/ (w # None /\ w.doi # None)

(***************************************************************************)
(* The call                                                                *)
(***************************************************************************)

Call ==
  /\ step = "idle"
  /\ \E o \in Requests : asked' = Normal(o)
  /\ setup' \in [key : BOOLEAN, archive : BOOLEAN]
  /\ step' = "begin"
  /\ UNCHANGED <<found, todo, failures, ended, answer>>

(* The archive client's own download refuses anything but one identifier. *)
Begin ==
  /\ step = "begin"
  /\ step' = IF Plain(asked)
             THEN IF (asked.doi = None) = (asked.hash = None) THEN "refused" ELSE "archive"
             ELSE IF Refused(asked) THEN "refused"
             ELSE IF ended THEN "failed"
             ELSE IF ArchiveOnly(asked) THEN "archive" ELSE "lookup"
  /\ UNCHANGED <<asked, setup, found, todo, failures, ended, answer>>

(* OpenAlex finds the work, under any of its DOIs. *)
Lookup ==
  /\ step = "lookup" /\ ~ended /\ setup.key
  /\ \E w \in Works :
       /\ asked.doi # None => asked.doi \in {w.doi} \cup {l.doi : l \in w.locations}
       /\ asked.id # None => asked.id = w.id
       /\ found' = w
       /\ IF NotThere(w, asked)
          THEN step' = "refused" /\ UNCHANGED <<todo, failures>>
          ELSE /\ todo' = Candidates(w, asked)
               /\ failures' = IF todo' = <<>>
                              THEN Append(failures, [source |-> Whole("lookup"), how |-> "no_content"])
                              ELSE failures
               /\ step' = "fetch"
  /\ UNCHANGED <<asked, setup, ended, answer>>

(* It does not answer within eight seconds, or not with the work.  Without *)
(* a key it is not asked.                                                  *)
LookupFails ==
  /\ step = "lookup" /\ ~ended
  /\ failures' = Append(failures, [source |-> Whole("lookup"), how |-> "failed"])
  /\ step' = "fallback"
  /\ UNCHANGED <<asked, setup, found, todo, ended, answer>>

Fetched ==
  /\ step = "fetch" /\ todo # <<>> /\ ~ended
  /\ answer' = [by |-> "openalex", copy |-> Head(todo), doi |-> found.doi, hash |-> None]
  /\ step' = "done"
  /\ UNCHANGED <<asked, setup, found, todo, failures, ended>>

(* Failures that end the call: the disk, a refused key and, since its error *)
(* is taken for the end of the caller's deadline, a host that is too slow.  *)
Terminal == {"local", "config", "slow"}

(* Mutant of FetchFails: a failed candidate ends the call. *)
FetchFailsForGood(how) ==
  /\ step = "fetch" /\ todo # <<>> /\ ~ended
  /\ failures' = Append(failures, [source |-> Head(todo), how |-> how])
  /\ todo' = <<>>
  /\ step' = IF how \in Terminal THEN "failed" ELSE "fetch"
  /\ UNCHANGED <<asked, setup, found, ended, answer>>

FetchFails(how) ==
  /\ step = "fetch" /\ todo # <<>> /\ ~ended
  /\ failures' = Append(failures, [source |-> Head(todo), how |-> how])
  /\ todo' = Tail(todo)
  /\ step' = IF how \in Terminal THEN "failed" ELSE "fetch"
  /\ UNCHANGED <<asked, setup, found, ended, answer>>

NoMoreCandidates ==
  /\ step = "fetch" /\ todo = <<>> /\ ~ended
  /\ step' = "fallback"
  /\ UNCHANGED <<asked, setup, found, todo, failures, ended, answer>>

Fallback ==
  /\ step = "fallback"
  /\ step' = IF ArchiveMayServe(asked, found) /\ setup.archive THEN "archive" ELSE "failed"
  /\ UNCHANGED <<asked, setup, found, todo, failures, ended, answer>>

(* The DOI the archive is asked for. *)
ArchiveDOI == IF asked.doi = None /\ found # None THEN found.doi ELSE asked.doi

FromArchive ==
  /\ step = "archive" /\ setup.archive /\ ~ended
  /\ answer' = [by |-> "anna", copy |-> Whole("archive"), doi |-> ArchiveDOI, hash |-> asked.hash]
  /\ step' = "done"
  /\ UNCHANGED <<asked, setup, found, todo, failures, ended>>

(* The archive fails, or is not configured. *)
ArchiveFails ==
  /\ step = "archive"
  /\ failures' = Append(failures, [source |-> Whole("archive"), how |-> "failed"])
  /\ step' = "failed"
  /\ UNCHANGED <<asked, setup, found, todo, ended, answer>>

(* The caller's deadline or cancellation, which every step passes on. *)
GiveUp ==
  /\ step \notin {"idle", "done", "failed", "refused"} /\ ~ended
  /\ ended' = TRUE
  /\ UNCHANGED <<asked, setup, found, todo, failures, step, answer>>

Abandon ==
  /\ step \in {"lookup", "fetch"} /\ ended
  /\ step' = "failed"
  /\ UNCHANGED <<asked, setup, found, todo, failures, ended, answer>>

Init ==
  /\ asked = None /\ found = None /\ answer = None
  /\ setup = [key |-> FALSE, archive |-> FALSE]
  /\ todo = <<>> /\ failures = <<>>
  /\ ended = FALSE
  /\ step = "idle"

Next ==
  \/ Call \/ Begin \/ Lookup \/ LookupFails \/ Fetched \/ NoMoreCandidates
  \/ \E how \in Terminal \cup {"failed"} : FetchFails(how)
  \/ Fallback \/ FromArchive \/ ArchiveFails \/ GiveUp \/ Abandon

Spec == Init /\ [][Next]_dvars

(***************************************************************************)
(* Properties                                                              *)
(***************************************************************************)

(* papers/download.go: "Explicit hashes, locations, versions and providers *)
(* retain their selection semantics", HOW-IT-WORKS.md: "A no-DOI thesis    *)
(* cannot silently fall back to a similar AA title".  Whatever failed on   *)
(* the way, what is delivered is of the hash, provider, location, version  *)
(* and artifact that were asked for, and a PDF asked for by DOI is the      *)
(* work's, or the copy's, of that DOI.                                      *)
SelectionIsKept ==
  step = "done" =>
    /\ asked.hash # None => answer.by = "anna" /\ answer.hash = asked.hash
    /\ asked.provider # "auto" => answer.by = asked.provider
    /\ Constrained(asked) => answer.by = "openalex"
    /\ asked.location # None => answer.copy.location = asked.location
    /\ asked.version # None => answer.copy.version = asked.version
    /\ asked.artifact = "tei_xml" => answer.copy.route = "hosted_tei_xml"
    /\ asked.id # None => found # None /\ answer.doi = found.doi
    /\ answer.by = "anna" => (answer.doi # None \/ answer.hash # None)
    /\ asked.doi # None /\ asked.artifact = "pdf" /\ asked.location = None =>
         asked.doi = answer.doi \/ asked.doi = answer.copy.doi

Asked(source) == \E i \in DOMAIN failures : failures[i].source = source

(* A copy that an ordinary PDF request may use, by its address. *)
UsableCopies ==
  IF found = None \/ asked.location # None \/ asked.artifact # "pdf" THEN {}
  ELSE {l.url : l \in {l \in found.locations : FitsRequest(found, asked, l)}}

TriedCopies == {failures[i].source.url : i \in
  {i \in DOMAIN failures : failures[i].source.route = "external_pdf"}}

EndedEarly == ended \/ \E i \in DOMAIN failures : failures[i].how \in Terminal

FailedThroughout == step = "failed" /\ ~EndedEarly

HostedCopies ==
  CASE asked.artifact = "tei_xml" /\ found.xml -> {Whole("hosted_tei_xml")}
    [] asked.artifact = "pdf" /\ found.pdf /\ asked.location = None
       /\ asked.version = None /\ ~AlternateDOI(found, asked) -> {Whole("hosted_pdf")}
    [] OTHER -> {}

(* HOW-IT-WORKS.md: a request tries the hosted PDF, direct open PDFs and    *)
(* then the archive.  The archive is asked, or the call fails, only after   *)
(* the hosted copy and two open copies (or all there are) failed; and       *)
(* unless the call was ended, it fails only after the archive failed too    *)
(* where that may serve it.                                                 *)
SourcesInOrder ==
  /\ found # None /\ (FailedThroughout \/ (step = "done" /\ answer.by = "anna")) =>
       /\ \A c \in HostedCopies : Asked(c)
       /\ (\E u, v \in TriedCopies : u # v) \/ UsableCopies \subseteq TriedCopies
  /\ FailedThroughout /\ asked.provider = "auto" /\ ~Constrained(asked)
     /\ asked.doi # None /\ setup.archive => Asked(Whole("archive"))

(* HOW-IT-WORKS.md: "Local I/O errors and cancellation stop the operation", *)
(* other failures of a source go on to the next: an ordinary DOI request    *)
(* whose first host is slow still asks the archive.                         *)
SlowHostFallsBack ==
  step = "failed" /\ ~ended /\ asked.doi # None /\ asked.provider = "auto"
  /\ ~Constrained(asked) /\ setup.archive
  /\ (\A i \in DOMAIN failures : failures[i].how \in {"failed", "slow"}) => Asked(Whole("archive"))
=============================================================================
