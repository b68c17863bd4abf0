---------------------------- MODULE FastDownload ----------------------------
(***************************************************************************)
(* One download of a file by its hash from the archive's fast servers      *)
(* (downloadBookFromArchive and resolveDownloadURL of client_download.go,  *)
(* downloadFileWithGetter and transfer of download_file.go).  The API is   *)
(* asked for a link to each server of each collection in turn until one    *)
(* transfer ends in the right file.  A transfer that is interrupted goes   *)
(* on from where it stopped, at most MaxResumes times.                     *)
(*                                                                         *)
(* A file is a number of blocks, and a block is known by the file it is of *)
(* and its place there.  What the API and the servers answer is chosen     *)
(* when they are asked and remembered in "answer".                         *)
(***************************************************************************)
EXTENDS Integers, Sequences

CONSTANTS
  MaxPaths,    \* maxDownloadPaths: how many collections are tried
  NumServers,  \* the length of domainIndexes
  MaxResumes,  \* maxResumes
  MaxBlocks,   \* maxDownloadBytes, in blocks
  Allowance    \* the downloads left of the account, in the beginning

ASSUME LoopAssumption == MaxPaths \in Nat \ {0} /\ NumServers \in Nat \ {0} /\ MaxResumes \in Nat
ASSUME BlocksAssumption == MaxBlocks \in Nat /\ MaxBlocks >= 2
ASSUME AllowanceAssumption == Allowance \in Nat

Collections == 1..MaxPaths
Servers == 1..NumServers

(* The file that was asked for, another of the same size, and one that is  *)
(* larger than a download may be.                                          *)
Length == [right |-> 2, other |-> 2, huge |-> MaxBlocks + 1]
Files == DOMAIN Length

Unknown == -1   \* a Content-Length that is not given
NoAccount == [left |-> 0, recent |-> FALSE, known |-> FALSE]

(* A server to which the API gives a link serves something or answers 404. *)
Grants == {"link", "missing"}

(* The API has no such server or collection; every server would say the    *)
(* same; or this request failed, on the other mirror too.                  *)
Refusals == {"none", "stop", "error"}

VARIABLES
  answer,    \* what was answered for each server of each collection
  left,      \* the downloads that the archive says the account has left
  recent,    \* whether the archive counted this file already
  path,      \* pathIndex
  server,    \* position
  granted,   \* whether a server of this collection got a link
  attempts,  \* the failed attempts: their server and what failed
  missing,   \* how many of them were answered 404
  account,   \* the account as the API last described it
  pc,        \* where the call is
  gone,      \* whether its context has ended
  body,      \* what is left of the response: of which file, from which block
  size,      \* transfer.size
  file,      \* what is in the temporary file
  hashed,    \* what the hasher has hashed
  outcome,   \* how transfer.copy ended
  resumes,   \* how often this transfer was resumed
  result     \* what the call returns

archiveVars == <<answer, left, recent>>
attemptVars == <<attempts, missing>>
loopVars == <<path, server, granted, attemptVars, account>>
transferVars == <<body, size, file, hashed, outcome, resumes>>
vars == <<archiveVars, loopVars, transferVars, pc, gone, result>>

NoBody == [of |-> "right", next |-> 1]
Here == <<path, server>>
Attempt(kind) == Append(attempts, [at |-> Here, kind |-> kind])

(***************************************************************************)
(* The loop over collections and servers                                   *)
(***************************************************************************)

Return(r) ==
  /\ pc' = "done"
  /\ result' = r
  /\ UNCHANGED <<path, server, granted>>

(* Mutant of Conclude: one server without the file is enough. *)
ConcludeAnyMissing ==
  Return([kind |-> IF missing' > 0 /\ ~gone THEN "missing_everywhere" ELSE "failed",
          left |-> Unknown])

(* The loops are over: was the file missing wherever a link was given? *)
Conclude ==
  Return([kind |-> IF missing' > 0 /\ missing' = Len(attempts') /\ ~gone
                   THEN "missing_everywhere" ELSE "failed",
          left |-> Unknown])

(* Another collection helps only when this one's files failed. *)
NextCollection(open) ==
  IF open /\ path < MaxPaths
  THEN /\ path' = path + 1 /\ server' = 1 /\ granted' = FALSE
       /\ pc' = "ask"
       /\ UNCHANGED result
  ELSE Conclude

NextServer(open) ==
  IF server < NumServers
  THEN /\ server' = server + 1 /\ granted' = open
       /\ pc' = "ask"
       /\ UNCHANGED <<path, result>>
  ELSE NextCollection(open)

(* Before the archive is asked, the format, the folder and the account's   *)
(* key are looked at, and a file is written to the folder and removed.     *)
Validate ==
  /\ pc = "validate" /\ ~gone
  /\ pc' = "ask"
  /\ UNCHANGED <<archiveVars, loopVars, transferVars, gone, result>>

(* One of them does not do, or the context ended. *)
Invalid ==
  /\ pc = "validate"
  /\ Return([kind |-> "invalid", left |-> Unknown])
  /\ UNCHANGED <<archiveVars, transferVars, attemptVars, account, gone>>

(* The context ended, or no mirror can be asked. *)
Stop ==
  /\ pc = "ask"
  /\ Return([kind |-> "stopped", left |-> Unknown])
  /\ UNCHANGED <<archiveVars, transferVars, attemptVars, account, gone>>

(* Mutant of AskNone: fewer servers are taken for fewer collections. *)
AskNoneEnds ==
  /\ pc = "ask" /\ ~gone
  /\ answer' = [answer EXCEPT ![Here] = "none"]
  /\ attempts' = IF Here = <<1, 1>> THEN Attempt("api") ELSE attempts
  /\ UNCHANGED <<left, recent, transferVars, missing, account, gone>>
  /\ Conclude

(* The API has no such index.  At the first server it is the collection,   *)
(* or the file, that does not exist; at another it is the server.          *)
AskNone ==
  /\ pc = "ask" /\ ~gone
  /\ answer' = [answer EXCEPT ![Here] = "none"]
  /\ attempts' = IF Here = <<1, 1>> THEN Attempt("api") ELSE attempts
  /\ UNCHANGED <<left, recent, transferVars, missing, account, gone>>
  /\ IF server = 1 THEN Conclude ELSE NextCollection(granted)

(* An answer about the account or the file ends the download. *)
AskStop ==
  /\ pc = "ask" /\ ~gone
  /\ answer' = [answer EXCEPT ![Here] = "stop"]
  /\ attempts' = Attempt("api")
  /\ UNCHANGED <<left, recent, transferVars, missing, account, gone>>
  /\ Conclude

(* The archive gives the account a link and counts it once per file. *)
Count ==
  /\ recent \/ left > 0
  /\ recent' = TRUE
  /\ left' = IF recent THEN left ELSE left - 1

(* The request failed, perhaps after the archive had counted it. *)
AskFails ==
  /\ pc = "ask" /\ ~gone
  /\ answer' = [answer EXCEPT ![Here] = "error"]
  /\ attempts' = Attempt("api")
  /\ Count \/ UNCHANGED <<left, recent>>
  /\ UNCHANGED <<transferVars, missing, account, gone>>
  /\ NextServer(granted)

(* The API gives a link and may describe the account before it counts. *)
Grant ==
  /\ pc = "ask" /\ ~gone
  /\ \E a \in Grants : answer' = [answer EXCEPT ![Here] = a]
  /\ Count
  /\ account' \in {account, [left |-> left, recent |-> recent, known |-> TRUE]}
  /\ granted' = TRUE
  /\ pc' = "open"
  /\ UNCHANGED <<transferVars, path, server, attemptVars, gone, result>>

(***************************************************************************)
(* One transfer                                                            *)
(***************************************************************************)

(* The temporary file is removed and the next server is asked. *)
FileFails(kind) ==
  /\ attempts' = Attempt(kind)
  /\ missing' = IF kind = "missing" THEN missing + 1 ELSE missing
  /\ NextServer(TRUE)
  /\ body' = NoBody /\ size' = Unknown /\ file' = <<>> /\ hashed' = <<>>
  /\ outcome' = "complete" /\ resumes' = 0
  /\ UNCHANGED <<archiveVars, account, gone>>

(* The server answers 404. *)
FileIsMissing ==
  /\ pc = "open" /\ ~gone
  /\ answer[Here] = "missing"
  /\ FileFails("missing")

(* The server answers with another status, or with something other than a  *)
(* file of a size that may be downloaded, or the request or the folder     *)
(* fails, or the context ended.                                            *)
OpenFails ==
  /\ pc = "open"
  /\ gone \/ answer[Here] = "link"
  /\ FileFails("file")

(* Nothing is written yet of a file of the announced size. *)
NewTransfer(announced) ==
  /\ size' = announced
  /\ file' = <<>> /\ hashed' = <<>>
  /\ outcome' = "complete" /\ resumes' = 0

Open ==
  /\ pc = "open" /\ ~gone
  /\ answer[Here] = "link"
  /\ \E f \in Files, announced \in Unknown..MaxBlocks :
       /\ announced \in {Unknown, Length[f]}
       /\ body' = [of |-> f, next |-> 1]
       /\ NewTransfer(announced)
  /\ pc' = "copy"
  /\ UNCHANGED <<archiveVars, loopVars, gone, result>>

Block == <<body.of, body.next>>
HasBlock == body.next <= Length[body.of]

CopyEnds(how) == pc' = "copied" /\ outcome' = how

(* A block is read, hashed and written. *)
CopyBlock ==
  /\ pc = "copy" /\ ~gone
  /\ HasBlock /\ Len(file) < MaxBlocks
  /\ hashed' = Append(hashed, Block)
  /\ file' = Append(file, Block)
  /\ body' = [body EXCEPT !.next = @ + 1]
  /\ UNCHANGED <<archiveVars, loopVars, size, outcome, resumes, pc, gone, result>>

(* A block is hashed, and then the disk fails. *)
WriteFails ==
  /\ pc = "copy" /\ ~gone
  /\ HasBlock /\ Len(file) < MaxBlocks
  /\ hashed' = Append(hashed, Block)
  /\ CopyEnds("failed")
  /\ UNCHANGED <<archiveVars, loopVars, body, size, file, resumes, gone, result>>

(* The file turns out larger than allowed, or the context ended. *)
CopyFails ==
  /\ pc = "copy"
  /\ gone \/ (HasBlock /\ Len(file) >= MaxBlocks)
  /\ CopyEnds("failed")
  /\ UNCHANGED <<archiveVars, loopVars, body, size, file, hashed, resumes, gone, result>>

(* The body ends, early perhaps, which shows when the size is known. *)
BodyEnds ==
  /\ pc = "copy" /\ ~gone
  /\ CopyEnds(IF size # Unknown /\ Len(file) < size THEN "interrupted" ELSE "complete")
  /\ UNCHANGED <<archiveVars, loopVars, body, size, file, hashed, resumes, gone, result>>

(* The connection breaks or stalls. *)
ReadFails ==
  /\ pc = "copy"
  /\ CopyEnds("interrupted")
  /\ UNCHANGED <<archiveVars, loopVars, body, size, file, hashed, resumes, gone, result>>

MayResume == outcome = "interrupted" /\ resumes < MaxResumes /\ ~gone

(* Mutant of Resume: the start of the continuation is not looked at. *)
ResumeAnywhere ==
  /\ pc = "copied" /\ MayResume
  /\ \E f \in Files, start \in 0..MaxBlocks :
       /\ body' = [of |-> f, next |-> start + 1]
       /\ pc' = "copy"
       /\ resumes' = resumes + 1
       /\ UNCHANGED <<archiveVars, loopVars, size, file, hashed, outcome, gone, result>>

(* Mutant of Resume: resumptions are not counted. *)
ResumeUncounted ==
  /\ pc = "copied" /\ MayResume
  /\ \E f \in Files, start \in 0..MaxBlocks :
       IF start = Len(file)
       THEN /\ body' = [of |-> f, next |-> start + 1]
            /\ pc' = "copy"
            /\ UNCHANGED <<archiveVars, loopVars, size, file, hashed, outcome, resumes, gone, result>>
       ELSE FileFails("file")

(* An interrupted transfer asks for the rest.  Only an answer that starts  *)
(* where it stopped continues it; the server may have got another file     *)
(* meanwhile.                                                              *)
Resume ==
  /\ pc = "copied" /\ MayResume
  /\ \E f \in Files, start \in 0..MaxBlocks :
       IF start = Len(file)
       THEN /\ body' = [of |-> f, next |-> start + 1]
            /\ pc' = "copy"
            /\ resumes' = resumes + 1
            /\ UNCHANGED <<archiveVars, loopVars, size, file, hashed, outcome, gone, result>>
       ELSE FileFails("file")

Content(f) == [i \in 1..Length[f] |-> <<f, i>>]

(* Mutant of Verified: a file of the announced size is not hashed. *)
VerifiedBySize ==
  /\ Len(file) > 0
  /\ IF size # Unknown THEN Len(file) = size ELSE hashed = Content("right")

(* transfer.finish: the size and the hash must be right. *)
Verified ==
  /\ Len(file) > 0
  /\ size # Unknown => Len(file) = size
  /\ hashed = Content("right")

TransferFails ==
  /\ pc = "copied" /\ ~MayResume
  /\ outcome # "complete" \/ ~Verified
  /\ FileFails("file")

(* Mutant of DownloadsLeft: every link costs one. *)
DownloadsLeftLess == IF ~account.known THEN Unknown ELSE IF account.left > 0 THEN account.left - 1 ELSE 0

(* downloadsLeftAfter: what the API said, less this download if it counts. *)
DownloadsLeft ==
  IF ~account.known THEN Unknown
  ELSE IF account.recent \/ account.left = 0 THEN account.left
  ELSE account.left - 1

(* The verified file is linked under a free name, unless that fails or the *)
(* context ends first.                                                     *)
Link ==
  /\ pc = "copied" /\ outcome = "complete" /\ Verified
  /\ \/ /\ ~gone
        /\ Return([kind |-> "file", left |-> DownloadsLeft])
        /\ UNCHANGED <<archiveVars, attemptVars, account, transferVars, gone>>
     \/ FileFails("file")

GiveUp ==
  /\ pc # "done" /\ ~gone
  /\ gone' = TRUE
  /\ UNCHANGED <<archiveVars, loopVars, transferVars, pc, result>>

Init ==
  /\ answer = [p \in Collections \X Servers |-> "unasked"]
  /\ left \in 0..Allowance
  /\ recent \in BOOLEAN
  /\ path = 1 /\ server = 1 /\ granted = FALSE
  /\ attempts = <<>> /\ missing = 0
  /\ account = NoAccount
  /\ pc = "validate"
  /\ gone = FALSE
  /\ body = NoBody /\ size = Unknown /\ file = <<>> /\ hashed = <<>>
  /\ outcome = "complete" /\ resumes = 0
  /\ result = [kind |-> "pending", left |-> Unknown]

Proceed ==
  \/ Validate \/ Invalid
  \/ Stop \/ AskNone \/ AskStop \/ AskFails \/ Grant
  \/ FileIsMissing \/ OpenFails \/ Open \/ CopyBlock \/ WriteFails \/ CopyFails \/ BodyEnds \/ ReadFails
  \/ Resume \/ TransferFails \/ Link

Next == Proceed \/ GiveUp

(* Requests and reads time out, so the call goes on. *)
Spec == Init /\ [][Next]_vars /\ WF_vars(Proceed)

(***************************************************************************)
(* Properties                                                              *)
(***************************************************************************)

(* Every variable holds a value of its type.  A transfer is resumed at     *)
(* most MaxResumes times, and there is one only while it runs.             *)
TypeOK ==
  /\ answer \in [Collections \X Servers -> Grants \cup Refusals \cup {"unasked"}]
  /\ left \in 0..Allowance /\ recent \in BOOLEAN
  /\ path \in Collections /\ server \in Servers /\ granted \in BOOLEAN
  /\ attempts \in Seq([at : Collections \X Servers, kind : {"api", "file", "missing"}])
  /\ missing \in Nat
  /\ account \in [left : 0..Allowance, recent : BOOLEAN, known : BOOLEAN]
  /\ pc \in {"validate", "ask", "open", "copy", "copied", "done"}
  /\ gone \in BOOLEAN
  /\ body \in [of : Files, next : 1..(MaxBlocks + 2)]
  /\ size \in {Unknown} \cup 0..MaxBlocks
  /\ {file, hashed} \subseteq Seq(Files \X Nat)
  /\ outcome \in {"complete", "interrupted", "failed"}
  /\ resumes \in 0..MaxResumes
  /\ result \in [kind : {"pending", "invalid", "stopped", "failed", "missing_everywhere", "file"},
                 left : {Unknown} \cup 0..Allowance]

(* download_file.go: whatever servers send and however often a transfer is *)
(* interrupted, a file that is returned is the one that was asked for.     *)
DeliversTheFile == result.kind = "file" => file = Content("right")

(* download_file.go, transfer: a transfer that goes on has lost no block   *)
(* and repeated none, and its hash is of what the file holds.              *)
TransferIsContinuous ==
  pc = "copy" => /\ hashed = file
                 /\ body.next = Len(file) + 1
                 /\ \A i \in 1..Len(file) : file[i][2] = i

Asked(p, s) == answer[<<p, s>>] # "unasked"

(* Whether an answer came that ends the whole download. *)
ToldToStop == (\E w \in DOMAIN answer : answer[w] = "stop") \/ answer[<<1, 1>>] = "none"

(* Whether the answers left a server open: every collection before its own *)
(* exists and gave a link, and so do its own and the servers before it.    *)
LeftOpen(p, s) ==
  /\ \A q \in 1..(p - 1) : \E t \in Servers : answer[<<q, t>>] \in Grants
  /\ \A q \in 1..p : q # p \/ s # 1 => answer[<<q, 1>>] # "none"
  /\ \A t \in 1..(s - 1) : answer[<<p, t>>] # "none"

(* client_download.go: a download fails only after it asked every server   *)
(* of every collection that the answers left open: a collection is closed  *)
(* when it does not exist or when the one before gave no link at all, and  *)
(* its servers end with the first that does not exist.                     *)
FailsAfterTryingAll ==
  result.kind \in {"failed", "missing_everywhere"} /\ ~gone /\ ~ToldToStop =>
    \A p \in Collections, s \in Servers : LeftOpen(p, s) => Asked(p, s)

(* download_errors.go, ErrNotOnFastServers: the file is reported missing   *)
(* everywhere only when every server with a link answered 404 and no       *)
(* request failed in another way.                                          *)
MissingMeansMissing ==
  result.kind = "missing_everywhere" =>
    /\ \A w \in DOMAIN answer : answer[w] \in {"missing", "none", "unasked"}
    /\ \E w \in DOMAIN answer : answer[w] = "missing"

(* client_download.go, downloadsLeftAfter: the downloads left that a       *)
(* success reports are those that the archive has counted, however many    *)
(* links were given or lost before.                                        *)
AllowanceIsExact == result.kind = "file" => result.left \in {Unknown, left}

(* The download ends, whatever the servers do. *)
DownloadEnds == <>(pc = "done")
=============================================================================
