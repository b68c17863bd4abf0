------------------------- MODULE FastDownload_proofs -------------------------
(***************************************************************************)
(* What a download from the fast servers returns, for any number of        *)
(* collections, servers and resumptions, any limit of the size and any     *)
(* allowance.                                                              *)
(***************************************************************************)
EXTENDS FastDownload, TLAPS

InFlight == {"open", "copy", "copied"}

(* The call is over exactly when it has a result. *)
EndsWithResult == pc = "done" <=> result.kind # "pending"

(* While a transfer may go on or succeed, its hash is of what is in the    *)
(* file, and the file has its blocks in order.                             *)
HashIsOfFile ==
  pc = "copy" \/ (pc = "copied" /\ outcome # "failed") =>
    hashed = file /\ \A i \in 1..Len(file) : file[i][2] = i

BodyContinues == pc = "copy" => body.next = Len(file) + 1

(* The account was described before the archive counted the file. *)
AccountIsOfBefore ==
  account.known =>
    /\ recent
    /\ account.recent \/ account.left > 0
    /\ left = IF account.recent THEN account.left ELSE account.left - 1

(* Servers are asked in order, and the one whose turn it is has not been   *)
(* asked before the API is.                                                *)
After(p, s) == p > path \/ (p = path /\ s > server)
AskedInOrder ==
  pc # "done" =>
    /\ \A p \in Collections, s \in Servers : After(p, s) => ~Asked(p, s)
    /\ pc \in {"validate", "ask"} => ~Asked(path, server)

(* There is a transfer only by a link. *)
TransferHasLink == pc \in InFlight => granted /\ answer[Here] \in Grants

(* "granted" says that a server of this collection got a link. *)
GrantedIsLink == pc # "done" /\ granted => \E t \in Servers : answer[<<path, t>>] \in Grants
NoLinkWithout == pc # "done" /\ ~granted => \A t \in Servers : answer[<<path, t>>] \notin Grants

(* What was passed over was closed. *)
NothingPassedOver ==
  pc # "done" =>
    \A p \in Collections, s \in Servers :
      (p < path \/ (p = path /\ s < server)) /\ LeftOpen(p, s) => Asked(p, s)

(* Attempts are counted as missing one by one. *)
MissingIsCounted ==
  /\ missing <= Len(attempts)
  /\ missing = Len(attempts) => \A i \in 1..Len(attempts) : attempts[i].kind = "missing"
  /\ missing > 0 => \E w \in DOMAIN answer : answer[w] = "missing"

(* Whatever else a server answered has left an attempt that tells. *)
OtherAnswersAreKept ==
  \A w \in DOMAIN answer :
    /\ answer[w] \notin {"missing", "none", "unasked"}
    /\ pc \in InFlight => w # Here
    /\ result.kind # "file"
    => \E i \in 1..Len(attempts) : attempts[i].kind # "missing"

FastInv ==
  /\ TypeOK
  /\ EndsWithResult
  /\ HashIsOfFile /\ BodyContinues /\ DeliversTheFile
  /\ AccountIsOfBefore /\ AllowanceIsExact
  /\ AskedInOrder /\ TransferHasLink /\ GrantedIsLink /\ NoLinkWithout
  /\ NothingPassedOver /\ FailsAfterTryingAll
  /\ MissingIsCounted /\ OtherAnswersAreKept /\ MissingMeansMissing

USE LoopAssumption, BlocksAssumption, AllowanceAssumption

(* The loops either end, with a failure, or go on with another server. *)
Ends ==
  /\ pc' = "done" /\ UNCHANGED <<path, server, granted>>
  /\ result' \in [kind : {"failed", "missing_everywhere"}, left : {Unknown}]
  /\ result'.kind = "missing_everywhere" => missing' > 0 /\ missing' = Len(attempts')
GoesOn(open) ==
  /\ pc' = "ask" /\ UNCHANGED result
  /\ \/ server < NumServers /\ path' = path /\ server' = server + 1 /\ granted' = open
     \/ open /\ path < MaxPaths /\ path' = path + 1 /\ server' = 1 /\ granted' = FALSE

LEMMA LoopsLead ==
  /\ Conclude => Ends
  /\ \A open : NextCollection(open) => Ends \/ GoesOn(open)
  /\ \A open : NextServer(open) => Ends \/ GoesOn(open)
<1>1. ASSUME Conclude PROVE Ends
  <2>1. pc' = "done" /\ UNCHANGED <<path, server, granted>>
    BY <1>1, Zenon DEF Conclude, Return
  <2>2. \/ result' = [kind |-> "failed", left |-> Unknown]
        \/ /\ result' = [kind |-> "missing_everywhere", left |-> Unknown]
           /\ missing' > 0 /\ missing' = Len(attempts')
    BY <1>1, Zenon DEF Conclude, Return
  <2> QED
    BY <2>1, <2>2 DEF Ends
<1>2. ASSUME NEW open, NextCollection(open) PROVE Ends \/ GoesOn(open)
  BY <1>1, <1>2, Zenon DEF NextCollection, GoesOn
<1>3. ASSUME NEW open, NextServer(open) PROVE Ends \/ GoesOn(open)
  BY <1>2, <1>3, Zenon DEF NextServer, GoesOn
<1> QED
  BY <1>1, <1>2, <1>3

(***************************************************************************)
(* Types                                                                   *)
(***************************************************************************)

Results == [kind : {"pending", "invalid", "stopped", "failed", "missing_everywhere", "file"},
            left : {Unknown} \cup 0..Allowance]
Attempts == [at : Collections \X Servers, kind : {"api", "file", "missing"}]

LEMMA LoopsKeepType ==
  ASSUME TypeOK, NEW open \in BOOLEAN, Ends \/ GoesOn(open)
  PROVE  /\ path' \in Collections /\ server' \in Servers /\ granted' \in BOOLEAN
         /\ pc' \in {"ask", "done"} /\ result' \in Results
<1>1. CASE Ends
  BY <1>1 DEF TypeOK, Ends, Results
<1>2. CASE GoesOn(open)
  <2>1. granted' \in BOOLEAN
    BY <1>2, Zenon DEF GoesOn
  <2>2. path' \in Collections /\ server' \in Servers
    BY <1>2 DEF TypeOK, GoesOn, Collections, Servers
  <2> QED
    BY <1>2, <2>1, <2>2 DEF TypeOK, GoesOn, Results
<1> QED
  BY <1>1, <1>2

LEMMA AttemptsAreTyped ==
  ASSUME TypeOK, NEW kind \in {"api", "file", "missing"}
  PROVE  /\ Attempt(kind) \in Seq(Attempts)
         /\ Len(Attempt(kind)) = Len(attempts) + 1
         /\ \A i \in 1..Len(attempts) : Attempt(kind)[i] = attempts[i]
         /\ Attempt(kind)[Len(attempts) + 1].kind = kind
<1>1. [at |-> Here, kind |-> kind] \in Attempts
  BY DEF TypeOK, Attempts, Here
<1>2. attempts \in Seq(Attempts)
  BY DEF TypeOK, Attempts
<1> QED
  BY <1>1, <1>2 DEF Attempt

LEMMA CountKeepsType == TypeOK /\ Count => left' \in 0..Allowance /\ recent' \in BOOLEAN
<1> SUFFICES ASSUME TypeOK, Count PROVE left' \in 0..Allowance /\ recent' \in BOOLEAN
  OBVIOUS
<1>1. CASE recent
  BY <1>1 DEF TypeOK, Count
<1>2. CASE ~recent
  BY <1>2 DEF TypeOK, Count
<1> QED
  BY <1>1, <1>2

LEMMA StepKeepsType == TypeOK /\ [Next]_vars => TypeOK'
<1> SUFFICES ASSUME TypeOK, [Next]_vars PROVE TypeOK'
  OBVIOUS
<1> USE DEF archiveVars, attemptVars, loopVars, transferVars
<1>1. ASSUME Validate \/ Invalid \/ Stop \/ GiveUp \/ UNCHANGED vars PROVE TypeOK'
  <2>1. result' \in Results
    BY <1>1 DEF TypeOK, Validate, Invalid, Stop, GiveUp, vars, Return, Results
  <2>2. pc' \in {"validate", "ask", "open", "copy", "copied", "done"} /\ gone' \in BOOLEAN
    BY <1>1 DEF TypeOK, Validate, Invalid, Stop, GiveUp, vars, Return
  <2>3. UNCHANGED <<archiveVars, loopVars, transferVars>>
    BY <1>1, Zenon DEF Validate, Invalid, Stop, GiveUp, vars, Return
  <2> QED
    BY <2>1, <2>2, <2>3 DEF TypeOK, Results
<1>2. ASSUME AskNone \/ AskStop \/ AskFails PROVE TypeOK'
  <2>1. Ends \/ GoesOn(granted)
    BY <1>2, LoopsLead, Zenon DEF AskNone, AskStop, AskFails
  <2>2. granted \in BOOLEAN
    BY DEF TypeOK
  <2>3. /\ path' \in Collections /\ server' \in Servers /\ granted' \in BOOLEAN
        /\ pc' \in {"ask", "done"} /\ result' \in Results
    BY <2>1, <2>2, LoopsKeepType
  <2>4. attempts' \in Seq(Attempts)
    BY <1>2, AttemptsAreTyped DEF TypeOK, Attempts, AskNone, AskStop, AskFails
  <2>5. answer' \in [Collections \X Servers -> Grants \cup Refusals \cup {"unasked"}]
    BY <1>2 DEF TypeOK, AskNone, AskStop, AskFails, Here, Refusals
  <2>6. left' \in 0..Allowance /\ recent' \in BOOLEAN
    BY <1>2, CountKeepsType, Zenon DEF TypeOK, AskNone, AskStop, AskFails
  <2>7. UNCHANGED <<transferVars, missing, account, gone>>
    BY <1>2 DEF AskNone, AskStop, AskFails
  <2> QED
    BY <2>3, <2>4, <2>5, <2>6, <2>7 DEF TypeOK, Results, Attempts
<1>3. CASE Grant
  <2>1. left' \in 0..Allowance /\ recent' \in BOOLEAN
    BY <1>3, CountKeepsType DEF Grant
  <2>2. account' \in [left : 0..Allowance, recent : BOOLEAN, known : BOOLEAN]
    <3>1. [left |-> left, recent |-> recent, known |-> TRUE] \in [left : 0..Allowance, recent : BOOLEAN, known : BOOLEAN]
      BY Zenon DEF TypeOK
    <3> QED
      BY <1>3, <3>1, Zenon DEF TypeOK, Grant
  <2>3. answer' \in [Collections \X Servers -> Grants \cup Refusals \cup {"unasked"}]
    BY <1>3 DEF TypeOK, Grant, Here
  <2> QED
    BY <1>3, <2>1, <2>2, <2>3 DEF TypeOK, Grant
<1>4. ASSUME NEW kind \in {"api", "file", "missing"}, FileFails(kind) PROVE TypeOK'
  <2>1. /\ path' \in Collections /\ server' \in Servers /\ granted' \in BOOLEAN
        /\ pc' \in {"ask", "done"} /\ result' \in Results
    BY <1>4, LoopsLead, LoopsKeepType DEF FileFails
  <2>2. attempts' \in Seq(Attempts)
    BY <1>4, AttemptsAreTyped DEF FileFails
  <2>3. body' \in [of : Files, next : 1..(MaxBlocks + 2)]
    BY <1>4 DEF FileFails, NoBody, Files, Length
  <2> QED
    BY <1>4, <2>1, <2>2, <2>3 DEF TypeOK, FileFails, Results, Attempts
<1>5. ASSUME FileIsMissing \/ OpenFails \/ TransferFails PROVE TypeOK'
  BY <1>4, <1>5 DEF FileIsMissing, OpenFails, TransferFails
<1>6. CASE Open
  BY <1>6 DEF TypeOK, Open, NewTransfer, Unknown
<1>7. ASSUME CopyBlock \/ WriteFails PROVE TypeOK'
  <2>1. body.next <= MaxBlocks + 1 /\ Block \in Files \X Nat
    BY <1>7 DEF TypeOK, CopyBlock, WriteFails, HasBlock, Length, Files, Block
  <2>2. file \in Seq(Files \X Nat) /\ hashed \in Seq(Files \X Nat)
    BY DEF TypeOK
  <2>3. Append(file, Block) \in Seq(Files \X Nat) /\ Append(hashed, Block) \in Seq(Files \X Nat)
    BY <2>1, <2>2
  <2>4. {file', hashed'} \subseteq Seq(Files \X Nat)
    BY <1>7, <2>2, <2>3 DEF CopyBlock, WriteFails
  <2>5. body' = body \/ body' = [body EXCEPT !.next = @ + 1]
    BY <1>7 DEF CopyBlock, WriteFails
  <2>6. body \in [of : Files, next : 1..(MaxBlocks + 2)]
    BY DEF TypeOK
  <2>7. body' \in [of : Files, next : 1..(MaxBlocks + 2)]
    BY <2>1, <2>5, <2>6
  <2> QED
    BY <1>7, <2>4, <2>7 DEF TypeOK, CopyBlock, WriteFails, CopyEnds
<1>8. ASSUME CopyFails \/ BodyEnds \/ ReadFails PROVE TypeOK'
  BY <1>8 DEF TypeOK, CopyFails, BodyEnds, ReadFails, CopyEnds
<1>9. CASE Resume
  <2>1. PICK f \in Files, start \in 0..MaxBlocks :
          IF start = Len(file)
          THEN /\ body' = [of |-> f, next |-> start + 1]
               /\ pc' = "copy"
               /\ resumes' = resumes + 1
               /\ UNCHANGED <<archiveVars, loopVars, size, file, hashed, outcome, gone, result>>
          ELSE FileFails("file")
    BY <1>9 DEF Resume
  <2>2. resumes < MaxResumes
    BY <1>9 DEF Resume, MayResume
  <2> QED
    BY <1>4, <2>1, <2>2 DEF TypeOK
<1>10. CASE Link
  <2>1. DownloadsLeft \in {Unknown} \cup 0..Allowance
    BY DEF TypeOK, DownloadsLeft, Unknown
  <2> QED
    BY <1>4, <1>10, <2>1 DEF TypeOK, Link, Return
<1> QED
  BY <1>1, <1>2, <1>3, <1>5, <1>6, <1>7, <1>8, <1>9, <1>10 DEF Next, Proceed

(***************************************************************************)
(* What is in the file                                                     *)
(***************************************************************************)

TransferInv == EndsWithResult /\ HashIsOfFile /\ BodyContinues /\ DeliversTheFile

(* An action outside the transfers, or one that ends a transfer. *)
Loops == Ends \/ GoesOn(granted) \/ GoesOn(TRUE)

LEMMA AskingLoops ==
  /\ AskNone \/ AskStop \/ AskFails => Loops
  /\ \A kind : FileFails(kind) => Loops
BY LoopsLead, Zenon DEF AskNone, AskStop, AskFails, FileFails, Loops

LEMMA LoopsKeepTransfer ==
  ASSUME TransferInv, pc # "done", Loops
  PROVE  TransferInv'
BY DEF TransferInv, EndsWithResult, HashIsOfFile, BodyContinues, DeliversTheFile, Loops, Ends, GoesOn

LEMMA StepKeepsTransfer == TypeOK /\ TransferInv /\ [Next]_vars => TransferInv'
<1> SUFFICES ASSUME TypeOK, TransferInv, [Next]_vars PROVE TransferInv'
  OBVIOUS
<1> USE DEF archiveVars, attemptVars, loopVars, transferVars, EndsWithResult, HashIsOfFile,
            BodyContinues, DeliversTheFile, TransferInv
<1>1. ASSUME Validate \/ Invalid \/ Stop \/ GiveUp \/ UNCHANGED vars PROVE TransferInv'
  BY <1>1 DEF Validate, Invalid, Stop, GiveUp, vars, Return
<1>2. CASE AskNone \/ AskStop \/ AskFails
  BY <1>2, AskingLoops, LoopsKeepTransfer DEF AskNone, AskStop, AskFails
<1>3. CASE Grant
  BY <1>3 DEF Grant
<1>4. ASSUME NEW kind, FileFails(kind), pc # "done" PROVE TransferInv'
  BY <1>4, AskingLoops, LoopsKeepTransfer
<1>5. CASE FileIsMissing \/ OpenFails \/ TransferFails
  BY <1>4, <1>5 DEF FileIsMissing, OpenFails, TransferFails
<1>6. CASE Open
  BY <1>6 DEF Open, NewTransfer
<1>7. CASE CopyBlock
  <2>1. file \in Seq(Files \X Nat) /\ body.next = Len(file) + 1 /\ hashed = file
    BY <1>7 DEF TypeOK, CopyBlock
  <2>2. Block \in Files \X Nat /\ Block[2] = Len(file) + 1
    BY <2>1 DEF TypeOK, Block
  <2>3. \A i \in 1..Len(file) : file[i][2] = i
    BY <1>7 DEF CopyBlock
  <2>4. file' = Append(file, Block) /\ hashed' = file' /\ pc' = pc /\ result' = result
    BY <1>7, <2>1 DEF CopyBlock
  <2>5. body'.next = Len(file) + 2
    BY <1>7, <2>1 DEF TypeOK, CopyBlock
  <2>6. Len(file') = Len(file) + 1 /\ \A i \in 1..Len(file') : file'[i][2] = i
    BY <2>1, <2>2, <2>3, <2>4
  <2> QED
    BY <1>7, <2>1, <2>4, <2>5, <2>6 DEF CopyBlock
<1>8. CASE WriteFails
  BY <1>8 DEF WriteFails, CopyEnds
<1>9. CASE CopyFails \/ BodyEnds \/ ReadFails
  BY <1>9 DEF CopyFails, BodyEnds, ReadFails, CopyEnds
<1>10. CASE Resume
  <2>1. PICK f \in Files, start \in 0..MaxBlocks :
          IF start = Len(file)
          THEN /\ body' = [of |-> f, next |-> start + 1]
               /\ pc' = "copy"
               /\ resumes' = resumes + 1
               /\ UNCHANGED <<archiveVars, loopVars, size, file, hashed, outcome, gone, result>>
          ELSE FileFails("file")
    BY <1>10 DEF Resume
  <2> QED
    BY <1>4, <1>10, <2>1 DEF Resume, MayResume
<1>11. CASE Link
  BY <1>4, <1>11 DEF Link, Return, Verified
<1> QED
  BY <1>1, <1>2, <1>3, <1>5, <1>6, <1>7, <1>8, <1>9, <1>10, <1>11 DEF Next, Proceed

(***************************************************************************)
(* The allowance                                                           *)
(***************************************************************************)

AccountInv == AccountIsOfBefore /\ AllowanceIsExact

(* A file that was counted once costs nothing more. *)
LEMMA CountOnce ==
  ASSUME TypeOK, Count
  PROVE  /\ recent'
         /\ recent => left' = left
         /\ ~recent => left' = left - 1 /\ left > 0
BY Zenon DEF Count

(* What the API said is still of before the count. *)
LEMMA AccountSurvives ==
  ASSUME TypeOK, AccountIsOfBefore, Count \/ UNCHANGED <<left, recent>>, UNCHANGED account
  PROVE  AccountIsOfBefore'
<1>1. CASE Count
  <2>1. account.known => left' = left /\ recent'
    BY <1>1, CountOnce DEF AccountIsOfBefore
  <2> QED
    BY <2>1 DEF AccountIsOfBefore
<1>2. CASE UNCHANGED <<left, recent>>
  BY <1>2 DEF AccountIsOfBefore
<1> QED
  BY <1>1, <1>2

LEMMA StepKeepsAccount ==
  TypeOK /\ EndsWithResult /\ AccountInv /\ [Next]_vars => AccountInv'
<1> SUFFICES ASSUME TypeOK, EndsWithResult, AccountInv, [Next]_vars PROVE AccountInv'
  OBVIOUS
<1> USE DEF archiveVars, attemptVars, loopVars, transferVars, AccountInv
<1>1. ASSUME pc # "done", Count \/ UNCHANGED <<left, recent>>, UNCHANGED account,
             result' = result \/ result'.kind # "file"
      PROVE  AccountInv'
  BY <1>1, AccountSurvives DEF EndsWithResult, AllowanceIsExact
<1>2. ASSUME Validate \/ Invalid \/ Stop PROVE AccountInv'
  BY <1>1, <1>2 DEF Validate, Invalid, Stop, Return
<1>3. CASE GiveUp \/ UNCHANGED vars
  BY <1>3 DEF GiveUp, vars, AccountIsOfBefore, AllowanceIsExact
<1>4. ASSUME Loops PROVE result' = result \/ result'.kind # "file"
  BY <1>4 DEF Loops, Ends, GoesOn
<1>5. CASE AskNone \/ AskStop \/ AskFails
  BY <1>1, <1>4, <1>5, AskingLoops DEF AskNone, AskStop, AskFails
<1>6. CASE Grant
  <2>1. CASE account' = account
    BY <1>1, <1>6, <2>1 DEF Grant
  <2>2. CASE account' = [left |-> left, recent |-> recent, known |-> TRUE]
    <3>1. /\ recent'
          /\ recent => left' = left
          /\ ~recent => left' = left - 1 /\ left > 0
      BY <1>6, CountOnce DEF Grant
    <3>2. AccountIsOfBefore'
      <4>1. CASE recent
        BY <2>2, <3>1, <4>1 DEF AccountIsOfBefore
      <4>2. CASE ~recent
        BY <2>2, <3>1, <4>2 DEF AccountIsOfBefore
      <4> QED
        BY <4>1, <4>2
    <3> QED
      BY <1>6, <3>2 DEF Grant, EndsWithResult, AllowanceIsExact
  <2> QED
    BY <1>6, <2>1, <2>2 DEF Grant
<1>7. ASSUME NEW kind, FileFails(kind), pc # "done" PROVE AccountInv'
  BY <1>1, <1>4, <1>7, AskingLoops DEF FileFails
<1>8. CASE FileIsMissing \/ OpenFails \/ TransferFails
  BY <1>7, <1>8 DEF FileIsMissing, OpenFails, TransferFails
<1>9. CASE Open \/ CopyBlock \/ WriteFails \/ CopyFails \/ BodyEnds \/ ReadFails
  BY <1>1, <1>9 DEF Open, CopyBlock, WriteFails, CopyFails, BodyEnds, ReadFails
<1>10. CASE Resume
  BY <1>1, <1>7, <1>10 DEF Resume, MayResume
<1>11. CASE Link
  <2>1. account.known => DownloadsLeft = left
    <3>1. CASE account.recent
      BY <3>1 DEF DownloadsLeft, AccountIsOfBefore
    <3>2. CASE ~account.recent
      BY <3>2 DEF DownloadsLeft, AccountIsOfBefore, TypeOK
    <3> QED
      BY <3>1, <3>2
  <2>2. DownloadsLeft \in {Unknown, left}
    BY <2>1 DEF DownloadsLeft
  <2>3. CASE FileFails("file")
    BY <1>7, <1>11, <2>3 DEF Link
  <2>4. CASE Return([kind |-> "file", left |-> DownloadsLeft]) /\ UNCHANGED <<archiveVars, account>>
    BY <2>2, <2>4 DEF Return, AccountIsOfBefore, AllowanceIsExact
  <2> QED
    BY <1>11, <2>3, <2>4 DEF Link
<1> QED
  BY <1>2, <1>3, <1>5, <1>6, <1>8, <1>9, <1>10, <1>11 DEF Next, Proceed

(***************************************************************************)
(* The order of the servers                                                *)
(***************************************************************************)

OrderInv ==
  AskedInOrder /\ TransferHasLink /\ GrantedIsLink /\ NoLinkWithout /\ NothingPassedOver

Before(p, s) == p < path \/ (p = path /\ s < server)

(* At most the server whose turn it is gets an answer. *)
AnswersHere ==
  \A p \in Collections, s \in Servers :
    p # path \/ s # server => answer'[<<p, s>>] = answer[<<p, s>>]

LEMMA AnsweringIsHere ==
  ASSUME TypeOK, NEW a, answer' = [answer EXCEPT ![Here] = a]
  PROVE  AnswersHere /\ answer'[<<path, server>>] = a
BY DEF TypeOK, Here, AnswersHere

(* How the loops go on, in more detail. *)
LEMMA CollectionsLead ==
  ASSUME NEW open, NextCollection(open)
  PROVE  \/ Ends /\ ~(open /\ path < MaxPaths)
         \/ /\ pc' = "ask" /\ UNCHANGED result
            /\ open /\ path < MaxPaths /\ path' = path + 1 /\ server' = 1 /\ granted' = FALSE
BY LoopsLead, Zenon DEF NextCollection

LEMMA ServersLead ==
  ASSUME NEW open, NextServer(open)
  PROVE  \/ ~(server < NumServers) /\ NextCollection(open)
         \/ /\ pc' = "ask" /\ UNCHANGED result
            /\ server < NumServers /\ path' = path /\ server' = server + 1 /\ granted' = open
BY Zenon DEF NextServer

(* What was open up to this server was open before it answered, and has    *)
(* been asked.                                                             *)
LEMMA NothingBefore ==
  ASSUME TypeOK, NothingPassedOver, pc # "done", AnswersHere,
         answer'[<<path, server>>] # "unasked", NEW p \in Collections, NEW s \in Servers, Before(p, s) \/ (p = path /\ s = server),
         LeftOpen(p, s)'
  PROVE  answer'[<<p, s>>] # "unasked"
<1>1. CASE p = path /\ s = server
  BY <1>1
<1>2. CASE Before(p, s)
  <2>1. ASSUME NEW q \in Collections, NEW t \in Servers, q < p \/ (q = p /\ t <= s)
        PROVE  answer'[<<q, t>>] = answer[<<q, t>>]
    <3>1. q # path \/ t # server
      BY <1>2, <2>1 DEF TypeOK, Collections, Servers, Before
    <3> QED
      BY <3>1 DEF AnswersHere
  <2>2. ASSUME NEW q \in 1..(p - 1) PROVE \E t \in Servers : answer[<<q, t>>] \in Grants
    <3>1. PICK t \in Servers : answer'[<<q, t>>] \in Grants
      BY <2>2 DEF LeftOpen
    <3> QED
      BY <2>1, <2>2, <3>1 DEF Collections
  <2>3. ASSUME NEW q \in 1..p, q # p \/ s # 1 PROVE answer[<<q, 1>>] # "none"
    <3>1. answer'[<<q, 1>>] # "none"
      BY <2>3 DEF LeftOpen
    <3>2. q \in Collections /\ 1 \in Servers /\ (q < p \/ (q = p /\ 1 <= s))
      BY <2>3 DEF Collections, Servers
    <3> QED
      BY <2>1, <3>1, <3>2
  <2>4. ASSUME NEW t \in 1..(s - 1) PROVE answer[<<p, t>>] # "none"
    <3>1. answer'[<<p, t>>] # "none"
      BY <2>4 DEF LeftOpen
    <3>2. t \in Servers /\ t <= s
      BY <2>4 DEF Servers
    <3> QED
      BY <2>1, <3>1, <3>2
  <2>5. LeftOpen(p, s)
    BY <2>2, <2>3, <2>4 DEF LeftOpen
  <2>6. answer[<<p, s>>] # "unasked"
    BY <1>2, <2>5 DEF Before, NothingPassedOver, Asked
  <2>7. answer'[<<p, s>>] = answer[<<p, s>>]
    BY <2>1 DEF Servers
  <2> QED
    BY <2>6, <2>7
<1> QED
  BY <1>1, <1>2

(* What an answer closes. *)
LEMMA NoSuchServer ==
  ASSUME TypeOK, answer'[<<path, server>>] = "none", server # 1,
         NEW p \in Collections, NEW s \in Servers, p = path, s > server
  PROVE  ~LeftOpen(p, s)'
<1>1. server \in 1..(s - 1)
  BY DEF TypeOK, Servers
<1> QED
  BY <1>1 DEF LeftOpen

LEMMA NoSuchCollection ==
  ASSUME TypeOK, answer'[<<path, 1>>] = "none",
         NEW p \in Collections, NEW s \in Servers, p > path \/ (p = path /\ s > 1)
  PROVE  ~LeftOpen(p, s)'
<1>1. path \in 1..p /\ (path # p \/ s # 1)
  BY DEF TypeOK, Collections
<1> QED
  BY <1>1 DEF LeftOpen

LEMMA NoLinkInCollection ==
  ASSUME TypeOK, \A t \in Servers : answer'[<<path, t>>] \notin Grants,
         NEW p \in Collections, NEW s \in Servers, p > path
  PROVE  ~LeftOpen(p, s)'
<1>1. path \in 1..(p - 1)
  BY DEF TypeOK, Collections
<1> QED
  BY <1>1 DEF LeftOpen

(* A loop that goes on passes over nothing that is open, and one that ends *)
(* leaves nothing open.                                                    *)
Tried == \A p \in Collections, s \in Servers : LeftOpen(p, s) => Asked(p, s)

LEMMA CollectionsSkipNothing ==
  ASSUME TypeOK, NothingPassedOver, pc # "done", AnswersHere,
         answer'[<<path, server>>] # "unasked",
         \A p \in Collections, s \in Servers : p = path /\ s > server => ~LeftOpen(p, s)',
         NEW open \in BOOLEAN, NextCollection(open),
         ~open => \A t \in Servers : answer'[<<path, t>>] \notin Grants
  PROVE  (pc' # "done" => NothingPassedOver') /\ (pc' = "done" => Tried')
<1>1. ASSUME NEW p \in Collections, NEW s \in Servers, p <= path, LeftOpen(p, s)'
      PROVE  answer'[<<p, s>>] # "unasked"
  <2>1. CASE Before(p, s) \/ (p = path /\ s = server)
    BY <1>1, <2>1, NothingBefore
  <2>2. CASE p = path /\ s > server
    BY <1>1, <2>2
  <2>3. Before(p, s) \/ (p = path /\ s >= server)
    BY <1>1 DEF TypeOK, Collections, Servers, Before
  <2> QED
    BY <2>1, <2>2, <2>3 DEF TypeOK, Servers
<1>2. CASE Ends /\ ~(open /\ path < MaxPaths)
  <2>1. ASSUME NEW p \in Collections, NEW s \in Servers, LeftOpen(p, s)'
        PROVE  answer'[<<p, s>>] # "unasked"
    <3>1. CASE p <= path
      BY <1>1, <2>1, <3>1
    <3>2. CASE p > path
      <4>1. ~open
        BY <1>2, <3>2 DEF TypeOK, Collections
      <4> QED
        BY <2>1, <3>2, <4>1, NoLinkInCollection
    <3> QED
      BY <3>1, <3>2 DEF TypeOK, Collections
  <2> QED
    BY <1>2, <2>1 DEF Ends, Tried, Asked
<1>3. CASE pc' = "ask" /\ path' = path + 1 /\ server' = 1
  <2>1. ASSUME NEW p \in Collections, NEW s \in Servers,
               p < path + 1 \/ (p = path + 1 /\ s < 1), LeftOpen(p, s)'
        PROVE  answer'[<<p, s>>] # "unasked"
    BY <1>1, <2>1 DEF TypeOK, Collections, Servers
  <2> QED
    BY <1>3, <2>1 DEF NothingPassedOver, Asked
<1> QED
  BY <1>2, <1>3, CollectionsLead

LEMMA ServersSkipNothing ==
  ASSUME TypeOK, NothingPassedOver, pc # "done", AnswersHere,
         answer'[<<path, server>>] # "unasked",
         NEW open \in BOOLEAN, NextServer(open),
         ~open => \A t \in Servers : answer'[<<path, t>>] \notin Grants
  PROVE  (pc' # "done" => NothingPassedOver') /\ (pc' = "done" => Tried')
<1>1. CASE ~(server < NumServers) /\ NextCollection(open)
  <2>1. \A p \in Collections, s \in Servers : p = path /\ s > server => ~LeftOpen(p, s)'
    BY <1>1 DEF TypeOK, Servers
  <2> QED
    BY <1>1, <2>1, CollectionsSkipNothing
<1>2. CASE pc' = "ask" /\ path' = path /\ server' = server + 1
  <2>1. ASSUME NEW p \in Collections, NEW s \in Servers,
               p < path \/ (p = path /\ s < server + 1), LeftOpen(p, s)'
        PROVE  answer'[<<p, s>>] # "unasked"
    <3>1. Before(p, s) \/ (p = path /\ s = server)
      BY <2>1 DEF TypeOK, Servers, Before
    <3> QED
      BY <2>1, <3>1, NothingBefore
  <2> QED
    BY <1>2, <2>1 DEF NothingPassedOver, Asked
<1> QED
  BY <1>1, <1>2, ServersLead

LEMMA LoopsKeepOrder ==
  ASSUME TypeOK, OrderInv, pc # "done", AnswersHere,
         NEW open \in BOOLEAN, Ends \/ GoesOn(open),
         open => \E t \in Servers : answer'[<<path, t>>] \in Grants,
         ~open => \A t \in Servers : answer'[<<path, t>>] \notin Grants
  PROVE  AskedInOrder' /\ TransferHasLink' /\ GrantedIsLink' /\ NoLinkWithout'
<1>1. CASE Ends
  BY <1>1 DEF Ends, AskedInOrder, TransferHasLink, GrantedIsLink, NoLinkWithout, InFlight
<1>2. CASE GoesOn(open)
  <2>1. pc' = "ask" /\ path' \in Collections /\ server' \in Servers
    BY <1>2, LoopsKeepType DEF GoesOn
  <2>2. ASSUME NEW p \in Collections, NEW s \in Servers,
               p > path' \/ (p = path' /\ s >= server')
        PROVE  answer'[<<p, s>>] = "unasked"
    <3>1. After(p, s)
      BY <1>2, <2>2 DEF TypeOK, Collections, Servers, GoesOn, After
    <3>2. answer[<<p, s>>] = "unasked"
      BY <3>1 DEF OrderInv, AskedInOrder, Asked
    <3>3. p # path \/ s # server
      BY <3>1 DEF TypeOK, Collections, Servers, After
    <3> QED
      BY <3>2, <3>3 DEF AnswersHere
  <2>3. AskedInOrder' /\ TransferHasLink'
    <3>1. answer'[<<path', server'>>] = "unasked"
      BY <2>1, <2>2 DEF Collections, Servers
    <3>2. \A p \in Collections, s \in Servers :
            p > path' \/ (p = path' /\ s > server') => answer'[<<p, s>>] = "unasked"
      BY <2>1, <2>2 DEF Servers
    <3>3. AskedInOrder'
      BY <3>1, <3>2 DEF AskedInOrder, After, Asked
    <3> QED
      BY <2>1, <3>3 DEF TransferHasLink, InFlight
  <2>4. CASE path' = path /\ granted' = open
    BY <2>3, <2>4, Zenon DEF GrantedIsLink, NoLinkWithout
  <2>5. CASE path' = path + 1 /\ server' = 1 /\ granted' = FALSE
    <3>1. \A t \in Servers : answer'[<<path', t>>] = "unasked"
      BY <2>1, <2>2, <2>5 DEF Collections, Servers
    <3>2. "unasked" \notin Grants
      BY DEF Grants
    <3> QED
      BY <2>3, <2>5, <3>1, <3>2, Zenon DEF GrantedIsLink, NoLinkWithout
  <2> QED
    BY <1>2, <2>4, <2>5, Zenon DEF GoesOn
<1> QED
  BY <1>1, <1>2

(* An answer without a link changes nothing about which servers gave one. *)
LEMMA LinksAreKept ==
  ASSUME TypeOK, OrderInv, pc = "ask", AnswersHere, answer'[<<path, server>>] \notin Grants
  PROVE  /\ granted => \E t \in Servers : answer'[<<path, t>>] \in Grants
         /\ ~granted => \A t \in Servers : answer'[<<path, t>>] \notin Grants
<1>1. ASSUME granted PROVE \E t \in Servers : answer'[<<path, t>>] \in Grants
  <2>1. PICK t \in Servers : answer[<<path, t>>] \in Grants
    BY <1>1 DEF OrderInv, GrantedIsLink
  <2>2. answer[<<path, server>>] \notin Grants
    BY DEF OrderInv, AskedInOrder, Asked, Grants
  <2>3. t # server
    BY <2>1, <2>2
  <2> QED
    BY <2>1, <2>3 DEF AnswersHere, TypeOK
<1>2. ASSUME ~granted, NEW t \in Servers PROVE answer'[<<path, t>>] \notin Grants
  <2>1. answer[<<path, t>>] \notin Grants
    BY <1>2 DEF OrderInv, NoLinkWithout
  <2> QED
    BY <2>1 DEF AnswersHere, TypeOK
<1> QED
  BY <1>1, <1>2

LEMMA FileFailsKeepsOrder ==
  ASSUME TypeOK, OrderInv, NEW kind, FileFails(kind), pc \in InFlight
  PROVE  OrderInv' /\ (pc' = "done" => Tried')
<1>1. AnswersHere /\ answer' = answer /\ pc # "done"
  BY DEF FileFails, archiveVars, AnswersHere, InFlight
<1>2. answer'[<<path, server>>] \in Grants /\ answer'[<<path, server>>] # "unasked"
  BY <1>1 DEF OrderInv, TransferHasLink, Here, Grants
<1>3. \E t \in Servers : answer'[<<path, t>>] \in Grants
  BY <1>2 DEF TypeOK
<1>4. NextServer(TRUE)
  BY DEF FileFails
<1>5. Ends \/ GoesOn(TRUE)
  BY <1>4, LoopsLead
<1>6. AskedInOrder' /\ TransferHasLink' /\ GrantedIsLink' /\ NoLinkWithout'
  BY <1>1, <1>3, <1>5, LoopsKeepOrder
<1>7. (pc' # "done" => NothingPassedOver') /\ (pc' = "done" => Tried')
  BY <1>1, <1>2, <1>3, <1>4, ServersSkipNothing DEF OrderInv
<1>8. NothingPassedOver'
  BY <1>7 DEF NothingPassedOver
<1> QED
  BY <1>6, <1>7, <1>8 DEF OrderInv

LEMMA AskingKeepsOrder ==
  ASSUME TypeOK, OrderInv, AskNone \/ AskStop \/ AskFails
  PROVE  OrderInv' /\ (pc' = "done" => Tried' \/ ToldToStop')
<1>1. PICK a \in Refusals : answer' = [answer EXCEPT ![Here] = a]
  BY DEF AskNone, AskStop, AskFails, Refusals
<1>2. AnswersHere /\ answer'[<<path, server>>] = a /\ pc = "ask"
  BY <1>1, AnsweringIsHere DEF AskNone, AskStop, AskFails
<1>3. a \notin Grants /\ a # "unasked"
  BY DEF Refusals, Grants
<1>4. /\ granted => \E t \in Servers : answer'[<<path, t>>] \in Grants
      /\ ~granted => \A t \in Servers : answer'[<<path, t>>] \notin Grants
  BY <1>2, <1>3, LinksAreKept
<1>5. granted \in BOOLEAN
  BY DEF TypeOK
<1>6. Ends \/ GoesOn(granted)
  BY LoopsLead, Zenon DEF AskNone, AskStop, AskFails
<1>7. AskedInOrder' /\ TransferHasLink' /\ GrantedIsLink' /\ NoLinkWithout'
  BY <1>2, <1>4, <1>5, <1>6, LoopsKeepOrder
<1>8. (pc' # "done" => NothingPassedOver') /\ (pc' = "done" => Tried' \/ ToldToStop')
  <2>1. CASE AskFails
    <3>1. NextServer(granted)
      BY <2>1 DEF AskFails
    <3> QED
      BY <1>2, <1>3, <1>4, <1>5, <3>1, ServersSkipNothing DEF OrderInv
  <2>2. CASE AskStop
    <3>1. pc' = "done"
      BY <2>2, LoopsLead DEF AskStop, Ends
    <3>2. answer'[Here] = "stop" /\ Here \in DOMAIN answer'
      BY <2>2 DEF AskStop, TypeOK, Here
    <3> QED
      BY <3>1, <3>2 DEF ToldToStop
  <2>3. CASE AskNone /\ server # 1
    <3>1. NextCollection(granted) /\ answer'[<<path, server>>] = "none"
      BY <2>3, AnsweringIsHere DEF AskNone
    <3>2. \A p \in Collections, s \in Servers : p = path /\ s > server => ~LeftOpen(p, s)'
      BY <2>3, <3>1, NoSuchServer
    <3> QED
      BY <1>2, <1>3, <1>4, <1>5, <3>1, <3>2, CollectionsSkipNothing DEF OrderInv
  <2>4. CASE AskNone /\ server = 1
    <3>1. pc' = "done" /\ answer'[<<path, 1>>] = "none"
      BY <2>4, AnsweringIsHere, LoopsLead DEF AskNone, Ends
    <3>2. ASSUME NEW p \in Collections, NEW s \in Servers, LeftOpen(p, s)'
          PROVE  answer'[<<p, s>>] # "unasked"
      <4>1. CASE p > path \/ (p = path /\ s > 1)
        BY <3>1, <3>2, <4>1, NoSuchCollection
      <4>2. CASE Before(p, s) \/ (p = path /\ s = server)
        BY <1>2, <1>3, <3>2, <4>2, NothingBefore DEF OrderInv
      <4> QED
        BY <2>4, <4>1, <4>2 DEF TypeOK, Collections, Servers, Before
    <3> QED
      BY <3>1, <3>2 DEF Tried, Asked
  <2> QED
    BY <2>1, <2>2, <2>3, <2>4
<1>9. NothingPassedOver'
  BY <1>8 DEF NothingPassedOver
<1> QED
  BY <1>7, <1>8, <1>9 DEF OrderInv

LEMMA StepKeepsOrder ==
  TypeOK /\ TransferInv /\ OrderInv /\ FailsAfterTryingAll /\ [Next]_vars
  => OrderInv' /\ FailsAfterTryingAll'
<1> SUFFICES ASSUME TypeOK, TransferInv, OrderInv, FailsAfterTryingAll, [Next]_vars
             PROVE  OrderInv' /\ FailsAfterTryingAll'
  OBVIOUS
<1> USE DEF archiveVars, attemptVars, loopVars, transferVars
(* A verdict is right when it is given, and stays so. *)
<1>1. ASSUME pc' = "done" => Tried' \/ ToldToStop', EndsWithResult' PROVE FailsAfterTryingAll'
  BY <1>1 DEF FailsAfterTryingAll, EndsWithResult, Tried
<1>2. ASSUME UNCHANGED <<answer, path, server, granted>>,
             UNCHANGED result \/ result'.kind \in {"invalid", "stopped", "file"},
             pc' \in {"validate", "ask"} => pc \in {"validate", "ask"},
             pc' \in InFlight => pc \in InFlight,
             pc = "done" => pc' = "done", gone' = gone \/ gone'
      PROVE  OrderInv' /\ FailsAfterTryingAll'
  <2>1. OrderInv'
    BY <1>2 DEF OrderInv, AskedInOrder, After, Asked, TransferHasLink, Here, GrantedIsLink, NoLinkWithout,
                NothingPassedOver, LeftOpen
  <2>2. FailsAfterTryingAll'
    BY <1>2 DEF FailsAfterTryingAll, ToldToStop, LeftOpen, Asked
  <2> QED
    BY <2>1, <2>2
<1>3. EndsWithResult'
  BY StepKeepsTransfer DEF TransferInv
<1>4. CASE Validate \/ Invalid \/ Stop \/ GiveUp \/ UNCHANGED vars
  BY <1>2, <1>4 DEF Validate, Invalid, Stop, GiveUp, vars, Return, InFlight
<1>5. CASE AskNone \/ AskStop \/ AskFails
  BY <1>1, <1>3, <1>5, AskingKeepsOrder
<1>6. CASE Grant
  <2>1. PICK a \in Grants : answer' = [answer EXCEPT ![Here] = a]
    BY <1>6 DEF Grant
  <2>2. AnswersHere /\ answer'[<<path, server>>] = a
    BY <2>1, AnsweringIsHere
  <2>3. /\ UNCHANGED <<path, server, result, gone>> /\ granted' = TRUE /\ pc' = "open" /\ pc = "ask"
    BY <1>6 DEF Grant
  <2>4. a # "unasked" /\ server \in Servers /\ path \in Collections
    BY DEF Grants, TypeOK
  <2>5. AskedInOrder'
    <3>1. ASSUME NEW p \in Collections, NEW s \in Servers, After(p, s)
          PROVE  answer'[<<p, s>>] = "unasked"
      <4>1. p # path \/ s # server
        BY <3>1 DEF After, TypeOK, Collections, Servers
      <4>2. answer[<<p, s>>] = "unasked"
        BY <2>3, <3>1 DEF OrderInv, AskedInOrder, Asked
      <4> QED
        BY <2>2, <4>1, <4>2 DEF AnswersHere
    <3> QED
      BY <2>3, <3>1 DEF AskedInOrder, After, Asked
  <2>6. TransferHasLink' /\ GrantedIsLink' /\ NoLinkWithout'
    BY <2>2, <2>3, <2>4 DEF TransferHasLink, GrantedIsLink, NoLinkWithout, Here
  <2>7. NothingPassedOver'
    BY <2>2, <2>3, <2>4, NothingBefore DEF OrderInv, NothingPassedOver, Before, Asked
  <2>8. FailsAfterTryingAll'
    BY <2>3 DEF FailsAfterTryingAll, EndsWithResult, TransferInv
  <2> QED
    BY <2>5, <2>6, <2>7, <2>8 DEF OrderInv
<1>7. ASSUME NEW kind, FileFails(kind), pc \in InFlight PROVE OrderInv' /\ FailsAfterTryingAll'
  BY <1>1, <1>3, <1>7, FileFailsKeepsOrder
<1>8. CASE FileIsMissing \/ OpenFails \/ TransferFails
  BY <1>7, <1>8 DEF FileIsMissing, OpenFails, TransferFails, InFlight
<1>9. CASE Open \/ CopyBlock \/ WriteFails \/ CopyFails \/ BodyEnds \/ ReadFails
  BY <1>2, <1>9 DEF Open, CopyBlock, WriteFails, CopyFails, BodyEnds, ReadFails, CopyEnds, InFlight
<1>10. CASE Resume
  BY <1>2, <1>7, <1>10 DEF Resume, MayResume, InFlight
<1>11. CASE Link
  BY <1>2, <1>7, <1>11 DEF Link, Return, InFlight
<1> QED
  BY <1>4, <1>5, <1>6, <1>8, <1>9, <1>10, <1>11 DEF Next, Proceed

(***************************************************************************)
(* What is missing                                                         *)
(***************************************************************************)

MissingInv == MissingIsCounted /\ OtherAnswersAreKept

(* A call that ends now reports what its attempts say. *)
LEMMA VerdictOnMissing ==
  ASSUME TypeOK', MissingInv', Ends
  PROVE  MissingMeansMissing'
<1>1. ASSUME result'.kind = "missing_everywhere"
      PROVE  /\ \A w \in DOMAIN answer' : answer'[w] \in {"missing", "none", "unasked"}
             /\ \E w \in DOMAIN answer' : answer'[w] = "missing"
  <2>1. missing' > 0 /\ missing' = Len(attempts')
    BY <1>1 DEF Ends
  <2>2. \A i \in 1..Len(attempts') : attempts'[i].kind = "missing"
    BY <2>1 DEF MissingInv, MissingIsCounted
  <2>3. pc' \notin InFlight /\ result'.kind # "file"
    BY <1>1 DEF Ends, InFlight
  <2> QED
    BY <2>1, <2>2, <2>3 DEF MissingInv, MissingIsCounted, OtherAnswersAreKept
<1> QED
  BY <1>1 DEF MissingMeansMissing

(* A failed attempt is counted. *)
LEMMA AttemptIsCounted ==
  ASSUME TypeOK, MissingIsCounted, NEW kind \in {"api", "file", "missing"},
         attempts' = Attempt(kind), missing' = IF kind = "missing" THEN missing + 1 ELSE missing
  PROVE  /\ missing' <= Len(attempts')
         /\ missing' = Len(attempts') => \A i \in 1..Len(attempts') : attempts'[i].kind = "missing"
         /\ kind # "missing" => \E i \in 1..Len(attempts') : attempts'[i].kind # "missing"
         /\ (\E i \in 1..Len(attempts) : attempts[i].kind # "missing")
              => \E i \in 1..Len(attempts') : attempts'[i].kind # "missing"
<1>1. /\ Len(attempts') = Len(attempts) + 1
      /\ \A i \in 1..Len(attempts) : attempts'[i] = attempts[i]
      /\ attempts'[Len(attempts) + 1].kind = kind
  BY AttemptsAreTyped
<1>2. missing \in Nat /\ Len(attempts) \in Nat /\ missing <= Len(attempts)
  BY DEF TypeOK, MissingIsCounted
<1>3. missing' <= Len(attempts')
  BY <1>1, <1>2
<1>4. ASSUME missing' = Len(attempts'), NEW i \in 1..Len(attempts') PROVE attempts'[i].kind = "missing"
  <2>1. kind = "missing" /\ missing = Len(attempts)
    BY <1>1, <1>2, <1>4
  <2> QED
    BY <1>1, <1>2, <2>1 DEF MissingIsCounted
<1> QED
  BY <1>1, <1>2, <1>3, <1>4

LEMMA FileFailsKeepsMissing ==
  ASSUME TypeOK, OrderInv, MissingInv, pc \in InFlight, NEW kind \in {"file", "missing"},
         FileFails(kind), kind = "missing" => answer[Here] = "missing", result.kind = "pending"
  PROVE  MissingInv'
<1>1. /\ attempts' = Attempt(kind) /\ answer' = answer
      /\ missing' = IF kind = "missing" THEN missing + 1 ELSE missing
  BY DEF FileFails, archiveVars
<1>2. MissingIsCounted'
  <2>1. missing' > 0 => \E w \in DOMAIN answer' : answer'[w] = "missing"
    BY <1>1 DEF MissingInv, MissingIsCounted, TypeOK, Here
  <2> QED
    BY <1>1, <2>1, AttemptIsCounted DEF MissingInv, MissingIsCounted
<1>3. ASSUME NEW w \in DOMAIN answer, answer[w] \notin {"missing", "none", "unasked"}
      PROVE  \E i \in 1..Len(attempts') : attempts'[i].kind # "missing"
  <2>1. CASE w = Here
    BY <1>1, <1>3, <2>1, AttemptIsCounted DEF MissingInv
  <2>2. CASE w # Here
    <3>1. \E i \in 1..Len(attempts) : attempts[i].kind # "missing"
      BY <1>3, <2>2 DEF MissingInv, OtherAnswersAreKept
    <3> QED
      BY <1>1, <3>1, AttemptIsCounted DEF MissingInv
  <2> QED
    BY <2>1, <2>2
<1> QED
  BY <1>1, <1>2, <1>3 DEF MissingInv, OtherAnswersAreKept

LEMMA AskingKeepsMissing ==
  ASSUME TypeOK, OrderInv, MissingInv, AskNone \/ AskStop \/ AskFails, result.kind = "pending"
  PROVE  MissingInv'
<1>1. PICK a \in Refusals : answer' = [answer EXCEPT ![Here] = a]
  BY DEF AskNone, AskStop, AskFails, Refusals
<1>2. pc = "ask" /\ missing' = missing /\ Here \in DOMAIN answer /\ DOMAIN answer' = DOMAIN answer
  BY <1>1 DEF AskNone, AskStop, AskFails, TypeOK, Here
<1>3. answer'[Here] = a /\ \A w \in DOMAIN answer : w # Here => answer'[w] = answer[w]
  BY <1>1, <1>2 DEF TypeOK
<1>4. answer[Here] = "unasked"
  BY <1>2 DEF OrderInv, AskedInOrder, Asked, Here
<1>5. attempts' \in {attempts, Attempt("api")}
  BY DEF AskNone, AskStop, AskFails
<1>6. missing' > 0 => \E w \in DOMAIN answer' : answer'[w] = "missing"
  BY <1>2, <1>4, <1>3 DEF MissingInv, MissingIsCounted
<1>7. /\ MissingIsCounted'
      /\ (\E i \in 1..Len(attempts) : attempts[i].kind # "missing")
           => \E i \in 1..Len(attempts') : attempts'[i].kind # "missing"
  <2>1. CASE attempts' = attempts
    BY <1>2, <1>6, <2>1 DEF MissingInv, MissingIsCounted
  <2>2. CASE attempts' = Attempt("api")
    BY <1>2, <1>6, <2>2, AttemptIsCounted DEF MissingInv, MissingIsCounted
  <2> QED
    BY <1>5, <2>1, <2>2
<1>8. ASSUME NEW w \in DOMAIN answer', answer'[w] \notin {"missing", "none", "unasked"}
      PROVE  \E i \in 1..Len(attempts') : attempts'[i].kind # "missing"
  <2>1. CASE w = Here
    <3>1. attempts' = Attempt("api")
      <4>1. AskStop \/ AskFails
        <5>1. ASSUME AskNone PROVE FALSE
          <6>1. answer' = [answer EXCEPT ![Here] = "none"]
            BY <5>1 DEF AskNone
          <6> QED
            BY <1>2, <1>8, <2>1, <6>1 DEF TypeOK
        <5> QED
          BY <5>1
      <4> QED
        BY <4>1 DEF AskStop, AskFails
    <3> QED
      BY <1>2, <3>1, AttemptIsCounted DEF MissingInv
  <2>2. CASE w # Here
    <3>1. answer[w] = answer'[w] /\ w \in DOMAIN answer
      BY <1>2, <1>3, <2>2
    <3>2. \E i \in 1..Len(attempts) : attempts[i].kind # "missing"
      BY <1>2, <1>8, <3>1 DEF MissingInv, OtherAnswersAreKept, InFlight
    <3> QED
      BY <1>7, <3>2
  <2> QED
    BY <2>1, <2>2
<1> QED
  BY <1>7, <1>8 DEF MissingInv, OtherAnswersAreKept

LEMMA StepKeepsMissing ==
  /\ TypeOK /\ TransferInv /\ OrderInv /\ MissingInv /\ MissingMeansMissing /\ [Next]_vars
  => MissingInv' /\ MissingMeansMissing'
<1> SUFFICES ASSUME TypeOK, TransferInv, OrderInv, MissingInv, MissingMeansMissing, [Next]_vars
             PROVE  MissingInv' /\ MissingMeansMissing'
  OBVIOUS
<1> USE DEF archiveVars, attemptVars, loopVars, transferVars
<1>1. TypeOK'
  BY StepKeepsType
<1>2. pc # "done" => result.kind = "pending"
  BY DEF TransferInv, EndsWithResult
<1>3. ASSUME MissingInv', Loops, pc # "done" PROVE MissingMeansMissing'
  <2>1. CASE Ends
    BY <1>1, <1>3, <2>1, VerdictOnMissing
  <2>2. CASE UNCHANGED result
    BY <1>2, <1>3, <2>2 DEF MissingMeansMissing
  <2> QED
    BY <1>3, <2>1, <2>2 DEF Loops, GoesOn
<1>4. ASSUME UNCHANGED <<answer, attempts, missing, path, server>>,
             UNCHANGED result \/ (pc # "done" /\ result'.kind \in {"invalid", "stopped", "file"}),
             pc \in InFlight => pc' \in InFlight \/ result'.kind = "file"
      PROVE  MissingInv' /\ MissingMeansMissing'
  <2>1. MissingIsCounted'
    BY <1>4 DEF MissingInv, MissingIsCounted
  <2>2. OtherAnswersAreKept'
    BY <1>2, <1>4 DEF MissingInv, OtherAnswersAreKept, Here
  <2> QED
    BY <1>4, <2>1, <2>2 DEF MissingInv, MissingMeansMissing
<1>5. CASE Validate \/ Invalid \/ Stop \/ GiveUp \/ UNCHANGED vars
  BY <1>4, <1>5 DEF Validate, Invalid, Stop, GiveUp, vars, Return, InFlight
<1>6. CASE AskNone \/ AskStop \/ AskFails
  <2>1. pc = "ask" /\ result.kind = "pending"
    BY <1>2, <1>6 DEF AskNone, AskStop, AskFails
  <2> QED
    BY <1>3, <1>6, <2>1, AskingKeepsMissing, AskingLoops
<1>7. CASE Grant
  <2>1. PICK a \in Grants : answer' = [answer EXCEPT ![Here] = a]
    BY <1>7 DEF Grant
  <2>2. pc = "ask" /\ pc' = "open" /\ UNCHANGED <<path, server, attempts, missing, result>>
    BY <1>7 DEF Grant
  <2>3. Here \in DOMAIN answer /\ DOMAIN answer' = DOMAIN answer
    BY <2>1 DEF TypeOK, Here
  <2>4. \A w \in DOMAIN answer : w # Here => answer'[w] = answer[w]
    BY <2>1 DEF TypeOK
  <2>5. answer[Here] = "unasked" /\ Here' = Here
    BY <2>2 DEF OrderInv, AskedInOrder, Asked, Here
  <2>6. MissingIsCounted'
    BY <2>2, <2>3, <2>4, <2>5 DEF MissingInv, MissingIsCounted
  <2>7. OtherAnswersAreKept'
    BY <2>2, <2>3, <2>4, <2>5 DEF MissingInv, OtherAnswersAreKept, InFlight
  <2> QED
    BY <1>2, <2>2, <2>6, <2>7 DEF MissingInv, MissingMeansMissing
<1>8. ASSUME NEW kind \in {"file", "missing"}, FileFails(kind), pc \in InFlight,
             kind = "missing" => answer[Here] = "missing"
      PROVE  MissingInv' /\ MissingMeansMissing'
  <2>1. pc # "done"
    BY <1>8 DEF InFlight
  <2>2. MissingInv'
    BY <1>2, <1>8, <2>1, FileFailsKeepsMissing
  <2> QED
    BY <1>3, <1>8, <2>1, <2>2, AskingLoops
<1>9. CASE FileIsMissing \/ OpenFails \/ TransferFails
  BY <1>8, <1>9 DEF FileIsMissing, OpenFails, TransferFails, InFlight
<1>10. CASE Open \/ CopyBlock \/ WriteFails \/ CopyFails \/ BodyEnds \/ ReadFails
  BY <1>4, <1>10 DEF Open, CopyBlock, WriteFails, CopyFails, BodyEnds, ReadFails, CopyEnds, InFlight
<1>11. CASE Resume
  BY <1>4, <1>8, <1>11 DEF Resume, MayResume, InFlight
<1>12. CASE Link
  BY <1>4, <1>8, <1>12 DEF Link, Return, InFlight
<1> QED
  BY <1>5, <1>6, <1>7, <1>9, <1>10, <1>11, <1>12 DEF Next, Proceed

(***************************************************************************)
(* Theorems                                                                *)
(***************************************************************************)

LEMMA InitEstablishes == Init => FastInv
<1> SUFFICES ASSUME Init PROVE FastInv
  OBVIOUS
<1>1. TypeOK
  <2>1. answer \in [Collections \X Servers -> Grants \cup Refusals \cup {"unasked"}]
    BY DEF Init
  <2>2. /\ left \in 0..Allowance /\ recent \in BOOLEAN
        /\ path \in Collections /\ server \in Servers /\ granted \in BOOLEAN
    <3>1. path \in Collections /\ server \in Servers
      BY DEF Init, Collections, Servers
    <3> QED
      BY <3>1, Zenon DEF Init
  <2>3. attempts \in Seq(Attempts) /\ missing \in Nat /\ {file, hashed} \subseteq Seq(Files \X Nat)
    BY DEF Init
  <2>4. account \in [left : 0..Allowance, recent : BOOLEAN, known : BOOLEAN]
    BY DEF Init, NoAccount
  <2>5. body \in [of : Files, next : 1..(MaxBlocks + 2)]
    BY DEF Init, NoBody, Files, Length
  <2>6. /\ size \in {Unknown} \cup 0..MaxBlocks /\ resumes \in 0..MaxResumes
        /\ result \in Results
    BY DEF Init, Results
  <2> QED
    BY <2>1, <2>2, <2>3, <2>4, <2>5, <2>6 DEF Init, TypeOK, Attempts, Results
<1>2. EndsWithResult /\ HashIsOfFile /\ BodyContinues /\ DeliversTheFile
  BY DEF Init, EndsWithResult, HashIsOfFile, BodyContinues, DeliversTheFile
<1>3. AccountIsOfBefore /\ AllowanceIsExact
  BY DEF Init, AccountIsOfBefore, AllowanceIsExact, NoAccount
<1>4. AskedInOrder /\ TransferHasLink /\ GrantedIsLink /\ NoLinkWithout
  BY DEF Init, AskedInOrder, Asked, TransferHasLink, InFlight, GrantedIsLink, NoLinkWithout, Grants,
         Collections, Servers
<1>5. NothingPassedOver /\ FailsAfterTryingAll
  BY DEF Init, NothingPassedOver, FailsAfterTryingAll, Collections, Servers
<1>6. MissingIsCounted /\ OtherAnswersAreKept /\ MissingMeansMissing
  BY DEF Init, MissingIsCounted, OtherAnswersAreKept, MissingMeansMissing
<1> QED
  BY <1>1, <1>2, <1>3, <1>4, <1>5, <1>6 DEF FastInv

(* Every step keeps the whole invariant. *)
LEMMA StepKeepsInv == FastInv /\ [Next]_vars => FastInv'
BY StepKeepsType, StepKeepsTransfer, StepKeepsAccount, StepKeepsOrder, StepKeepsMissing
   DEF FastInv, TransferInv, AccountInv, OrderInv, MissingInv

THEOREM FastInvariant == Spec => []FastInv
BY InitEstablishes, StepKeepsInv, PTL DEF Spec

(* Every variable keeps its type, so that no transfer is resumed more than *)
(* MaxResumes times and the allowance never goes below zero.               *)
THEOREM FastTypeIsKept == Spec => []TypeOK
BY FastInvariant, PTL DEF FastInv

(* A file that is returned is the one that was asked for. *)
THEOREM TheFileIsDelivered == Spec => []DeliversTheFile
BY FastInvariant, PTL DEF FastInv

(* A transfer that goes on has lost no block and repeated none. *)
THEOREM NoBlockIsLost == Spec => []TransferIsContinuous
<1>1. FastInv => TransferIsContinuous
  BY DEF FastInv, HashIsOfFile, BodyContinues, TransferIsContinuous
<1> QED
  BY <1>1, FastInvariant, PTL

(* A download fails only after it asked every server that the answers left *)
(* open, however the answers of collections and servers are combined.      *)
THEOREM AllAreTried == Spec => []FailsAfterTryingAll
BY FastInvariant, PTL DEF FastInv

(* A file is reported missing everywhere only when every link was answered *)
(* 404 and no request failed in another way.                               *)
THEOREM MissingIsMissing == Spec => []MissingMeansMissing
BY FastInvariant, PTL DEF FastInv

(* The downloads left that are reported are those the archive has counted. *)
THEOREM AllowanceIsCounted == Spec => []AllowanceIsExact
BY FastInvariant, PTL DEF FastInv
=============================================================================
