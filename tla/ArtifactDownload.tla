-------------------------- MODULE ArtifactDownload --------------------------
(***************************************************************************)
(* Downloads of one artifact into the cache of internal/filetransfer       *)
(* (Client.Download, Cached and save) by calls of any processes, composed  *)
(* with the lease of ArtifactLease.  A call that holds the lease looks for *)
(* an intact copy, otherwise fetches the artifact, checks that it still    *)
(* owns the lease, links its file under a name of its own and records the  *)
(* file in the index, which names one file per artifact.                   *)
(***************************************************************************)
EXTENDS ArtifactLease

CONSTANTS
  Names,   \* the numbers of the file names finalize tries, in order
  Foreign  \* content that is not what a download of the artifact linked

ASSUME NamesAssumption == Names \subseteq Nat \ {0}
ASSUME ForeignAssumption == Foreign \notin Calls \cup {NoCall}

VARIABLES
  step,    \* where a call that holds the lease is in Download
  file,    \* the content under each name: the call that fetched it, Foreign
           \* or NoCall when there is no such file
  index,   \* the cache entry: a name and the content it had
  result,  \* the name each call returned, or 0
  touched  \* the linked files that somebody edited or deleted since

fileVars == <<step, file, index, result, touched>>
vars == <<leaseVars, fileVars>>

NoEntry == [name |-> 0, content |-> NoCall]

Steps == {"recheck", "request", "transfer", "owned?", "link", "save", "return"}

(* Working under the lease, at a point of Download. *)
At(c, s) == Holding(c) /\ step[c] = s

GoOn(c, s) == step' = [step EXCEPT ![c] = s]

(* Mutant of Cached: a file of that name is enough. *)
CachedByName == index.name # 0 /\ file[index.name] # NoCall

(* Cached: the entry names a file whose content has the recorded digest. *)
Cached == index.name # 0 /\ file[index.name] = index.content

(* Mutant of Recheck: what another call fetched meanwhile is not seen. *)
NoRecheck(c) ==
  /\ At(c, "recheck")
  /\ GoOn(c, "request")
  /\ UNCHANGED <<leaseVars, file, index, result, touched>>

(* Recheck local bytes before requesting content. *)
Recheck(c) ==
  /\ At(c, "recheck")
  /\ IF Cached
     THEN GoOn(c, "return") /\ result' = [result EXCEPT ![c] = index.name]
     ELSE GoOn(c, "request") /\ UNCHANGED result
  /\ UNCHANGED <<leaseVars, file, index, touched>>

(* Send the request for the content. *)
Request(c) ==
  /\ At(c, "request")
  /\ GoOn(c, "transfer")
  /\ UNCHANGED <<leaseVars, file, index, result, touched>>

(* The content arrived in the temporary file and was found complete. *)
Transferred(c) ==
  /\ At(c, "transfer")
  /\ GoOn(c, "owned?")
  /\ UNCHANGED <<leaseVars, file, index, result, touched>>

(* The context ended, or the request, the content or the disk failed. *)
Fail(c) ==
  /\ At(c, "request") \/ At(c, "transfer") \/ At(c, "link")
  /\ GoOn(c, "return")
  /\ UNCHANGED <<leaseVars, file, index, result, touched>>

(* A call that lost its lease while it transferred does not publish. *)
CheckOwned(c) ==
  /\ At(c, "owned?")
  /\ GoOn(c, IF Owned(c) THEN "link" ELSE "return")
  /\ UNCHANGED <<leaseVars, file, index, result, touched>>

(* Mutant of FreeName: the first name is taken, as by a rename. *)
FirstName(n) == \A m \in Names : n <= m

(* finalize: link the temporary file under the first name that is free. *)
FreeName(n) == file[n] = NoCall /\ \A m \in Names : m < n => file[m] # NoCall

Link(c) ==
  /\ At(c, "link")
  /\ GoOn(c, "save")
  /\ \E n \in Names :
       /\ FreeName(n)
       /\ file' = [file EXCEPT ![n] = c]
       /\ result' = [result EXCEPT ![c] = n]
  /\ UNCHANGED <<leaseVars, index, touched>>

(* save: replace the entry by one rename.  Its failure hides no file. *)
Save(c) ==
  /\ At(c, "save")
  /\ GoOn(c, "return")
  /\ index' \in {index, [name |-> result[c], content |-> c]}
  /\ UNCHANGED <<leaseVars, file, result, touched>>

(* The deferred unlock runs when Download returns. *)
Leave(c) ==
  /\ At(c, "return")
  /\ Unlock(c)
  /\ UNCHANGED fileVars

(* Somebody edits or deletes a file of the download directory. *)
Meddle(n) ==
  /\ file[n] # NoCall
  /\ \E content \in {Foreign, NoCall} \ {file[n]} : file' = [file EXCEPT ![n] = content]
  /\ touched' = touched \cup {[name |-> n, content |-> c] : c \in Calls \cap {file[n]}}
  /\ UNCHANGED <<leaseVars, step, index, result>>

Init ==
  /\ LeaseInit
  /\ step = [c \in Calls |-> "recheck"]
  /\ file \in [Names -> {Foreign, NoCall}]
  /\ index = NoEntry
  /\ result = [c \in Calls |-> 0]
  /\ touched = {}

Work(c) ==
  \/ Recheck(c) \/ Request(c) \/ Transferred(c) \/ Fail(c)
  \/ CheckOwned(c) \/ Link(c) \/ Save(c) \/ Leave(c)

(* A step of the lease, which leaves the files alone. *)
LeaseStep(A) == A /\ UNCHANGED fileVars

Next ==
  \/ LeaseStep(Tick)
  \/ \E c \in Calls : \/ LeaseStep(Begin(c)) \/ LeaseStep(Cancel(c)) \/ LeaseStep(Crash(c))
                      \/ LeaseStep(Strive(c)) \/ LeaseStep(Heartbeat(c))
                      \/ LeaseStep(FinishUnlock(c)) \/ Work(c)
  \/ \E n \in Names : Meddle(n)

(* As in ArtifactLease, and every step of a download ends: requests and    *)
(* transfers time out.                                                     *)
WorkFairness ==
  /\ WF_vars(LeaseStep(Tick))
  /\ \A c \in Calls : /\ WF_vars(LeaseStep(Strive(c)))
                      /\ WF_vars(LeaseStep(Heartbeat(c)))
                      /\ WF_vars(LeaseStep(FinishUnlock(c)))
                      /\ WF_vars(Work(c))

Spec == Init /\ [][Next]_vars /\ WorkFairness

(***************************************************************************)
(* Properties                                                              *)
(***************************************************************************)

(* Every variable holds a value of its type, and only a call that got the  *)
(* lease moved on in Download.                                             *)
TypeOK ==
  /\ step \in [Calls -> Steps]
  /\ file \in [Names -> Calls \cup {Foreign, NoCall}]
  /\ index \in [name : Names, content : Calls] \cup {NoEntry}
  /\ result \in [Calls -> Names \cup {0}]
  /\ touched \subseteq [name : Names, content : Calls]
  /\ \A c \in Calls : Waiting(c) => step[c] = "recheck"

(* A call is between the decision to fetch the artifact and its link. *)
Fetching(c) == Holding(c) /\ step[c] \in {"request", "transfer", "owned?", "link"}

(* download.go, Download: while a call fetches the artifact, no other call *)
(* of any process fetches it too, and none has put an intact copy in the   *)
(* cache that the fetch would duplicate.                                   *)
NoNeedlessFetch ==
  \A c \in Calls : Fetching(c) => ~Cached /\ \A d \in Calls : Fetching(d) => c = d

(* download.go, Download and Cached: the file that a call returns had, when *)
(* the call decided to return it, the content that it or an earlier call    *)
(* fetched, whoever meddled with the directory before.                      *)
ReturnsFetchedFile ==
  [][\A c \in Calls : result'[c] # result[c] => file'[result'[c]] \in Calls]_vars

(* download.go, Download and save, and finalize: the index never names a   *)
(* file that is not there or is another's, unless somebody changed it      *)
(* since it was linked.  Calls that lost their leases while they fetched   *)
(* may link and record in any order, fail to record, or end in between.    *)
EntryIsIntact ==
  index = NoEntry \/ file[index.name] = index.content \/ index \in touched
=============================================================================
