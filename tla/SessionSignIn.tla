---------------------------- MODULE SessionSignIn ---------------------------
(***************************************************************************)
(* The archive session of one Client (session.go, session_store.go and     *)
(* doGetWith of client_http.go): a request that the archive refuses signs  *)
(* in once and is repeated, concurrent calls share one sign-in, a recent   *)
(* sign-in is not repeated, and the session outlives the process in a file *)
(* that remembers which configured cookie it replaced.                     *)
(*                                                                         *)
(* A cookie is an account and a serial number; a sign-in issues one that   *)
(* nothing refers to.                                                      *)
(* Each action is one critical section of sessionMu, one answer received,  *)
(* or one access to the session file.                                      *)
(***************************************************************************)
EXTENDS Integers, FiniteSets

CONSTANTS
  Callers,        \* concurrent archive requests of one Client
  NoCaller,       \* signingIn = nil
  Accounts,       \* secret keys, each of one account
  Serials,        \* serial numbers that tell the sessions of an account apart
  Configs,        \* the configurations the user may set
  SessionFile,    \* whether a SessionFile is configured
  RetryInterval   \* signInRetryInterval, in ticks

ASSUME NoCallerAssumption == NoCaller \notin Callers
ASSUME IntervalAssumption == RetryInterval \in Nat \ {0}

NoKey == "no key"
NoCookie == <<NoKey, 0>>
Browser(n) == <<NoKey, n>>
NoFile == [key |-> NoKey, cookie |-> NoCookie, replaced |-> NoCookie]

(* SecretKey and AccountCookie; the cookie comes from the user's browser. *)
SomeConfig == [key : Accounts \cup {NoKey}, cookie : {NoCookie} \cup {Browser(n) : n \in Serials}]

ASSUME FileAssumption == SessionFile \in BOOLEAN
ASSUME SerialAssumption == Serials \subseteq Nat \ {0}
ASSUME ConfigAssumption == Configs \subseteq SomeConfig

VARIABLES
  config,      \* the user's SecretKey and AccountCookie
  steady,      \* whether sessions stay valid and sign-ins work from now on
  accepted,    \* the cookies that the archive accepts
  cookie,      \* Client.cookie
  signingIn,   \* the call that signs in, or NoCaller
  sinceSignIn, \* ticks since signedInAt, up to RetryInterval
  signInErr,   \* whether the last recorded sign-in was refused
  file,        \* the session file
  pc,          \* where each call is
  stage,       \* the call signs in "before" its first request, or is at its
               \* "first" request, or at the "renewed" one
  gone,        \* whether the call's context has ended
  sent,        \* the cookie of the call's last request
  issued       \* the cookie that the call's sign-in got

archiveVars == <<config, steady, accepted>>
clientVars == <<cookie, signingIn, sinceSignIn, signInErr>>
callVars == <<pc, stage, gone, sent, issued>>
vars == <<archiveVars, clientVars, file, callVars>>

Goto(c, place) == pc' = [pc EXCEPT ![c] = place]

Return(c) ==
  /\ Goto(c, "idle")
  /\ stage' = [stage EXCEPT ![c] = "first"]
  /\ gone' = [gone EXCEPT ![c] = FALSE]
  /\ sent' = [sent EXCEPT ![c] = NoCookie]
  /\ issued' = [issued EXCEPT ![c] = NoCookie]

(* signIn returned true: a first request is still to be made, or is made again. *)
Retried(c) == IF stage[c] = "before" THEN "first" ELSE "renewed"

(* ensureSession signs in before the first request when there is no cookie. *)
Call(c) ==
  /\ pc[c] = "idle"
  /\ Goto(c, IF cookie = NoCookie THEN "signIn" ELSE "request")
  /\ stage' = [stage EXCEPT ![c] = IF cookie = NoCookie THEN "before" ELSE "first"]
  /\ UNCHANGED <<archiveVars, clientVars, file, gone, sent, issued>>

(* doGetWith sends the request with the cookie of the moment. *)
Request(c) ==
  /\ pc[c] = "request"
  /\ Goto(c, "sent")
  /\ sent' = [sent EXCEPT ![c] = cookie]
  /\ UNCHANGED <<archiveVars, clientVars, file, stage, gone, issued>>

(* The archive serves the request, or the call's own context ends it. *)
Served(c) ==
  /\ pc[c] = "sent"
  /\ gone[c] \/ sent[c] \in accepted
  /\ Return(c)
  /\ UNCHANGED <<archiveVars, clientVars, file>>

(* A 403: the session is no longer accepted, or the membership does not    *)
(* allow the request.  The first one signs in, the second is reported.     *)
Forbidden(c) ==
  /\ pc[c] = "sent"
  /\ sent[c] \notin accepted \/ ~steady
  /\ IF stage[c] = "renewed"
     THEN Return(c)
     ELSE Goto(c, "signIn") /\ UNCHANGED <<stage, gone, sent, issued>>
  /\ UNCHANGED <<archiveVars, clientVars, file>>

(***************************************************************************)
(* signIn                                                                  *)
(***************************************************************************)

(* signIn returned false and no error: the first request is made without a *)
(* session, or its 403 is reported.                                        *)
Unrenewed(c) ==
  IF stage[c] = "before"
  THEN /\ Goto(c, "request")
       /\ stage' = [stage EXCEPT ![c] = "first"]
       /\ UNCHANGED <<gone, sent, issued>>
  ELSE Return(c)

WithoutKey(c) ==
  /\ pc[c] = "signIn"
  /\ config.key = NoKey
  /\ Unrenewed(c)
  /\ UNCHANGED <<archiveVars, clientVars, file>>

(* Another call has replaced the rejected cookie already. *)
AlreadyReplaced(c) ==
  /\ pc[c] = "signIn" /\ config.key # NoKey
  /\ cookie # sent[c]
  /\ Goto(c, "request")
  /\ stage' = [stage EXCEPT ![c] = Retried(c)]
  /\ UNCHANGED <<archiveVars, clientVars, file, gone, sent, issued>>

(* Another call is signing in: wait for it. *)
AwaitSignIn(c) ==
  /\ pc[c] = "signIn" /\ config.key # NoKey
  /\ cookie = sent[c]
  /\ signingIn # NoCaller
  /\ Goto(c, "waiting")
  /\ UNCHANGED <<archiveVars, clientVars, file, stage, gone, sent, issued>>

(* Mutant of TooSoon: after a recent sign-in the request is simply repeated. *)
TooSoonRetries(c) ==
  /\ pc[c] = "signIn" /\ config.key # NoKey
  /\ cookie = sent[c]
  /\ signingIn = NoCaller
  /\ sinceSignIn < RetryInterval
  /\ Goto(c, "request")
  /\ stage' = [stage EXCEPT ![c] = Retried(c)]
  /\ UNCHANGED <<archiveVars, clientVars, file, gone, sent, issued>>

(* Mutant of TooSoon: a refusal is remembered for ever. *)
RefusedForEver(c) ==
  /\ pc[c] = "signIn" /\ config.key # NoKey
  /\ cookie = sent[c]
  /\ signingIn = NoCaller
  /\ signInErr \/ sinceSignIn < RetryInterval
  /\ IF signInErr THEN Return(c) ELSE Unrenewed(c)
  /\ UNCHANGED <<archiveVars, clientVars, file>>

(* A sign-in this recent is not repeated, and its refusal is reported. *)
TooSoon(c) ==
  /\ pc[c] = "signIn" /\ config.key # NoKey
  /\ cookie = sent[c]
  /\ signingIn = NoCaller
  /\ sinceSignIn < RetryInterval
  /\ IF signInErr THEN Return(c) ELSE Unrenewed(c)
  /\ UNCHANGED <<archiveVars, clientVars, file>>

(* Mutant of LeadSignIn: sign-ins follow each other at once. *)
LeadAtOnce(c) ==
  /\ pc[c] = "signIn" /\ config.key # NoKey
  /\ cookie = sent[c]
  /\ signingIn = NoCaller
  /\ signingIn' = c
  /\ Goto(c, "posting")
  /\ UNCHANGED <<archiveVars, cookie, sinceSignIn, signInErr, file, stage, gone, sent, issued>>

LeadSignIn(c) ==
  /\ pc[c] = "signIn" /\ config.key # NoKey
  /\ cookie = sent[c]
  /\ signingIn = NoCaller
  /\ sinceSignIn = RetryInterval
  /\ signingIn' = c
  /\ Goto(c, "posting")
  /\ UNCHANGED <<archiveVars, cookie, sinceSignIn, signInErr, file, stage, gone, sent, issued>>

(* The cookies that something still refers to. *)
InUse == {cookie, file.cookie, file.replaced, config.cookie}
           \cup {k.cookie : k \in Configs}
           \cup {sent[c] : c \in Callers} \cup {issued[c] : c \in Callers}

Unused == {n \in Serials : <<config.key, n>> \notin InUse}

(* A mirror accepts the key and issues a session. *)
SignInWorks(c) ==
  /\ pc[c] = "posting"
  /\ Unused # {}
  /\ LET new == <<config.key, CHOOSE n \in Unused : TRUE>> IN
       /\ issued' = [issued EXCEPT ![c] = new]
       /\ accepted' = (accepted \cap InUse) \cup {new}
  /\ Goto(c, "works")
  /\ UNCHANGED <<config, steady, clientVars, file, stage, gone, sent>>

(* The key is wrong or the form is behind a browser check ("refused"), or  *)
(* no mirror can be reached or the context ended ("fails").                *)
SignInFails(c) ==
  /\ pc[c] = "posting"
  /\ gone[c] \/ ~steady
  /\ \E how \in {"refused", "fails"} : Goto(c, how)
  /\ UNCHANGED <<archiveVars, clientVars, file, stage, gone, sent, issued>>

(* Mutant of Released: the waiting calls are not told. *)
ReleasedAlone(c, next) == [pc EXCEPT ![c] = next]

(* The sign-in of c is over: its waiting calls look again. *)
Released(c, next) ==
  [d \in Callers |-> IF d = c THEN next ELSE IF pc[d] = "waiting" THEN "signIn" ELSE pc[d]]

(* The end of signIn looks at the context twice.  If it lives, a new       *)
(* session is adopted and to be saved, and the answer is remembered unless *)
(* no mirror gave one.                                                     *)
EndInTime(c) ==
  /\ ~gone[c]
  /\ IF pc[c] = "works" THEN cookie' = issued[c] ELSE UNCHANGED cookie
  /\ IF pc[c] = "fails"
     THEN UNCHANGED <<sinceSignIn, signInErr>>
     ELSE sinceSignIn' = 0 /\ signInErr' = (pc[c] = "refused")
  /\ IF pc[c] = "works"
     THEN pc' = Released(c, "save") /\ UNCHANGED <<stage, gone, sent, issued>>
     ELSE /\ pc' = Released(c, "idle")
          /\ stage' = [stage EXCEPT ![c] = "first"]
          /\ sent' = [sent EXCEPT ![c] = NoCookie]
          /\ UNCHANGED <<gone, issued>>

(* The context ended before the first look: nothing is adopted or          *)
(* remembered, and the request is made, or the failure returned.           *)
EndTooLate(c) ==
  /\ gone[c]
  /\ UNCHANGED <<cookie, sinceSignIn, signInErr>>
  /\ IF pc[c] = "works"
     THEN /\ pc' = Released(c, "request")
          /\ stage' = [stage EXCEPT ![c] = Retried(c)]
          /\ UNCHANGED <<gone, sent, issued>>
     ELSE /\ pc' = Released(c, "idle")
          /\ stage' = [stage EXCEPT ![c] = "first"]
          /\ gone' = [gone EXCEPT ![c] = FALSE]
          /\ sent' = [sent EXCEPT ![c] = NoCookie]
          /\ UNCHANGED issued

(* It ends between the two looks: a session that the client does not use,  *)
(* and that is not remembered, is to be saved.                             *)
EndBetween(c) ==
  /\ pc[c] = "works" /\ ~gone[c]
  /\ pc' = Released(c, "saveUnused")
  /\ gone' = [gone EXCEPT ![c] = TRUE]
  /\ UNCHANGED <<cookie, sinceSignIn, signInErr, stage, sent, issued>>

EndSignIn(c) ==
  /\ pc[c] \in {"works", "refused", "fails"}
  /\ signingIn' = NoCaller
  /\ EndInTime(c) \/ EndTooLate(c) \/ EndBetween(c)
  /\ UNCHANGED <<archiveVars, file>>

(* saveSession runs after sessionMu is released; a failure is ignored. *)
Save(c) ==
  /\ pc[c] \in {"save", "saveUnused"}
  /\ \/ UNCHANGED file
     \/ /\ SessionFile
        /\ file' = [key |-> config.key, cookie |-> issued[c], replaced |-> config.cookie]
  /\ Goto(c, "request")
  /\ stage' = [stage EXCEPT ![c] = Retried(c)]
  /\ issued' = [issued EXCEPT ![c] = NoCookie]
  /\ UNCHANGED <<archiveVars, clientVars, gone, sent>>

StopWaiting(c) ==
  /\ pc[c] = "waiting" /\ gone[c]
  /\ Return(c)
  /\ UNCHANGED <<archiveVars, clientVars, file>>

(***************************************************************************)
(* The environment                                                         *)
(***************************************************************************)

GiveUp(c) ==
  /\ pc[c] # "idle" /\ ~gone[c]
  /\ gone' = [gone EXCEPT ![c] = TRUE]
  /\ UNCHANGED <<archiveVars, clientVars, file, pc, stage, sent, issued>>

(* The archive stops accepting a session. *)
Expire ==
  /\ ~steady
  /\ \E old \in accepted : accepted' = accepted \ {old}
  /\ UNCHANGED <<config, steady, clientVars, file, callVars>>

(* From here on sessions stay valid, and the membership allows everything. *)
Settle ==
  /\ ~steady
  /\ steady' = TRUE
  /\ UNCHANGED <<config, accepted, clientVars, file, callVars>>

(* A tick is shorter than signInRetryInterval.  The write of a session that *)
(* was adopted is over before the next sign-in may begin.                   *)
Tick ==
  /\ (\E c \in Callers : pc[c] = "save") => sinceSignIn + 1 < RetryInterval
  /\ sinceSignIn' = IF sinceSignIn < RetryInterval THEN sinceSignIn + 1 ELSE RetryInterval
  /\ UNCHANGED <<archiveVars, cookie, signingIn, signInErr, file, callVars>>

(* Mutant of Restored: whose key the file was saved with is not looked at. *)
RestoredForAnyKey(configured) ==
  IF /\ file # NoFile /\ configured.key # NoKey
     /\ configured.cookie \in {NoCookie, file.replaced}
  THEN file.cookie
  ELSE configured.cookie

(* restoreSession: the saved session of this key, unless a configured      *)
(* cookie other than the one it replaced takes its place.                  *)
Restored(configured) ==
  IF /\ file # NoFile /\ file.key = configured.key
     /\ configured.cookie \in {NoCookie, file.replaced}
  THEN file.cookie
  ELSE configured.cookie

(* The process ends, between any two steps, and starts again with the same *)
(* configuration or with one that the user changed.                        *)
Restart ==
  /\ ~steady
  /\ config' \in Configs
  /\ cookie' = Restored(config')
  /\ signingIn' = NoCaller
  /\ sinceSignIn' = RetryInterval
  /\ signInErr' = FALSE
  /\ pc' = [c \in Callers |-> "idle"]
  /\ stage' = [c \in Callers |-> "first"]
  /\ gone' = [c \in Callers |-> FALSE]
  /\ sent' = [c \in Callers |-> NoCookie]
  /\ issued' = [c \in Callers |-> NoCookie]
  /\ UNCHANGED <<steady, accepted, file>>

Init ==
  /\ config \in Configs
  /\ steady = FALSE
  /\ accepted \in SUBSET ({k.cookie : k \in Configs} \ {NoCookie})
  /\ cookie = config.cookie
  /\ signingIn = NoCaller
  /\ sinceSignIn = RetryInterval
  /\ signInErr = FALSE
  /\ file = NoFile
  /\ pc = [c \in Callers |-> "idle"]
  /\ stage = [c \in Callers |-> "first"]
  /\ gone = [c \in Callers |-> FALSE]
  /\ sent = [c \in Callers |-> NoCookie]
  /\ issued = [c \in Callers |-> NoCookie]

(* What a call does by itself once started. *)
Proceed(c) ==
  \/ Request(c) \/ Served(c) \/ Forbidden(c)
  \/ WithoutKey(c) \/ AlreadyReplaced(c) \/ AwaitSignIn(c) \/ TooSoon(c) \/ LeadSignIn(c)
  \/ SignInWorks(c) \/ SignInFails(c) \/ EndSignIn(c) \/ Save(c) \/ StopWaiting(c)

Next ==
  \/ Tick \/ Expire \/ Settle \/ Restart
  \/ \E c \in Callers : Call(c) \/ GiveUp(c) \/ Proceed(c)

(* Every request has a timeout and time passes.  Nobody has to call. *)
Fairness == WF_vars(Tick) /\ \A c \in Callers : WF_vars(Proceed(c))

Spec == Init /\ [][Next]_vars /\ Fairness

(***************************************************************************)
(* Properties                                                              *)
(***************************************************************************)

Places == {"idle", "request", "sent", "signIn", "waiting", "posting", "works", "refused", "fails", "save",
           "saveUnused"}

SomeCookie == ((Accounts \cup {NoKey}) \X Serials) \cup {NoCookie}

(* Every variable holds a value of its type, and a call is signing in just *)
(* while signingIn is set to it.                                           *)
TypeOK ==
  /\ config \in Configs
  /\ steady \in BOOLEAN
  /\ accepted \subseteq SomeCookie \ {NoCookie}
  /\ cookie \in SomeCookie
  /\ signingIn \in Callers \cup {NoCaller}
  /\ sinceSignIn \in 0..RetryInterval
  /\ signInErr \in BOOLEAN
  /\ file \in [key : Accounts, cookie : Accounts \X Serials, replaced : SomeCookie] \cup {NoFile}
  /\ pc \in [Callers -> Places]
  /\ stage \in [Callers -> {"before", "first", "renewed"}]
  /\ gone \in [Callers -> BOOLEAN]
  /\ sent \in [Callers -> SomeCookie]
  /\ issued \in [Callers -> SomeCookie]
  /\ \A c \in Callers : signingIn = c <=> pc[c] \in {"posting", "works", "refused", "fails"}

(* session.go and session_store.go: the session in use is the configured   *)
(* cookie or one issued for the configured key, never another account's,   *)
(* although the file may have been saved before the user changed the key.  *)
SessionIsOfThisAccount == cookie \notin {NoCookie, config.cookie} => cookie[1] = config.key

(* client_http.go, doGetWith: the request that follows a sign-in carries   *)
(* another cookie than the one refused, whichever call signed in and       *)
(* whatever happened to the session since; a call that gave up excepted.   *)
RetrySendsAnotherCookie ==
  [][\A c \in Callers : pc[c] = "request" /\ pc'[c] = "sent" /\ stage[c] = "renewed" /\ ~gone[c]
       => sent'[c] # sent[c]]_vars

(* session.go, saveSession outside the lock: what is saved is the session  *)
(* in use, not one that a later sign-in has replaced, because sign-ins are *)
(* further apart than a write takes; but for what a call saves that gave   *)
(* up between the two looks at its context.                                *)
SavedSessionIsCurrent ==
  [][file' # file => \/ file'.cookie = cookie
                     \/ \E c \in Callers : pc[c] = "saveUnused" /\ pc'[c] = "request"]_vars

SignIns == INSTANCE SingleFlight
             WITH leader <- signingIn, waiting <- {c \in Callers : pc[c] = "waiting"}

(* session.go, signIn: concurrent callers share one sign-in, and its end   *)
(* releases every caller that waits for it, even when the leader gave up.  *)
SignInsAreShared == SignIns!Spec

(* A call fails although its context lives and there is a key to sign in with. *)
FailsWithKey(c) ==
  /\ config.key # NoKey /\ ~gone[c]
  /\ pc[c] \notin {"idle", "sent"} \/ (pc[c] = "sent" /\ sent[c] \notin accepted)
  /\ pc'[c] = "idle"

(* session.go: once the archive accepts the key and keeps accepting what   *)
(* it issues, calls stop failing for want of a session: a refusal is not   *)
(* remembered for ever, and no expired session is kept.                    *)
SessionRecovers == <>steady => <>[][\A c \in Callers : ~FailsWithKey(c)]_vars
=============================================================================
