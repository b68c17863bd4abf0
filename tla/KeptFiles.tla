------------------------------ MODULE KeptFiles ------------------------------
(* What is kept in files from one process to the next: the artifacts, with  *)
(* their index, and the session of the archive.  They are different files   *)
(* and share no other state, so each behaviour is one of one of them, the   *)
(* other standing still.                                                    *)
EXTENDS ArtifactDownload

CONSTANTS Accounts, Serials, Configs, SessionFile, RetryInterval   \* SessionSignIn

VARIABLES
  kept,   \* "artifact" or "session"
  config, steady, accepted, cookie, signingIn, sinceSignIn, signInErr, saved, at, stage, gone,
  sent, issued

sessionVars == <<config, steady, accepted, cookie, signingIn, sinceSignIn, signInErr, saved, at,
                 stage, gone, sent, issued>>

SI == INSTANCE SessionSignIn
        WITH Callers <- Calls, NoCaller <- NoCall, file <- saved, pc <- at

ASSUME KeptAssumption ==
  /\ RetryInterval \in Nat \ {0} /\ SessionFile \in BOOLEAN
  /\ Serials \subseteq Nat \ {0} /\ Configs \subseteq SI!SomeConfig

KeptInit ==
  /\ kept \in {"artifact", "session"}
  /\ Init /\ SI!Init
  /\ kept = "artifact" => config = (CHOOSE k \in Configs : TRUE) /\ accepted = {}
  /\ kept = "session" => \A n \in Names : file[n] = NoCall

Download == kept = "artifact" /\ Next /\ UNCHANGED <<kept, sessionVars>>
Renew == kept = "session" /\ SI!Next /\ UNCHANGED <<kept, vars>>

KeptSpec == KeptInit /\ [][Download \/ Renew]_<<kept, vars, sessionVars>>

(* session_store.go: no session of another account is used. *)
SessionIsOfThisAccount == SI!SessionIsOfThisAccount

(* session.go: what is saved is the session in use, but for what a call    *)
(* saves that gave up between the two looks at its context.                *)
SavedSessionIsCurrent == SI!SavedSessionIsCurrent
==============================================================================
