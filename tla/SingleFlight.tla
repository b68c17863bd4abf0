---------------------------- MODULE SingleFlight ----------------------------
(***************************************************************************)
(* What the client promises of work that concurrent calls share: a round   *)
(* of mirror checks (Selector.Select) and a sign-in (Client.signIn).  One  *)
(* call leads the work, the others wait for it, and the end of the work    *)
(* releases every one of them whatever became of the leader.  A call may   *)
(* stop waiting on its own when its context ends.                          *)
(*                                                                         *)
(* MirrorSelector, SessionSignIn and DownloadReuse (the downloads of one   *)
(* hash) are shown to implement this module.                               *)
(***************************************************************************)
CONSTANTS Callers,   \* the calls that may share the work
          NoCaller   \* the leader while no work is under way

VARIABLES leader,    \* the call doing the work, or NoCaller
          waiting    \* the calls blocked until the work ends

vars == <<leader, waiting>>

Init == leader = NoCaller /\ waiting = {}

(* A call finds no work under way and starts it. *)
Lead(c) ==
  /\ leader = NoCaller
  /\ leader' = c
  /\ UNCHANGED waiting

(* A call finds the work of another under way and waits for it. *)
Wait(c) ==
  /\ leader \notin {NoCaller, c}
  /\ c \notin waiting
  /\ waiting' = waiting \cup {c}
  /\ UNCHANGED leader

(* A waiting call is cancelled. *)
Quit(c) ==
  /\ c \in waiting
  /\ waiting' = waiting \ {c}
  /\ UNCHANGED leader

(* The work ends, with or without a result, and releases everyone. *)
Finish ==
  /\ leader # NoCaller
  /\ leader' = NoCaller
  /\ waiting' = {}

Next ==
  \/ Finish
  \/ \E c \in Callers : Lead(c) \/ Wait(c) \/ Quit(c)

(* The work is bounded by a timeout, so it always ends. *)
Spec == Init /\ [][Next]_vars /\ WF_vars(Finish)
=============================================================================
