---------------------------- MODULE RequestLimits ----------------------------
(***************************************************************************)
(* One request and its limits: a timer for the response's headers, and one *)
(* for every pause of its body, each of which cancels the request from a   *)
(* goroutine of its own (anna/request_limits.go).  The server may answer,  *)
(* fail or go quiet at any point.                                          *)
(***************************************************************************)
EXTENDS Naturals

CONSTANTS
  MaxReads,   \* bound on the pieces that a body arrives in
  None

VARIABLES
  at,         \* where the caller is
  do,         \* what http.Client.Do or the last read returned
  header,     \* the header timer: "armed", "fired" while its function starts, or "off"
  quiet,      \* whether the header timer's function has run
  late,       \* whether the timer could not be stopped any more
  idle,       \* whether the timer of a pause is armed
  fired,      \* functions of that timer that have started and stored nothing yet
  stalled,    \* whether one of them has run
  cancelled,  \* whether the request's context is cancelled
  gone,       \* whether the operation's context has ended
  open,       \* whether a response's body is open
  reads,      \* pieces that were read
  told        \* how the request ended for its caller

rvars == <<at, do, header, quiet, late, idle, fired, stalled, cancelled, gone, open, reads, told>>

Send ==
  /\ at = "idle" /\ at' = "waiting" /\ header' = "armed"
  /\ UNCHANGED <<do, quiet, late, idle, fired, stalled, cancelled, gone, open, reads, told>>

(* Do returns: with a response, with the server's error, or because the    *)
(* request or the operation was cancelled.                                 *)
Answer ==
  /\ at = "waiting" /\ ~cancelled
  /\ at' = "answered"
  /\ \/ do' = "response" /\ open' = TRUE
     \/ do' = "failure" /\ UNCHANGED open
  /\ UNCHANGED <<header, quiet, late, idle, fired, stalled, cancelled, gone, reads, told>>

WaitCancelled ==
  /\ at = "waiting" /\ (cancelled \/ gone)
  /\ at' = "answered" /\ do' = "cancelled"
  /\ UNCHANGED <<header, quiet, late, idle, fired, stalled, cancelled, gone, open, reads, told>>

(* The timer's function first stores that the server was quiet, then       *)
(* cancels the request.                                                    *)
HeaderFires ==
  /\ header = "armed" /\ header' = "fired"
  /\ UNCHANGED <<at, do, quiet, late, idle, fired, stalled, cancelled, gone, open, reads, told>>

HeaderStores ==
  /\ header = "fired" /\ header' = "off" /\ quiet' = TRUE
  /\ UNCHANGED <<at, do, late, idle, fired, stalled, cancelled, gone, open, reads, told>>

TimerCancels ==
  /\ (quiet \/ stalled) /\ ~cancelled /\ cancelled' = TRUE
  /\ UNCHANGED <<at, do, header, quiet, late, idle, fired, stalled, gone, open, reads, told>>

StopTimer ==
  /\ at = "answered" /\ at' = "stopped"
  /\ late' = (header # "armed")
  /\ header' = IF header = "armed" THEN "off" ELSE header
  /\ UNCHANGED <<do, quiet, idle, fired, stalled, cancelled, gone, open, reads, told>>

End(how) == at' = "over" /\ told' = how /\ cancelled' = TRUE

(* Mutant of GoneQuiet: a response that came too late is not closed. *)
GoneQuietLeaks ==
  /\ at = "stopped" /\ late /\ quiet
  /\ End("timeout")
  /\ UNCHANGED <<do, header, quiet, late, idle, fired, stalled, gone, open, reads>>

GoneQuiet ==
  /\ at = "stopped" /\ late /\ quiet
  /\ End("timeout")
  /\ open' = FALSE
  /\ UNCHANGED <<do, header, quiet, late, idle, fired, stalled, gone, reads>>

Refuse ==
  /\ at = "stopped" /\ ~(late /\ quiet) /\ do # "response"
  /\ End(do)
  /\ UNCHANGED <<do, header, quiet, late, idle, fired, stalled, gone, open, reads>>

(* The body's first pause is limited from here on. *)
Deliver ==
  /\ at = "stopped" /\ ~(late /\ quiet) /\ do = "response"
  /\ at' = "reading" /\ idle' = TRUE
  /\ UNCHANGED <<do, header, quiet, late, fired, stalled, cancelled, gone, open, reads, told>>

Arrive ==
  /\ at = "reading" /\ ~cancelled
  /\ \/ do' = "data" /\ reads < MaxReads /\ reads' = reads + 1
     \/ do' \in {"end", "failure"} /\ UNCHANGED reads
  /\ at' = "read"
  /\ UNCHANGED <<header, quiet, late, idle, fired, stalled, cancelled, gone, open, told>>

ReadCancelled ==
  /\ at = "reading" /\ (cancelled \/ gone)
  /\ at' = "read" /\ do' = "cancelled"
  /\ UNCHANGED <<header, quiet, late, idle, fired, stalled, cancelled, gone, open, reads, told>>

(* Whatever arrived, a pause that was too long ends the reading; otherwise *)
(* data starts the next pause, even if the timer has just fired.           *)
AfterRead ==
  /\ at = "read"
  /\ IF stalled \/ do # "data"
     THEN /\ told' = IF stalled THEN "timeout" ELSE do
          /\ at' = "closing" /\ UNCHANGED idle
     ELSE at' = "reading" /\ idle' = TRUE /\ UNCHANGED told
  /\ UNCHANGED <<do, header, quiet, late, fired, stalled, cancelled, gone, open, reads>>

Close ==
  /\ at = "closing" /\ at' = "over"
  /\ idle' = FALSE /\ open' = FALSE /\ cancelled' = TRUE
  /\ UNCHANGED <<do, header, quiet, late, fired, stalled, gone, reads, told>>

IdleFires ==
  /\ idle /\ idle' = FALSE /\ fired' = fired + 1
  /\ UNCHANGED <<at, do, header, quiet, late, stalled, cancelled, gone, open, reads, told>>

IdleStores ==
  /\ fired > 0 /\ fired' = fired - 1 /\ stalled' = TRUE
  /\ UNCHANGED <<at, do, header, quiet, late, idle, cancelled, gone, open, reads, told>>

OperationEnds ==
  /\ at # "over" /\ ~gone /\ gone' = TRUE
  /\ UNCHANGED <<at, do, header, quiet, late, idle, fired, stalled, cancelled, open, reads, told>>

Init ==
  /\ at = "idle" /\ do = None /\ header = "off" /\ idle = FALSE /\ fired = 0
  /\ quiet = FALSE /\ late = FALSE /\ stalled = FALSE /\ cancelled = FALSE /\ gone = FALSE
  /\ open = FALSE /\ reads = 0 /\ told = None

(* What goes on without the server. *)
Client ==
  \/ WaitCancelled \/ StopTimer \/ GoneQuiet \/ Refuse \/ Deliver \/ ReadCancelled \/ AfterRead
  \/ Close \/ HeaderFires \/ HeaderStores \/ TimerCancels \/ IdleFires \/ IdleStores

Next == Send \/ Answer \/ Arrive \/ OperationEnds \/ Client

(* Timers fire and goroutines run; nothing is assumed of the server. *)
Spec == Init /\ [][Next]_rvars /\ WF_rvars(Client)

(***************************************************************************)
(* Properties                                                              *)
(***************************************************************************)

(* "A server that accepts the connection and then goes quiet fails in      *)
(* seconds instead of holding the whole operation": every request ends     *)
(* although the server may stop at any point, tells its caller how, and    *)
(* leaves no body open, no context that is not cancelled and no timer.     *)
RequestsEnd ==
  at = "waiting" ~>
    at = "over" /\ told # None /\ ~open /\ cancelled /\ ~idle /\ header # "armed"
=============================================================================
