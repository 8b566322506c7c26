----------------------------- MODULE Measurement -----------------------------
(***************************************************************************)
(* What one mini_iperf measurement promises to the two users who watch it, *)
(* without processes, sockets or packets: the server logs whole intervals, *)
(* one after the other and only when they have passed; the client shows    *)
(* the intervals that were logged, in that order and without repetition;   *)
(* and the server completes only when the client has asked it to.          *)
(* IperfSession implements this specification.                             *)
(***************************************************************************)
EXTENDS Integers

CONSTANT Interval       \* exp_options->interval_duration, in seconds

VARIABLES
  phase,      \* "idle", "measuring", "completed" or "aborted"
  elapsed,    \* seconds since the measurement began
  logged,     \* end of the last interval logged by the server
  shown,      \* end of the last interval printed by the client
  requested   \* the client has asked for the end

vars == <<phase, elapsed, logged, shown, requested>>

Init ==
  /\ phase = "idle"
  /\ elapsed = 0
  /\ logged = 0
  /\ shown = 0
  /\ requested = FALSE

\* The server receives the datagram that starts its clock.
Begin ==
  /\ phase = "idle"
  /\ phase' = "measuring"
  /\ UNCHANGED <<elapsed, logged, shown, requested>>

Elapse ==
  /\ phase = "measuring"
  /\ elapsed' = elapsed + 1
  /\ UNCHANGED <<phase, logged, shown, requested>>

\* An interval is logged when it has passed, adjacent to the previous one.
Log ==
  /\ phase = "measuring"
  /\ logged + Interval <= elapsed
  /\ logged' = logged + Interval
  /\ UNCHANGED <<phase, elapsed, shown, requested>>

\* The client shows the next interval that was logged, also after the server
\* has ended.
Show ==
  /\ shown + Interval <= logged
  /\ shown' = shown + Interval
  /\ UNCHANGED <<phase, elapsed, logged, requested>>

Request ==
  /\ ~requested
  /\ requested' = TRUE
  /\ UNCHANGED <<phase, elapsed, logged, shown>>

\* The normal end of the server: only on request.
Complete ==
  /\ phase = "measuring"
  /\ requested
  /\ phase' = "completed"
  /\ UNCHANGED <<elapsed, logged, shown, requested>>

\* Any other end of the server: an error, a signal, a division by zero.
Abort ==
  /\ phase \in {"idle", "measuring"}
  /\ phase' = "aborted"
  /\ UNCHANGED <<elapsed, logged, shown, requested>>

Next == Begin \/ Elapse \/ Log \/ Show \/ Request \/ Complete \/ Abort

Spec == Init /\ [][Next]_vars

=============================================================================
