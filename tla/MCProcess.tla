----------------------------- MODULE MCProcess -----------------------------
(***************************************************************************)
(* The process with two workers and two sessions.  Requests, renewals and  *)
(* the signal share a bound: three requests, or two and one of the others. *)
(***************************************************************************)
EXTENDS ProcessHistory

CONSTANTS w1, w2, s1, s2, MaxEvents

WithinBound ==
    visits + (certFile - 1) + (IF signalled THEN 1 ELSE 0) <= MaxEvents

\* It has ended, or waits for requests or a signal.
Resting == (~Up \/ (main = "waiting" /\ Busy = {})) /\ UNCHANGED historyVars

MCSpec ==
    /\ HInit
    /\ [][(HNext /\ WithinBound') \/ Resting]_historyVars
    /\ ProcessFairness
=============================================================================
