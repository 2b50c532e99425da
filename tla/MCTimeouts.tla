----------------------------- MODULE MCTimeouts -----------------------------
(***************************************************************************)
(* Instances of Timeouts for TLC.                                          *)
(***************************************************************************)
EXTENDS Timeouts, TLC

CONSTANTS t1, t2, t3

\* A relative timeout of two ticks that is no multiple of the time between
\* ticks, and an absolute one.
MCValues == {-3, 1}

\* A relative timeout of exactly one tick.
MCMultiple == {-2}

\* Before and after the absolute timeout.
MCTimes == {0, 2}
=============================================================================
