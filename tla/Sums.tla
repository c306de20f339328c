-------------------------------- MODULE Sums --------------------------------
(***************************************************************************)
(* How many requests were counted in a stretch of time, as both limiters   *)
(* add up the time stamps they keep.                                       *)
(***************************************************************************)
EXTENDS FiniteSetsExt

(* What f holds at the ticks of T.                                         *)
Total(f, T) == MapThenSumSet(LAMBDA t : f[t], T)
=============================================================================
