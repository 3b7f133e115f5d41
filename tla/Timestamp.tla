----------------------------- MODULE Timestamp -----------------------------
(***************************************************************************)
(* lib/timestamp.c: struct timespec values of the monotonic clock and the  *)
(* only comparison the server makes on them.  The clock itself is a count  *)
(* of the smallest time units; NsecPerSec of them make a second.           *)
(***************************************************************************)
EXTENDS Naturals

CONSTANT NsecPerSec   \* units in a second (10^9; scaled down for TLC)

ASSUME NsecAssumption == NsecPerSec \in Nat \ {0}

timespec == [tv_sec : Nat, tv_nsec : 0 .. NsecPerSec - 1]

\* What clock_gettime(CLOCK_MONOTONIC) stores when the clock reads t.
get_clock_time(t) ==
    [tv_sec |-> t \div NsecPerSec, tv_nsec |-> t % NsecPerSec]

\* compare_times that does not let the seconds decide first.
compare_times_EitherField(lhs, rhs) ==
    lhs.tv_sec < rhs.tv_sec \/ lhs.tv_nsec < rhs.tv_nsec

\* compare_times that takes equal times for one before the other.
compare_times_NotAfter(lhs, rhs) ==
    IF lhs.tv_sec = rhs.tv_sec
    THEN lhs.tv_nsec <= rhs.tv_nsec
    ELSE lhs.tv_sec < rhs.tv_sec

compare_times(lhs, rhs) ==
    IF lhs.tv_sec = rhs.tv_sec
    THEN lhs.tv_nsec < rhs.tv_nsec
    ELSE lhs.tv_sec < rhs.tv_sec

\* msg_plus_ttl.tv_sec += init_args.ttl
plus_seconds(ts, sec) == [ts EXCEPT !.tv_sec = @ + sec]

\* The clock reading a timespec stands for.
Units(ts) == ts.tv_sec * NsecPerSec + ts.tv_nsec
=============================================================================
