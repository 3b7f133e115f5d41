---------------------------- MODULE MCAcceptance ----------------------------
(* The test cases of tests.py, in the order unittest runs them. *)
EXTENDS Acceptance

Case(d, n, e) == [data |-> d, thread_count |-> n, expect_timeout |-> e]

\* test_multiple_receivers with four receivers in place of twenty.
Suite ==
    <<Case("t_basic", 2, FALSE),
      Case("t_invalid_checksum", 1, TRUE),
      Case("t_invalid_header", 1, TRUE),
      Case("t_large", 1, FALSE),
      Case("t_basic", 4, FALSE),
      Case("t_small", 1, FALSE),
      Case("t_basic_no_checksum", 1, FALSE)>>
=============================================================================
