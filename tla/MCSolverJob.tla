---------------------------- MODULE MCSolverJob ----------------------------
(* SolverJob for TLC: the first job reports twice, so that an event can wait *)
(* while another is observed, the second job once.                           *)
EXTENDS SolverJob

MCEvents == <<2, 1>>
MCRequests == {<<"termination", "flag">>, <<"flag", "termination">>,
               <<"interruption", "nothing">>}
=============================================================================
