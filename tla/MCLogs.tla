------------------------------- MODULE MCLogs -------------------------------
(* Instance of Logs for TLC. *)
EXTENDS Logs

\* No parameter, one, two of which only one is a number, and two numbers.
MCQueries == {<<>>, <<2>>, <<0, 2>>, <<2, 0>>, <<2, 1>>}

=============================================================================
