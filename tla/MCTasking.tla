----------------------------- MODULE MCTasking -----------------------------
(* Small instances of Tasking for TLC.                                      *)
EXTENDS Tasking

CONSTANTS first_user_proc, second_user_proc

\* The system as kmain builds it, and the loop that it comments out.
OneUserTask  == {first_user_proc}
TwoUserTasks == {first_user_proc, second_user_proc}

=============================================================================
