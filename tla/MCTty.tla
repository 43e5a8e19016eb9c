------------------------------- MODULE MCTty -------------------------------
(* Constants for the run of Tty: what tty_write is called with *)
EXTENDS Tty

MCTexts == {<<"lf">>}
=============================================================================
