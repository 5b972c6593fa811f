------------------------------ MODULE MCLogger ------------------------------
(* Instances of Logger for TLC: two modules, files of two to three rows.   *)
EXTENDS Logger

CONSTANTS sys, http

MCModules == {sys, http}
MCKnown == {sys}

\* A short line, and a longer one of two rows.
ShortTwoRow == {[rows |-> 1, size |-> 1], [rows |-> 2, size |-> 3]}
=============================================================================
