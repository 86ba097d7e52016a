------------------------------- MODULE MCThreads -------------------------------
(* An instance of Threads for TLC: two threads, a file with the tag and    *)
(* one without, that the daemon has no struct of yet.                      *)
EXTENDS Threads

CONSTANTS f1, f2
==============================================================================
