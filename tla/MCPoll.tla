-------------------------------- MODULE MCPoll --------------------------------
(* Instances of Poll for TLC: two runs of the client, which share a file.  *)
EXTENDS Poll, TLC

CONSTANTS f1, f2, c1, c2

MCPolled == (c1 :> <<f1, f2>>) @@ (c2 :> <<f2>>)
==============================================================================
