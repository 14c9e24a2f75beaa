------------------------------- MODULE MCPoll -------------------------------
(* Instances of PollLoop for TLC; the values are in the .cfg files.         *)
EXTENDS PollLoop
=============================================================================
