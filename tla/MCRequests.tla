----------------------------- MODULE MCRequests -----------------------------
(* Small instances of Pipeline and of ResponseWriters for TLC: which handlers  *)
(* requests get to, and what becomes of the response of one.                   *)
EXTENDS MCPipeline, MCResponseWriters

VARIABLE part       \* which of the two a behaviour is about

MCInit ==
    \/ /\ part = "chain" /\ Init
       /\ WriterInit /\ site = [f \in DOMAIN site |-> FALSE]
    \/ /\ part = "response" /\ WriterInit
       /\ Init /\ conf = All

MCNext ==
    /\ UNCHANGED part
    /\ \/ part = "chain" /\ Next /\ UNCHANGED writerVars
       \/ part = "response" /\ WriterNext /\ UNCHANGED vars

MCSpec == MCInit /\ [][MCNext]_<<part, vars, writerVars>>
=============================================================================
