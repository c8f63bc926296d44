------------------------------ MODULE MCAgentRun ------------------------------
\* Two or three requests for one run, all under one worker_id or each under its own.
EXTENDS AgentRun, TLC

CONSTANTS p1, p2, p3

SharedWorker == [p \in Proc |-> "worker"]
OwnWorker == [p \in Proc |-> p]
Requests == Permutations(Proc)
===============================================================================
