------------------------------ MODULE MCTasks ------------------------------
EXTENDS TaskCalls
=============================================================================
