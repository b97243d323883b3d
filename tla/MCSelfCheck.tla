----------------------------- MODULE MCSelfCheck -----------------------------
(* Instances of SelfCheck for TLC: which faults the environment shows.      *)
EXTENDS SelfCheck

NoFaults  == {}
LinkFault == {"link"}

\* What makes a result come again, a store fail or a connection end;
\* DataServer always writes the hashes of a check it answers.
PipelineFaults == FaultKinds \ {"abort", "otherNotice", "otherResult"}

\* What does not end the connection or the program, and a foreign message;
\* recvMsg does not know from which of the queues a message comes.
StoreFaults == {"redis", "mysql", "abort", "otherResult"}
=============================================================================
