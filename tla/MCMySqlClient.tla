---------------------------- MODULE MCMySqlClient ----------------------------
(* Instances of MySqlClient for TLC.                                        *)
EXTENDS MySqlClient

AllFaults     == FaultKinds
OnlyConfigure == {"configure"}
=============================================================================
