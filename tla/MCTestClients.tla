--------------------------- MODULE MCTestClients ---------------------------
(* The jobs of MCMapReduce, with the clients of the repository.            *)
EXTENDS TestClients, MCMapReduce
=============================================================================
