---------------------------- MODULE MCJobHandle ----------------------------
(* The jobs of MCMapReduce, with client threads.                           *)
EXTENDS JobHandle, MCMapReduce
=============================================================================
