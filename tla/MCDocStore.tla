----------------------------- MODULE MCDocStore -----------------------------
(* Instances of DocStore for TLC.  There is a document for every thread and  *)
(* one for the global pointer, so that a parse never runs out of them.       *)
EXTENDS DocStore, Integers

ASSUME EnoughDocuments == Cardinality(Docs) > Cardinality(Threads)
=============================================================================
