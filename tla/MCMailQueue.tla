----------------------------- MODULE MCMailQueue ----------------------------
(* MailQueue for TLC: workers are interchangeable, and so are tasks.       *)
EXTENDS MailQueue, TLC

Interchangeable == Permutations(Workers) \cup Permutations(Tasks)

=============================================================================
