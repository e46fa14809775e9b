---------------------------- MODULE MCScanRunner ----------------------------
(* Instances of ScanRunner for TLC.                                        *)
EXTENDS ScanRunner, TLC

\* Handlers of one kind are interchangeable.
HandlerSymmetry == Permutations(Cancellers) \union Permutations(Deleters)
=============================================================================
