--------------------------------- MODULE Site ---------------------------------
(* A site as a pass sees it, one request after the other. *)

\* The answer that site gives to the n-th request of a pass, which is q.
CONSTANT Ask(_, _, _)
=============================================================================
