--------------------------- MODULE MCRuntimeRegistry ---------------------------
(* Two runtimes of one daemon, an item on the first. *)
EXTENDS RuntimeRegistry

CONSTANTS r1, r2, t1

MCRuntimeOf == [t \in Item |-> r1]

\* It may be requeued once; the next time it is failed instead.
MCMaxRetries == [t \in Item |-> 1]
=============================================================================
