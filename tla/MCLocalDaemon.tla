---- MODULE MCLocalDaemon ----
(* Two runtimes with an item each, which compete for the one slot. *)
EXTENDS LocalDaemon, TLC

CONSTANTS r1, r2, t1, t2

MCRuntimeOf == t1 :> r1 @@ t2 :> r2
====
