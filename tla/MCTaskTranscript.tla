---- MODULE MCTaskTranscript ----
(* All three backends. *)
EXTENDS TaskTranscript

MCMaxLines == [b \in Backend |-> 2]
====
