------------------------------ MODULE WorkItem ------------------------------
(***************************************************************************)
(* What the rest of the system may rely on about Work Items, without Runs, *)
(* callbacks, sweeps or an outbox.  An item waits, is worked on by one     *)
(* attempt at a time, and settles; an issue has one attempt at work at a   *)
(* time; a settled item comes back only as a paid retry after a failure.   *)
(* RunLifecycle is shown to implement this specification.                  *)
(***************************************************************************)
EXTENDS Naturals

CONSTANTS Item, IssueOf, MaxAttempts

VARIABLES
    phase,       \* where each item stands
    attempts     \* attempts begun for each item

itemVars == <<phase, attempts>>

Phase == {"unknown", "waiting", "working", "succeeded", "failed", "cancelled"}

ItemTypeOK ==
    /\ phase \in [Item -> Phase]
    /\ attempts \in [Item -> Nat]

ItemInit ==
    /\ phase = [t \in Item |-> "unknown"]
    /\ attempts = [t \in Item |-> 0]

Submit(t) ==
    /\ phase[t] = "unknown"
    /\ phase' = [phase EXCEPT ![t] = "waiting"]
    /\ UNCHANGED attempts

\* An attempt begins when no attempt of the same issue is at work.
Begin(t) ==
    /\ phase[t] = "waiting"
    /\ attempts[t] < MaxAttempts
    /\ \A u \in Item : IssueOf[u] = IssueOf[t] => phase[u] # "working"
    /\ phase' = [phase EXCEPT ![t] = "working"]
    /\ attempts' = [attempts EXCEPT ![t] = @ + 1]

\* Only work in progress succeeds.
Succeed(t) ==
    /\ phase[t] = "working"
    /\ phase' = [phase EXCEPT ![t] = "succeeded"]
    /\ UNCHANGED attempts

\* Any set of unsettled items may be cancelled in one step.
Withdraw(S) ==
    /\ \A t \in S : phase[t] \in {"waiting", "working"}
    /\ phase' = [t \in Item |-> IF t \in S THEN "cancelled" ELSE phase[t]]
    /\ UNCHANGED attempts

\* Items of F fail; items of Q, interrupted or failed with an attempt to
\* spare, wait again.
Interrupt(Q, F) ==
    /\ \A t \in Q : phase[t] \in {"working", "failed"} /\ attempts[t] < MaxAttempts
    /\ \A t \in F : phase[t] \in {"waiting", "working", "failed"}
    /\ phase' = [t \in Item |-> IF t \in Q THEN "waiting"
                                ELSE IF t \in F THEN "failed" ELSE phase[t]]
    /\ UNCHANGED attempts

ItemNext ==
    \/ \E t \in Item : Submit(t) \/ Begin(t) \/ Succeed(t)
    \/ \E S \in SUBSET Item : Withdraw(S)
    \/ \E Q, F \in SUBSET Item : Interrupt(Q, F)

ItemSpec == ItemInit /\ [][ItemNext]_itemVars
=============================================================================
