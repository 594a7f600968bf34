------------------------------ MODULE AgentSession ------------------------------
(***************************************************************************)
(* One run of an agent's CLI (pkg/agent): the process, the scanner that    *)
(* reads its lines, the goroutine that ends the session, the channel of    *)
(* messages and the result.  codex.go asks over JSON-RPC and has a reader  *)
(* of its own; claude.go and opencode.go read in the goroutine that ends   *)
(* the session.                                                            *)
(*                                                                         *)
(* A line is its number in `said`, the kinds of the lines in the order the *)
(* process wrote them; 0 is the answer to a request.  Requests: 1 is       *)
(* initialize, 2 thread/start, 3 the turn.  Approvals the process asks for *)
(* are answered on the spot and change nothing here.                       *)
(***************************************************************************)
EXTENDS Naturals, Sequences, SequencesExt, FiniteSetsExt

CONSTANTS
    Backend,         \* a subset of {"codex", "claude", "opencode"}
    Capacity,        \* the buffer of Session.Messages
    MaxLines         \* bound: lines the process of a backend writes of its own accord

ASSUME SessionAssumption ==
    /\ Backend \subseteq {"codex", "claude", "opencode"} /\ Backend # {}
    /\ Capacity \in Nat \ {0} /\ MaxLines \in [Backend -> Nat]

VARIABLES
    backend, resume, \* the provider; whether opts.ResumeSessionID is set
    proc,            \* "alive", or how it ended: "ok", "bad"
    said,            \* the lines the process wrote
    wire,            \* those not read yet: the pipe and the scanner's buffer
    reader,          \* the scan loop: "reading" or "done"
    rpc,             \* codexClient.pending and the answer; turnDone
    ctx,             \* runCtx: "open", "deadline", "cancelled"
    ending,          \* the goroutine that ends the session; the request it is at
    verdict,         \* finalStatus
    output,          \* the texts accumulated for the result
    chan,            \* Session.Messages
    outcome,         \* Session.Result
    crashed          \* a send on a closed channel took the daemon down

procVars    == <<proc, said>>
sessionVars == <<backend, resume, proc, said, wire, reader, rpc, ctx, ending, verdict,
                 output, chan, outcome, crashed>>

NoResult == [status |-> "none", output |-> <<>>]

SessionInit ==
    /\ backend \in Backend
    /\ resume \in IF backend = "codex" THEN BOOLEAN ELSE {FALSE}
    /\ proc = "alive" /\ said = <<>> /\ wire = <<>>
    /\ reader = "reading"
    /\ rpc = [pending |-> 0, answer |-> "none", turn |-> "none"]
    /\ ctx = "open"
    /\ ending = [at |-> IF backend = "codex" THEN "asking" ELSE "reading", no |-> 1]
    /\ verdict = "completed" /\ output = <<>>
    /\ chan = [buf |-> <<>>, closed |-> FALSE]
    /\ outcome = NoResult
    /\ crashed = FALSE

-----------------------------------------------------------------------------
(* The process and its context.                                            *)

\* A line of more than ten megabytes ends the scan.
Kinds ==
    {"text", "tool", "long"} \union
    CASE backend = "codex"    -> {"done", "aborted"}
      [] backend = "claude"   -> {"result", "isError"}
      [] backend = "opencode" -> {"error"}

\* Codex has nothing to tell before it was asked for the turn; what is written
\* after the scan ended nobody reads.
Writes(kind) ==
    /\ proc = "alive" /\ reader = "reading" /\ Len(said) < MaxLines[backend]
    /\ backend = "codex" => ending.no = 3 /\ ending.at # "asking"
    /\ said' = Append(said, kind)
    /\ wire' = Append(wire, [kind |-> kind, n |-> Len(said) + 1])
    /\ UNCHANGED <<backend, resume, proc, reader, rpc, ctx, ending, verdict, output, chan,
                   outcome, crashed>>

Replies(kind) ==
    /\ proc = "alive" /\ reader = "reading" /\ rpc.pending # 0
    /\ ~\E i \in DOMAIN wire : wire[i].n = 0
    /\ wire' = Append(wire, [kind |-> kind, n |-> 0])
    /\ UNCHANGED <<backend, resume, proc, said, reader, rpc, ctx, ending, verdict, output,
                   chan, outcome, crashed>>

ContextEnds(why) ==
    /\ ctx = "open" /\ ending.at # "over"
    /\ ctx' = why
    /\ UNCHANGED <<backend, resume, proc, said, wire, reader, rpc, ending, verdict, output,
                   chan, outcome, crashed>>

\* Nobody looks at the exit status of codex.
Exits(how) ==
    /\ proc = "alive" /\ (backend = "codex" => how = "bad")
    /\ proc' = how
    /\ UNCHANGED <<backend, resume, said, wire, reader, rpc, ctx, ending, verdict, output,
                   chan, outcome, crashed>>

\* The end of runCtx kills the process and its descendants.
Kill == ctx # "open" /\ Exits("bad")

-----------------------------------------------------------------------------
(* The scan loop.                                                          *)

\* trySend drops what does not fit; on a closed channel it panics.
TrySend(n) ==
    /\ crashed' = chan.closed
    /\ chan' = IF ~chan.closed /\ Len(chan.buf) < Capacity
               THEN [chan EXCEPT !.buf = Append(@, n)] ELSE chan

Reads(kinds) ==
    /\ ~crashed /\ reader = "reading"
    /\ wire # <<>> /\ Head(wire).kind \in kinds
    /\ wire' = Tail(wire)

\* Mutant: what is not streamed is not accumulated either.
HandleTextIfSent ==
    /\ Reads({"text"})
    /\ output' = IF Len(chan.buf) < Capacity THEN Append(output, Head(wire).n) ELSE output
    /\ TrySend(Head(wire).n)
    /\ UNCHANGED <<backend, resume, procVars, reader, rpc, ctx, ending, verdict, outcome>>

HandleText ==
    /\ Reads({"text"})
    /\ output' = Append(output, Head(wire).n)
    /\ TrySend(Head(wire).n)
    /\ UNCHANGED <<backend, resume, procVars, reader, rpc, ctx, ending, verdict, outcome>>

HandleTool ==
    /\ Reads({"tool"})
    /\ TrySend(Head(wire).n)
    /\ UNCHANGED <<backend, resume, procVars, reader, rpc, ctx, ending, verdict, output, outcome>>

\* opencode exits with 0 also when it failed.
HandleError ==
    /\ Reads({"error"})
    /\ TrySend(Head(wire).n)
    /\ verdict' = "failed"
    /\ UNCHANGED <<backend, resume, procVars, reader, rpc, ctx, ending, output, outcome>>

\* claude's last word replaces what it said before.
HandleResult ==
    /\ Reads({"result", "isError"})
    /\ output' = <<Head(wire).n>>
    /\ verdict' = IF Head(wire).kind = "isError" THEN "failed" ELSE verdict
    /\ UNCHANGED <<backend, resume, procVars, reader, rpc, ctx, ending, chan, outcome, crashed>>

\* onTurnDone: the first end counts, turnDone holds one.
HandleTurnEnd ==
    /\ Reads({"done", "aborted"})
    /\ rpc' = [rpc EXCEPT !.turn = IF @ = "none" THEN Head(wire).kind ELSE @]
    /\ UNCHANGED <<backend, resume, procVars, reader, ctx, ending, verdict, output, chan,
                   outcome, crashed>>

HandleResponse ==
    /\ Reads({"ok", "refused"})
    /\ rpc' = IF rpc.pending = 0 THEN rpc
              ELSE [rpc EXCEPT !.pending = 0, !.answer = Head(wire).kind]
    /\ UNCHANGED <<backend, resume, procVars, reader, ctx, ending, verdict, output, chan,
                   outcome, crashed>>

\* closeAllPending.
PendingClosed == IF rpc.pending = 0 THEN rpc
                 ELSE [rpc EXCEPT !.pending = 0, !.answer = "refused"]

\* The loop ends with the output, or at a line that is too long, of which only
\* opencode takes notice.
ScanEnds ==
    /\ ~crashed /\ reader = "reading"
    /\ \/ /\ wire = <<>> /\ proc # "alive"
          /\ UNCHANGED verdict
       \/ /\ wire # <<>> /\ Head(wire).kind = "long"
          /\ verdict' = IF backend = "opencode" THEN "failed" ELSE verdict
    /\ reader' = "done"
    /\ rpc' = PendingClosed
    /\ wire' = <<>>
    /\ UNCHANGED <<backend, resume, procVars, ctx, ending, output, chan, outcome, crashed>>

\* What codex tells of its own accord.
HandleNotification == HandleText \/ HandleTool \/ HandleTurnEnd

Scans == HandleNotification \/ HandleResponse \/ HandleError \/ HandleResult \/ ScanEnds

-----------------------------------------------------------------------------
(* The goroutine that ends the session: codex.                             *)

At(place) == ~crashed /\ ending.at = place

MovesOn(place) == ending' = [ending EXCEPT !.at = place]

\* Every early return sends a result without output and leaves by the defers.
Fails ==
    /\ outcome' = [status |-> "failed", output |-> <<>>]
    /\ MovesOn("deferred")

\* A request is registered and written.
Asks ==
    /\ At("asking") /\ proc = "alive"
    /\ rpc' = [rpc EXCEPT !.pending = ending.no, !.answer = "none"]
    /\ MovesOn("awaiting")
    /\ UNCHANGED <<backend, resume, procVars, wire, reader, ctx, verdict, output, chan,
                   outcome, crashed>>

WriteFails ==
    /\ At("asking") /\ proc # "alive"
    /\ Fails
    /\ UNCHANGED <<backend, resume, procVars, wire, reader, rpc, ctx, verdict, output,
                   chan, crashed>>

\* The thread is known before the turn is asked for.
GetsAnswer ==
    /\ At("awaiting") /\ rpc.answer = "ok"
    /\ LET next == IF ending.no = 1 /\ ~resume THEN 2 ELSE 3 IN
       IF ending.no = 3
       THEN MovesOn("turn") /\ UNCHANGED <<chan, crashed>>
       ELSE /\ ending' = [at |-> "asking", no |-> next]
            /\ IF next = 3 THEN TrySend(0) ELSE UNCHANGED <<chan, crashed>>
    /\ UNCHANGED <<backend, resume, procVars, wire, reader, rpc, ctx, verdict, output, outcome>>

\* Refused, no thread in the answer, or the process is gone.
Refused ==
    /\ At("awaiting")
    /\ rpc.answer = "refused" \/ (rpc.answer = "ok" /\ ending.no = 2)
    /\ Fails
    /\ UNCHANGED <<backend, resume, procVars, wire, reader, rpc, ctx, verdict, output,
                   chan, crashed>>

\* request looks at its context.
RequestInterrupted ==
    /\ At("awaiting") /\ ctx # "open"
    /\ rpc' = [rpc EXCEPT !.pending = 0]
    /\ Fails
    /\ UNCHANGED <<backend, resume, procVars, wire, reader, ctx, verdict, output, chan, crashed>>

Interruption == IF ctx = "deadline" THEN "timeout" ELSE "aborted"

\* The turn ends or the context does; stdin is closed and the context cancelled.
TurnEnds ==
    /\ At("turn")
    /\ \/ rpc.turn # "none" /\ verdict' = IF rpc.turn = "done" THEN "completed" ELSE "aborted"
       \/ ctx # "open" /\ verdict' = Interruption
    /\ ctx' = IF ctx = "open" THEN "cancelled" ELSE ctx
    /\ MovesOn("closing")
    /\ UNCHANGED <<backend, resume, procVars, wire, reader, rpc, output, chan, outcome, crashed>>

\* Mutant: the result does not wait for the reader.
CollectsAtOnce ==
    /\ At("closing")
    /\ outcome' = [status |-> verdict, output |-> output]
    /\ MovesOn("deferred")
    /\ UNCHANGED <<backend, resume, procVars, wire, reader, rpc, ctx, verdict, output, chan,
                   crashed>>

Collects ==
    /\ At("closing") /\ reader = "done"
    /\ outcome' = [status |-> verdict, output |-> output]
    /\ MovesOn("deferred")
    /\ UNCHANGED <<backend, resume, procVars, wire, reader, rpc, ctx, verdict, output, chan,
                   crashed>>

\* The defers: cmd.Wait returns once the process is gone and closes the pipe, so
\* that a reader still at work sees only what it had buffered; then the channels
\* are closed.
Leaves ==
    /\ At("deferred") /\ proc # "alive"
    /\ \E m \in 0..Len(wire) : wire' = SubSeq(wire, 1, m)
    /\ chan' = [chan EXCEPT !.closed = TRUE]
    /\ ctx' = IF ctx = "open" THEN "cancelled" ELSE ctx
    /\ MovesOn("over")
    /\ UNCHANGED <<backend, resume, procVars, reader, rpc, verdict, output, outcome, crashed>>

-----------------------------------------------------------------------------
(* claude and opencode: after the scan the process is waited for.          *)

FinalStatus == IF ctx # "open" THEN Interruption
               ELSE IF proc = "bad" /\ verdict = "completed" THEN "failed"
               ELSE verdict

Finishes ==
    /\ At("reading") /\ reader = "done" /\ proc # "alive"
    /\ outcome' = [status |-> FinalStatus, output |-> output]
    /\ MovesOn("deferred")
    /\ UNCHANGED <<backend, resume, procVars, wire, reader, rpc, ctx, verdict, output, chan,
                   crashed>>

Concludes == \/ Asks \/ WriteFails \/ GetsAnswer \/ Refused \/ RequestInterrupted
             \/ TurnEnds \/ Collects \/ Finishes \/ Leaves

Process == \/ \E kind \in Kinds : Writes(kind)
           \/ \E kind \in {"ok", "refused"} : Replies(kind)
           \/ \E how \in {"ok", "bad"} : Exits(how)

SessionNext == \/ ~crashed /\ Process
               \/ Scans \/ Concludes \/ Kill
               \/ \E why \in {"deadline", "cancelled"} : ~crashed /\ ContextEnds(why)

\* The Go runtime schedules both goroutines, the timeout expires and the kernel
\* delivers the signal.  Nothing is assumed of the process.
SessionFairness ==
    /\ WF_sessionVars(Scans) /\ WF_sessionVars(Concludes) /\ WF_sessionVars(Kill)
    /\ WF_sessionVars(~crashed /\ ContextEnds("deadline"))

-----------------------------------------------------------------------------
WireLine == [kind : Kinds \union {"ok", "refused"}, n : Nat]
Rpc == [pending : 0..3, answer : {"none", "ok", "refused"},
        turn : {"none", "done", "aborted"}]
Verdict == {"completed", "failed", "aborted", "timeout"}

SessionTypeOK ==
    /\ backend \in Backend /\ resume \in BOOLEAN
    /\ proc \in {"alive", "ok", "bad"}
    /\ said \in Seq(Kinds) /\ Len(said) <= MaxLines[backend]
    /\ wire \in Seq(WireLine)
    /\ reader \in {"reading", "done"}
    /\ rpc \in Rpc
    /\ ctx \in {"open", "deadline", "cancelled"}
    /\ ending \in [at : {"asking", "awaiting", "turn", "closing", "reading", "deferred", "over"},
                   no : 1..3]
    /\ verdict \in Verdict /\ output \in Seq(Nat)
    /\ chan \in [buf : Seq(Nat), closed : BOOLEAN] /\ Len(chan.buf) <= Capacity
    /\ outcome \in [status : Verdict \union {"none"}, output : Seq(Nat)]
    /\ crashed \in BOOLEAN

\* The lines the text of a result is made of when the first r were read: the
\* texts, from claude's last result on.
Counted(r) ==
    {n \in 1..r : /\ said[n] \in {"text", "result", "isError"}
                  /\ \A k \in (n + 1)..r : said[k] \notin {"result", "isError"}}

\* What the agent wrote before codex's first end of the turn; all of it otherwise.
InTime == {n \in DOMAIN said : \A k \in 1..n : said[k] \notin {"done", "aborted"}}

Increasing(lines) == \A i, j \in DOMAIN lines : i < j => lines[i] < lines[j]

\* A result is not taken while output is still coming in, and one that says
\* "completed" has every text the agent wrote before it was done, once and in
\* order, whatever the stream dropped.  claude does not notice a line too long.
ResultIsWhole ==
    /\ outcome.status \notin {"none", "failed"} => outcome.output = output
    /\ outcome.status = "completed" /\ ~(backend = "claude" /\ "long" \in Range(said))
         => /\ Increasing(outcome.output)
            /\ Range(outcome.output) \intersect InTime = Counted(Len(said)) \intersect InTime

\* Whatever the process does, the session gives its result and ends.
SessionEnds == <>(crashed \/ (ending.at = "over" /\ outcome # NoResult))
=============================================================================
