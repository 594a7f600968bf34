----------------------------- MODULE TaskTranscript -----------------------------
(***************************************************************************)
(* What becomes of a session's messages: runTask's goroutine receives them *)
(* and numbers them, a ticker and the end of the channel flush them to the *)
(* server (internal/daemon/daemon.go), and ReportTaskMessages stores them  *)
(* one by one while the Run is active (internal/handler/daemon.go).        *)
(* Text is held back until a flush; runTask does not wait for the last one.*)
(***************************************************************************)
EXTENDS AgentSession

CONSTANT MaxFailures   \* bound: calls that fail

ASSUME TranscriptAssumption == MaxFailures \in Nat

VARIABLES
    drain,           \* the receiving goroutine: where it is, seq, pendingText, batch
    post,            \* a flush by the ticker and one by the receiver
    stored,          \* task_message of the Run
    run,             \* the Run: "running" or "ended"
    failures

deliveryVars == <<drain, post, stored, run, failures>>
transcriptVars == <<sessionVars, deliveryVars>>

Sender  == {"ticker", "receiver"}
NoPost  == [at |-> "none", msgs |-> <<>>]
Numbered(seq, lines) == [seq |-> seq, lines |-> lines]

TranscriptInit ==
    /\ SessionInit
    /\ drain = [at |-> "receiving", seq |-> 0, text |-> <<>>, batch |-> <<>>, held |-> <<>>]
    /\ post = [s \in Sender |-> NoPost]
    /\ stored = {}
    /\ run = "running"
    /\ failures = 0

-----------------------------------------------------------------------------
(* The daemon.                                                             *)

Line == Head(chan.buf)

Receives(lines) ==
    /\ ~crashed /\ drain.at = "receiving"
    /\ chan.buf # <<>> /\ Line \in lines
    /\ chan' = [chan EXCEPT !.buf = Tail(@)]
    /\ UNCHANGED <<backend, resume, proc, said, wire, reader, rpc, ctx, ending, verdict, output,
                   outcome, crashed, post, stored, run, failures>>

Of(kind) == {n \in DOMAIN said : said[n] = kind}

\* The session's id goes to the server as a checkpoint (see RunLifecycle).
ReceivesSession == Receives({0}) /\ UNCHANGED drain

ReceivesText ==
    /\ Receives(Of("text"))
    /\ drain' = [drain EXCEPT !.text = Append(@, Line)]

\* The number is taken before the lock of the batch.
ReceivesTool ==
    /\ Receives(Of("tool"))
    /\ drain' = [drain EXCEPT !.at = "holding", !.seq = @ + 1,
                              !.held = <<Numbered(drain.seq + 1, <<Line>>)>>]

Batches ==
    /\ ~crashed /\ drain.at = "holding"
    /\ drain' = [drain EXCEPT !.at = "receiving", !.batch = @ \o drain.held, !.held = <<>>]
    /\ UNCHANGED <<sessionVars, post, stored, run, failures>>

ReceivesError ==
    /\ Receives(Of("error"))
    /\ drain' = [drain EXCEPT !.seq = @ + 1,
                              !.batch = Append(@, Numbered(drain.seq + 1, <<Line>>))]

ChannelCloses ==
    /\ ~crashed /\ drain.at = "receiving"
    /\ chan.closed /\ chan.buf = <<>>
    /\ drain' = [drain EXCEPT !.at = "closed"]
    /\ UNCHANGED <<sessionVars, post, stored, run, failures>>

\* Mutant: the text is not reset.
FlushedKeepingText ==
    IF drain.text = <<>> THEN [drain EXCEPT !.batch = <<>>]
    ELSE [drain EXCEPT !.seq = @ + 1, !.batch = <<>>]

\* What a flush leaves behind, and what it sends: the batch, then the text.
Flushed ==
    IF drain.text = <<>> THEN [drain EXCEPT !.batch = <<>>]
    ELSE [drain EXCEPT !.seq = @ + 1, !.text = <<>>, !.batch = <<>>]

ToSend == drain.batch \o (IF drain.text = <<>> THEN <<>>
                          ELSE <<Numbered(drain.seq + 1, drain.text)>>)

Sends(s) == post' = [post EXCEPT ![s] = IF ToSend = <<>> THEN NoPost
                                        ELSE [at |-> "sent", msgs |-> ToSend]]

\* close(done) stops the ticker before the last flush.
Ticks ==
    /\ ~crashed /\ drain.at # "over"
    /\ post["ticker"] = NoPost /\ ToSend # <<>>
    /\ Sends("ticker")
    /\ drain' = Flushed
    /\ UNCHANGED <<sessionVars, stored, run, failures>>

\* Mutant: the goroutine ends with the channel.
LastFlushSkipped ==
    /\ ~crashed /\ drain.at = "closed"
    /\ drain' = [drain EXCEPT !.at = "over"]
    /\ UNCHANGED <<sessionVars, post, stored, run, failures>>

LastFlush ==
    /\ ~crashed /\ drain.at = "closed"
    /\ Sends("receiver")
    /\ drain' = [Flushed EXCEPT !.at = "over"]
    /\ UNCHANGED <<sessionVars, stored, run, failures>>

-----------------------------------------------------------------------------
(* The server.                                                             *)

CallFails(s) ==
    /\ post[s].at = "sent" /\ failures < MaxFailures
    /\ post' = [post EXCEPT ![s] = NoPost]
    /\ failures' = failures + 1
    /\ UNCHANGED <<sessionVars, drain, stored, run>>

HasActiveRun == run = "running"

\* GetActiveTaskRun, asked once for the batch.
Checks(s) ==
    /\ post[s].at = "sent"
    /\ post' = [post EXCEPT ![s] = IF HasActiveRun THEN [@ EXCEPT !.at = "checked"]
                                   ELSE NoPost]
    /\ UNCHANGED <<sessionVars, drain, stored, run, failures>>

NextOf(s) == Head(post[s].msgs)

Stored(m) == IF \E o \in stored : o.seq = m.seq THEN stored ELSE stored \union {m}

Rest(s) == IF Len(post[s].msgs) = 1 THEN NoPost ELSE [post[s] EXCEPT !.msgs = Tail(@)]

\* Mutant: what was checked once is stored.
StoresUnasked(s) ==
    /\ post[s].at = "checked"
    /\ stored' = Stored(NextOf(s))
    /\ post' = [post EXCEPT ![s] = Rest(s)]
    /\ UNCHANGED <<sessionVars, drain, run, failures>>

\* CreateTaskMessage asks again, under the lock of the item, for each message; a
\* number that is taken is not an error.
Stores(s) ==
    /\ post[s].at = "checked"
    /\ stored' = IF run = "running" THEN Stored(NextOf(s)) ELSE stored
    /\ post' = [post EXCEPT ![s] = IF run = "running" THEN Rest(s) ELSE NoPost]
    /\ UNCHANGED <<sessionVars, drain, run, failures>>

\* runTask returned and the daemon completed or failed the item, or somebody
\* cancelled it.
RunEnds ==
    /\ run = "running"
    /\ run' = "ended"
    /\ UNCHANGED <<sessionVars, drain, post, stored, failures>>

-----------------------------------------------------------------------------
Drains == \/ ReceivesSession \/ ReceivesText \/ ReceivesTool \/ ReceivesError
          \/ Batches \/ ChannelCloses \/ LastFlush

Serves(s) == Checks(s) \/ Stores(s)

TranscriptNext ==
    \/ SessionNext /\ UNCHANGED deliveryVars
    \/ Drains \/ Ticks
    \/ \E s \in Sender : Serves(s) \/ CallFails(s)
    \/ RunEnds

TranscriptFairness ==
    /\ SessionFairness
    /\ WF_transcriptVars(Drains) /\ WF_transcriptVars(Ticks)
    /\ \A s \in Sender : WF_transcriptVars(Serves(s))

TranscriptSpec == TranscriptInit /\ [][TranscriptNext]_transcriptVars /\ TranscriptFairness

-----------------------------------------------------------------------------
AllPosted == drain.batch \o drain.held \o post["ticker"].msgs \o post["receiver"].msgs
Messages  == stored \union Range(drain.batch) \union Range(drain.held)
             \union UNION {Range(post[s].msgs) : s \in Sender}

Message == [seq : Nat, lines : Seq(Nat)]

Post == {p \in [at : {"none", "sent", "checked"}, msgs : Seq(Message)] :
            p.at = "none" <=> p.msgs = <<>>}

TranscriptTypeOK ==
    /\ SessionTypeOK
    /\ drain \in [at : {"receiving", "holding", "closed", "over"}, seq : Nat,
                  text : Seq(Nat), batch : Seq(Message), held : Seq(Message)]
    /\ post \in [Sender -> Post]
    /\ stored \subseteq Message
    /\ run \in {"running", "ended"} /\ failures \in 0..MaxFailures

\* The transcript is true: with a ticker and a receiver that flush side by side
\* and batches that fail halfway, every number stands for one message, no line
\* is told twice, and texts, as well as tools, keep the order they came in.
TranscriptIsTrue ==
    /\ \A m \in Messages : Increasing(m.lines)
    /\ \A m, o \in Messages :
          m # o => /\ m.seq # o.seq
                   /\ Range(m.lines) \intersect Range(o.lines) = {}
                   /\ said[m.lines[1]] = said[o.lines[1]] /\ m.seq < o.seq
                        => \A x \in Range(m.lines), y \in Range(o.lines) : x < y

\* What a session says is told as it was said, and its result is whole.
SessionIsTold == ResultIsWhole /\ TranscriptIsTrue

\* A message never becomes part of a Run that has ended, though the last flush
\* races the completion of the item.
EndedRunsAreClosed == [][run = "ended" => stored' = stored]_transcriptVars

\* Nothing received is left behind: when the session is over, what it streamed
\* has been sent and the server is done with it.
NothingHeldBack ==
    <>[](crashed \/ (ending.at = "over" /\ chan.buf = <<>> /\ drain.text = <<>> /\ AllPosted = <<>>))

\* A session ends, whatever its CLI does, and leaves nothing behind.
SessionsEndWhole == SessionEnds /\ NothingHeldBack
=============================================================================
