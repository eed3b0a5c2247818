----------------------------- MODULE LlmStream -----------------------------
(***************************************************************************)
(* The streams of packages/llms: several callers read provider streams at  *)
(* the same time.  Each stream has its own parser (sse.ts) and collector   *)
(* (the stream function of its provider) and is watched by loggedStream    *)
(* (logging.ts); all of them decode their bytes with the one TextDecoder   *)
(* of the module sse.ts.                                                   *)
(*                                                                         *)
(* The server's body is a script.  It arrives in chunks cut anywhere; the  *)
(* body may end early, the connection may fail, the caller may abort its   *)
(* signal, or leave the stream between two events.                         *)
(***************************************************************************)
EXTENDS LlmDialects

CONSTANTS
    Streams,    \* the streams
    Bodies,     \* the bodies by name: [dialect, use, events, wire]
    Scenes      \* the assignments of bodies to streams that are explored

ASSUME ScenesAssumption == Scenes \subseteq [Streams -> DOMAIN Bodies]

\* A wire is a sequence of pieces; nobody is called as no byte's owner is.
ASSUME BodiesAssumption ==
    /\ \A name \in DOMAIN Bodies : /\ Bodies[name].dialect \in {"responses", "chat", "native"}
                                   /\ IsArray(Bodies[name].wire)
    /\ NoByte.owner \notin Streams

VARIABLES
    script,     \* the name of the body of each stream
    run,        \* the state of each stream
    decoder,    \* the byte the shared decoder holds between two calls
    tangled     \* history: streams whose bytes met another stream's in the decoder

vars == <<script, run, decoder, tangled>>

Idle == [phase |-> "idle", at |-> 0, buffer |-> <<>>, lines |-> <<>>, sse |-> NoEvent,
         state |-> Collected, out |-> <<>>, log |-> <<>>, aborted |-> FALSE, end |-> "none"]

Body(s) == Bodies[script[s]]
Wire(s) == Body(s).wire

Init ==
    /\ script \in Scenes
    /\ run = [s \in Streams |-> Idle]
    /\ decoder = NoByte
    /\ tangled = {}

-----------------------------------------------------------------------------
\* terminalFromFinish
TerminalFromFinish(finish) ==
    CASE finish.finishReason = "cancelled" -> "cancelled"
      [] finish.finishReason = "error" -> "failed"
      [] OTHER -> "completed"

\* The status loggedStream writes for one event: only the first terminal
\* event counts.
Noted_Bug(log, event) ==
    \* Bug: the terminal flag is not set by an error.
    CASE event.type = "error" -> Append(log, "failed")
      [] event.type = "response.finished" -> Append(log, TerminalFromFinish(event.finish))
      [] OTHER -> log
Noted(log, event) ==
    CASE log = <<>> /\ event.type = "error" -> <<"failed">>
      [] log = <<>> /\ event.type = "response.finished" -> <<TerminalFromFinish(event.finish)>>
      [] OTHER -> log

IsTerminal(event) == event.type \in {"error", "response.finished"}

\* The events the caller is handed.  codex.complete leaves the stream at the
\* first terminal event; everybody else sees them all.
HandedOut(body, events) ==
    IF body.use = "complete" /\ \E i \in DOMAIN events : IsTerminal(events[i])
    THEN SubSeq(events, 1, CHOOSE i \in DOMAIN events :
                              IsTerminal(events[i]) /\ \A j \in 1..(i - 1) : ~IsTerminal(events[j]))
    ELSE events

\* The generators of stream r are over; nothing keeps its parser and collector.
Ended(r, how, log) ==
    [Idle EXCEPT !.phase = "closed", !.end = how, !.log = log,
                 !.at = r.at, !.out = r.out, !.aborted = r.aborted]

\* The stream r after its generator yielded events; then over or not.
Yielded(body, r, events, over) ==
    LET handed == HandedOut(body, events)
        left == body.use = "complete" /\ \E i \in DOMAIN handed : IsTerminal(handed[i])
        log == FoldLeft(Noted, r.log, handed)
        next == [r EXCEPT !.out = @ \o handed, !.log = log]
    IN  IF over \/ left THEN Ended(next, "done", log) ELSE next

Update(s, r) == run' = [run EXCEPT ![s] = r]

-----------------------------------------------------------------------------
\* The caller starts to read: response.started is yielded, then the body is
\* requested.
Open(s) ==
    /\ run[s].phase = "idle"
    /\ Update(s, [run[s] EXCEPT !.phase = "reading", !.out = <<[type |-> "response.started"]>>])
    /\ UNCHANGED <<script, decoder, tangled>>

\* Streams whose bytes meet when s uses the decoder.
Meeting(s) ==
    IF decoder # NoByte /\ decoder.owner # s THEN {s, decoder.owner} ELSE {}

\* One chunk: the next n pieces of the body are decoded behind the buffer and
\* cut into lines.
Read(s, n) ==
    LET r == run[s]
        decoded == Decode(s, decoder, SubSeq(Wire(s), r.at + 1, r.at + n))
        cut == Split(r.buffer \o decoded.text)
    IN  /\ r.phase = "reading" /\ r.lines = <<>> /\ ~r.aborted
        /\ n \in 1..(Len(Wire(s)) - r.at)
        /\ Update(s, [r EXCEPT !.at = @ + n, !.buffer = cut.rest, !.lines = cut.lines])
        /\ decoder' = decoded.byte
        /\ tangled' = tangled \cup Meeting(s)
        /\ UNCHANGED script

\* What one line does to the parser, the collector and the caller.
Lined(body, r, line) ==
    LET parsed == ProcessLine(r.sse, line)
        read == [r EXCEPT !.lines = Tail(@), !.sse = parsed.sse]
    IN  IF parsed.events = <<>> THEN read
        ELSE LET step == Handle(body.dialect, r.state, parsed.events[1])
                 kept == [read EXCEPT !.state = step.state]
             IN  IF step.next = "break"
                 THEN [kept EXCEPT !.phase = "ending", !.lines = <<>>]
                 ELSE Yielded(body, kept, step.out, step.next = "return")

Line(s) ==
    /\ run[s].lines # <<>>
    /\ Update(s, Lined(Body(s), run[s], Head(run[s].lines)))
    /\ UNCHANGED <<script, decoder, tangled>>

\* The body ends, perhaps early: the decoder is flushed, the rest of the buffer
\* is a last line, and a blank line emits what is left.
BodyEnds(s) ==
    LET r == run[s]
        rest == r.buffer \o Flushed(decoder)
    IN  /\ r.phase = "reading" /\ r.lines = <<>> /\ ~r.aborted
        /\ Update(s, [r EXCEPT !.phase = "ending", !.buffer = <<>>,
                               !.lines = (IF rest = <<>> THEN <<>> ELSE <<rest>>) \o <<<<>>>>])
        /\ decoder' = NoByte
        /\ tangled' = tangled \cup Meeting(s)
        /\ UNCHANGED script

\* After the loop.
Finish(s) ==
    /\ run[s].phase = "ending" /\ run[s].lines = <<>>
    /\ Update(s, Yielded(Body(s), run[s], AfterLoop(Body(s).dialect, run[s].state), TRUE))
    /\ UNCHANGED <<script, decoder, tangled>>

\* The transport throws, because of the connection or of the aborted signal:
\* the exception leaves the generators.
TransportFails(s) ==
    LET r == run[s]
    IN  /\ r.phase = "reading" /\ r.lines = <<>>
        /\ Update(s, Ended(r, "threw",
                           IF r.log # <<>> THEN r.log
                           ELSE <<IF r.aborted THEN "cancelled" ELSE "failed">>))
        /\ UNCHANGED <<script, decoder, tangled>>

\* The caller aborts its signal; what was received is still handed out, and
\* once the body has ended nobody looks at the signal.
Abort(s) ==
    /\ run[s].phase = "reading" /\ ~run[s].aborted
    /\ Update(s, [run[s] EXCEPT !.aborted = TRUE])
    /\ UNCHANGED <<script, decoder, tangled>>

\* The caller leaves the stream: the finally block of loggedStream.
Leave(s) ==
    /\ run[s].phase \in {"reading", "ending"} /\ Body(s).use = "stream"
    /\ Update(s, Ended(run[s], "left",
                       IF run[s].log # <<>> THEN run[s].log ELSE <<"cancelled">>))
    /\ UNCHANGED <<script, decoder, tangled>>

Next ==
    \E s \in Streams :
       \/ Open(s) \/ Line(s) \/ BodyEnds(s) \/ Finish(s)
       \/ TransportFails(s) \/ Abort(s) \/ Leave(s)
       \/ \E n \in 1..Len(Wire(s)) : Read(s, n)

Spec == Init /\ [][Next]_vars

-----------------------------------------------------------------------------
\* What is handed out when a body is read without anything in between: the
\* stream after a fold over its lines or events, and then its end.
Opened == [Idle EXCEPT !.phase = "reading", !.out = <<[type |-> "response.started"]>>]
Closed(body, r) ==
    IF r.phase = "closed" THEN r.out
    ELSE Yielded(body, r, AfterLoop(body.dialect, r.state), TRUE).out

OneLine(p, line) ==
    IF p.run.phase # "reading" THEN p
    ELSE [p EXCEPT !.run = Lined(p.body, [@ EXCEPT !.lines = <<line>>], line)]
AllLines(body, lines) == FoldLeft(OneLine, [body |-> body, run |-> Opened], lines)

\* The first k pieces of a body, in one chunk.
InOneChunk(body, k) ==
    LET decoded == Decode("self", NoByte, SubSeq(body.wire, 1, k))
        cut == Split(decoded.text)
        rest == cut.rest \o Flushed(decoded.byte)
    IN  Closed(body, AllLines(body, cut.lines \o <<rest, <<>>>>).run)

\* The events the server meant to send.
Meant(body) ==
    LET OneEvent(r, ev) ==
            IF r.phase # "reading" THEN r
            ELSE LET step == Handle(body.dialect, r.state, ev)
                     kept == [r EXCEPT !.state = step.state]
                 IN  IF step.next = "break" THEN [kept EXCEPT !.phase = "ending"]
                     ELSE Yielded(body, kept, step.out, step.next = "return")
    IN  Closed(body, FoldLeft(OneEvent, Opened, body.events))

\* The wire of a body carries what the server meant.
ASSUME BodiesAreRendered ==
    \A name \in DOMAIN Bodies :
       InOneChunk(Bodies[name], Len(Bodies[name].wire)) = Meant(Bodies[name])

MeantBy == [name \in DOMAIN Bodies |-> Meant(Bodies[name])]
OneChunk == [name \in DOMAIN Bodies |->
               [k \in 0..Len(Bodies[name].wire) |-> InOneChunk(Bodies[name], k)]]

\* Wherever the chunks of a body are cut, in the middle of a line, a line end
\* or a character, the caller is handed the events the server meant; of a body
\* that ends early, what the same bytes in one chunk would give; of a stream
\* that is given up, a prefix.  This holds while nobody else's bytes were in
\* the shared decoder (sse.ts parseSseEvents).
CutsDoNotMatter ==
    \A s \in Streams \ tangled :
       LET r == run[s] IN
       /\ r.phase = "reading" => IsPrefix(r.out, MeantBy[script[s]])
       /\ r.end \in {"left", "threw"} => IsPrefix(r.out, OneChunk[script[s]][r.at])
       /\ r.end = "done" => r.out = OneChunk[script[s]][r.at]
       /\ r.end = "done" /\ r.at = Len(Wire(s)) => r.out = MeantBy[script[s]]

\* The same for every stream: what a caller reads does not depend on what the
\* other callers read.
StreamsAreIndependent ==
    \A s \in Streams :
       run[s].end = "done" /\ run[s].at = Len(Wire(s)) => run[s].out = MeantBy[script[s]]

\* The first terminal event of a stream, if any.
FirstTerminal(out) ==
    LET terminals == {i \in DOMAIN out : IsTerminal(out[i])}
    IN  IF terminals = {} THEN <<>> ELSE <<out[Min(terminals)]>>

\* However a stream ends, its log has exactly one final record, and the record
\* says what the caller saw first: an error event is never logged as a
\* completion although a finish follows it, and leaving a stream after its
\* finish does not turn it into a cancellation (logging.ts loggedStream).
LogTellsOutcome ==
    \A s \in Streams :
       LET r == run[s]
           first == FirstTerminal(r.out)
       IN  /\ first # <<>> \/ r.phase = "closed" => Len(r.log) = 1
           /\ r.log # <<>> =>
                CASE first # <<>> /\ first[1].type = "error" -> r.log[1] = "failed"
                  [] first # <<>> /\ first[1].type = "response.finished" ->
                       r.log[1] = TerminalFromFinish(first[1].finish)
                  [] OTHER -> /\ r.phase = "closed"
                              /\ r.log[1] = IF r.end = "left" \/ r.aborted
                                            THEN "cancelled" ELSE "failed"

=============================================================================
