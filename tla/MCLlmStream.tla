---------------------------- MODULE MCLlmStream ----------------------------
\* The bodies of the small instance.
EXTENDS LlmStream

\* An event as the server means it: its name, if any, and its value.
Event(v) == [event |-> NoName, data |-> <<Ascii(v)>>]
NamedEvent(n, v) == [event |-> <<Ascii([name |-> n])>>, data |-> <<Ascii(v)>>]
\* The same, with a two-byte character in the value's text.
Accented(ev) == [ev EXCEPT !.data = <<Opening(@[1].value), Good, Closing(@[1].value)>>]

\* The bytes of an event, with the line end eol.
Rendered(ev, eol) ==
    (IF ev.event = NoName THEN <<>> ELSE <<EventField>> \o ev.event \o eol)
    \o <<DataField>> \o SelectSeq(ev.data, LAMBDA a : a # Good) \o eol \o eol

BodyOf(dialect, use, events, eol) ==
    [dialect |-> dialect, use |-> use, events |-> events,
     wire |-> (IF dialect = "native" THEN <<Comment>> \o eol ELSE <<>>) \o
              FlattenSeq([i \in DOMAIN events |-> Rendered(events[i], eol)])]

Lf == <<LF>>
CrLf == <<CR, LF>>

TheCall == [type |-> "function_call", call_id |-> "c1", name |-> "f", arguments |-> <<"x", "y">>]
TheMessage == [type |-> "message", text |-> <<"hi">>]

\* A call announced by deltas and by output_item.done, then the final response.
ResponsesCalls == BodyOf("responses", "stream",
    << Event([type |-> "function_call_arguments.delta", output_index |-> 1, item_id |-> "i1",
              name |-> "f", delta |-> <<"x", "y">>]),
       Event([type |-> "output_item.done", output_index |-> 1, item |-> TheCall]),
       Event([type |-> "completed", response |-> [status |-> "completed"]]) >>, Lf)
\* Text without deltas: the snapshots and the final response carry it.
ResponsesSnapshots == BodyOf("responses", "stream",
    << Event([type |-> "output_item.done", item |-> TheMessage]),
       Event([type |-> "output_text.done", text |-> <<"hi">>]),
       Event([type |-> "output_item.done", output_index |-> 2, item |-> TheCall]),
       Event([type |-> "completed",
              response |-> [status |-> "completed", output |-> <<TheMessage, TheCall>>,
                            usage |-> "u"]]) >>, Lf)
\* codex.complete reads a stream to its finish.
CodexCompletes == BodyOf("responses", "complete",
    << Accented(Event([type |-> "output_text.delta", delta |-> <<"hi">>])),
       Event([type |-> "completed", response |-> [status |-> "completed"]]) >>, CrLf)
ResponsesFails == BodyOf("responses", "stream",
    << Event([type |-> "reasoning_text.delta", delta |-> <<"r">>]),
       Event([type |-> "refusal.delta", delta |-> <<"no">>]),
       Event([type |-> "failed"]) >>, Lf)
ChatCalls == BodyOf("chat", "stream",
    << Accented(Event([choices |-> <<[content |-> <<"hi">>]>>])),
       Event([choices |-> <<[tool_calls |-> <<[index |-> 0, id |-> "c1", name |-> "f"]>>]>>]),
       Event([choices |-> <<[tool_calls |-> <<[index |-> 0, arguments |-> <<"x">>]>>,
                             finish_reason |-> "tool_calls"]>>, usage |-> "u"]),
       Event(Done) >>, CrLf)
ChatFails == BodyOf("chat", "stream",
    << Event([choices |-> <<[reasoning |-> <<"r">>, refusal |-> <<"no">>]>>]),
       Event([error |-> "e"]) >>, Lf)
NativeTalk == BodyOf("native", "stream",
    << NamedEvent("chat.start", [start |-> TRUE]),
       Accented(NamedEvent("message.delta", [delta |-> <<"hi">>])),
       NamedEvent("error", [error |-> "e"]),
       NamedEvent("chat.end", [result |-> [stats |-> "u"]]) >>, Lf)
\* A short body that another stream reads meanwhile.
Short == BodyOf("chat", "stream",
    << Accented(Event([choices |-> <<[content |-> <<"oh">>, finish_reason |-> "stop"]>>])) >>, Lf)

\* A server that answers and sends nothing.
Silence == BodyOf("chat", "stream", <<>>, Lf)

TheBodies ==
    [silence |-> Silence, calls |-> ResponsesCalls, snapshots |-> ResponsesSnapshots, codex |-> CodexCompletes,
     fails |-> ResponsesFails, chat |-> ChatCalls, chatFails |-> ChatFails,
     native |-> NativeTalk, short |-> Short]
Two == {"s1", "s2"}
\* Each body beside a stream that ends at once, and streams that share the decoder: the
\* short body with a caller that reads on and with one that stops at the first terminal event.
Pairs == {[s \in Two |-> IF s = "s1" THEN b ELSE "silence"] : b \in DOMAIN TheBodies \ {"short"}}
         \cup {[s \in Two |-> IF s = "s1" THEN b ELSE "short"] : b \in {"chatFails", "codex"}}
=============================================================================
