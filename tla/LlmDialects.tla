---------------------------- MODULE LlmDialects ----------------------------
(***************************************************************************)
(* packages/llms: what each provider makes of the events of a stream.      *)
(* Three dialects: "responses" (openai.ts, codex.ts), "chat"               *)
(* (openrouter.ts, lmstudio-openai.ts, unified.ts without a schema) and    *)
(* "native" (lmstudio.ts).  A text is a sequence of tokens; a JSON object  *)
(* is a record without the fields the object does not have; an optional    *)
(* result is a sequence of at most one element.                            *)
(***************************************************************************)
EXTENDS Sse, Naturals

Done == [done |-> TRUE]

\* A call whose name has not come yet.
Nameless == ""

\* stringField, recordField: the field, or what stands for its absence.
Field(r, f, absent) == IF f \in DOMAIN r THEN r[f] ELSE absent
\* Array.isArray, and arrayField: what is no array is empty.
IsArray(v) == v \in Seq(ToSet(v))
ArrayField(r, f) == IF f \in DOMAIN r /\ IsArray(r[f]) THEN r[f] ELSE <<>>
Present(r, f) == IF f \in DOMAIN r THEN <<r[f]>> ELSE <<>>

\* A value whose text arrived with a wrong character.
Wrong == <<"wrong">>
Garbled(p) == IF "choices" \in DOMAIN p THEN [p EXCEPT !.choices[1].content = Wrong]
              ELSE [p EXCEPT !.delta = Wrong]

\* parseJsonBody of an event's data.
Payload(ev) == Json(ev.data, Garbled)

\* What a stream has collected: the variables of openai.ts and lmstudio.ts,
\* the StreamState of openrouter/parse.ts.
Collected == [text |-> <<>>, reasoning |-> <<>>, refusal |-> <<>>, calls |-> <<>>,
              items |-> <<>>, texts |-> <<>>, parts |-> <<>>, usage |-> <<>>,
              finishReason |-> "unknown", replay |-> <<>>]

\* One step: what was collected, what is yielded, and whether the loop goes
\* on, is left by break, or the generator returns.
Yield(st, out) == [state |-> st, out |-> out, next |-> "loop"]
Return(st, out) == [state |-> st, out |-> out, next |-> "return"]
Break(st) == [state |-> st, out |-> <<>>, next |-> "break"]

Delta(kind, text) == [type |-> kind, delta |-> text]
StreamError(code) == [type |-> "error", code |-> code]
Finished(finish) == [type |-> "response.finished", finish |-> finish]
CallDone(call) == [type |-> "tool_call.done", call |-> call]
UsageEvents(usage) == [i \in DOMAIN usage |-> [type |-> "usage", usage |-> usage[i]]]

\* A Map from index to call keeps the order in which the keys were added.
Call(calls, ix) ==
    IF \E i \in DOMAIN calls : calls[i].index = ix
    THEN calls[CHOOSE i \in DOMAIN calls : calls[i].index = ix]
    ELSE [index |-> ix]
SetCall(calls, call) ==
    IF \E i \in DOMAIN calls : calls[i].index = call.index
    THEN [i \in DOMAIN calls |-> IF calls[i].index = call.index THEN call ELSE calls[i]]
    ELSE Append(calls, call)

\* finishReason of common.ts.
FinishReason(value) ==
    CASE value \in {"stop", "length", "tool_calls", "content_filter", "cancelled"} -> value
      [] value \in {"error", "failed"} -> "error"
      [] OTHER -> "unknown"

-----------------------------------------------------------------------------
\* responses

\* streamEvent, and the pushes of openai.ts onto text, reasoning and refusals.
ResponsesDelta(st, p) ==
    CASE p.type = "output_text.delta" ->
           Yield([st EXCEPT !.text = @ \o p.delta], <<Delta("text.delta", p.delta)>>)
      [] p.type = "reasoning_text.delta" ->
           Yield([st EXCEPT !.reasoning = @ \o p.delta], <<Delta("reasoning.delta", p.delta)>>)
      [] p.type = "refusal.delta" ->
           Yield([st EXCEPT !.refusal = @ \o p.delta], <<Delta("refusal.delta", p.delta)>>)
      [] p.type = "function_call_arguments.delta" ->
           LET previous == Call(st.calls, p.output_index)
               call == [index |-> p.output_index,
                        id |-> Field(previous, "id", p.item_id),
                        name |-> Field(previous, "name", Field(p, "name", Nameless)),
                        arguments |-> Field(previous, "arguments", <<>>) \o p.delta]
           IN  Yield([st EXCEPT !.calls = SetCall(@, call)],
                     <<[type |-> "tool_call.delta", index |-> call.index, id |-> call.id,
                        name |-> call.name, argumentsDelta |-> p.delta]>>)
      [] p.type = "output_item.done" /\ p.item.type = "function_call" ->
           LET call == [index |-> p.output_index, id |-> p.item.call_id, name |-> p.item.name,
                        arguments |-> Field(p.item, "arguments",
                            Field(Call(st.calls, p.output_index), "arguments", <<>>))]
           IN  Yield([st EXCEPT !.calls = SetCall(@, call)], <<CallDone(call)>>)
      [] OTHER -> Yield(st, <<>>)

\* contentText of a message item.
ItemText(item) ==
    IF item.type \in {"message", "output_text"} THEN Field(item, "text", <<>>) ELSE <<>>

\* recordTextSnapshot
RecordTextSnapshot(st, p) ==
    CASE p.type = "output_item.done" -> [st EXCEPT !.items = @ \o ItemText(p.item)]
      [] p.type = "output_text.done" -> [st EXCEPT !.texts = @ \o p.text]
      [] p.type = "content_part.done" -> [st EXCEPT !.parts = @ \o ItemText(p.part)]
      [] OTHER -> st

FirstText(texts) ==
    LET some == SelectSeq(texts, LAMBDA t : t # <<>>) IN IF some = <<>> THEN <<>> ELSE some[1]

\* streamText: the deltas, or else the first kind of snapshot that has text.
StreamText(st) == FirstText(<<st.text, st.items, st.texts, st.parts>>)

\* parseFinished: the text, refusal and calls of the final response fill in for
\* what the stream did not carry; calls are taken from the response when it
\* has any, and numbered anew.
ParseFinished(st, response) ==
    LET output == ArrayField(response, "output")
        content == FlattenSeq([i \in DOMAIN output |-> ItemText(output[i])])
        called == SelectSeq(output, LAMBDA item : item.type = "function_call")
        own == [i \in DOMAIN called |->
                  [index |-> i - 1, id |-> called[i].call_id, name |-> called[i].name,
                   arguments |-> Field(called[i], "arguments", <<>>)]]
        calls == IF own = <<>> THEN st.calls ELSE own
        refusal == FirstText(<<Field(response, "refusal", <<>>), st.refusal>>)
    IN  [text |-> FirstText(<<StreamText(st), Field(response, "output_text", <<>>), content>>),
         finishReason |-> CASE calls # <<>> -> "tool_calls"
                            [] calls = <<>> /\ refusal # <<>> -> "content_filter"
                            [] OTHER -> IF response.status = "completed" THEN "stop"
                                        ELSE FinishReason(response.status),
         usage |-> Present(response, "usage"), reasoning |-> st.reasoning,
         refusal |-> refusal, toolCalls |-> calls, replay |-> output]

Responses(st, ev) ==
    LET p == Payload(ev)
        step == ResponsesDelta(st, p)
        kept == RecordTextSnapshot(step.state, p)
        finish == ParseFinished(kept, p.response)
    IN  CASE ev.data = <<Ascii(Done)>> -> Break(st)
          [] ev.data # <<Ascii(Done)>> /\ p = Malformed ->
               Return(st, <<StreamError("malformed_stream_event")>>)
          [] OTHER ->
               CASE p.type = "completed" ->
                      Return(kept, step.out \o UsageEvents(finish.usage) \o <<Finished(finish)>>)
                 [] p.type = "failed" ->
                      Return(kept, step.out \o <<StreamError("provider_error")>>)
                 [] OTHER -> Yield(kept, step.out)

\* What follows the loop: the stream ended without response.completed.
ResponsesEnd(st) ==
    <<Finished([text |-> StreamText(st), finishReason |-> "unknown", usage |-> <<>>,
                reasoning |-> st.reasoning, refusal |-> st.refusal,
                toolCalls |-> st.calls, replay |-> <<>>])>>

-----------------------------------------------------------------------------
\* chat

\* One piece of a call: the latest id and name that were sent, and the
\* arguments so far.
ChatCall(r, c) ==
    LET previous == Call(r.state.calls, c.index)
        call == [index |-> c.index,
                 id |-> Field(c, "id", Field(previous, "id", "call")),
                 name |-> Field(c, "name", Field(previous, "name", Nameless)),
                 arguments |-> Field(previous, "arguments", <<>>) \o Field(c, "arguments", <<>>)]
    IN  Yield([r.state EXCEPT !.calls = SetCall(@, call)],
              Append(r.out, [type |-> "tool_call.delta", index |-> c.index, id |-> call.id,
                             name |-> call.name, argumentsDelta |-> Field(c, "arguments", <<>>)]))

\* One choice of a chunk.  Its finish_reason replaces what was there, also
\* when it is null.
ChatChoice(r, choice) ==
    LET text == Present(choice, "content")
        reasoning == Present(choice, "reasoning")
        refusal == Present(choice, "refusal")
        st == [r.state EXCEPT !.replay = @ \o ArrayField(choice, "reasoning_details"),
                              !.text = @ \o FlattenSeq(text),
                              !.reasoning = @ \o FlattenSeq(reasoning),
                              !.refusal = @ \o FlattenSeq(refusal)]
        out == r.out \o [i \in DOMAIN text |-> Delta("text.delta", text[i])]
                     \o [i \in DOMAIN reasoning |-> Delta("reasoning.delta", reasoning[i])]
                     \o [i \in DOMAIN refusal |-> Delta("refusal.delta", refusal[i])]
        called == FoldLeft(ChatCall, Yield(st, out), ArrayField(choice, "tool_calls"))
    IN  Yield([called.state EXCEPT !.finishReason =
                 FinishReason(Field(choice, "finish_reason", "null"))], called.out)

\* streamEvents
ChatChunk(st, p) ==
    LET usage == Present(p, "usage")
        counted == IF usage = <<>> THEN st ELSE [st EXCEPT !.usage = usage]
    IN  FoldLeft(ChatChoice, Yield(counted, UsageEvents(usage)), ArrayField(p, "choices"))

Chat(st, ev) ==
    LET p == Payload(ev)
    IN  CASE ev.data = <<Ascii(Done)>> -> Break(st)
          [] ev.data # <<Ascii(Done)>> /\ p = Malformed ->
               Return(st, <<StreamError("malformed_stream_event")>>)
          [] OTHER -> IF "error" \in DOMAIN p THEN Return(st, <<StreamError("provider_error")>>)
                      ELSE ChatChunk(st, p)

\* streamToolCalls and streamFinish.
ChatEnd(st) ==
    [i \in DOMAIN st.calls |-> CallDone(st.calls[i])] \o
    <<Finished([text |-> st.text, finishReason |-> st.finishReason, usage |-> st.usage,
                reasoning |-> st.reasoning, refusal |-> st.refusal, toolCalls |-> st.calls,
                replay |-> st.replay])>>

-----------------------------------------------------------------------------
\* native

\* finished: the output of chat.end, or what was streamed.
NativeFinish(st, result) ==
    LET output == ArrayField(result, "output")
        Texts(kind) == FlattenSeq([i \in DOMAIN output |->
                          IF output[i].type = kind THEN output[i].content ELSE <<>>])
    IN  [text |-> FirstText(<<Texts("message"), st.text>>), finishReason |-> "stop",
         usage |-> Present(result, "stats"),
         reasoning |-> FirstText(<<Texts("reasoning"), st.reasoning>>),
         refusal |-> <<>>, toolCalls |-> <<>>, replay |-> <<>>]

\* An error event is passed on and the loop goes on.
Native(st, ev) ==
    LET name == ev.event
        Named(n) == name = <<Ascii([name |-> n])>>
        p == Payload(ev)
        text == Field(p, "delta", <<>>)
        finish == NativeFinish(st, Field(p, "result", p))
    IN  CASE ev.data = <<Ascii(Done)>> -> Break(st)
          [] ev.data # <<Ascii(Done)>> /\ (name = NoName \/ Named("chat.start")) -> Yield(st, <<>>)
          [] OTHER ->
               CASE p = Malformed -> Return(st, <<StreamError("malformed_stream_event")>>)
                 [] p # Malformed /\ Named("message.delta") ->
                      Yield([st EXCEPT !.text = @ \o text], <<Delta("text.delta", text)>>)
                 [] p # Malformed /\ Named("reasoning.delta") ->
                      Yield([st EXCEPT !.reasoning = @ \o text],
                            <<Delta("reasoning.delta", text)>>)
                 [] p # Malformed /\ Named("error") ->
                      Yield(st, <<StreamError("provider_error")>>)
                 [] p # Malformed /\ Named("chat.end") ->
                      Return(st, UsageEvents(finish.usage) \o <<Finished(finish)>>)
                 [] OTHER -> Yield(st, <<>>)

NativeEnd(st) ==
    <<Finished([text |-> st.text, finishReason |-> "unknown", usage |-> <<>>,
                reasoning |-> st.reasoning, refusal |-> <<>>, toolCalls |-> <<>>,
                replay |-> <<>>])>>

-----------------------------------------------------------------------------
\* The body of a provider's loop, and what it yields after the loop.
Handle(dialect, st, ev) ==
    CASE dialect = "responses" -> Responses(st, ev)
      [] dialect = "chat" -> Chat(st, ev)
      [] dialect = "native" -> Native(st, ev)
AfterLoop(dialect, st) ==
    CASE dialect = "responses" -> ResponsesEnd(st)
      [] dialect = "chat" -> ChatEnd(st)
      [] dialect = "native" -> NativeEnd(st)
=============================================================================
