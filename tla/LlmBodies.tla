----------------------------- MODULE LlmBodies -----------------------------
(***************************************************************************)
(* packages/llms: from a request to the body that is sent, for every       *)
(* provider, and the checks of requests and replies around it.             *)
(*                                                                         *)
(* Providers: "unified" and "proxy" (unified with an upstreamModel),       *)
(* "openrouter", "openai", "codex" (both over the Responses API),          *)
(* "compatible" (lmstudio-openai) and "native" (lmstudio).                 *)
(***************************************************************************)
EXTENDS SequencesExt, Integers

CONSTANTS
    LabOf,      \* the laboratory of each model, by the prefix of its id
    Upstream    \* the upstreamModel of the proxy

OverOpenRouter == {"unified", "proxy", "openrouter"}
OverResponses == {"openai", "codex"}
Providers == OverOpenRouter \cup OverResponses \cup {"compatible", "native"}

\* A message; a replay is a sequence of items a provider wants to see again.
Message(role, text) ==
    [role |-> role, text |-> text, calls |-> <<>>, result |-> "none", replay |-> <<>>]
ReasoningItem == [item |-> "reasoning"]
CallItem(id) == [item |-> "call", id |-> id]
ResultItem(id) == [item |-> "result", id |-> id]
TextItem(role, text) == [item |-> "text", role |-> role, text |-> text]

\* The empty text.
NoText == ""
\* Texts and ids; among them what the package itself says.
Texts == STRING \cup {"sequential", "schema", "default", "correction", "none"}
ReplayItems ==
    {ReasoningItem} \cup [item : {"call"}, id : Texts]
        \cup [item : {"text"}, role : {"assistant"}, text : Texts]
Messages ==
    { m \in [role : {"system", "user", "assistant", "tool"}, text : Texts, calls : Seq(Texts),
             result : Texts, replay : Seq(ReplayItems)] :
        m.role \in {"system", "user"} => m.text # NoText }

\* What tunes an answer.  "reasoning" is flags.reasoning, true or an object; the
\* effort that such an object may have is the effort of the request.
Tuning == {"reasoning", "temperature", "max_tokens"}

\* The requests of complete and stream.
ChatRequests ==
    [op : {"complete", "stream"}, provider : Providers, model : STRING, messages : Seq(Messages),
     tools : BOOLEAN, schema : {"unset", "object", "text"}, prompted : BOOLEAN,
     choice : {"unset", "auto", "none", "required"}, parallel : {"unset", "yes", "no"},
     effort : STRING, tuning : SUBSET Tuning]

IsChat(r) == r.op \in {"complete", "stream"}
Set(option) == option # "unset"
HasSchema(r) == Set(r.schema)

-----------------------------------------------------------------------------
\* Unified: what is known of a model, and the curated profile of its lab.

Profile(lab) ==
    [lab |-> lab, tools |-> lab # "unknown",
     forcedToolChoice |->
        IF lab \in {"gemma", "llama", "glm", "minimax", "unknown"} THEN "auto_none" ELSE "full",
     forcedToolChoiceWithReasoning |-> lab \notin {"anthropic", "unknown"},
     replay |-> IF lab \in {"gemma", "qwen", "llama", "unknown"} THEN "tool_calls" ELSE "all"]

\* unifiedProfileForModel(upstreamModel ?? request.model)
ProfileFor(r) == Profile(LabOf[IF r.provider = "proxy" THEN Upstream ELSE r.model])

Unknown == [known |-> FALSE, parameters |-> {}]
Known(parameters) == [known |-> TRUE, parameters |-> parameters]

\* cached.get(model) ?? missingModelSupport
SupportIn(catalog, model) ==
    Known(IF model \in DOMAIN catalog THEN catalog[model] ELSE {})

NeedsSupport(r) == IsChat(r) /\ r.provider = "unified" /\ (r.tools \/ HasSchema(r))

Forced(r) == r.choice = "required"
HasReasoning(r) == (Set(r.effort) /\ r.effort # "none") \/ "reasoning" \in r.tuning

\* requireToolSupport and requireCompatibleChoice: the code of the refusal.
Refusal_Bug(r, support, profile) ==
    \* Bug: a forced choice is checked against the curated profile only.
    IF r.tools /\ ~(IF support.known THEN "tools" \in support.parameters ELSE profile.tools)
    THEN "unsupported_model_feature"
    ELSE IF Forced(r) /\ HasReasoning(r) /\ ~profile.forcedToolChoiceWithReasoning
    THEN "incompatible_model_request"
    ELSE IF Forced(r) /\ profile.forcedToolChoice # "full"
    THEN "unsupported_model_feature" ELSE "none"
Refusal(r, support, profile) ==
    LET toolsSupported ==
            IF support.known THEN "tools" \in support.parameters ELSE profile.tools
        choiceSupported ==
            IF support.known THEN "tool_choice" \in support.parameters
            ELSE profile.forcedToolChoice = "full"
        curatedRestriction == profile.lab # "unknown" /\ profile.forcedToolChoice # "full"
    IN  IF r.tools /\ ~toolsSupported THEN "unsupported_model_feature"
        ELSE IF Forced(r) /\ HasReasoning(r) /\ ~profile.forcedToolChoiceWithReasoning
        THEN "incompatible_model_request"
        ELSE IF Forced(r) /\ (~choiceSupported \/ curatedRestriction)
        THEN "unsupported_model_feature" ELSE "none"

StructuredStrategy(r, support) ==
    CASE ~HasSchema(r) \/ "structured_outputs" \in support.parameters -> "json_schema"
      [] HasSchema(r) /\ "structured_outputs" \notin support.parameters ->
           IF "response_format" \in support.parameters THEN "json_object" ELSE "prompt"

NormalizeToolChoice_Bug(r, support) ==
    \* Bug: every choice the model lacks is left out, and the tools stay.
    IF ~support.known \/ "tool_choice" \in support.parameters THEN r
    ELSE [r EXCEPT !.choice = "unset"]
NormalizeToolChoice(r, support) ==
    IF ~support.known \/ "tool_choice" \in support.parameters THEN r
    ELSE CASE r.choice = "none" -> [r EXCEPT !.tools = FALSE, !.choice = "unset"]
           [] r.choice = "auto" -> [r EXCEPT !.choice = "unset"]
           [] OTHER -> r

NormalizeParallelToolCalls(r, support) ==
    IF "parallel_tool_calls" \in support.parameters THEN r ELSE [r EXCEPT !.parallel = "unset"]

IsSystem(m) == m.role = "system"
IsOther(m) == m.role # "system"

\* Array.filter: the elements that pass a test, in their order.
Filtered(seq, Test(_)) ==
    FlattenSeq([i \in DOMAIN seq |-> IF Test(seq[i]) THEN <<seq[i]>> ELSE <<>>])

\* A generated system message goes behind the authored ones.
WithInstruction(messages, text) ==
    Filtered(messages, IsSystem) \o <<Message("system", text)>> \o Filtered(messages, IsOther)

\* The preparer: the request and the options of its body.
Prepared(r, support) ==
    LET strategy == StructuredStrategy(r, support)
        normalized == NormalizeParallelToolCalls(NormalizeToolChoice(r, support), support)
    IN  [request |-> IF r.parallel = "no" /\ normalized.tools
                     THEN [normalized EXCEPT !.messages = WithInstruction(@, "sequential")]
                     ELSE normalized,
         structuredOutput |-> strategy,
         replay |-> ProfileFor(r).replay,
         requireParameters |-> normalized.tools \/ (HasSchema(r) /\ strategy # "prompt")]

-----------------------------------------------------------------------------
\* Bodies.  items are the messages as the server sees them, one after another.

\* reasoningRequest: the effort alone is a reasoning, and so is the flag alone.
Tuned(r) == r.tuning \cup (IF Set(r.effort) THEN {"reasoning"} ELSE {})
\* requestReasoningEffort: LM Studio is told of nothing but an effort.
TunedByEffort(r) == (r.tuning \ {"reasoning"}) \cup (IF Set(r.effort) THEN {"reasoning"} ELSE {})

MessagesWithStructuredSchema(r, prompted) ==
    IF prompted /\ HasSchema(r) THEN WithInstruction(r.messages, "schema") ELSE r.messages

\* One message over the chat completions of OpenRouter.
ChatItems(m, policy) ==
    (IF m.role = "tool" THEN <<ResultItem(m.result)>> ELSE <<TextItem(m.role, m.text)>>)
    \o (IF m.replay = <<>> \/ (policy = "tool_calls" /\ m.calls = <<>>) THEN <<>>
        ELSE <<ReasoningItem>>)
    \o [i \in DOMAIN m.calls |-> CallItem(m.calls[i])]

OpenRouterBody(p) ==
    LET r == p.request
        strategy == p.structuredOutput
        messages == MessagesWithStructuredSchema(r, r.prompted \/ strategy # "json_schema")
    IN  [tools |-> r.tools, choice |-> r.choice, parallel |-> r.parallel,
         format |-> IF HasSchema(r) /\ strategy # "prompt" THEN strategy ELSE "unset",
         requireParameters |-> p.requireParameters, tuning |-> Tuned(r),
         items |-> FlattenSeq([i \in DOMAIN messages |-> ChatItems(messages[i], p.replay)])]

\* inputItems of the Responses API: what an assistant message said is its
\* replay, or else its calls; its text is not sent.
InputItems_Bug(m) ==
    \* Bug: a replay is taken for complete although it is empty.
    CASE m.role = "tool" -> <<ResultItem(m.result)>>
      [] m.role = "assistant" -> m.replay
      [] OTHER -> <<TextItem(m.role, m.text)>>
InputItems(m) ==
    CASE m.role = "tool" -> <<ResultItem(m.result)>>
      [] m.role = "assistant" ->
           IF m.replay # <<>> THEN m.replay
           ELSE [i \in DOMAIN m.calls |-> CallItem(m.calls[i])]
      [] OTHER -> <<TextItem(m.role, m.text)>>

\* The system messages are the instructions; codex has its own when there are
\* none, and knows no temperature.
OpenAiBody(r) ==
    LET messages == MessagesWithStructuredSchema(r, r.prompted)
        system == Filtered(messages, IsSystem)
        rest == Filtered(messages, IsOther)
        instructions == IF system = <<>> /\ r.provider = "codex"
                        THEN <<Message("system", "default")>> ELSE system
    IN  [tools |-> r.tools, choice |-> r.choice, parallel |-> r.parallel,
         format |-> IF HasSchema(r) THEN "json_schema" ELSE "unset", requireParameters |-> FALSE,
         tuning |-> Tuned(r) \ (IF r.provider = "codex" THEN {"temperature"} ELSE {}),
         items |-> [i \in DOMAIN instructions |-> TextItem("system", instructions[i].text)]
                   \o FlattenSeq([i \in DOMAIN rest |-> InputItems(rest[i])])]

\* chatBody of lmstudio-openai: neither the choice nor the parallel flag.
CompatibleBody(r) ==
    LET messages == MessagesWithStructuredSchema(r, r.prompted)
    IN  [tools |-> r.tools, choice |-> "unset", parallel |-> "unset",
         format |-> IF HasSchema(r) THEN "json_schema" ELSE "unset", requireParameters |-> FALSE,
         tuning |-> TunedByEffort(r),
         items |-> FlattenSeq([i \in DOMAIN messages |->
                                 ChatItems([messages[i] EXCEPT !.replay = <<>>], "all")])]

\* chatBody of lmstudio: one text for the system, one for the conversation.
NativeBody(r) ==
    LET messages == MessagesWithStructuredSchema(r, r.prompted)
        Said(m) == m.text # NoText
        ordered == Filtered(messages, IsSystem) \o Filtered(messages, IsOther)
        spoken == Filtered(ordered, Said)
    IN  [tools |-> FALSE, choice |-> "unset", parallel |-> "unset", format |-> "unset",
         requireParameters |-> FALSE, tuning |-> TunedByEffort(r),
         items |-> [i \in DOMAIN spoken |-> TextItem(spoken[i].role, spoken[i].text)]]

BodyFor(r, support) ==
    CASE r.provider \in {"unified", "proxy"} -> OpenRouterBody(Prepared(r, support))
      [] r.provider = "openrouter" ->
           OpenRouterBody([request |-> r, structuredOutput |-> "json_schema", replay |-> "all",
                           requireParameters |-> FALSE])
      [] r.provider \in OverResponses -> OpenAiBody(r)
      [] r.provider = "compatible" -> CompatibleBody(r)
      [] r.provider = "native" -> NativeBody(r)

-----------------------------------------------------------------------------
\* Checks before and after a call.  "none" is no error.

RequireRequestInput(r) ==
    CASE r.model = NoText -> "missing_model"
      [] r.model # NoText /\ r.messages = <<>> -> "missing_input"
      [] OTHER -> "none"
RequireEmbeddingInput(r) ==
    CASE r.model = NoText -> "missing_model"
      [] r.model # NoText /\ r.input = NoText -> "missing_input"
      [] OTHER -> IF r.size < 1 THEN "invalid_dimensions" ELSE "none"
RequireRerankInput(r) ==
    CASE r.model = NoText -> "missing_model"
      [] r.model # NoText /\ (r.input = NoText \/ r.documents = 0) -> "missing_input"
      [] OTHER -> IF r.size < 1 THEN "invalid_top_n" ELSE "none"

\* unsupported_structured_tools of unified and lmstudio-openai.
StructuredToolsError(r) ==
    IF r.tools /\ HasSchema(r) /\ r.provider \in {"unified", "proxy", "compatible"}
    THEN "unsupported_structured_tools" ELSE "none"

\* structuredJsonSchema
SchemaError(r) == IF r.schema = "text" THEN "invalid_structured_schema" ELSE "none"

\* The credentials a provider has at hand: "none", "one", or "both" of key and
\* token.
Authorization(credentials) == IF credentials = "both" THEN "auth_ambiguous" ELSE "none"
OpenRouterAuthorization(credentials) == IF credentials = "none" THEN "auth_missing" ELSE "none"

\* The checks of each provider's operations before a request goes out, in their
\* order: of complete and stream, and of the other operations.
OpenRouterChat(r, support, credentials) ==
    <<RequireRequestInput(r), StructuredToolsError(r),
      IF r.provider = "openrouter" THEN "none" ELSE Refusal(r, support, ProfileFor(r)),
      SchemaError(r), OpenRouterAuthorization(credentials)>>
OpenRouterOther(r, credentials) ==
    <<CASE r.op = "embedding" -> RequireEmbeddingInput(r)
        [] r.op = "rerank" -> RequireRerankInput(r)
        [] OTHER -> "none", OpenRouterAuthorization(credentials)>>
OpenAiChat(r, credentials) ==
    <<RequireRequestInput(r), SchemaError(r), Authorization(credentials)>>
OpenAiOther(r, credentials) ==
    <<CASE r.op = "embedding" -> RequireEmbeddingInput(r)
        [] r.op = "rerank" -> RequireRerankInput(r)
        [] OTHER -> "none", Authorization(credentials)>>
CompatibleChat(r, credentials) ==
    <<RequireRequestInput(r), StructuredToolsError(r), SchemaError(r), Authorization(credentials)>>
CompatibleOther(r, credentials) == OpenAiOther(r, credentials)
\* lmstudio renders its headers before its body, and a schema only to prompt it.
NativeChat(r, credentials) ==
    <<RequireRequestInput(r), Authorization(credentials),
      IF r.prompted THEN SchemaError(r) ELSE "none">>
NativeOther(r, credentials) ==
    <<CASE r.op = "embedding" -> "unsupported_embeddings"
        [] r.op = "rerank" -> "unsupported_reranking"
        [] OTHER -> Authorization(credentials)>>
\* withCodexHeaders: the account comes on top of what openai does.
CodexChat(r, credentials) ==
    <<RequireRequestInput(r), SchemaError(r), OpenRouterAuthorization(credentials)>>
CodexOther(r, credentials) ==
    <<CASE r.op = "embedding" -> "unsupported_embeddings"
        [] r.op = "rerank" -> "unsupported_reranking"
        [] OTHER -> OpenRouterAuthorization(credentials)>>

Checks(r, support, credentials) ==
    CASE r.provider \in OverOpenRouter ->
           IF IsChat(r) THEN OpenRouterChat(r, support, credentials)
           ELSE OpenRouterOther(r, credentials)
      [] r.provider = "openai" ->
           IF IsChat(r) THEN OpenAiChat(r, credentials) ELSE OpenAiOther(r, credentials)
      [] r.provider = "codex" ->
           IF IsChat(r) THEN CodexChat(r, credentials) ELSE CodexOther(r, credentials)
      [] r.provider = "compatible" ->
           IF IsChat(r) THEN CompatibleChat(r, credentials) ELSE CompatibleOther(r, credentials)
      [] r.provider = "native" ->
           IF IsChat(r) THEN NativeChat(r, credentials) ELSE NativeOther(r, credentials)

FirstError(errors) ==
    LET found == {i \in DOMAIN errors : errors[i] # "none"}
    IN  IF found = {} THEN "none" ELSE errors[Min(found)]

HttpError(status) == IF status \in {401, 403} THEN "auth_failed" ELSE "http_error"

\* What is validated: the stream functions hand out what came, except that
\* unified completes a structured stream first.
Validated(r) ==
    IsChat(r) /\ HasSchema(r) /\ (r.op = "complete" \/ r.provider \in {"unified", "proxy"})

ParseStructuredOutput(reply) ==
    IF reply.refused \/ reply.called \/ reply.text # "object"
    THEN "invalid_structured_output" ELSE "none"
ParseEmbedding(reply) ==
    IF reply.values # <<>> /\ ToSet(reply.values) = {"number"} THEN "none" ELSE "invalid_embedding"
ParseRerank(reply) ==
    IF reply.values # <<>> /\ ToSet(reply.values) = {"ranked"} THEN "none" ELSE "invalid_rerank"

ReplyError(r, reply) ==
    CASE Validated(r) -> ParseStructuredOutput(reply)
      [] r.op = "embedding" -> ParseEmbedding(reply)
      [] r.op = "rerank" -> ParseRerank(reply)
      [] r.op = "validateModel" -> IF r.model \in ToSet(reply.values) THEN "none" ELSE "missing_model"
      [] OTHER -> "none"

\* structuredRepairRequest: the rejected text and its replay, then the
\* correction.
Repaired(r, reply) ==
    [r EXCEPT !.messages = @ \o <<[Message("assistant", reply.text) EXCEPT !.replay = reply.replay],
                                  Message("user", "correction")>>]

\* addUsage of two optional usages.
AddUsage(left, right) ==
    CASE left = <<>> -> right
      [] left # <<>> /\ right = <<>> -> left
      [] OTHER -> <<left[1] + right[1]>>
=============================================================================
