---------------------------- MODULE LlmRequests ----------------------------
(***************************************************************************)
(* The calls of packages/llms: callers ask providers at the same time; the *)
(* unified providers look a model up in the one catalog, which loads,      *)
(* expires and fails, and repair a structured reply that does not fit.     *)
(***************************************************************************)
EXTENDS LlmBodies

CONSTANTS
    Callers,
    RequestScenes,         \* functions from Callers: the requests made together, <<>> for none
    Catalogs,       \* what OpenRouter may publish: parameters by model
    Replies,        \* the replies to each operation
    MaxRepairs      \* maxStructuredOutputRepairs

NoLoad == "none"

\* The call that a result answers.  What the Responses API wants to see again is
\* the output of a response, its calls among the rest; the replay of any other
\* provider is what it reasoned, and holds no call.
Makes(m, id, provider) ==
    /\ m.role = "assistant" /\ id \in ToSet(m.calls)
    /\ provider \in OverResponses => m.replay = <<>> \/ CallItem(id) \in ToSet(m.replay)

\* A conversation with a provider, as the agent keeps it.
ResultsFollowCalls(messages, provider) ==
    \A i \in DOMAIN messages : messages[i].role = "tool" =>
        \E j \in 1..(i - 1) : Makes(messages[j], messages[i].result, provider)

IsRequest(r) ==
    /\ r.provider \in Providers
    /\ IsChat(r) => r \in ChatRequests /\ ResultsFollowCalls(r.messages, r.provider)

\* Nobody is called as no load is; requests are as their types say; a replay is
\* what a model said.
ASSUME RequestsAreSound ==
    /\ NoLoad \notin Callers
    /\ \A s \in RequestScenes : \A c \in Callers : s[c] = <<>> \/ IsRequest(s[c])
    /\ \A op \in {"complete", "stream"} : \A reply \in Replies[op] :
          reply.text \in Texts /\ reply.replay \in Seq(ReplayItems)

VARIABLES
    scene,      \* the request of each caller
    call,       \* the call of each caller
    cached,     \* the catalog that was loaded last, or NoCatalog
    fresh,      \* Date.now() < expiresAt
    pending     \* whose signal the load in flight has, or NoLoad

requestVars == <<scene, call, cached, fresh, pending>>

NoCatalog == [none |-> {}]

NoCall == [phase |-> "idle", aborted |-> FALSE]

RequestsInit ==
    /\ scene \in RequestScenes
    /\ call = [c \in Callers |-> NoCall]
    /\ cached = NoCatalog
    /\ fresh = FALSE
    /\ pending = NoLoad

-----------------------------------------------------------------------------
Settled(k, code, usage) ==
    [phase |-> "settled", aborted |-> k.aborted, code |-> code, request |-> k.request,
     usage |-> usage, spent |-> k.spent, attempts |-> k.attempts,
     log |-> CASE code = "none" -> "completed"
               [] code # "none" /\ (k.aborted \/ code = "aborted") -> "cancelled"
               [] OTHER -> "failed"]

\* With the support of its model known: the call is refused, or its body is
\* built and sent.
Sent(k, support, credentials) ==
    LET error == FirstError(Checks(k.request, support, credentials))
    IN  IF error # "none" THEN Settled(k, error, <<>>)
        ELSE [k EXCEPT !.phase = "sending", !.support = support, !.attempts = @ + 1]

\* One attempt: the catalog answers from its cache, or has to be loaded.
Attempt(c, k, credentials) ==
    IF ~NeedsSupport(k.request)
    THEN /\ call' = [call EXCEPT ![c] = Sent(k, Unknown, credentials)]
         /\ UNCHANGED pending
    ELSE IF cached # NoCatalog /\ fresh
    THEN /\ call' = [call EXCEPT ![c] = Sent(k, SupportIn(cached, k.request.model), credentials)]
         /\ UNCHANGED pending
    ELSE /\ call' = [call EXCEPT ![c] = [k EXCEPT !.phase = "loading"]]
         /\ pending' = IF pending = NoLoad THEN c ELSE pending

\* A caller calls an operation.
Ask(c, credentials) ==
    LET r == scene[c]
        k == [phase |-> "asked", aborted |-> FALSE, request |-> r, support |-> Unknown,
              usage |-> <<>>, spent |-> <<>>, attempts |-> 0]
        early == IF NeedsSupport(r) THEN FirstError(<<RequireRequestInput(r), StructuredToolsError(r)>>)
                 ELSE "none"
    IN  /\ call[c].phase = "idle" /\ r # <<>>
        /\ IF early # "none"
           THEN /\ call' = [call EXCEPT ![c] = Settled(k, early, <<>>)]
                /\ UNCHANGED pending
           ELSE Attempt(c, k, credentials)
        /\ UNCHANGED <<scene, cached, fresh>>

Loading == {c \in Callers : call[c].phase = "loading"}

\* The load in flight is answered; everybody who waits for it goes on.
CatalogLoads(catalog, credentials) ==
    /\ pending # NoLoad /\ ~call[pending].aborted
    /\ UNCHANGED scene
    /\ cached' = catalog
    /\ fresh' = TRUE
    /\ pending' = NoLoad
    /\ call' = [c \in Callers |->
                  IF c \in Loading
                  THEN Sent(call[c], SupportIn(catalog, call[c].request.model), credentials)
                  ELSE call[c]]

\* The load in flight fails: by the connection, by its status, or because the
\* caller whose signal it has aborts.  Who is not aborted goes on with what is
\* known.
Unloaded_Bug(k, credentials) ==
    \* Bug: the failure of the load is everybody's.
    Settled(k, "aborted", <<>>)
Unloaded(k, credentials) ==
    IF k.aborted THEN Settled(k, "aborted", <<>>)
    ELSE Sent(k, IF cached = NoCatalog THEN Unknown ELSE SupportIn(cached, k.request.model),
              credentials)

CatalogFails(credentials) ==
    /\ pending # NoLoad
    /\ pending' = NoLoad
    /\ call' = [c \in Callers |->
                  IF c \in Loading THEN Unloaded(call[c], credentials) ELSE call[c]]
    /\ UNCHANGED <<scene, cached, fresh>>

\* ttlMs later.
CatalogExpires ==
    /\ fresh
    /\ fresh' = FALSE
    /\ UNCHANGED <<scene, call, cached, pending>>

\* The repairs that complete of the unified provider still has.
Repairable(k) == k.attempts <= MaxRepairs

\* The usage a finish reports: that of all attempts.
Accumulated(k, reply) == AddUsage(k.usage, reply.usage)

\* The reply arrives, is parsed, and repaired when that is possible.
Answer(c, reply, credentials) ==
    LET k == call[c]
        error == ReplyError(k.request, reply)
        counted == [k EXCEPT !.spent = IF IsChat(k.request) THEN AddUsage(@, reply.usage) ELSE @]
        usage == IF IsChat(k.request) THEN Accumulated(k, reply) ELSE <<>>
    IN  /\ k.phase = "sending" /\ ~k.aborted
        /\ IF error = "invalid_structured_output" /\ Repairable(k)
              /\ k.request.provider \in {"unified", "proxy"}
           THEN Attempt(c, [counted EXCEPT !.usage = usage, !.request = Repaired(@, reply)],
                        credentials)
           ELSE /\ call' = [call EXCEPT ![c] =
                              Settled(counted, error, IF error = "none" THEN usage ELSE <<>>)]
                /\ UNCHANGED pending
        /\ UNCHANGED <<scene, cached, fresh>>

\* The connection fails, the status is an error, or the body is no JSON; after
\* an abort nothing else happens.
CallFails(c, code) ==
    /\ call[c].phase = "sending"
    /\ call[c].aborted <=> code = "aborted"
    /\ call' = [call EXCEPT ![c] = Settled(call[c], code, <<>>)]
    /\ UNCHANGED <<scene, cached, fresh, pending>>

AbortCall(c) ==
    /\ call[c].phase \in {"loading", "sending"} /\ ~call[c].aborted
    /\ call' = [call EXCEPT ![c].aborted = TRUE]
    /\ UNCHANGED <<scene, cached, fresh, pending>>

Failures == {"aborted", "transport", "invalid_json", HttpError(401), HttpError(500)}
Secrets == {"none", "one", "both"}

Answers(c, credentials) ==
    /\ call[c].phase = "sending"
    /\ \E reply \in Replies[call[c].request.op] : Answer(c, reply, credentials)

RequestsNext ==
    \/ \E credentials \in Secrets :
         \/ \E c \in Callers : Ask(c, credentials) \/ Answers(c, credentials)
         \/ \E catalog \in Catalogs : CatalogLoads(catalog, credentials)
         \/ CatalogFails(credentials)
    \/ \E c \in Callers : AbortCall(c) \/ \E code \in Failures : CallFails(c, code)
    \/ CatalogExpires

RequestsSpec == RequestsInit /\ [][RequestsNext]_requestVars

-----------------------------------------------------------------------------
SentBody(k) == BodyFor(k.request, k.support)
SendingChat(c) == call[c].phase = "sending" /\ IsChat(call[c].request)

\* The parameters of a body that a model has to support.
Demands(body) ==
    body.tuning
    \cup (IF body.tools THEN {"tools"} ELSE {})
    \cup (IF Set(body.choice) THEN {"tool_choice"} ELSE {})
    \cup (IF Set(body.parallel) THEN {"parallel_tool_calls"} ELSE {})
    \cup (CASE body.format = "json_schema" -> {"structured_outputs"}
            [] body.format = "json_object" -> {"response_format"}
            [] OTHER -> {})

\* The tools, the choice among them, their parallel calls and the structured
\* output are negotiated: what the unified provider sends to a model that the
\* catalog knows asks for none that the model does not advertise, whatever the
\* caller asked, at every attempt, with the catalog as it was at that attempt
\* (unified/prepare.ts).  The rest of what a body demands is the tuning that the
\* caller asked for, which no check looks at (openrouter/body.ts:77-79).
SupportIsRespected ==
    \A c \in Callers :
       SendingChat(c) /\ call[c].request.provider = "unified" /\ call[c].support.known
         => Demands(SentBody(call[c]))
              \subseteq call[c].support.parameters \cup Tuned(call[c].request)

Instructed(body, text) == TextItem("system", text) \in ToSet(body.items)

\* What is left out or replaced because a model lacks it still reaches the
\* model: a forced choice is sent or refused, a forbidden tool is not offered,
\* one call at a time and the schema are asked for in words when they cannot be
\* asked for as parameters (prepare.ts, openrouter/body.ts, openai/body.ts).
IntentReachesModel ==
    \A c \in Callers :
       SendingChat(c) /\ call[c].request.provider \in OverOpenRouter \cup OverResponses =>
         LET r == call[c].request
             body == SentBody(call[c])
         IN  /\ r.choice = "required" => body.choice = "required"
             /\ r.choice = "none" => body.choice = "none" \/ ~body.tools
             /\ r.tools /\ r.choice # "none" => body.tools
             /\ r.parallel = "no" /\ body.tools =>
                  body.parallel = "no" \/ Instructed(body, "sequential")
             /\ HasSchema(r) => body.format = "json_schema" \/ Instructed(body, "schema")

\* In every body a tool's result comes behind the call it answers, and nothing
\* a user or the system said is missing, whatever was replayed, dropped or
\* moved (openai/body.ts inputItems, openrouter/body.ts replayItems).
ConversationArrives ==
    \A c \in Callers : SendingChat(c) =>
       LET r == call[c].request
           items == SentBody(call[c]).items
           said == Filtered(r.messages, LAMBDA m : m.role = "user")
           heard == Filtered(items, LAMBDA i : i.item = "text" /\ i.role = "user")
       IN  /\ \A i \in DOMAIN items : items[i].item = "result" =>
                 \E j \in 1..(i - 1) : items[j] = CallItem(items[i].id)
           /\ Len(heard) = Len(said)
           /\ \A i \in DOMAIN heard : heard[i].text = said[i].text
           /\ \A i \in DOMAIN r.messages : IsSystem(r.messages[i]) =>
                 TextItem("system", r.messages[i].text) \in ToSet(items)

\* A load of the catalog has the signal of the caller who started it, but only
\* callers who aborted themselves are told and logged that they did, and nobody
\* waits for a load that is over (unified/catalog.ts, logging.ts cancelled).
AbortsStayLocal ==
    \A c \in Callers :
       /\ call[c].phase = "settled" /\ (call[c].code = "aborted" \/ call[c].log = "cancelled")
            => call[c].aborted
       /\ call[c].phase = "loading" => pending # NoLoad
=============================================================================
