------------------------------ MODULE CodexAuth ------------------------------
(***************************************************************************)
(* resolveCodexAuth of packages/oauth: the credential of the Codex CLI,    *)
(* from the environment or from auth.json, whose ChatGPT tokens are        *)
(* refreshed and written back when they expire.  Several resolutions run   *)
(* concurrently on the one file, in one process or in several, without a   *)
(* lock: each writes back the whole document it read.                      *)
(*                                                                         *)
(* A refresh token is a number, 0 for none.  The account of the tokens is  *)
(* named by the document (account_id) or by a claim, here of the id token. *)
(***************************************************************************)
EXTENDS Naturals, FiniteSets

CONSTANTS
    Resolvers,  \* calls of resolveCodexAuth
    Missing,    \* no file, no account
    Torn,       \* a file that is being written
    MaxRefreshes

ASSUME CodexConstants == Missing # Torn

VARIABLES
    environment, \* which of the variables are set
    origin,      \* auth.json before the first resolution
    file,        \* auth.json
    resolution,  \* stage and locals of each resolution
    issuer,      \* the refresh token that is live, the policy of the token endpoint
    unwritten    \* a refresh that took effect was not written

codexVars == <<environment, origin, file, resolution, issuer, unwritten>>

Variables == {"CODEX_AUTHORIZATION", "CODEX_API_KEY", "CODEX_ACCESS_TOKEN"}
TokenKinds == {"at-", "jwt", "blank"}
Modes == {"apikey", "personalaccesstoken", "agentidentity", "chatgpt", "other", "absent"}

IdTokens == {"absent", "plain", "account"}  \* the last has the claim

Tokens == [access : {"absent", "fresh", "expiring"}, refresh : {0, 1},
           named : BOOLEAN, idToken : IdTokens]
Documents ==
    [mode : Modes, apiKey : BOOLEAN, personal : BOOLEAN, tokens : Tokens]

\* The files of a ChatGPT login vary in their tokens, the others in their mode.
Files ==
    {Missing}
      \union {d \in Documents : d.mode \in {"chatgpt", "absent"} /\ ~d.apiKey /\ ~d.personal}
      \union {d \in Documents : d.tokens = [access |-> "fresh", refresh |-> 1,
                                            named |-> TRUE, idToken |-> "account"]}

NewResolution ==
    [stage |-> "idle", document |-> Missing, outcome |-> "none", account |-> Missing]

CodexInit ==
    /\ environment \in {e \in [Variables -> {"unset"} \union TokenKinds] :
                            Cardinality({v \in Variables : e[v] # "unset"}) <= 2}
    /\ file \in IF \A v \in Variables : environment[v] \in {"unset", "blank"}
                THEN Files ELSE {Missing}
    /\ origin = file
    /\ resolution = [r \in Resolvers |-> NewResolution]
    /\ issuer \in [live : {1}, rotates : BOOLEAN]
    /\ unwritten = FALSE

Reached(r, stage) == resolution[r].stage = stage
Ended(r, outcome, account) ==
    [resolution EXCEPT ![r] =
        [resolution[r] EXCEPT !.stage = "done", !.outcome = outcome, !.account = account]]
Carries(r, stage, document) ==
    [resolution EXCEPT ![r] = [resolution[r] EXCEPT !.stage = stage, !.document = document]]

-----------------------------------------------------------------------------
(* The credential *)

\* clean: a blank value counts as unset.
IsSet(v) == environment[v] \notin {"unset", "blank"}
NothingSet == \A v \in Variables : ~IsSet(v)

\* CODEX_AUTHORIZATION first, then CODEX_API_KEY, then CODEX_ACCESS_TOKEN.
FromEnvironment ==
    CASE IsSet("CODEX_AUTHORIZATION") ->
             IF environment["CODEX_AUTHORIZATION"] = "at-" THEN "personal-access-token" ELSE "chatgpt"
      [] ~IsSet("CODEX_AUTHORIZATION") /\ IsSet("CODEX_API_KEY") -> "api-key"
      [] OTHER -> IF environment["CODEX_ACCESS_TOKEN"] = "at-" THEN "personal-access-token"
                  ELSE "codex_agent_identity_unsupported"

\* auth_mode or, when it is absent, what the document holds.
ResolvedMode(d) ==
    CASE d.mode # "absent" -> d.mode
      [] d.mode = "absent" /\ d.personal -> "personalaccesstoken"
      [] d.mode = "absent" /\ ~d.personal /\ d.apiKey -> "apikey"
      [] OTHER -> "chatgpt"

\* The answer for a document whose mode is not a ChatGPT login.
FromMode(d) ==
    CASE ResolvedMode(d) = "apikey" -> IF d.apiKey THEN "api-key" ELSE "codex_api_key_missing"
      [] ResolvedMode(d) = "personalaccesstoken" ->
             IF d.personal THEN "personal-access-token" ELSE "codex_personal_access_token_missing"
      [] ResolvedMode(d) = "agentidentity" -> "codex_agent_identity_unsupported"
      [] OTHER -> "codex_auth_mode_unsupported"

\* The account of a credential, from the document or else from the claims of its tokens.
AccountOf(tokens) == IF tokens.named \/ tokens.idToken = "account" THEN "account" ELSE Missing

-----------------------------------------------------------------------------
(* resolveCodexAuth *)

\* The environment decides, or the file is read; its tokens are refreshed when they expire
\* and can be.
ResolveCodexAuth(r) ==
    /\ Reached(r, "idle")
    /\ resolution' =
         CASE ~NothingSet -> Ended(r, FromEnvironment, Missing)
           [] NothingSet /\ file = Missing -> Ended(r, "codex_auth_missing", Missing)
           [] NothingSet /\ file = Torn -> Ended(r, "codex_auth_read_failed", Missing)
           [] OTHER ->
                CASE ResolvedMode(file) # "chatgpt" -> Ended(r, FromMode(file), Missing)
                  [] ResolvedMode(file) = "chatgpt" /\ file.tokens.access = "absent" ->
                         Ended(r, "codex_chatgpt_token_missing", Missing)
                  [] ResolvedMode(file) = "chatgpt" /\ file.tokens.access = "expiring"
                         /\ file.tokens.refresh # 0 ->
                         Carries(r, "refreshing", file)
                  [] OTHER -> Ended(r, "chatgpt", AccountOf(file.tokens))
    /\ UNCHANGED <<environment, origin, file, issuer, unwritten>>

\* Bug: the tokens of the response replace those of the document.
Merged_Bug(tokens, response) ==
    [access |-> IF response.access THEN "fresh" ELSE "absent",
     refresh |-> response.refresh, named |-> FALSE, idToken |-> response.idToken]

\* The tokens of the response over those of the document.
Merged(tokens, response) ==
    [access  |-> IF response.access THEN "fresh" ELSE tokens.access,
     refresh |-> IF response.refresh = 0 THEN tokens.refresh ELSE response.refresh,
     named   |-> tokens.named,
     idToken |-> IF response.idToken = "absent" THEN tokens.idToken ELSE response.idToken]

Refreshed(d, response) == [d EXCEPT !.tokens = Merged(d.tokens, response)]

\* The endpoint handles the refresh; its answer has any of the three tokens and, when it
\* rotates them, a refresh token.
IssuerRefreshes(r) ==
    /\ Reached(r, "refreshing")
    /\ resolution[r].document.tokens.refresh = issuer.live
    /\ issuer.live <= MaxRefreshes
    /\ LET next == IF issuer.rotates THEN issuer.live + 1 ELSE 0
       IN /\ issuer' = IF next = 0 THEN issuer ELSE [issuer EXCEPT !.live = next]
          /\ \E response \in [access : BOOLEAN, refresh : {next}, idToken : IdTokens] :
                resolution' = Carries(r, "answered", Refreshed(resolution[r].document, response))
    /\ UNCHANGED <<environment, origin, file, unwritten>>

\* The answer never arrives or is not a token response.
AnswerLost(r) ==
    /\ Reached(r, "answered")
    /\ resolution' = Ended(r, "codex_refresh_failed", Missing)
    /\ unwritten' = TRUE
    /\ UNCHANGED <<environment, origin, file, issuer>>

\* Refused, or not reached.
IssuerRefuses(r) ==
    /\ Reached(r, "refreshing")
    /\ resolution' = Ended(r, "codex_refresh_failed", Missing)
    /\ UNCHANGED <<environment, origin, file, issuer, unwritten>>

\* writeFile truncates the file first.
StartWriting(r) ==
    /\ Reached(r, "answered")
    /\ file' = Torn
    /\ resolution' = [resolution EXCEPT ![r].stage = "writing"]
    /\ UNCHANGED <<environment, origin, issuer, unwritten>>

FinishWriting(r) ==
    /\ Reached(r, "writing")
    /\ file' = resolution[r].document
    /\ resolution' = LET tokens == resolution[r].document.tokens
               IN IF tokens.access = "absent"
                  THEN Ended(r, "codex_chatgpt_token_missing", Missing)
                  ELSE Ended(r, "chatgpt", AccountOf(tokens))
    /\ UNCHANGED <<environment, origin, issuer, unwritten>>

\* The process dies, or the disk fails, while the file is truncated: it stays torn.
WriteFails(r) ==
    /\ Reached(r, "writing")
    /\ resolution' = Ended(r, "write_failed", Missing)
    /\ unwritten' = TRUE
    /\ UNCHANGED <<environment, origin, file, issuer>>

\* The access token comes within five minutes of its end.
AccessExpires ==
    /\ file \notin {Missing, Torn} /\ file.tokens.access = "fresh"
    /\ file' = [file EXCEPT !.tokens = [file.tokens EXCEPT !.access = "expiring"]]
    /\ UNCHANGED <<environment, origin, resolution, issuer, unwritten>>

CodexNext ==
    \/ \E r \in Resolvers :
          \/ ResolveCodexAuth(r) \/ IssuerRefreshes(r) \/ AnswerLost(r) \/ IssuerRefuses(r)
          \/ StartWriting(r) \/ FinishWriting(r) \/ WriteFails(r)
    \/ AccessExpires

CodexSpec == CodexInit /\ [][CodexNext]_codexVars

-----------------------------------------------------------------------------
(* Properties *)

Writing(r) == resolution[r].stage \in {"answered", "writing"}

\* However many resolutions refresh and rewrite the file, it stays the login it was: a
\* document that is complete has the mode, the keys and the account of the original, and as
\* long as no answer and no write was lost, and none is under way, the refresh token the
\* endpoint accepts.  A response without some of the tokens takes nothing away, neither from
\* the file nor from the credential that is returned (refreshChatGptToken, chatGptCredential).
LoginSurvivesRefreshes ==
    /\ file \notin {Missing, Torn} =>
          /\ file.tokens.named = origin.tokens.named
          /\ [file EXCEPT !.tokens = origin.tokens] = origin
          /\ ~unwritten /\ (\A r \in Resolvers : ~Writing(r)) /\ origin.tokens.refresh # 0
             => file.tokens.refresh = issuer.live
    /\ \A r \in Resolvers :
          resolution[r].outcome = "chatgpt" /\ NothingSet /\ origin.tokens.named
          => resolution[r].account = "account"
=============================================================================
