-------------------------------- MODULE OAuth --------------------------------
(***************************************************************************)
(* The OAuth client of packages/oauth with its loopback callback server:   *)
(* logins that wait for a browser, credentials that are refreshed when     *)
(* they expire, and the token store of the host that both write.  Calls on *)
(* one client run concurrently and can be aborted.                         *)
(*                                                                         *)
(* The browser, the token endpoint and the store are the environment.  The *)
(* endpoint refuses a code with another login's verifier (PKCE) and a      *)
(* refresh token that is not live.  A refresh token is a number, 0 for     *)
(* none; access tokens do not matter beyond their age.                     *)
(***************************************************************************)
EXTENDS Naturals, FiniteSets

CONSTANTS
    Logins,   \* calls of authorize
    Users,    \* calls of credential and refresh
    Nil,      \* no login, no record
    MaxTokens \* bound on the refresh tokens that are issued

ASSUME OAuthConstants == Nil \notin Logins /\ Logins \cap Users = {} /\ MaxTokens \in Nat

VARIABLES
    server,    \* the callback server: whose callback is pending, the logins whose
               \* abort listener is registered, whether it was closed
    opened,    \* the logins whose authorization page the browser has
    client,    \* stage, signal and locals of each call
    store,     \* the record of the token store
    endpoint,  \* the refresh tokens the endpoint accepts, the last one it issued, its policy
    lost       \* the record of a refresh that took effect reached neither caller nor store

loginVars == <<server, opened, client, store, endpoint, lost>>
Clients == Logins \union Users

TokenPolicies == {"rotates", "keeps", "issues none"}
Forms == {"code", "denied", "bare"}  \* what a callback carries beside its state

Grant(refresh) == [refresh |-> refresh, expiring |-> FALSE]

NewServer == [pending |-> Nil, listening |-> {}, closed |-> FALSE]
NewClient ==
    [stage |-> "idle", aborted |-> FALSE, code |-> Nil, record |-> Nil, outcome |-> "none"]

LoginInit ==
    /\ server = NewServer
    /\ opened = {}
    /\ client = [c \in Clients |-> NewClient]
    /\ \E policy \in TokenPolicies :
          /\ endpoint = [live   |-> IF policy = "issues none" THEN {} ELSE {1},
                         last   |-> 1,
                         policy |-> policy]
          /\ store \in {Nil, Grant(IF policy = "issues none" THEN 0 ELSE 1)}
    /\ lost = FALSE

Stands(c, stage) == client[c].stage = stage
Moves(c, stage) == [client EXCEPT ![c].stage = stage]
Holds(c, stage, record) ==
    [client EXCEPT ![c] = [client[c] EXCEPT !.stage = stage, !.record = record]]
Settled(l, outcome) == [l EXCEPT !.stage = "done", !.outcome = outcome, !.record = Nil]
Settle(c, outcome) == [client EXCEPT ![c] = Settled(client[c], outcome)]

-----------------------------------------------------------------------------
(* The callback server *)

\* Bug: the settled wait keeps its abort listener.
FinishPending_Bug == [server EXCEPT !.pending = Nil]

\* The wait is over: no longer pending, its listener removed.
FinishPending == [server EXCEPT !.pending = Nil, !.listening = server.listening \ {server.pending}]

\* waitForCallback, after the browser was opened.
WaitForCallback(c) ==
    /\ Stands(c, "opening")
    /\ \/ /\ server.closed
          /\ client' = Settle(c, "oauth_callback_server_closed")
          /\ UNCHANGED server
       \/ /\ ~server.closed /\ server.pending # Nil
          /\ client' = Settle(c, "oauth_callback_already_pending")
          /\ UNCHANGED server
       \/ /\ ~server.closed /\ server.pending = Nil
          /\ IF client[c].aborted
             THEN client' = Settle(c, "oauth_callback_aborted") /\ UNCHANGED server
             ELSE /\ client' = Moves(c, "waiting")
                  /\ server' = [server EXCEPT !.pending = c,
                                              !.listening = server.listening \union {c}]
    /\ UNCHANGED <<opened, store, endpoint, lost>>

AssertCallback(c, state, form) ==
    CASE form = "denied" -> "oauth_callback_error"
      [] form # "denied" /\ state # c -> "oauth_state_mismatch"
      [] form = "bare" /\ state = c   -> "oauth_missing_code"
      [] OTHER -> "accepted"

\* A request of the browser for the callback path, of the page of login state or of none.
\* Whatever it carries, it settles the pending wait; authorize then checks it and exchanges
\* its code.  Without a pending wait the answer is 409 and nothing changes.
Callback(state, form) ==
    /\ state \in opened \union {Nil}
    /\ ~server.closed /\ server.pending # Nil
    /\ LET c == server.pending
           verdict == AssertCallback(c, state, form)
       IN client' = IF verdict = "accepted"
                  THEN [client EXCEPT ![c] = [client[c] EXCEPT !.stage = "exchanging", !.code = state]]
                  ELSE Settle(c, verdict)
    /\ server' = FinishPending
    /\ UNCHANGED <<opened, store, endpoint, lost>>

Close ==
    /\ ~server.closed
    /\ server' = [FinishPending EXCEPT !.closed = TRUE]
    /\ client' = IF server.pending = Nil THEN client
               ELSE Settle(server.pending, "oauth_callback_server_closed")
    /\ UNCHANGED <<opened, store, endpoint, lost>>

\* The signal of a call.  A registered listener rejects the wait that is pending; a request
\* to the endpoint fails, whether or not it took effect.  After the call has ended only a
\* listener that is left could notice it.
Abort(c) ==
    /\ ~client[c].aborted
    /\ Stands(c, "done") => c \in server.listening
    /\ LET waiter == IF c \in server.listening THEN server.pending ELSE Nil
           marked == [client EXCEPT ![c].aborted = TRUE]
           ended  == IF waiter = Nil THEN server ELSE FinishPending
       IN /\ client' =
                IF waiter # Nil
                THEN [marked EXCEPT ![waiter] = Settled(marked[waiter], "oauth_callback_aborted")]
                ELSE IF client[c].stage \in {"exchanging", "refreshing", "answered"}
                     THEN [marked EXCEPT ![c] = Settled(marked[c], "request_aborted")]
                     ELSE marked
          /\ server' = [ended EXCEPT !.listening = ended.listening \ {c}]
    /\ lost' = (lost \/ Stands(c, "answered"))
    /\ UNCHANGED <<opened, store, endpoint>>

-----------------------------------------------------------------------------
(* authorize *)

\* A fresh state and verifier; the browser gets the authorization page.
Authorize(c) ==
    /\ Stands(c, "idle")
    /\ client' = Moves(c, "opening")
    /\ opened' = opened \union {c}
    /\ UNCHANGED <<server, store, endpoint, lost>>

\* The endpoint's answer to the code and the verifier of login c.
ExchangeToken(c) ==
    /\ Stands(c, "exchanging")
    /\ \/ /\ client' = Settle(c, "oauth_token_exchange_failed")
          /\ UNCHANGED endpoint
       \/ /\ client[c].code = c /\ endpoint.last < MaxTokens
          /\ LET t == IF endpoint.policy = "issues none" THEN 0 ELSE endpoint.last + 1
             IN /\ client' = Holds(c, "saving", Grant(t))
                /\ endpoint' = [endpoint EXCEPT !.last = endpoint.last + 1,
                                                !.live = endpoint.live \union ({t} \ {0})]
    /\ UNCHANGED <<server, opened, store, lost>>

-----------------------------------------------------------------------------
(* credential and refresh *)

\* refresh, with the record that was loaded; without a refresh token it throws.
RefreshWith(c, record) ==
    IF record.refresh = 0
    THEN Settle(c, "oauth_missing_refresh_token")
    ELSE Holds(c, "refreshing", record)

\* credential loads the record and refreshes when forced or when it expires.
Credential(c, forceRefresh) ==
    /\ Stands(c, "idle")
    /\ client' = IF store = Nil THEN Settle(c, "oauth_missing_record")
                 ELSE IF forceRefresh \/ store.expiring THEN RefreshWith(c, store)
                      ELSE Settle(c, "credential")
    /\ UNCHANGED <<server, opened, store, endpoint, lost>>

Refresh(c) ==
    /\ Stands(c, "idle")
    /\ client' = IF store = Nil THEN Settle(c, "oauth_missing_refresh_token")
                 ELSE RefreshWith(c, store)
    /\ UNCHANGED <<server, opened, store, endpoint, lost>>

\* Bug: the record is saved as the endpoint sent it.
Kept_Bug(existing, refresh) == refresh

\* The refresh token that is saved: the new one or, when the endpoint sent none, the old.
Kept(existing, refresh) == IF refresh = 0 THEN existing ELSE refresh

\* The endpoint handles a refresh; the caller knows when its answer arrives.
EndpointRefreshes(c) ==
    /\ Stands(c, "refreshing")
    /\ client[c].record.refresh \in endpoint.live
    /\ endpoint.last < MaxTokens
    /\ LET used == client[c].record.refresh
           t == IF endpoint.policy = "rotates" THEN endpoint.last + 1 ELSE 0
       IN /\ endpoint' = IF t = 0 THEN endpoint
                         ELSE [endpoint EXCEPT !.last = t,
                                               !.live = (endpoint.live \ {used}) \union {t}]
          /\ client' = Holds(c, "answered", Grant(Kept(used, t)))
    /\ UNCHANGED <<server, opened, store, lost>>

\* The answer, or the connection's failure after the endpoint handled the request, or an
\* answer that is not a token response.
RefreshAnswered(c) ==
    /\ Stands(c, "answered")
    /\ \/ client' = Moves(c, "saving") /\ UNCHANGED lost
       \/ client' = Settle(c, "oauth_refresh_failed") /\ lost' = TRUE
    /\ UNCHANGED <<server, opened, store, endpoint>>

\* The endpoint refuses the refresh token or cannot be reached.
RefreshFails(c) ==
    /\ Stands(c, "refreshing")
    /\ client' = Settle(c, "oauth_refresh_failed")
    /\ UNCHANGED <<server, opened, store, endpoint, lost>>

-----------------------------------------------------------------------------
(* The token store *)

Save(c) ==
    /\ Stands(c, "saving")
    /\ \/ /\ store' = client[c].record
          /\ lost' = (lost /\ c \notin Logins)
          /\ client' = Settle(c, IF c \in Logins THEN "authorized" ELSE "credential")
       \/ /\ lost' = (lost \/ c \in Users)
          /\ client' = Settle(c, "save_failed")
          /\ UNCHANGED store
    /\ UNCHANGED <<server, opened, endpoint>>

\* The clock passes the refresh skew of the stored record.
Expire ==
    /\ store # Nil /\ ~store.expiring
    /\ store' = [store EXCEPT !.expiring = TRUE]
    /\ UNCHANGED <<server, opened, client, endpoint, lost>>

LoginNext ==
    \/ \E c \in Logins : Authorize(c) \/ WaitForCallback(c) \/ ExchangeToken(c)
    \/ \E state \in Logins \union {Nil}, form \in Forms : Callback(state, form)
    \/ \E c \in Users :
          \/ \E force \in BOOLEAN : Credential(c, force)
          \/ Refresh(c) \/ EndpointRefreshes(c) \/ RefreshAnswered(c) \/ RefreshFails(c)
    \/ \E c \in Clients : Save(c) \/ Abort(c)
    \/ Close
    \/ Expire

LoginSpec == LoginInit /\ [][LoginNext]_loginVars

-----------------------------------------------------------------------------
(* Properties *)

\* A code that came back for one login is never redeemed by another, whatever pages stay
\* open and whichever callback arrives first (assertCallback, node.ts's single pending wait).
CodesStayWithTheirLogin ==
    \A c \in Logins : client[c].code \in {Nil, c}

\* Every waiting login is the one the server will settle, by a callback, its own signal or
\* close; no signal of another call ends it, nor a listener that outlived its wait
\* (waitForCallback, finishPending, close).
WaitsEndByTheirOwnCause ==
    \A c \in Logins :
        /\ Stands(c, "waiting") <=> server.pending = c
        /\ Stands(c, "waiting") <=> c \in server.listening
        /\ Stands(c, "waiting") => ~server.closed /\ ~client[c].aborted
        /\ client[c].outcome = "oauth_callback_aborted" => client[c].aborted

\* Logins that are under way at once do not meet: neither a code nor a cause reaches
\* another's wait (authorize, createOAuthNodeCallbackServer).
LoginsAreSeparate == CodesStayWithTheirLogin /\ WaitsEndByTheirOwnCause

\* Unless a refresh that took effect was lost on its way, the store holds a refresh token
\* that the endpoint still accepts once no refresh is under way: concurrent refreshes with
\* the same token, answers without a token and a login in between do not log the user out
\* (refresh, exchange).
StoredGrantIsLive ==
    /\ store # Nil /\ ~lost /\ endpoint.policy # "issues none"
    /\ \A c \in Users : client[c].stage \notin {"answered", "saving"}
    => store.refresh \in endpoint.live
=============================================================================
