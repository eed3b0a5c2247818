---------------------------- MODULE EventStream ----------------------------
(***************************************************************************)
(* The event stream of one session of agents/doric, from concurrent        *)
(* appends through PostgreSQL to the Socket.IO subscribers and the events  *)
(* endpoint.  Appends are serialized per session by a chain of promises;   *)
(* a subscriber registers first, reads the row and the stored events in    *)
(* two parallel queries and buffers what is published meanwhile.           *)
(*                                                                         *)
(* An event is its sequence number and a row its version. Updates of the   *)
(* row are published by the operations that made or found them, each when  *)
(* its own continuation runs. The reply to an append's commit publishes    *)
(* the event and frees the lock in one stretch: the next append first      *)
(* awaits a query, so no other reply can come in between. What a socket    *)
(* emits is what its client is sent; a lost connection cuts the rest off   *)
(* and the client connects again with a cursor of its choice.              *)
(***************************************************************************)
EXTENDS Integers, Sequences, FiniteSets, SequencesExt

CONSTANTS
    Writers,        \* operations that append events to the session
    Updaters,       \* operations that change the row and publish it
    Clients,        \* clients of the /sessions namespace
    MaxEvents,      \* bound on the sequences, and on the clients' cursors
    MaxVersions,    \* bound on the updates of the row
    MaxConnections  \* bound on the connections of a client

ASSUME EventsAreCounted == MaxEvents \in Nat

VARIABLES
    row,           \* the session row
    stored,        \* the sequences of the stored events
    tail,          \* eventTails: who waits for or holds the lock, in order
    writer,        \* where each append is, and the sequence it computed
    updater,       \* the version that each operation is yet to publish
    announced,     \* the version that was published last
    deleting,      \* whether the deletion is yet to be published
    subscription,  \* what the server keeps for the socket of each client
    client         \* what the client of that socket was sent

updates == <<updater, announced, deleting>>
vars == <<row, stored, tail, writer, updates, subscription, client>>

Sequences1 == 1..MaxEvents

None == -1

\* The sequence of a set's members from the lowest to the highest.
Ascending(S) ==
    [i \in 1..Cardinality(S) |-> CHOOSE n \in S : Cardinality({k \in S : k < n}) = i - 1]

Init ==
    /\ row = [exists |-> TRUE, lastSequence |-> 0, version |-> 0]
    /\ stored = {}
    /\ tail = <<>>
    /\ writer = [w \in Writers |-> [pc |-> "idle", sequence |-> 0]]
    /\ updater = [u \in Updaters |-> None]
    /\ announced = 0
    /\ deleting = FALSE
    /\ subscription = [c \in Clients |->
          [status |-> "off", lastSequence |-> 0, buffered |-> {}, update |-> None,
           deleted |-> FALSE, record |-> None, events |-> {}, queried |-> FALSE]]
    /\ client = [c \in Clients |->
          [from |-> 0, sent |-> <<>>, version |-> None, gone |-> FALSE, connections |-> 0]]

-----------------------------------------------------------------------------
(* serialized, append and acceptPrompt *)

Holds(w) == tail # <<>> /\ Head(tail) = w

Append1(w) ==
    /\ writer[w].pc = "idle" /\ row.exists
    /\ writer' = [writer EXCEPT ![w].pc = "waiting"]
    /\ tail' = Append(tail, w)
    /\ UNCHANGED <<row, stored, updates, subscription, client>>

Unlock(w) ==
    /\ writer' = [writer EXCEPT ![w] = [pc |-> "idle", sequence |-> 0]]
    /\ tail' = RemoveFirst(tail, w)

\* The transaction reads lastSequence; without a row it throws.
ReadSequence(w) ==
    /\ writer[w].pc = "waiting" /\ Holds(w)
    /\ \/ /\ row.exists /\ row.lastSequence < MaxEvents
          /\ writer' = [writer EXCEPT ![w] = [pc |-> "writing",
                                              sequence |-> row.lastSequence + 1]]
          /\ UNCHANGED tail
       \/ ~row.exists /\ Unlock(w)
    /\ UNCHANGED <<row, stored, updates, subscription, client>>

\* The transaction commits the new lastSequence and the event.  A sequence
\* already stored would violate the primary key and a deleted row the update.
Commit(w) ==
    /\ writer[w].pc = "writing"
    /\ \/ /\ row.exists /\ writer[w].sequence \notin stored
          /\ row' = [row EXCEPT !.lastSequence = writer[w].sequence]
          /\ stored' = stored \cup {writer[w].sequence}
          /\ writer' = [writer EXCEPT ![w].pc = "committed"]
          /\ UNCHANGED tail
       \/ /\ ~row.exists \/ writer[w].sequence \in stored
          /\ Unlock(w)
          /\ UNCHANGED <<row, stored>>
    /\ UNCHANGED <<updates, subscription, client>>

\* The database fails the transaction: nothing is stored or published.
Abort(w) ==
    /\ writer[w].pc = "writing"
    /\ Unlock(w)
    /\ UNCHANGED <<row, stored, updates, subscription, client>>

-----------------------------------------------------------------------------
(* The publisher *)

Subscribed(c) == subscription[c].status \in {"replaying", "ready"}

\* emitEvent drops what is not beyond the last sequence sent.
Fresh(events, lastSequence) == {n \in events : n > lastSequence}

Highest(events, default) ==
    IF events = {} THEN default ELSE CHOOSE n \in events : \A k \in events : k <= n

\* Bug: an event published during the replay is left to the replay.
PublishEvent_NoBuffer(n) ==
    LET live(c) == IF subscription[c].status = "ready"
                   THEN Fresh({n}, subscription[c].lastSequence) ELSE {}
    IN  /\ subscription' = [c \in Clients |-> [subscription[c] EXCEPT
              !.lastSequence = Highest(live(c), @)]]
        /\ client' = [c \in Clients |-> [client[c] EXCEPT !.sent = @ \o Ascending(live(c))]]

\* event: subscribers that replay buffer it, the others are sent it.  A set
\* holds the buffer because flush sorts it and emitEvent drops duplicates.
PublishEvent(n) ==
    LET live(c) == IF subscription[c].status = "ready"
                   THEN Fresh({n}, subscription[c].lastSequence) ELSE {}
    IN  /\ subscription' = [c \in Clients |-> [subscription[c] EXCEPT
              !.buffered = IF subscription[c].status = "replaying" THEN @ \cup {n} ELSE @,
              !.lastSequence = Highest(live(c), @)]]
        /\ client' = [c \in Clients |-> [client[c] EXCEPT !.sent = @ \o Ascending(live(c))]]

\* The reply to the commit frees the lock and publishes.
Publish(w) ==
    /\ writer[w].pc = "committed"
    /\ Unlock(w)
    /\ PublishEvent(writer[w].sequence)
    /\ UNCHANGED <<row, stored, updates>>

\* A statement changes the row: UPDATE returns the row it wrote, updateMany
\* only counts.  Nobody waits for the update of another: terminate does not
\* wait for the lifecycle, nor for another terminate.
WriteRow(u) ==
    /\ updater[u] = None /\ row.exists /\ row.version < MaxVersions
    /\ row' = [row EXCEPT !.version = @ + 1]
    /\ updater' \in {updater, [updater EXCEPT ![u] = row.version + 1]}
    /\ UNCHANGED <<stored, tail, writer, announced, deleting, subscription, client>>

\* The row is read behind an updateMany, or because it needs no change: a
\* session that is cancelling or terminal is only found by terminate.
ReadRow(u) ==
    /\ updater[u] = None /\ row.exists
    /\ updater' = [updater EXCEPT ![u] = row.version]
    /\ UNCHANGED <<row, stored, tail, writer, announced, deleting, subscription, client>>

\* The row that was returned is not published: it is not running, it is
\* written once more, or the lifecycle fails.
Discard(u) ==
    /\ updater[u] # None
    /\ updater' = [updater EXCEPT ![u] = None]
    /\ UNCHANGED <<row, stored, tail, writer, announced, deleting, subscription, client>>

\* Bug: an update published during the replay is left to the replay.
PublishUpdate_NoBuffer(u) ==
    /\ updater[u] # None
    /\ updater' = [updater EXCEPT ![u] = None]
    /\ announced' = updater[u]
    /\ client' = [c \in Clients |-> [client[c] EXCEPT
          !.version = IF subscription[c].status = "ready" THEN updater[u] ELSE @]]
    /\ UNCHANGED <<row, stored, tail, writer, deleting, subscription>>

\* updated: what is published is the row that the statement returned, however
\* old it is by now.  Those that replay keep it for the end of their replay.
PublishUpdate(u) ==
    /\ updater[u] # None
    /\ updater' = [updater EXCEPT ![u] = None]
    /\ announced' = updater[u]
    /\ subscription' = [c \in Clients |-> [subscription[c] EXCEPT
          !.update = IF subscription[c].status = "replaying" THEN updater[u] ELSE @]]
    /\ client' = [c \in Clients |-> [client[c] EXCEPT
          !.version = IF subscription[c].status = "ready" THEN updater[u] ELSE @]]
    /\ UNCHANGED <<row, stored, tail, writer, deleting>>

\* DELETE of the row; the events go with it.  Updates may still be on their
\* way to the publisher.
Delete ==
    /\ row.exists
    /\ row' = [row EXCEPT !.exists = FALSE]
    /\ stored' = {}
    /\ deleting' = TRUE
    /\ UNCHANGED <<tail, writer, updater, announced, subscription, client>>

\* deleted: those that replay are told when they are done, the others now.
PublishDeletion ==
    /\ deleting
    /\ deleting' = FALSE
    /\ subscription' = [c \in Clients |-> [subscription[c] EXCEPT
          !.deleted = @ \/ subscription[c].status = "replaying",
          !.status = IF @ = "ready" THEN "off" ELSE @]]
    /\ client' = [c \in Clients |-> [client[c] EXCEPT
          !.gone = @ \/ subscription[c].status = "ready"]]
    /\ UNCHANGED <<row, stored, tail, writer, updater, announced>>

-----------------------------------------------------------------------------
(* A connection *)

\* connection: subscribe, then start both queries.
Connect(c) ==
    /\ ~Subscribed(c) /\ client[c].connections < MaxConnections
    /\ \E from \in 0..MaxEvents :
          /\ client' = [client EXCEPT ![c] =
                [from |-> from, sent |-> <<>>, version |-> None, gone |-> FALSE,
                 connections |-> @.connections + 1]]
          /\ subscription' = [subscription EXCEPT ![c] =
                [status |-> "replaying", lastSequence |-> from, buffered |-> {},
                 update |-> None, deleted |-> FALSE, record |-> None, events |-> {},
                 queried |-> FALSE]]
    /\ UNCHANGED <<row, stored, tail, writer, updates>>

\* store.find; a row that is gone keeps its version.
ReadRecord(c) ==
    /\ subscription[c].status = "replaying" /\ subscription[c].record = None
    /\ subscription' = [subscription EXCEPT ![c].record = row.version]
    /\ UNCHANGED <<row, stored, tail, writer, updates, client>>

\* store.eventsAfter.
ReadEvents(c) ==
    /\ subscription[c].status = "replaying" /\ ~subscription[c].queried
    /\ subscription' = [subscription EXCEPT
          ![c].queried = TRUE,
          ![c].events = {n \in stored : n > client[c].from}]
    /\ UNCHANGED <<row, stored, tail, writer, updates, client>>

\* Bug: the subscription is ready before its buffer is emitted, and stays so.
Snapshot_NoFlush(c) ==
    LET s == subscription[c]
    IN  /\ s.status = "replaying" /\ s.record # None /\ s.queried
        /\ client' = [client EXCEPT
              ![c].sent = @ \o Ascending(s.events), ![c].version = s.record,
              ![c].gone = s.deleted]
        /\ subscription' = [subscription EXCEPT ![c] =
              [s EXCEPT !.status = IF s.deleted THEN "off" ELSE "ready",
                        !.lastSequence = Highest(s.events, client[c].from)]]
        /\ UNCHANGED <<row, stored, tail, writer, updates>>

\* Both queries have returned: the snapshot is emitted and the buffer flushed.
Snapshot(c) ==
    LET s == subscription[c]
        last == Highest(s.events, client[c].from)
        flushed == Fresh(s.buffered, last)
    IN  /\ s.status = "replaying" /\ s.record # None /\ s.queried
        /\ client' = [client EXCEPT
              ![c].sent = @ \o Ascending(s.events) \o Ascending(flushed),
              ![c].version = IF s.update = None THEN s.record ELSE s.update,
              ![c].gone = s.deleted]
        /\ subscription' = [subscription EXCEPT ![c] =
              [s EXCEPT !.status = IF s.deleted THEN "off" ELSE "ready",
                        !.lastSequence = Highest(flushed, last),
                        !.buffered = {}, !.update = None, !.deleted = FALSE,
                        !.record = None, !.events = {}, !.queried = FALSE]]
        /\ UNCHANGED <<row, stored, tail, writer, updates>>

Disconnect(c) ==
    /\ Subscribed(c)
    /\ subscription' = [subscription EXCEPT ![c] = [@ EXCEPT
          !.status = "off", !.buffered = {}, !.update = None, !.deleted = FALSE,
          !.record = None, !.events = {}, !.queried = FALSE]]
    /\ UNCHANGED <<row, stored, tail, writer, updates, client>>

-----------------------------------------------------------------------------

AppendSteps(w) == ReadSequence(w) \/ Commit(w) \/ Publish(w)
Replay(c) == ReadRecord(c) \/ ReadEvents(c) \/ Snapshot(c)

Next ==
    \/ \E w \in Writers : Append1(w) \/ AppendSteps(w) \/ Abort(w)
    \/ \E c \in Clients : Connect(c) \/ Replay(c) \/ Disconnect(c)
    \/ \E u \in Updaters : WriteRow(u) \/ ReadRow(u) \/ Discard(u) \/ PublishUpdate(u)
    \/ Delete \/ PublishDeletion

Spec == Init /\ [][Next]_vars

\* Queries return; nobody has to append, connect or disconnect.
FairSpec ==
    /\ Spec
    /\ \A w \in Writers : WF_vars(AppendSteps(w))
    /\ \A c \in Clients : WF_vars(Replay(c))

-----------------------------------------------------------------------------
(* Properties *)

\* Concurrent appends never collide, and the sequences stay contiguous.
SequencesContiguous ==
    /\ row.exists => stored = 1..row.lastSequence
    /\ \A w \in Writers : writer[w].pc = "writing" => writer[w].sequence = row.lastSequence + 1

\* A client that has its snapshot never knows an older row than the one that
\* was published last: no publication is lost during its replay, and none gives
\* way to the older record of a query.  The row published last may itself be
\* older than the table's, for nothing orders the publications.
UpdatesReachSubscribers ==
    \A c \in Clients :
        subscription[c].status = "ready" => client[c].version >= announced

\* The stream implements the feed each client is promised: no gap and no
\* duplicate where replay meets live delivery, and nothing after a deletion;
\* and the log is the contiguous one that the feed speaks of.
Feed == INSTANCE EventFeed WITH
            Cursors <- 0..MaxEvents,
            log <- row.lastSequence, exists <- row.exists,
            feed <- [c \in Clients |->
                       [from |-> client[c].from, sent |-> client[c].sent, gone |-> client[c].gone]]

FeedImplemented == Feed!FeedSpec /\ []SequencesContiguous

\* Every stored event beyond its cursor reaches a client that stays connected,
\* unless the session is deleted first.
EventsArrive ==
    \A c \in Clients : \A n \in Sequences1 :
        n \in stored /\ n > client[c].from /\ Subscribed(c)
            ~> Contains(client[c].sent, n) \/ ~Subscribed(c) \/ ~row.exists
=============================================================================
