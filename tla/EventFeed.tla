----------------------------- MODULE EventFeed -----------------------------
(***************************************************************************)
(* What the /sessions namespace promises a client: from its cursor on, it  *)
(* is sent every event of the session once, in order and without a gap,    *)
(* and never an event that is not stored.  How replay and live delivery    *)
(* share that work is the business of EventStream, which implements this.  *)
(* Once the session is deleted the replay may find its events gone, and    *)
(* only order and uniqueness are left; the deletion is announced last.     *)
(***************************************************************************)
EXTENDS Naturals, Sequences

CONSTANTS Clients, Cursors

VARIABLES
    log,    \* how many events were stored; their sequences are 1..log
    exists, \* whether the session exists
    feed    \* per client: its cursor, what this connection was sent, and whether
            \* that included the deletion

feedVars == <<log, exists, feed>>

FeedInit ==
    /\ log = 0
    /\ exists = TRUE
    /\ feed = [c \in Clients |-> [from |-> 0, sent |-> <<>>, gone |-> FALSE]]

\* The last sequence a connection knows of.
Position(f) == IF f.sent = <<>> THEN f.from ELSE f.sent[Len(f.sent)]

Store == exists /\ log' = log + 1 /\ UNCHANGED <<exists, feed>>

Delete == exists /\ exists' = FALSE /\ UNCHANGED <<log, feed>>

\* A connection starts with a cursor of the client's choice.
Opens(g) == \E from \in Cursors : g = [from |-> from, sent |-> <<>>, gone |-> FALSE]

\* Stored events beyond the position are sent in order; as long as the
\* session exists they are the next ones.
Sends(f, g) ==
    /\ ~f.gone
    /\ \E k \in 1..log : \E batch \in [1..k -> 1..log] :
          /\ batch[1] > Position(f)
          /\ \A i \in 1..(k - 1) : batch[i] < batch[i + 1]
          /\ exists => \A i \in 1..k : batch[i] = Position(f) + i
          /\ g = [from |-> f.from, sent |-> f.sent \o batch, gone |-> FALSE]

\* The replay may hold events up to the announcement that comes with it.
Announces(f, g) ==
    /\ ~exists
    /\ \E k \in 0..log : \E batch \in [1..k -> 1..log] :
          /\ k > 0 => ~f.gone /\ batch[1] > Position(f)
          /\ \A i \in 1..(k - 1) : batch[i] < batch[i + 1]
          /\ g = [from |-> f.from, sent |-> f.sent \o batch, gone |-> TRUE]

\* A publication reaches the connections of several clients at once.
Deliver ==
    /\ feed' = [c \in Clients |-> feed'[c]]
    /\ \A c \in Clients :
          \/ feed'[c] = feed[c]
          \/ Opens(feed'[c])
          \/ Sends(feed[c], feed'[c])
          \/ Announces(feed[c], feed'[c])
    /\ UNCHANGED <<log, exists>>

FeedNext == Store \/ Delete \/ Deliver

FeedSpec == FeedInit /\ [][FeedNext]_feedVars
=============================================================================
