---------------------------- MODULE PartsProofs ----------------------------
(***************************************************************************)
(* The parts of the host that stand alone.  Five guard one record that     *)
(* many calls share: the configuration of ConfigService, the values of the *)
(* in-memory SessionStore, the callback server and the stored grant of     *)
(* OAuth, the auth.json of CodexAuth and the bundle of OkfGeneration.      *)
(*                                                                         *)
(* ConfigService serves the newest configuration, for any number of        *)
(* requests and crashes.  The promise chain of exclusive is a linked list: *)
(* each replacement knows only the one before it.  The invariant says that *)
(* the list of those that have not ended exists, in order, and that only   *)
(* its head is past the wait; so one transaction at a time is between its  *)
(* commit and its activation.                                              *)
(*                                                                         *)
(* SessionStore keeps the lives of an id apart, for any number of ids,     *)
(* calls and deletions.  The property is not inductive: that a late        *)
(* creation finds another token than its own follows from what is known of *)
(* the creations of the current life, namely where they are to be found.   *)
(*                                                                         *)
(* OAuth keeps concurrent logins apart and its stored refresh token live,  *)
(* and CodexAuth keeps its login through refreshes, for any number of      *)
(* calls.  Both rest on who may know a token: what an endpoint rotates is  *)
(* known only to the call that brings it to the store or to the file.      *)
(*                                                                         *)
(* OkfGeneration leaves the bundle of what it read, for any number of runs *)
(* and sources: while a run is alone nobody else touches the bundle, and   *)
(* whatever it has read is under work or has its concept.                  *)
(*                                                                         *)
(* Docker implements the provider that packages/sandbox asks for, and its  *)
(* rules never meet the traffic of a stranger, for any number of           *)
(* sandboxes, addresses and faults.  What a cleanup may leave behind       *)
(* depends on how far the provisioning came and on which steps of this or  *)
(* of an earlier disposal failed; the invariant says, for each place of    *)
(* the code, what a sandbox may hold there and which local remembers it.   *)
(***************************************************************************)
EXTENDS ConfigService, SessionStore, OAuth, CodexAuth, OkfGeneration, Docker,
        Sequences, FiniteSetTheorems, TLAPS

-----------------------------------------------------------------------------
(* ConfigService *)

\* The mark of an absent request is not a request.
NobodyIsApart == Nobody \notin Requests

Rows == [config : Requests \union {Default}, revision : Nat]

RequestRecords ==
    [stage : {"idle", "queued", "building", "built", "committed", "replaced", "failed"},
     previous : Requests \union {Nobody}, snapshot : Rows \union {Nobody}]

ConfigTypeOK ==
    /\ row \in Rows
    /\ active \in [providers : Requests \union {Default}, snapshot : Rows]
    /\ tail \in Requests \union {Nobody}
    /\ request \in [Requests -> RequestRecords]
    /\ drifted \in BOOLEAN

HasEnded(r) == request[r].stage \in {"replaced", "failed"}
Live(r) == request[r].stage \in {"queued", "building", "built", "committed"}

\* q is the chain of exclusive: the replacements that have not ended, in order.
Chain(q) ==
    /\ q \in Seq(Requests)
    /\ \A r \in Requests : Live(r) <=> \E i \in 1..Len(q) : q[i] = r
    /\ \A i, j \in 1..Len(q) : q[i] = q[j] => i = j
    /\ \A i \in 2..Len(q) : /\ request[q[i]].previous = q[i - 1]
                            /\ request[q[i]].stage = "queued"
    /\ Len(q) > 0 => tail = q[Len(q)]
    /\ Len(q) = 0 => tail = Nobody \/ HasEnded(tail)

\* A committed replacement holds the snapshot that is in the row.
CommitsAreCurrent ==
    \A r \in Requests : InStage(r, "committed") => request[r].snapshot = row /\ row.config = r

ConfigInv ==
    /\ ConfigTypeOK
    /\ \E q \in Seq(Requests) : Chain(q)
    /\ CommitsAreCurrent
    /\ NewestConfigurationServes

\* Whoever starts or has started is the head of the chain.
LEMMA OnlyTheHeadRuns ==
    ASSUME NobodyIsApart, ConfigTypeOK, NEW q, Chain(q), NEW r \in Requests, Live(r),
           request[r].stage # "queued" \/ MayStart(r)
    PROVE  Len(q) > 0 /\ q[1] = r
<1>1. PICK i \in 1..Len(q) : q[i] = r
    BY DEF Chain
<1>2. Len(q) \in Nat
    BY DEF Chain
<1>3. CASE i # 1
    <2>1. i \in 2..Len(q)
        BY <1>1, <1>2, <1>3
    <2>2. /\ request[r].previous = q[i - 1] /\ request[r].stage = "queued"
          /\ i - 1 \in 1..Len(q)
        BY <1>1, <1>2, <2>1 DEF Chain
    <2>3. q[i - 1] \in Requests
        BY <2>2 DEF Chain
    <2>4. Live(q[i - 1])
        BY <2>2, <2>3 DEF Chain
    <2>5. request[request[r].previous].stage \in {"replaced", "failed"}
        BY <2>2, <2>3 DEF MayStart, NobodyIsApart
    <2> QED
        BY <2>2, <2>4, <2>5 DEF Live
<1> QED
    BY <1>1, <1>2, <1>3

\* A step of one request that leaves it live leaves the chain as it is, if only
\* its head may be past the wait.
LEMMA StepKeepsChain ==
    ASSUME NobodyIsApart, ConfigTypeOK, NEW q \in Seq(Requests), Chain(q), NEW r \in Requests, Live(r),
           request[r].stage # "queued" \/ MayStart(r),
           tail' = tail,
           \A s \in Requests : s # r => request'[s] = request[s],
           request'[r].stage \in {"building", "built", "committed"},
           request'[r].previous = request[r].previous
    PROVE  Chain(q)'
<1>1. Len(q) > 0 /\ q[1] = r
    BY OnlyTheHeadRuns
<1>2. \A i \in 2..Len(q) : q[i] \in Requests /\ q[i] # r
    BY <1>1 DEF Chain
<1>3. \A s \in Requests : Live(s)' <=> Live(s)
    BY DEF Live
<1>4. \A i \in 2..Len(q) : request'[q[i]] = request[q[i]]
    BY <1>2
<1>5. \A s \in Requests : Live(s)' <=> \E i \in 1..Len(q) : q[i] = s
    BY <1>3 DEF Chain
<1>6. \A i \in 2..Len(q) : /\ request'[q[i]].previous = q[i - 1]
                           /\ request'[q[i]].stage = "queued"
    BY <1>4 DEF Chain
<1> QED
    BY <1>1, <1>5, <1>6 DEF Chain

\* When the head ends, the chain goes on without it.
LEMMA EndShortensChain ==
    ASSUME NobodyIsApart, ConfigTypeOK, NEW q \in Seq(Requests), Chain(q), NEW r \in Requests, Live(r),
           request[r].stage # "queued",
           tail' = tail,
           \A s \in Requests : s # r => request'[s] = request[s],
           request'[r].stage \in {"replaced", "failed"},
           request'[r].previous = request[r].previous
    PROVE  \E p \in Seq(Requests) : Chain(p)'
<1>1. Len(q) > 0 /\ q[1] = r /\ q # <<>>
    BY OnlyTheHeadRuns
<1> DEFINE p == Tail(q)
<1>2. /\ p \in Seq(Requests) /\ Len(p) = Len(q) - 1 /\ Len(q) \in Nat
      /\ \A i \in 1..Len(p) : p[i] = q[i + 1]
    BY <1>1
<1> HIDE DEF p
<1>3. \A i \in 1..Len(p) : i + 1 \in 2..Len(q) /\ i + 1 \in 1..Len(q)
    BY <1>2
<1>4. \A i \in 1..Len(p) : p[i] \in Requests /\ p[i] # r
    BY <1>1, <1>2, <1>3 DEF Chain
<1>5. \A s \in Requests : Live(s)' <=> \E i \in 1..Len(p) : p[i] = s
    <2> TAKE s \in Requests
    <2>1. CASE s = r
        BY <1>4, <2>1 DEF Live
    <2>2. CASE s # r
        <3>1. Live(s)' <=> Live(s)
            BY <2>2 DEF Live
        <3>2. ASSUME NEW i \in 1..Len(q), q[i] = s
              PROVE  \E j \in 1..Len(p) : p[j] = s
            <4>1. i # 1
                BY <1>1, <2>2, <3>2
            <4>2. i - 1 \in 1..Len(p) /\ (i - 1) + 1 = i
                BY <4>1, <1>2
            <4> QED
                BY <4>2, <1>2, <3>2
        <3>3. (\E i \in 1..Len(p) : p[i] = s) => Live(s)
            BY <1>2, <1>3 DEF Chain
        <3> QED
            BY <3>1, <3>2, <3>3 DEF Chain
    <2> QED
        BY <2>1, <2>2
<1>6. \A i, j \in 1..Len(p) : p[i] = p[j] => i = j
    <2> SUFFICES ASSUME NEW i \in 1..Len(p), NEW j \in 1..Len(p), p[i] = p[j]
                 PROVE  i = j
        OBVIOUS
    <2>1. q[i + 1] = q[j + 1]
        BY <1>2
    <2>2. i + 1 = j + 1
        BY <2>1, <1>3 DEF Chain
    <2> QED
        BY <2>2, <1>2
<1>7. \A i \in 2..Len(p) : /\ request'[p[i]].previous = p[i - 1]
                           /\ request'[p[i]].stage = "queued"
    <2> TAKE i \in 2..Len(p)
    <2>1. /\ i \in 1..Len(p) /\ i - 1 \in 1..Len(p) /\ (i - 1) + 1 = i /\ i + 1 \in 2..Len(q)
          /\ (i + 1) - 1 = i
        BY <1>2
    <2>2. p[i] = q[i + 1] /\ p[i - 1] = q[i]
        BY <1>2, <2>1
    <2>3. request[q[i + 1]].previous = q[(i + 1) - 1] /\ request[q[i + 1]].stage = "queued"
        BY <2>1 DEF Chain
    <2>4. request'[p[i]] = request[p[i]]
        BY <1>4, <2>1
    <2> QED
        BY <2>1, <2>2, <2>3, <2>4
<1>8. Len(p) > 0 => tail' = p[Len(p)]
    BY <1>2 DEF Chain
<1>9. Len(p) = 0 => HasEnded(tail)'
    <2> HAVE Len(p) = 0
    <2>1. Len(q) = 1
        BY <1>2
    <2>2. tail = r
        BY <1>1, <2>1 DEF Chain
    <2> QED
        BY <2>2 DEF HasEnded
<1> QED
    BY <1>2, <1>5, <1>6, <1>7, <1>8, <1>9 DEF Chain

\* A replacement that is called goes to the end of the chain.
LEMMA ReplaceExtendsChain ==
    ASSUME NobodyIsApart, ConfigTypeOK, NEW q \in Seq(Requests), Chain(q), NEW r \in Requests, Replace(r)
    PROVE  \E p \in Seq(Requests) : Chain(p)'
<1> DEFINE p == Append(q, r)
<1>1. /\ p \in Seq(Requests) /\ Len(p) = Len(q) + 1 /\ Len(q) \in Nat
      /\ \A i \in 1..Len(q) : p[i] = q[i]
      /\ p[Len(q) + 1] = r
    OBVIOUS
<1> HIDE DEF p
<1>2. /\ request[r].stage = "idle" /\ tail' = r
      /\ \A s \in Requests : s # r => request'[s] = request[s]
      /\ request'[r].stage = "queued" /\ request'[r].previous = tail
    BY DEF Replace, InStage, ConfigTypeOK
<1>3. \A i \in 1..Len(q) : q[i] \in Requests /\ q[i] # r
    BY <1>2 DEF Chain, Live
<1>4. \A s \in Requests : Live(s)' <=> \E i \in 1..Len(p) : p[i] = s
    <2> TAKE s \in Requests
    <2>1. CASE s = r
        <3>1. Len(p) \in 1..Len(p) /\ p[Len(p)] = s
            BY <1>1, <2>1
        <3> QED
            BY <1>2, <2>1, <3>1 DEF Live
    <2>2. CASE s # r
        <3>1. Live(s)' <=> Live(s)
            BY <1>2, <2>2 DEF Live
        <3>2. ASSUME NEW i \in 1..Len(p), p[i] = s
              PROVE  \E j \in 1..Len(q) : q[j] = s
            BY <1>1, <2>2, <3>2
        <3>3. ASSUME NEW j \in 1..Len(q), q[j] = s
              PROVE  \E i \in 1..Len(p) : p[i] = s
            <4>1. j \in 1..Len(p)
                BY <1>1
            <4> QED
                BY <1>1, <3>3, <4>1
        <3> QED
            BY <3>1, <3>2, <3>3 DEF Chain
    <2> QED
        BY <2>1, <2>2
<1>5. \A i, j \in 1..Len(p) : p[i] = p[j] => i = j
    <2> SUFFICES ASSUME NEW i \in 1..Len(p), NEW j \in 1..Len(p), p[i] = p[j]
                 PROVE  i = j
        OBVIOUS
    <2>1. CASE i # Len(p) /\ j # Len(p)
        <3>1. i \in 1..Len(q) /\ j \in 1..Len(q) /\ q[i] = q[j]
            BY <1>1, <2>1
        <3> QED
            BY <3>1 DEF Chain
    <2>2. CASE i = Len(p) \/ j = Len(p)
        BY <1>1, <1>3, <2>2
    <2> QED
        BY <2>1, <2>2
<1>6. \A i \in 2..Len(p) : /\ request'[p[i]].previous = p[i - 1]
                           /\ request'[p[i]].stage = "queued"
    <2> TAKE i \in 2..Len(p)
    <2>1. CASE i = Len(p)
        <3>1. Len(q) > 0 /\ i - 1 = Len(q) /\ p[i] = r /\ p[i - 1] = q[Len(q)]
            BY <1>1, <2>1
        <3>2. tail = q[Len(q)]
            BY <3>1 DEF Chain
        <3> QED
            BY <1>2, <3>1, <3>2
    <2>2. CASE i # Len(p)
        <3>1. i \in 2..Len(q) /\ i \in 1..Len(q) /\ i - 1 \in 1..Len(q)
            BY <1>1, <2>2
        <3>2. p[i] = q[i] /\ p[i - 1] = q[i - 1] /\ request'[q[i]] = request[q[i]]
            BY <1>1, <1>2, <1>3, <3>1
        <3> QED
            BY <3>1, <3>2 DEF Chain
    <2> QED
        BY <2>1, <2>2
<1>7. Len(p) > 0 /\ tail' = p[Len(p)]
    BY <1>1, <1>2
<1> QED
    BY <1>1, <1>4, <1>5, <1>6, <1>7 DEF Chain

\* The process starts with an empty chain, the first time and after a crash.
LEMMA NobodyWaits ==
    ASSUME \A r \in Requests : request[r].stage \in {"idle", "replaced", "failed"}, tail = Nobody
    PROVE  \E q \in Seq(Requests) : Chain(q)
<1>1. <<>> \in Seq(Requests) /\ Len(<<>>) = 0
    OBVIOUS
<1>2. Chain(<<>>)
    BY <1>1 DEF Chain, Live
<1> QED
    BY <1>1, <1>2

-----------------------------------------------------------------------------
LEMMA ConfigInitEstablishesInv ==
    ASSUME NobodyIsApart, ConfigInit
    PROVE  ConfigInv
<1>1. ConfigTypeOK
    BY DEF ConfigInit, ConfigTypeOK, Generation, Rows, RequestRecords
<1>2. \E q \in Seq(Requests) : Chain(q)
    BY NobodyWaits DEF ConfigInit
<1>3. CommitsAreCurrent /\ NewestConfigurationServes
    BY DEF ConfigInit, CommitsAreCurrent, NewestConfigurationServes, InStage, Generation
<1> QED
    BY <1>1, <1>2, <1>3 DEF ConfigInv

LEMMA ConfigNextKeepsType ==
    ASSUME ConfigTypeOK, CommitsAreCurrent, [ConfigNext]_configVars
    PROVE  ConfigTypeOK'
<1>1. ASSUME NEW r \in Requests, Replace(r)
      PROVE  ConfigTypeOK'
    BY <1>1, ZenonT(30) DEF ConfigTypeOK, Replace, RequestRecords
<1>2. ASSUME NEW r \in Requests, Start(r) \/ Build(r) \/ Rollback(r) \/ ReplyLost(r)
      PROVE  ConfigTypeOK'
    <2>1. PICK stage \in {"building", "built", "failed"} : ToStage(r, stage)
        BY <1>2 DEF Start, Build, Rollback, ReplyLost
    <2>2. request[r] \in RequestRecords
        BY DEF ConfigTypeOK
    <2>3. [request[r] EXCEPT !.stage = stage] \in RequestRecords
        BY <2>2 DEF RequestRecords
    <2>4. request' \in [Requests -> RequestRecords]
        BY <2>1, <2>3 DEF ConfigTypeOK, ToStage
    <2> QED
        BY <1>2, <2>4 DEF ConfigTypeOK, Start, Build, Rollback, ReplyLost
<1>3. ASSUME NEW r \in Requests, Commit(r)
      PROVE  ConfigTypeOK'
    <2>1. row' \in Rows
        BY <1>3 DEF Commit, ConfigTypeOK, Rows
    <2>2. [request[r] EXCEPT !.stage = "committed", !.snapshot = row'] \in RequestRecords
        BY <2>1 DEF ConfigTypeOK, RequestRecords
    <2>3. request' = [request EXCEPT ![r] = [request[r] EXCEPT !.stage = "committed", !.snapshot = row']]
        BY <1>3 DEF Commit
    <2>4. request' \in [Requests -> RequestRecords]
        BY <2>2, <2>3 DEF ConfigTypeOK
    <2> QED
        BY <1>3, <2>1, <2>4 DEF ConfigTypeOK, Commit
<1>4. ASSUME NEW r \in Requests, Activate(r)
      PROVE  ConfigTypeOK'
    <2>1. [request[r] EXCEPT !.stage = "replaced"] \in RequestRecords
        BY DEF ConfigTypeOK, RequestRecords
    <2>2. request' \in [Requests -> RequestRecords]
        BY <1>4, <2>1 DEF ConfigTypeOK, Activate, ToStage
    <2>3. request[r].snapshot = row
        BY <1>4 DEF Activate, CommitsAreCurrent
    <2>4. active' \in [providers : Requests \union {Default}, snapshot : Rows]
        BY <1>4, <2>3 DEF ConfigTypeOK, Activate
    <2> QED
        BY <1>4, <2>2, <2>4 DEF ConfigTypeOK, Activate
<1>5. CASE Restart
    BY <1>5 DEF ConfigTypeOK, Restart, Generation, Rows, RequestRecords, InStage
<1>6. CASE UNCHANGED configVars
    BY <1>6 DEF ConfigTypeOK, configVars
<1> QED
    BY <1>1, <1>2, <1>3, <1>4, <1>5, <1>6 DEF ConfigNext

\* The chain survives every step.
LEMMA NextKeepsChain ==
    ASSUME NobodyIsApart, ConfigTypeOK, NEW q \in Seq(Requests), Chain(q), [ConfigNext]_configVars
    PROVE  \E p \in Seq(Requests) : Chain(p)'
<1>1. ASSUME NEW r \in Requests, Replace(r)
      PROVE  \E p \in Seq(Requests) : Chain(p)'
    BY <1>1, ReplaceExtendsChain
<1>2. ASSUME NEW r \in Requests, Start(r) \/ (Build(r) /\ ToStage(r, "built")) \/ Commit(r)
      PROVE  \E p \in Seq(Requests) : Chain(p)'
    <2>1. /\ Live(r) /\ (request[r].stage # "queued" \/ MayStart(r))
          /\ tail' = tail
          /\ \A s \in Requests : s # r => request'[s] = request[s]
          /\ request'[r].stage \in {"building", "built", "committed"}
          /\ request'[r].previous = request[r].previous
        BY <1>2 DEF Start, Build, Commit, ToStage, InStage, Live, ConfigTypeOK, RequestRecords
    <2>2. Chain(q)'
        BY <2>1, StepKeepsChain
    <2> QED
        BY <2>2
<1>3. ASSUME NEW r \in Requests,
             (Build(r) /\ ToStage(r, "failed")) \/ Rollback(r) \/ Activate(r) \/ ReplyLost(r)
      PROVE  \E p \in Seq(Requests) : Chain(p)'
    <2>1. /\ Live(r) /\ request[r].stage # "queued"
          /\ tail' = tail
          /\ \A s \in Requests : s # r => request'[s] = request[s]
          /\ request'[r].stage \in {"replaced", "failed"}
          /\ request'[r].previous = request[r].previous
        BY <1>3
           DEF Build, Rollback, Activate, ReplyLost, ToStage, InStage, Live, ConfigTypeOK,
               RequestRecords
    <2> QED
        BY <2>1, EndShortensChain
<1>4. CASE Restart
    <2>1. tail' = Nobody
        BY <1>4 DEF Restart
    <2>2. \A r \in Requests : request'[r].stage \in {"idle", "replaced", "failed"}
        BY <1>4 DEF Restart, InStage
    <2>3. <<>> \in Seq(Requests) /\ Len(<<>>) = 0
        OBVIOUS
    <2>4. Chain(<<>>)'
        BY <2>1, <2>2, <2>3 DEF Chain, Live
    <2> QED
        BY <2>3, <2>4
<1>5. CASE UNCHANGED configVars
    <2>1. Chain(q)'
        BY <1>5 DEF configVars, Chain, Live, HasEnded
    <2> QED
        BY <2>1
<1> QED
    BY <1>1, <1>2, <1>3, <1>4, <1>5 DEF ConfigNext, Build

\* Between its commit and its activation a replacement is alone, so what it
\* activates is the row.
LEMMA NextKeepsNewest ==
    ASSUME NobodyIsApart, ConfigTypeOK, NEW q \in Seq(Requests), Chain(q), CommitsAreCurrent,
           NewestConfigurationServes, [ConfigNext]_configVars
    PROVE  CommitsAreCurrent' /\ NewestConfigurationServes'
<1> USE DEF CommitsAreCurrent, NewestConfigurationServes, InStage, ToStage
<1>1. ASSUME NEW r \in Requests, Replace(r) \/ Start(r) \/ Build(r)
      PROVE  CommitsAreCurrent' /\ NewestConfigurationServes'
    <2>1. /\ row' = row /\ active' = active /\ drifted' = drifted
          /\ \A s \in Requests : /\ InStage(s, "committed")' <=> InStage(s, "committed")
                                 /\ request'[s].snapshot = request[s].snapshot
        BY <1>1 DEF Replace, Start, Build, ConfigTypeOK, RequestRecords
    <2> QED
        BY <2>1
<1>2. ASSUME NEW r \in Requests, NEW s \in Requests, request[r].stage \in {"built", "committed"},
             request[s].stage \in {"built", "committed"}
      PROVE  r = s
    BY <1>2, OnlyTheHeadRuns DEF Live
<1>3. ASSUME NEW r \in Requests, Rollback(r)
      PROVE  CommitsAreCurrent' /\ NewestConfigurationServes'
    <2>1. /\ row' = row /\ active' = active /\ drifted' = drifted
          /\ \A s \in Requests : /\ InStage(s, "committed")' <=> InStage(s, "committed")
                                 /\ request'[s].snapshot = request[s].snapshot
        BY <1>3 DEF Rollback, ConfigTypeOK, RequestRecords
    <2> QED
        BY <2>1
<1>4. ASSUME NEW r \in Requests, Commit(r)
      PROVE  CommitsAreCurrent' /\ NewestConfigurationServes'
    <2>1. /\ row' = [config |-> r, revision |-> row.revision + 1]
          /\ active' = active
          /\ request'[r].stage = "committed" /\ request'[r].snapshot = row'
        BY <1>4 DEF Commit, ConfigTypeOK, RequestRecords
    <2>2. \A s \in Requests : s # r => request'[s] = request[s]
        BY <1>4 DEF Commit, ConfigTypeOK
    <2>3. \A s \in Requests : s # r => request'[s].stage # "committed"
        BY <1>2, <1>4, <2>2 DEF Commit
    <2>4. active.snapshot.revision \in Nat /\ row.revision \in Nat
        BY DEF ConfigTypeOK, Rows
    <2> QED
        BY <2>1, <2>3, <2>4
<1>5. ASSUME NEW r \in Requests, Activate(r)
      PROVE  CommitsAreCurrent' /\ NewestConfigurationServes'
    <2>1. request[r].stage = "committed" /\ request[r].snapshot = row /\ row.config = r
        BY <1>5 DEF Activate
    <2>2. active' = [providers |-> r, snapshot |-> row] /\ row' = row
        BY <1>5, <2>1 DEF Activate
    <2>3. \A s \in Requests : request'[s].stage # "committed"
        BY <1>2, <1>5, <2>1 DEF Activate, ConfigTypeOK, RequestRecords
    <2>4. row.revision \in Nat
        BY DEF ConfigTypeOK, Rows
    <2> QED
        BY <2>1, <2>2, <2>3, <2>4
<1>6. ASSUME NEW r \in Requests, ReplyLost(r)
      PROVE  CommitsAreCurrent' /\ NewestConfigurationServes'
    <2>1. \A s \in Requests : request'[s].stage # "committed"
        BY <1>2, <1>6 DEF ReplyLost, ConfigTypeOK, RequestRecords
    <2>2. row' = row /\ active' = active /\ drifted' = TRUE
        BY <1>6 DEF ReplyLost
    <2> QED
        BY <2>1, <2>2
<1>7. CASE Restart
    <2>1. \A s \in Requests : request'[s].stage # "committed"
        BY <1>7 DEF Restart
    <2>2. row' = row /\ active' = [providers |-> row.config, snapshot |-> row]
        BY <1>7 DEF Restart, Generation
    <2>3. row.revision \in Nat
        BY DEF ConfigTypeOK, Rows
    <2> QED
        BY <2>1, <2>2, <2>3
<1>8. CASE UNCHANGED configVars
    BY <1>8 DEF configVars
<1> QED
    BY <1>1, <1>3, <1>4, <1>5, <1>6, <1>7, <1>8 DEF ConfigNext

LEMMA ConfigNextKeepsInv ==
    ASSUME NobodyIsApart, ConfigInv, [ConfigNext]_configVars
    PROVE  ConfigInv'
<1>1. PICK q \in Seq(Requests) : Chain(q)
    BY DEF ConfigInv
<1>2. ConfigTypeOK'
    BY ConfigNextKeepsType DEF ConfigInv
<1>3. \E p \in Seq(Requests) : Chain(p)'
    BY <1>1, NextKeepsChain DEF ConfigInv
<1>4. CommitsAreCurrent' /\ NewestConfigurationServes'
    BY <1>1, NextKeepsNewest DEF ConfigInv
<1> QED
    BY <1>2, <1>3, <1>4 DEF ConfigInv

\* The inductive invariant of createConfigService.
THEOREM ConfigInvariant ==
    ASSUME NobodyIsApart
    PROVE  ConfigSpec => []ConfigInv
<1>1. ConfigInit => ConfigInv
    BY ConfigInitEstablishesInv
<1>2. ConfigInv /\ [ConfigNext]_configVars => ConfigInv'
    BY ConfigNextKeepsInv
<1> QED
    BY <1>1, <1>2, PTL DEF ConfigSpec

\* The newest configuration serves, however replacements overlap, fail, lose
\* their reply or die with the process.
THEOREM NewestServes ==
    ASSUME NobodyIsApart
    PROVE  ConfigSpec => []NewestConfigurationServes
<1>1. ConfigInv => NewestConfigurationServes
    BY DEF ConfigInv
<1> QED
    BY <1>1, ConfigInvariant, PTL

-----------------------------------------------------------------------------
(* SessionStore *)

\* The mark of an absent value is not a value.
NoneIsApart ==
    /\ None \notin Creators
    /\ None \notin [id : Ids, from : Creators, life : Nat]

\* A creation in flight runs for its id in the current life.
FlightsAreCurrent ==
    \A i \in Ids : inFlight[i] # None =>
        /\ values[i] = None
        /\ creation[inFlight[i]] = "running"
        /\ call[inFlight[i]].id = i
        /\ call[inFlight[i]].life = life[i]

\* Creators were made in lives that have begun, and those they share were made before.
CallsAreOfTheirTime ==
    \A c \in Creators :
        /\ call[c] = None => creation[c] = "none"
        /\ call[c] # None => /\ call[c].life <= life[call[c].id]
                             /\ call[call[c].from] # None

\* The creations of the current life are where the next caller looks.
CurrentCreationsAreKnown ==
    \A k \in Creators : Alive(k) /\ call[k].life = life[call[k].id] =>
        /\ creation[k] = "running" => inFlight[call[k].id] = k
        /\ creation[k] = "made" => values[call[k].id] = k

Bookkeeping == FlightsAreCurrent /\ CallsAreOfTheirTime /\ CurrentCreationsAreKnown

StoreInv == StoreTypeOK /\ Bookkeeping /\ LivesAreSeparate

-----------------------------------------------------------------------------
\* The maps of createSessionStore start empty, and no call was made.
LEMMA StoreInitEstablishesInv ==
    ASSUME NoneIsApart
    PROVE  StoreInit => StoreInv
BY DEF StoreInit, StoreInv, StoreTypeOK, Bookkeeping, FlightsAreCurrent, CallsAreOfTheirTime,
       CurrentCreationsAreKnown, LivesAreSeparate, CreationsAreShared, ValuesBelongToTheirLife, Alive,
       NoneIsApart

\* getOrCreate begins a creation only when no creation of this life is alive.
LEMMA GetOrCreateKeepsInv ==
    ASSUME NoneIsApart, StoreInv, NEW c \in Creators, NEW i \in Ids, GetOrCreate(c, i)
    PROVE  StoreInv'
<1> USE NoneIsApart DEF NoneIsApart
<1>1. PICK k \in Creators :
          /\ call' = [call EXCEPT ![c] = [id |-> i, from |-> k, life |-> life[i]]]
          /\ \/ /\ k = values[i] \/ k = inFlight[i]
                /\ values[i] # None => k = values[i]
                /\ inFlight' = inFlight /\ creation' = creation
             \/ /\ k = c /\ values[i] = None /\ inFlight[i] = None
                /\ inFlight' = [inFlight EXCEPT ![i] = c]
                /\ creation' = [creation EXCEPT ![c] = "running"]
    BY DEF GetOrCreate, Returns, StoreInv, StoreTypeOK
<1>2. values' = values /\ life' = life /\ call[c] = None
    BY DEF GetOrCreate
<1>3. StoreTypeOK'
    BY <1>1, <1>2 DEF StoreInv, StoreTypeOK
<1>4. creation[c] = "none"
    BY <1>2 DEF StoreInv, Bookkeeping, CallsAreOfTheirTime
<1>5. \A m \in Creators : m # c => call'[m] = call[m] /\ creation'[m] = creation[m]
    BY <1>1 DEF StoreInv, StoreTypeOK
<1>6. call'[c] = [id |-> i, from |-> k, life |-> life[i]] /\ call'[c] # None
    BY <1>1 DEF StoreInv, StoreTypeOK
<1>7. \A m \in Creators : call[m] # None => m # c
    BY <1>2
<1>8. \A j \in Ids : values[j] # c /\ inFlight[j] # c
    BY <1>4
       DEF StoreInv, StoreTypeOK, LivesAreSeparate, ValuesBelongToTheirLife, Bookkeeping,
           FlightsAreCurrent
<1>9. FlightsAreCurrent'
    BY <1>1, <1>2, <1>5, <1>6, <1>8 DEF StoreInv, StoreTypeOK, Bookkeeping, FlightsAreCurrent
<1>10. k # c => /\ call[k] # None /\ call[k].id = i /\ call[k].life = life[i]
                /\ creation[k] \in {"running", "made"}
    BY <1>1 DEF StoreInv, StoreTypeOK, LivesAreSeparate, ValuesBelongToTheirLife, Bookkeeping,
                FlightsAreCurrent, CallsAreOfTheirTime
<1>11. CallsAreOfTheirTime'
    BY <1>1, <1>2, <1>5, <1>6, <1>7, <1>10
       DEF StoreInv, StoreTypeOK, Bookkeeping, CallsAreOfTheirTime
<1>12. CurrentCreationsAreKnown'
    BY <1>1, <1>2, <1>4, <1>5, <1>6, <1>8
       DEF StoreInv, StoreTypeOK, Bookkeeping, CurrentCreationsAreKnown, CallsAreOfTheirTime,
           Alive
<1>13. CreationsAreShared'
    BY <1>1, <1>2, <1>4, <1>5, <1>6
       DEF StoreInv, StoreTypeOK, LivesAreSeparate, CreationsAreShared, Bookkeeping,
           CurrentCreationsAreKnown, Alive
<1>14. ValuesBelongToTheirLife'
    BY <1>1, <1>2, <1>5, <1>6, <1>7, <1>8, <1>10
       DEF StoreInv, StoreTypeOK, LivesAreSeparate, ValuesBelongToTheirLife, Bookkeeping,
           CallsAreOfTheirTime
<1> QED
    BY <1>3, <1>9, <1>11, <1>12, <1>13, <1>14 DEF StoreInv, Bookkeeping, LivesAreSeparate

\* A creation that resolves is stored only if it is the one in flight.
LEMMA ResolveKeepsInv ==
    ASSUME NoneIsApart, StoreInv, NEW k \in Creators, Resolve(k)
    PROVE  StoreInv'
<1> USE NoneIsApart DEF NoneIsApart
<1>1. /\ creation[k] = "running" /\ creation' = [creation EXCEPT ![k] = "made"]
      /\ call' = call /\ life' = life
    BY DEF Resolve
<1>2. call[k] # None /\ call[k] \in [id : Ids, from : Creators, life : Nat]
    BY <1>1 DEF StoreInv, StoreTypeOK, Bookkeeping, CallsAreOfTheirTime
<1>3. CASE inFlight[call[k].id] = k
    <2>1. values' = [values EXCEPT ![call[k].id] = k] /\ inFlight' = [inFlight EXCEPT ![call[k].id] = None]
        BY <1>3 DEF Resolve, IsCurrent
    <2>2. StoreTypeOK'
        BY <1>1, <1>2, <2>1 DEF StoreInv, StoreTypeOK
    <2>3. FlightsAreCurrent'
        BY <1>1, <1>2, <1>3, <2>1 DEF StoreInv, StoreTypeOK, Bookkeeping, FlightsAreCurrent
    <2>4. CallsAreOfTheirTime'
        BY <1>1, <1>2, <2>1 DEF StoreInv, StoreTypeOK, Bookkeeping, CallsAreOfTheirTime
    <2>5. CurrentCreationsAreKnown'
        BY <1>1, <1>2, <1>3, <2>1
           DEF StoreInv, StoreTypeOK, Bookkeeping, CurrentCreationsAreKnown, FlightsAreCurrent,
               CallsAreOfTheirTime, Alive
    <2>6. CreationsAreShared'
        BY <1>1, <1>2 DEF StoreInv, StoreTypeOK, LivesAreSeparate, CreationsAreShared, Alive
    <2>7. ValuesBelongToTheirLife'
        BY <1>1, <1>2, <1>3, <2>1
           DEF StoreInv, StoreTypeOK, LivesAreSeparate, ValuesBelongToTheirLife, Bookkeeping,
               FlightsAreCurrent
    <2> QED
        BY <2>2, <2>3, <2>4, <2>5, <2>6, <2>7 DEF StoreInv, Bookkeeping, LivesAreSeparate
<1>4. CASE inFlight[call[k].id] # k
    <2>1. values' = values /\ inFlight' = inFlight
        BY <1>4 DEF Resolve, IsCurrent
    <2>2. call[k].life # life[call[k].id]
        BY <1>1, <1>4 DEF StoreInv, Bookkeeping, CurrentCreationsAreKnown, Alive
    <2>3. StoreTypeOK'
        BY <1>1, <2>1 DEF StoreInv, StoreTypeOK
    <2>4. \A j \in Ids : inFlight[j] # k
        BY <1>2, <1>4 DEF StoreInv, StoreTypeOK, Bookkeeping, FlightsAreCurrent
    <2>5. FlightsAreCurrent'
        BY <1>1, <2>1, <2>4 DEF StoreInv, StoreTypeOK, Bookkeeping, FlightsAreCurrent
    <2>6. CallsAreOfTheirTime'
        BY <1>1, <1>2, <2>1 DEF StoreInv, StoreTypeOK, Bookkeeping, CallsAreOfTheirTime
    <2>7. CurrentCreationsAreKnown'
        BY <1>1, <2>1, <2>2 DEF StoreInv, StoreTypeOK, Bookkeeping, CurrentCreationsAreKnown, Alive
    <2>8. CreationsAreShared'
        BY <1>1, <1>2 DEF StoreInv, StoreTypeOK, LivesAreSeparate, CreationsAreShared, Alive
    <2>9. ValuesBelongToTheirLife'
        BY <1>1, <2>1 DEF StoreInv, StoreTypeOK, LivesAreSeparate, ValuesBelongToTheirLife
    <2> QED
        BY <2>3, <2>5, <2>6, <2>7, <2>8, <2>9 DEF StoreInv, Bookkeeping, LivesAreSeparate
<1> QED
    BY <1>3, <1>4

\* A creation that fails leaves the one in flight unless it is that one.
LEMMA RejectKeepsInv ==
    ASSUME NoneIsApart, StoreInv, NEW k \in Creators, Reject(k)
    PROVE  StoreInv'
<1> USE NoneIsApart DEF NoneIsApart
<1>1. /\ creation[k] = "running" /\ creation' = [creation EXCEPT ![k] = "failed"]
      /\ call' = call /\ life' = life /\ values' = values
    BY DEF Reject
<1>2. call[k] # None /\ call[k] \in [id : Ids, from : Creators, life : Nat]
    BY <1>1 DEF StoreInv, StoreTypeOK, Bookkeeping, CallsAreOfTheirTime
<1>3. /\ inFlight' \in [Ids -> Creators \union {None}]
      /\ \A j \in Ids : inFlight'[j] # k
      /\ \A j \in Ids : inFlight'[j] = inFlight[j] \/ (inFlight[j] = k /\ inFlight'[j] = None)
    BY <1>1, <1>2 DEF Reject, IsCurrent, StoreInv, StoreTypeOK, Bookkeeping, FlightsAreCurrent
<1>4. StoreTypeOK'
    BY <1>1, <1>3 DEF StoreInv, StoreTypeOK
<1>5. \A m \in Creators : m # k => creation'[m] = creation[m]
    BY <1>1 DEF StoreInv, StoreTypeOK
<1>6. creation'[k] = "failed"
    BY <1>1 DEF StoreInv, StoreTypeOK
<1>7. FlightsAreCurrent'
    BY <1>1, <1>3, <1>5 DEF StoreInv, StoreTypeOK, Bookkeeping, FlightsAreCurrent
<1>8. CallsAreOfTheirTime'
    BY <1>1, <1>2, <1>5 DEF StoreInv, StoreTypeOK, Bookkeeping, CallsAreOfTheirTime
<1>9. CurrentCreationsAreKnown'
    BY <1>1, <1>3, <1>5, <1>6
       DEF StoreInv, StoreTypeOK, Bookkeeping, CurrentCreationsAreKnown, CallsAreOfTheirTime, Alive
<1>10. CreationsAreShared'
    BY <1>1, <1>5, <1>6 DEF StoreInv, StoreTypeOK, LivesAreSeparate, CreationsAreShared, Alive
<1>11. ValuesBelongToTheirLife'
    BY <1>1, <1>5 DEF StoreInv, StoreTypeOK, LivesAreSeparate, ValuesBelongToTheirLife
<1> QED
    BY <1>4, <1>7, <1>8, <1>9, <1>10, <1>11 DEF StoreInv, Bookkeeping, LivesAreSeparate

\* delete and clear begin new lives, of which no call has been made yet.
LEMMA ForgetKeepsInv ==
    ASSUME NoneIsApart, StoreInv, NEW ids \in SUBSET Ids, Forget(ids)
    PROVE  StoreInv'
<1> USE NoneIsApart DEF NoneIsApart
<1>1. call' = call /\ creation' = creation
    BY DEF Forget
<1>2. \A i \in Ids : i \in ids => values'[i] = None /\ inFlight'[i] = None /\ life'[i] = life[i] + 1
    BY DEF Forget
<1>3. \A i \in Ids : i \notin ids => values'[i] = values[i] /\ inFlight'[i] = inFlight[i] /\ life'[i] = life[i]
    BY DEF Forget
<1>4. StoreTypeOK'
    BY <1>1 DEF Forget, StoreInv, StoreTypeOK
<1>5. FlightsAreCurrent'
    BY <1>1, <1>2, <1>3 DEF StoreInv, StoreTypeOK, Bookkeeping, FlightsAreCurrent
<1>6. CallsAreOfTheirTime'
    BY <1>1, <1>2, <1>3 DEF StoreInv, StoreTypeOK, Bookkeeping, CallsAreOfTheirTime
<1>7. CurrentCreationsAreKnown'
    BY <1>1, <1>2, <1>3
       DEF StoreInv, StoreTypeOK, Bookkeeping, CurrentCreationsAreKnown, CallsAreOfTheirTime, Alive
<1>8. CreationsAreShared'
    BY <1>1 DEF StoreInv, LivesAreSeparate, CreationsAreShared, Alive
<1>9. ValuesBelongToTheirLife'
    BY <1>1, <1>2, <1>3 DEF StoreInv, StoreTypeOK, LivesAreSeparate, ValuesBelongToTheirLife
<1> QED
    BY <1>4, <1>5, <1>6, <1>7, <1>8, <1>9 DEF StoreInv, Bookkeeping, LivesAreSeparate

LEMMA StoreNextKeepsInv ==
    ASSUME NoneIsApart, StoreInv, [StoreNext]_storeVars
    PROVE  StoreInv'
<1>1. CASE \E c \in Creators, i \in Ids : GetOrCreate(c, i)
    BY <1>1, GetOrCreateKeepsInv, NoneIsApart
<1>2. CASE \E k \in Creators : Resolve(k) \/ Reject(k)
    BY <1>2, ResolveKeepsInv, RejectKeepsInv, NoneIsApart
<1>3. CASE (\E i \in Ids : Delete(i)) \/ Clear
    <2>1. PICK ids \in SUBSET Ids : Forget(ids)
        BY <1>3 DEF Delete, Clear
    <2> QED
        BY <2>1, ForgetKeepsInv, NoneIsApart
<1>4. CASE UNCHANGED storeVars
    BY <1>4
       DEF storeVars, StoreInv, StoreTypeOK, Bookkeeping, FlightsAreCurrent, CallsAreOfTheirTime,
                CurrentCreationsAreKnown, LivesAreSeparate, CreationsAreShared, ValuesBelongToTheirLife, Alive
<1> QED
    BY <1>1, <1>2, <1>3, <1>4 DEF StoreNext

\* The inductive invariant of createSessionStore.
THEOREM StoreInvariant ==
    ASSUME NoneIsApart
    PROVE  StoreSpec => []StoreInv
<1>1. StoreInit => StoreInv
    BY StoreInitEstablishesInv, NoneIsApart
<1>2. StoreInv /\ [StoreNext]_storeVars => StoreInv'
    BY StoreNextKeepsInv, NoneIsApart
<1> QED
    BY <1>1, <1>2, PTL DEF StoreSpec

\* One creation for each life of an id, and nothing comes back after a deletion: the tokens
\* of getOrCreate suffice, however many creations settle late and in whichever order.
THEOREM StoreKeepsLivesApart ==
    ASSUME NoneIsApart
    PROVE  StoreSpec => []LivesAreSeparate
<1>1. StoreInv => LivesAreSeparate
    BY DEF StoreInv
<1> QED
    BY <1>1, StoreInvariant, NoneIsApart, PTL

-----------------------------------------------------------------------------
(* OAuth *)

\* What the calls and the store hold.
Grants == [refresh : Nat, expiring : BOOLEAN]

Outcomes ==
    {"none", "authorized", "credential", "save_failed", "request_aborted",
     "oauth_callback_server_closed", "oauth_callback_already_pending", "oauth_callback_aborted",
     "oauth_callback_error", "oauth_state_mismatch", "oauth_missing_code", "oauth_missing_record",
     "oauth_missing_refresh_token", "oauth_token_exchange_failed", "oauth_refresh_failed"}

ClientRecords ==
    [stage : {"idle", "opening", "waiting", "exchanging", "saving", "refreshing", "answered",
              "done"},
     aborted : BOOLEAN, code : Logins \union {Nil}, record : Grants \union {Nil},
     outcome : Outcomes]

OAuthTypeOK ==
    /\ server \in [pending : Logins \union {Nil}, listening : SUBSET Logins, closed : BOOLEAN]
    /\ opened \in SUBSET Logins
    /\ client \in [Clients -> ClientRecords]
    /\ store \in Grants \union {Nil}
    /\ endpoint \in [live : SUBSET Nat, last : Nat, policy : TokenPolicies]
    /\ lost \in BOOLEAN

\* What a step does to the record of one call.
LEMMA ClientRecordsStay ==
    ASSUME NEW l \in ClientRecords
    PROVE  /\ \A o \in Outcomes : Settled(l, o) \in ClientRecords
           /\ \A stage \in {"opening", "waiting", "saving"} :
                 [l EXCEPT !.stage = stage] \in ClientRecords
           /\ \A stage \in {"saving", "refreshing", "answered"}, g \in Grants \union {Nil} :
                 [l EXCEPT !.stage = stage, !.record = g] \in ClientRecords
           /\ \A code \in Logins :
                 [l EXCEPT !.stage = "exchanging", !.code = code] \in ClientRecords
           /\ [l EXCEPT !.aborted = TRUE] \in ClientRecords
BY DEF ClientRecords, Settled

\* The call that has ended, and the other changes of a call, field by field.
LEMMA SettledFields ==
    ASSUME NEW l \in ClientRecords, NEW o
    PROVE  /\ Settled(l, o).stage = "done" /\ Settled(l, o).outcome = o
           /\ Settled(l, o).code = l.code /\ Settled(l, o).record = Nil
           /\ Settled(l, o).aborted = l.aborted
BY DEF ClientRecords, Settled

LEMMA ClientFields ==
    ASSUME NEW l \in ClientRecords, NEW stage, NEW g, NEW code
    PROVE  /\ LET m == [l EXCEPT !.stage = stage]
              IN /\ m.stage = stage /\ m.outcome = l.outcome /\ m.code = l.code
                 /\ m.record = l.record /\ m.aborted = l.aborted
           /\ LET m == [l EXCEPT !.stage = stage, !.record = g]
              IN /\ m.stage = stage /\ m.outcome = l.outcome /\ m.code = l.code
                 /\ m.record = g /\ m.aborted = l.aborted
           /\ LET m == [l EXCEPT !.stage = stage, !.code = code]
              IN /\ m.stage = stage /\ m.outcome = l.outcome /\ m.code = code
                 /\ m.record = l.record /\ m.aborted = l.aborted
           /\ LET m == [l EXCEPT !.aborted = TRUE]
              IN /\ m.stage = l.stage /\ m.outcome = l.outcome /\ m.code = l.code
                 /\ m.record = l.record /\ m.aborted
BY DEF ClientRecords

\* A step gives one call this stage, code, record and outcome and leaves the others alone.
Turns(c, stage, code, record, outcome) ==
    /\ client' \in [Clients -> ClientRecords]
    /\ \A d \in Clients : d # c => client'[d] = client[d]
    /\ client'[c].stage = stage /\ client'[c].code = code
    /\ client'[c].record = record /\ client'[c].outcome = outcome
    /\ client'[c].aborted = client[c].aborted

\* The step of one call, as what it does to the calls, to the server and to the resolution.
LEMMA OneClientChanges ==
    ASSUME OAuthTypeOK, NEW c \in Clients, NEW m \in ClientRecords,
           client' = [client EXCEPT ![c] = m]
    PROVE  /\ client' \in [Clients -> ClientRecords] /\ client'[c] = m
           /\ \A d \in Clients : d # c => client'[d] = client[d]
BY DEF OAuthTypeOK

LEMMA ClientTurns ==
    ASSUME OAuthTypeOK, NEW c \in Clients
    PROVE  /\ \A o \in Outcomes : client' = Settle(c, o) => Turns(c, "done", client[c].code, Nil, o)
           /\ \A stage \in {"opening", "waiting", "saving"} :
                 client' = Moves(c, stage)
                 => Turns(c, stage, client[c].code, client[c].record, client[c].outcome)
           /\ \A stage \in {"saving", "refreshing", "answered"}, g \in Grants \union {Nil} :
                 client' = Holds(c, stage, g)
                 => Turns(c, stage, client[c].code, g, client[c].outcome)
           /\ \A code \in Logins :
                 client' =
                    [client EXCEPT ![c] = [client[c] EXCEPT !.stage = "exchanging", !.code = code]]
                 => Turns(c, "exchanging", code, client[c].record, client[c].outcome)
<1>1. client[c] \in ClientRecords
  BY DEF OAuthTypeOK
<1>2. ASSUME NEW o \in Outcomes, client' = Settle(c, o)
      PROVE  Turns(c, "done", client[c].code, Nil, o)
  <2> DEFINE m == Settled(client[c], o)
  <2>1. m \in ClientRecords /\ client' = [client EXCEPT ![c] = m]
    BY <1>1, <1>2, ClientRecordsStay DEF Settle
  <2>2. /\ m.stage = "done" /\ m.code = client[c].code /\ m.record = Nil /\ m.outcome = o
        /\ m.aborted = client[c].aborted
    BY <1>1, SettledFields
  <2> HIDE DEF m
  <2>3. QED
    BY <2>1, <2>2, OneClientChanges, Zenon DEF Turns
<1>3. ASSUME NEW stage \in {"opening", "waiting", "saving"}, client' = Moves(c, stage)
      PROVE  Turns(c, stage, client[c].code, client[c].record, client[c].outcome)
  <2> DEFINE m == [client[c] EXCEPT !.stage = stage]
  <2>1. m \in ClientRecords /\ client' = [client EXCEPT ![c] = m]
    BY <1>1, <1>3, ClientRecordsStay DEF Moves
  <2>2. /\ m.stage = stage /\ m.code = client[c].code /\ m.record = client[c].record
        /\ m.outcome = client[c].outcome /\ m.aborted = client[c].aborted
    BY <1>1, ClientFields
  <2> HIDE DEF m
  <2>3. QED
    BY <2>1, <2>2, OneClientChanges, Zenon DEF Turns
<1>4. ASSUME NEW stage \in {"saving", "refreshing", "answered"}, NEW g \in Grants \union {Nil},
             client' = Holds(c, stage, g)
      PROVE  Turns(c, stage, client[c].code, g, client[c].outcome)
  <2> DEFINE m == [client[c] EXCEPT !.stage = stage, !.record = g]
  <2>1. m \in ClientRecords /\ client' = [client EXCEPT ![c] = m]
    BY <1>1, <1>4, ClientRecordsStay DEF Holds
  <2>2. /\ m.stage = stage /\ m.code = client[c].code /\ m.record = g
        /\ m.outcome = client[c].outcome /\ m.aborted = client[c].aborted
    BY <1>1, ClientFields
  <2> HIDE DEF m
  <2>3. QED
    BY <2>1, <2>2, OneClientChanges, Zenon DEF Turns
<1>5. ASSUME NEW code \in Logins,
             client' =
                [client EXCEPT ![c] = [client[c] EXCEPT !.stage = "exchanging", !.code = code]]
      PROVE  Turns(c, "exchanging", code, client[c].record, client[c].outcome)
  <2> DEFINE m == [client[c] EXCEPT !.stage = "exchanging", !.code = code]
  <2>1. m \in ClientRecords /\ client' = [client EXCEPT ![c] = m]
    BY <1>1, <1>5, ClientRecordsStay
  <2>2. /\ m.stage = "exchanging" /\ m.code = code /\ m.record = client[c].record
        /\ m.outcome = client[c].outcome /\ m.aborted = client[c].aborted
    BY <1>1, ClientFields
  <2> HIDE DEF m
  <2>3. QED
    BY <2>1, <2>2, OneClientChanges, Zenon DEF Turns
<1>6. QED
  BY <1>2, <1>3, <1>4, <1>5

\* A step gives the callback server this wait, these listeners and this state.
Serves(pending, listening, closed) ==
    /\ server' \in [pending : Logins \union {Nil}, listening : SUBSET Logins, closed : BOOLEAN]
    /\ server'.pending = pending /\ server'.listening = listening
    /\ server'.closed = closed

LEMMA ServerTurns ==
    ASSUME OAuthTypeOK
    PROVE  /\ server' = FinishPending
              => Serves(Nil, server.listening \ {server.pending}, server.closed)
           /\ server' = [FinishPending EXCEPT !.closed = TRUE]
              => Serves(Nil, server.listening \ {server.pending}, TRUE)
           /\ \A c \in Logins :
                 server' = [server EXCEPT !.pending = c, !.listening = server.listening \union {c}]
                 => Serves(c, server.listening \union {c}, server.closed)
           /\ \A c : server' = [FinishPending EXCEPT !.listening = FinishPending.listening \ {c}]
                     => Serves(Nil, (server.listening \ {server.pending}) \ {c}, server.closed)
           /\ \A c : server' = [server EXCEPT !.listening = server.listening \ {c}]
                     => Serves(server.pending, server.listening \ {c}, server.closed)
BY DEF OAuthTypeOK, FinishPending, Serves

\* The logins of one callback server.
LoginInv == OAuthTypeOK /\ LoginsAreSeparate

\* A call that neither waits nor starts to wait does not concern the server.
LEMMA OthersDoNotWait ==
    ASSUME LoginInv, NEW c \in Clients, NEW stage, NEW record, NEW outcome,
           Turns(c, stage, client[c].code, record, outcome),
           server' = server, stage # "waiting", ~Stands(c, "waiting"),
           \/ outcome # "oauth_callback_aborted"
           \/ outcome = client[c].outcome
           \/ client[c].aborted
    PROVE  LoginsAreSeparate'
<1>1. Logins \subseteq Clients
  BY DEF Clients
<1>2. ASSUME NEW d \in Logins
      PROVE  client'[d].code \in {Nil, d}
  BY <1>1, <1>2 DEF LoginInv, LoginsAreSeparate, CodesStayWithTheirLogin, Turns
<1>3. ASSUME NEW d \in Logins
      PROVE  /\ client'[d].stage = "waiting" <=> client[d].stage = "waiting"
             /\ client'[d].aborted = client[d].aborted
             /\ client'[d].outcome = "oauth_callback_aborted" => client[d].aborted
  <2>1. CASE d = c
    BY <2>1 DEF LoginInv, LoginsAreSeparate, WaitsEndByTheirOwnCause, Turns, Stands
  <2>2. CASE d # c
    BY <1>1, <2>2 DEF LoginInv, LoginsAreSeparate, WaitsEndByTheirOwnCause, Turns
  <2>3. QED
    BY <2>1, <2>2
<1>4. WaitsEndByTheirOwnCause'
  BY <1>3 DEF LoginInv, LoginsAreSeparate, WaitsEndByTheirOwnCause, Stands
<1>5. QED
  BY <1>2, <1>4 DEF LoginsAreSeparate, CodesStayWithTheirLogin

\* The wait of a login begins (waitForCallback).
LEMMA WaitBegins ==
    ASSUME LoginInv, NEW c \in Logins,
           Turns(c, "waiting", client[c].code, client[c].record, client[c].outcome),
           Serves(c, server.listening \union {c}, server.closed),
           Stands(c, "opening"), server.pending = Nil, ~server.closed, ~client[c].aborted
    PROVE  LoginsAreSeparate'
<1>1. Logins \subseteq Clients
  BY DEF Clients
<1>2. CodesStayWithTheirLogin'
  BY <1>1 DEF LoginInv, LoginsAreSeparate, CodesStayWithTheirLogin, Turns
<1>3. ASSUME NEW d \in Logins
      PROVE  /\ client'[d].stage = "waiting" <=> server'.pending = d
             /\ client'[d].stage = "waiting" <=> d \in server'.listening
             /\ client'[d].stage = "waiting" => ~server'.closed /\ ~client'[d].aborted
             /\ client'[d].outcome = "oauth_callback_aborted" => client'[d].aborted
  <2>1. CASE d = c
    BY <2>1 DEF LoginInv, LoginsAreSeparate, WaitsEndByTheirOwnCause, Turns, Serves, Stands
  <2>2. CASE d # c
    BY <1>1, <2>2, OAuthConstants
       DEF LoginInv, LoginsAreSeparate, WaitsEndByTheirOwnCause, Turns, Serves, Stands
  <2>3. QED
    BY <2>1, <2>2
<1>4. QED
  BY <1>2, <1>3 DEF LoginsAreSeparate, WaitsEndByTheirOwnCause, Stands

\* The pending wait ends, by a callback or by close (finishPending).
LEMMA WaitEnds ==
    ASSUME LoginInv, NEW c \in Logins, server.pending = c,
           NEW stage, NEW code \in {Nil, c}, NEW record, NEW outcome,
           NEW closed \in BOOLEAN,
           Turns(c, stage, code, record, outcome),
           stage # "waiting", outcome # "oauth_callback_aborted" \/ outcome = client[c].outcome,
           Serves(Nil, server.listening \ {server.pending}, closed)
    PROVE  LoginsAreSeparate'
<1>1. Logins \subseteq Clients
  BY DEF Clients
<1>2. CodesStayWithTheirLogin'
  BY <1>1 DEF LoginInv, LoginsAreSeparate, CodesStayWithTheirLogin, Turns
<1>3. ASSUME NEW d \in Logins
      PROVE  /\ client'[d].stage = "waiting" <=> server'.pending = d
             /\ client'[d].stage = "waiting" <=> d \in server'.listening
             /\ client'[d].stage = "waiting" => ~server'.closed /\ ~client'[d].aborted
             /\ client'[d].outcome = "oauth_callback_aborted" => client'[d].aborted
  <2>1. CASE d = c
    BY <2>1, OAuthConstants
       DEF LoginInv, LoginsAreSeparate, WaitsEndByTheirOwnCause, Turns, Serves, Stands
  <2>2. CASE d # c
    BY <1>1, <2>2, OAuthConstants
       DEF LoginInv, LoginsAreSeparate, WaitsEndByTheirOwnCause, Turns, Serves, Stands
  <2>3. QED
    BY <2>1, <2>2
<1>4. QED
  BY <1>2, <1>3 DEF LoginsAreSeparate, WaitsEndByTheirOwnCause, Stands

\* A call that holds a record it loaded or got; one whose record is on its way to the store.
HasRecord(c) == client[c].stage \in {"refreshing", "answered", "saving"}
BringsRecord(c) == client[c].stage \in {"answered", "saving"}

\* No token is known that the endpoint has not issued.
TokensAreIssued ==
    /\ \A t \in endpoint.live : t <= endpoint.last
    /\ store # Nil => store \in Grants /\ store.refresh <= endpoint.last
    /\ \A c \in Clients : HasRecord(c) => /\ client[c].record \in Grants
                                          /\ client[c].record.refresh <= endpoint.last

\* Under an endpoint that keeps its tokens none that is stored or held dies.
KeptTokensLive ==
    endpoint.policy = "keeps" =>
        /\ store # Nil => store.refresh \in endpoint.live
        /\ \A c \in Clients : HasRecord(c) => client[c].record.refresh \in endpoint.live

\* Under one that rotates them what is on its way to the store is live and nobody else has it.
BroughtTokensLive ==
    endpoint.policy = "rotates" =>
        \A c \in Clients : BringsRecord(c) =>
            /\ client[c].record.refresh \in endpoint.live
            /\ store # Nil => store.refresh # client[c].record.refresh
            /\ \A d \in Clients \ {c} :
                  HasRecord(d) => client[d].record.refresh # client[c].record.refresh

GrantInv == TokensAreIssued /\ KeptTokensLive /\ BroughtTokensLive /\ StoredGrantIsLive

\* The invariant of OAuth.
OAuthInv == OAuthTypeOK /\ LoginsAreSeparate /\ GrantInv

\* Steps that bring no record, and take one away only from a call that ends; a refresh
\* that loses its record is remembered.
NoRecordMoves ==
    /\ \A d \in Clients : HasRecord(d)' => /\ client'[d].stage = client[d].stage
                                           /\ client'[d].record = client[d].record
    /\ \A d \in Users : BringsRecord(d) => BringsRecord(d)' \/ lost'
    /\ lost => lost'
    /\ endpoint' = endpoint
    /\ store' = store

\* Such steps leave what the records say of the endpoint true.
LEMMA RecordsRest ==
    ASSUME GrantInv, NoRecordMoves
    PROVE  GrantInv'
<1>1. TokensAreIssued'
  BY DEF GrantInv, TokensAreIssued, NoRecordMoves, HasRecord
<1>2. KeptTokensLive'
  BY DEF GrantInv, KeptTokensLive, NoRecordMoves, HasRecord
<1>3. BroughtTokensLive'
  BY DEF GrantInv, BroughtTokensLive, NoRecordMoves, HasRecord, BringsRecord
<1>4. StoredGrantIsLive'
  BY DEF GrantInv, StoredGrantIsLive, NoRecordMoves, BringsRecord
<1>5. QED
  BY <1>1, <1>2, <1>3, <1>4 DEF GrantInv

\* One call that has no record after a step, and does not lose one unnoticed.
LEMMA OneCallRests ==
    ASSUME NEW c \in Clients, NEW stage, NEW code, NEW record, NEW outcome,
           Turns(c, stage, code, record, outcome),
           stage \notin {"refreshing", "answered", "saving"},
           c \in Users /\ BringsRecord(c) => lost',
           lost => lost', endpoint' = endpoint, store' = store
    PROVE  NoRecordMoves
<1>1. Users \subseteq Clients
  BY DEF Clients
<1>2. \A d \in Clients : HasRecord(d)' => d # c
  BY DEF Turns, HasRecord
<1>3. \A d \in Clients : d # c => client'[d] = client[d]
  BY DEF Turns
<1>4. QED
  BY <1>1, <1>2, <1>3 DEF NoRecordMoves, BringsRecord

\* The next number is larger than all that were given.
LEMMA NextIsNew ==
    ASSUME NEW m \in Nat
    PROVE  /\ m + 1 \in Nat /\ m + 1 # 0 /\ 0 <= m + 1 /\ m + 1 <= m + 1 /\ m <= m + 1
           /\ \A u \in Nat : u <= m => u <= m + 1 /\ u # m + 1
OBVIOUS

\* A login that redeemed its code brings a token that nobody has (exchangeToken).
LEMMA ExchangeBringsToken ==
    ASSUME OAuthTypeOK, GrantInv, NEW c \in Logins, NEW code, NEW outcome,
           NEW t \in Nat, t = IF endpoint.policy = "issues none" THEN 0 ELSE endpoint.last + 1,
           Turns(c, "saving", code, Grant(t), outcome),
           endpoint' = [endpoint EXCEPT !.last = endpoint.last + 1,
                                        !.live = endpoint.live \union ({t} \ {0})],
           store' = store, lost' = lost
    PROVE  GrantInv'
<1> DEFINE n == endpoint.last + 1
<1>1. c \in Clients /\ c \notin Users
  BY OAuthConstants DEF Clients
<1>2. /\ endpoint'.last = n /\ endpoint'.policy = endpoint.policy
      /\ endpoint'.live = endpoint.live \union ({t} \ {0}) /\ endpoint.last \in Nat
      /\ endpoint.live \subseteq Nat
  BY DEF OAuthTypeOK
<1>3. Grant(t) \in Grants /\ Grant(t).refresh = t
  BY DEF Grant, Grants
<1>4. /\ \A d \in Clients : d # c => client'[d] = client[d]
      /\ client'[c].stage = "saving" /\ client'[c].record = Grant(t)
  BY DEF Turns
<1>5. /\ t <= n /\ \A u \in Nat : u <= endpoint.last => u <= n /\ u # n
      /\ endpoint.policy = "rotates" => t = n /\ n # 0
  <2>1. n # 0 /\ 0 <= n /\ n <= n /\ \A u \in Nat : u <= endpoint.last => u <= n /\ u # n
    BY <1>2, NextIsNew, Zenon
  <2>2. t = IF endpoint.policy = "issues none" THEN 0 ELSE n
    OBVIOUS
  <2>3. QED
    BY <2>1, <2>2
<1>6. /\ \A u \in endpoint.live : u <= endpoint.last
      /\ store # Nil => store \in Grants /\ store.refresh \in Nat /\ store.refresh <= endpoint.last
      /\ \A d \in Clients : HasRecord(d) => /\ client[d].record \in Grants
                                            /\ client[d].record.refresh \in Nat
                                            /\ client[d].record.refresh <= endpoint.last
  BY DEF GrantInv, TokensAreIssued, Grants
<1> HIDE DEF n
<1>7. \A d \in Clients : d # c /\ HasRecord(d)' =>
         HasRecord(d) /\ client'[d].record = client[d].record
  BY <1>4 DEF HasRecord
<1>8. TokensAreIssued'
  <2>1. \A u \in endpoint'.live : u <= endpoint'.last
    BY <1>2, <1>5, <1>6
  <2>2. store' # Nil => store' \in Grants /\ store'.refresh <= endpoint'.last
    BY <1>2, <1>5, <1>6
  <2>3. ASSUME NEW d \in Clients, HasRecord(d)'
        PROVE  client'[d].record \in Grants /\ client'[d].record.refresh <= endpoint'.last
    <3>1. CASE d = c
      BY <1>2, <1>3, <1>4, <1>5, <3>1
    <3>2. CASE d # c
      BY <1>2, <1>5, <1>6, <1>7, <2>3, <3>2
    <3>3. QED
      BY <3>1, <3>2
  <2>4. QED
    BY <2>1, <2>2, <2>3 DEF TokensAreIssued
<1>9. KeptTokensLive'
  BY <1>2, <1>3, <1>4, <1>5, <1>7 DEF GrantInv, KeptTokensLive, HasRecord
<1>10. BroughtTokensLive'
  <2>1. SUFFICES ASSUME endpoint.policy = "rotates", NEW d \in Clients, BringsRecord(d)'
                 PROVE  /\ client'[d].record.refresh \in endpoint'.live
                        /\ store # Nil => store.refresh # client'[d].record.refresh
                        /\ \A e \in Clients \ {d} :
                              HasRecord(e)' => client'[e].record.refresh # client'[d].record.refresh
    BY <1>2 DEF BroughtTokensLive
  <2>2. t = n /\ t \in endpoint'.live /\ client'[c].record.refresh = n
    BY <1>2, <1>3, <1>4, <1>5, <2>1
  <2>3. \A e \in Clients : e # c /\ HasRecord(e)' => client'[e].record.refresh # n
    BY <1>5, <1>6, <1>7
  <2>4. store # Nil => store.refresh # n
    BY <1>5, <1>6
  <2>5. CASE d = c
    BY <2>2, <2>3, <2>4, <2>5
  <2>6. CASE d # c
    <3>1. BringsRecord(d) /\ HasRecord(d)' /\ client'[d] = client[d]
      BY <1>4, <2>1, <2>6 DEF BringsRecord, HasRecord
    <3>2. /\ client[d].record.refresh \in endpoint.live
          /\ store # Nil => store.refresh # client[d].record.refresh
          /\ \A e \in Clients \ {d} :
                HasRecord(e) => client[e].record.refresh # client[d].record.refresh
      BY <2>1, <3>1 DEF GrantInv, BroughtTokensLive
    <3>3. client'[c].record.refresh # client'[d].record.refresh
      BY <2>2, <2>3, <2>6, <3>1
    <3>4. QED
      BY <1>2, <1>7, <3>1, <3>2, <3>3
  <2>7. QED
    BY <2>5, <2>6
<1>11. StoredGrantIsLive'
  BY <1>1, <1>2, <1>4 DEF GrantInv, StoredGrantIsLive, Clients
<1>12. QED
  BY <1>8, <1>9, <1>10, <1>11 DEF GrantInv

\* A call that loaded the stored record is about to refresh it (credential, refresh).
LEMMA LoadTakesStored ==
    ASSUME GrantInv, NEW c \in Users, NEW code, NEW outcome,
           Turns(c, "refreshing", code, store, outcome), Stands(c, "idle"),
           store # Nil, store' = store, endpoint' = endpoint, lost' = lost
    PROVE  GrantInv'
<1>1. c \in Clients /\ Users \subseteq Clients
  BY DEF Clients
<1>2. /\ \A d \in Clients : d # c => client'[d] = client[d]
      /\ client'[c].stage = "refreshing" /\ client'[c].record = store
      /\ client[c].stage = "idle"
  BY DEF Turns, Stands
<1>3. /\ ~BringsRecord(c) /\ ~BringsRecord(c)'
      /\ \A d \in Clients : d # c => (BringsRecord(d)' <=> BringsRecord(d))
      /\ \A d \in Clients : d # c => (HasRecord(d)' <=> HasRecord(d))
  BY <1>2 DEF BringsRecord, HasRecord
<1>4. TokensAreIssued'
  BY <1>2, <1>3 DEF GrantInv, TokensAreIssued
<1>5. KeptTokensLive'
  BY <1>2, <1>3 DEF GrantInv, KeptTokensLive
<1>6. BroughtTokensLive'
  <2>1. SUFFICES ASSUME endpoint.policy = "rotates", NEW d \in Clients, BringsRecord(d)'
                 PROVE  /\ client'[d].record.refresh \in endpoint.live
                        /\ store.refresh # client'[d].record.refresh
                        /\ \A e \in Clients \ {d} :
                              HasRecord(e)' => client'[e].record.refresh # client'[d].record.refresh
    BY DEF BroughtTokensLive
  <2>2. d # c /\ BringsRecord(d) /\ client'[d] = client[d]
    BY <1>2, <1>3, <2>1
  <2>3. /\ client[d].record.refresh \in endpoint.live
        /\ store.refresh # client[d].record.refresh
        /\ \A e \in Clients \ {d} :
              HasRecord(e) => client[e].record.refresh # client[d].record.refresh
    BY <2>1, <2>2 DEF GrantInv, BroughtTokensLive
  <2>4. QED
    BY <1>2, <1>3, <2>2, <2>3
<1>7. StoredGrantIsLive'
  <2>1. \A d \in Users : client'[d].stage \notin {"answered", "saving"}
                            => client[d].stage \notin {"answered", "saving"}
    BY <1>1, <1>2
  <2>2. QED
    BY <2>1 DEF GrantInv, StoredGrantIsLive
<1>8. QED
  BY <1>4, <1>5, <1>6, <1>7 DEF GrantInv

\* The endpoint takes a token back and gives a new one to the call that used it, or leaves
\* both as they are (refreshToken).
LEMMA RefreshBringsToken ==
    ASSUME OAuthTypeOK, GrantInv, NEW c \in Users, NEW code, NEW outcome,
           NEW t \in Nat, t = IF endpoint.policy = "rotates" THEN endpoint.last + 1 ELSE 0,
           NEW used, used = client[c].record.refresh, used \in endpoint.live,
           Stands(c, "refreshing"),
           Turns(c, "answered", code, Grant(Kept(used, t)), outcome),
           endpoint' = IF t = 0 THEN endpoint
                       ELSE [endpoint EXCEPT !.last = t,
                                             !.live = (endpoint.live \ {used}) \union {t}],
           store' = store, lost' = lost
    PROVE  GrantInv'
<1> DEFINE n == endpoint.last + 1
           kept == Kept(used, t)
<1>1. c \in Clients
  BY DEF Clients
<1>2. used \in Nat /\ kept \in Nat /\ Grant(kept) \in Grants /\ Grant(kept).refresh = kept
  BY DEF OAuthTypeOK, Grant, Grants, Kept
<1>3. /\ \A d \in Clients : d # c => client'[d] = client[d]
      /\ client'[c].stage = "answered" /\ client'[c].record = Grant(kept)
      /\ client[c].stage = "refreshing"
  BY DEF Turns, Stands
<1>4. n # 0 /\ n <= n /\ \A u \in Nat : u <= endpoint.last => u <= n /\ u # n
  BY NextIsNew, Zenon DEF OAuthTypeOK
<1>5. /\ \A u \in endpoint.live : u \in Nat /\ u <= endpoint.last
      /\ store # Nil => store \in Grants /\ store.refresh \in Nat /\ store.refresh <= endpoint.last
      /\ \A d \in Clients : HasRecord(d) => /\ client[d].record \in Grants
                                            /\ client[d].record.refresh \in Nat
                                            /\ client[d].record.refresh <= endpoint.last
  BY DEF GrantInv, TokensAreIssued, Grants, OAuthTypeOK
<1>6. \A d \in Clients : d # c =>
         /\ HasRecord(d)' <=> HasRecord(d)
         /\ BringsRecord(d)' <=> BringsRecord(d)
  BY <1>3 DEF HasRecord, BringsRecord
<1>7. BringsRecord(c)' /\ c \in Users
  BY <1>3 DEF BringsRecord
<1>8. StoredGrantIsLive'
  BY <1>3 DEF StoredGrantIsLive
<1>9. CASE endpoint.policy # "rotates"
  <2>1. t = 0 /\ kept = used /\ endpoint' = endpoint
    BY <1>9 DEF Kept
  <2> HIDE DEF n, kept
  <2>2. TokensAreIssued'
    BY <1>2, <1>3, <1>5, <1>6, <2>1 DEF TokensAreIssued
  <2>3. KeptTokensLive'
    <3>1. SUFFICES ASSUME endpoint.policy = "keeps"
                   PROVE  /\ store # Nil => store.refresh \in endpoint.live
                          /\ \A d \in Clients : HasRecord(d)' => client'[d].record.refresh \in endpoint.live
      BY <2>1 DEF KeptTokensLive
    <3>2. QED
      BY <1>2, <1>3, <1>6, <2>1, <3>1 DEF GrantInv, KeptTokensLive
  <2>4. BroughtTokensLive'
    BY <1>9, <2>1 DEF BroughtTokensLive
  <2>5. QED
    BY <1>8, <2>2, <2>3, <2>4 DEF GrantInv
<1>10. CASE endpoint.policy = "rotates"
  <2>1. t = n /\ kept = n /\ t # 0
    BY <1>4, <1>10 DEF Kept
  <2>2. /\ endpoint'.last = n /\ endpoint'.policy = "rotates"
        /\ endpoint'.live = (endpoint.live \ {used}) \union {n}
    BY <1>10, <2>1 DEF OAuthTypeOK
  <2> HIDE DEF n, kept
  <2>3. TokensAreIssued'
    <3>1. \A u \in endpoint'.live : u <= endpoint'.last
      BY <1>4, <1>5, <2>2
    <3>2. store' # Nil => store' \in Grants /\ store'.refresh <= endpoint'.last
      BY <1>4, <1>5, <2>2
    <3>3. \A d \in Clients : HasRecord(d)' =>
             client'[d].record \in Grants /\ client'[d].record.refresh <= endpoint'.last
      BY <1>2, <1>3, <1>4, <1>5, <1>6, <2>1, <2>2
    <3>4. QED
      BY <3>1, <3>2, <3>3 DEF TokensAreIssued
  <2>4. KeptTokensLive'
    BY <2>2 DEF KeptTokensLive
  <2>5. BroughtTokensLive'
    <3>1. SUFFICES ASSUME NEW d \in Clients, BringsRecord(d)'
                   PROVE  /\ client'[d].record.refresh \in endpoint'.live
                          /\ store # Nil => store.refresh # client'[d].record.refresh
                          /\ \A e \in Clients \ {d} :
                                HasRecord(e)' => client'[e].record.refresh # client'[d].record.refresh
      BY DEF BroughtTokensLive
    <3>2. \A e \in Clients : e # c /\ HasRecord(e)' => client'[e].record.refresh # n
      BY <1>3, <1>4, <1>5, <1>6
    <3>3. (store # Nil => store.refresh # n) /\ client'[c].record.refresh = n
      BY <1>2, <1>3, <1>4, <1>5, <2>1
    <3>4. CASE d = c
      BY <2>2, <3>2, <3>3, <3>4
    <3>5. CASE d # c
      <4>1. BringsRecord(d) /\ HasRecord(d)' /\ client'[d] = client[d]
        BY <1>3, <1>6, <3>1, <3>5 DEF BringsRecord, HasRecord
      <4>2. /\ client[d].record.refresh \in endpoint.live
            /\ store # Nil => store.refresh # client[d].record.refresh
            /\ \A e \in Clients \ {d} :
                  HasRecord(e) => client[e].record.refresh # client[d].record.refresh
        BY <1>10, <4>1 DEF GrantInv, BroughtTokensLive
      <4>3. client[d].record.refresh # used /\ HasRecord(c)
        BY <1>1, <1>3, <3>5, <4>2 DEF HasRecord
      <4>4. client'[c].record.refresh # client'[d].record.refresh
        BY <3>2, <3>3, <3>5, <4>1
      <4>5. QED
        BY <1>3, <1>6, <2>2, <4>1, <4>2, <4>3, <4>4
    <3>6. QED
      BY <3>4, <3>5
  <2>6. QED
    BY <1>8, <2>3, <2>4, <2>5 DEF GrantInv
<1>11. QED
  BY <1>9, <1>10

\* The answer to a refresh arrived (refreshToken).
LEMMA AnswerIsBrought ==
    ASSUME GrantInv, NEW c \in Users, NEW code, NEW outcome,
           Turns(c, "saving", code, client[c].record, outcome), Stands(c, "answered"),
           store' = store, endpoint' = endpoint, lost' = lost
    PROVE  GrantInv'
<1>1. /\ \A d \in Clients : client'[d].record = client[d].record
      /\ \A d \in Clients : HasRecord(d)' <=> HasRecord(d)
      /\ \A d \in Clients : BringsRecord(d)' <=> BringsRecord(d)
  <2>1. \A d \in Clients : d # c => client'[d] = client[d]
    BY DEF Turns
  <2>2. client'[c].stage = "saving" /\ client'[c].record = client[c].record /\ client[c].stage = "answered"
    BY DEF Turns, Stands
  <2>3. QED
    BY <2>1, <2>2 DEF HasRecord, BringsRecord
<1>2. TokensAreIssued'
  BY <1>1 DEF GrantInv, TokensAreIssued
<1>3. KeptTokensLive'
  BY <1>1 DEF GrantInv, KeptTokensLive
<1>4. BroughtTokensLive'
  BY <1>1 DEF GrantInv, BroughtTokensLive
<1>5. StoredGrantIsLive'
  <2>1. \A d \in Users : BringsRecord(d)' <=> BringsRecord(d)
    BY <1>1 DEF Clients
  <2>2. QED
    BY <2>1 DEF GrantInv, StoredGrantIsLive, BringsRecord
<1>6. QED
  BY <1>2, <1>3, <1>4, <1>5 DEF GrantInv

\* The store takes the record of a call: it is live, or the policy makes none.
LEMMA RecordIsStored ==
    ASSUME GrantInv, NEW c \in Clients, NEW code, NEW record, NEW outcome,
           Turns(c, "done", code, record, outcome), Stands(c, "saving"),
           store' = client[c].record, endpoint' = endpoint, endpoint.policy \in TokenPolicies
    PROVE  GrantInv'
<1>1. /\ \A d \in Clients : d # c => client'[d] = client[d]
      /\ client'[c].stage = "done" /\ client[c].stage = "saving"
  BY DEF Turns, Stands
<1>2. /\ HasRecord(c) /\ BringsRecord(c)
      /\ \A d \in Clients : HasRecord(d)' => d # c /\ HasRecord(d) /\ client'[d] = client[d]
      /\ \A d \in Clients : BringsRecord(d)' => d # c /\ BringsRecord(d) /\ client'[d] = client[d]
  BY <1>1 DEF HasRecord, BringsRecord
<1>3. TokensAreIssued'
  BY <1>2 DEF GrantInv, TokensAreIssued
<1>4. KeptTokensLive'
  BY <1>2 DEF GrantInv, KeptTokensLive
<1>5. BroughtTokensLive'
  <2>1. SUFFICES ASSUME endpoint.policy = "rotates", NEW d \in Clients, BringsRecord(d)'
                 PROVE  /\ client'[d].record.refresh \in endpoint.live
                        /\ client[c].record.refresh # client'[d].record.refresh
                        /\ \A e \in Clients \ {d} :
                              HasRecord(e)' => client'[e].record.refresh # client'[d].record.refresh
    BY DEF BroughtTokensLive
  <2>2. /\ d # c /\ client'[d] = client[d]
        /\ client[d].record.refresh \in endpoint.live
        /\ \A e \in Clients \ {d} :
              HasRecord(e) => client[e].record.refresh # client[d].record.refresh
    BY <1>2, <2>1 DEF GrantInv, BroughtTokensLive
  <2>3. QED
    BY <1>2, <2>2
<1>6. StoredGrantIsLive'
  <2>1. endpoint.policy # "issues none" => client[c].record.refresh \in endpoint.live
    BY <1>2 DEF GrantInv, KeptTokensLive, BroughtTokensLive, TokenPolicies
  <2>2. QED
    BY <2>1 DEF StoredGrantIsLive
<1>7. QED
  BY <1>3, <1>4, <1>5, <1>6 DEF GrantInv

\* The clock changes the age of the stored record only (shouldRefresh).
LEMMA AgeDoesNotMatter ==
    ASSUME OAuthTypeOK, GrantInv, Expire
    PROVE  GrantInv' /\ store' \in Grants
<1>1. store \in Grants /\ store # Nil
  BY DEF OAuthTypeOK, Expire
<1>2. store' \in Grants /\ store'.refresh = store.refresh
  BY <1>1 DEF Expire, Grants
<1>3. client' = client /\ endpoint' = endpoint /\ lost' = lost
  BY DEF Expire
<1>4. TokensAreIssued'
  BY <1>1, <1>2, <1>3 DEF GrantInv, TokensAreIssued, HasRecord
<1>5. KeptTokensLive'
  BY <1>1, <1>2, <1>3 DEF GrantInv, KeptTokensLive, HasRecord
<1>6. BroughtTokensLive'
  BY <1>1, <1>2, <1>3 DEF GrantInv, BroughtTokensLive, HasRecord, BringsRecord
<1>7. StoredGrantIsLive'
  BY <1>1, <1>2, <1>3 DEF GrantInv, StoredGrantIsLive
<1>8. QED
  BY <1>2, <1>4, <1>5, <1>6, <1>7 DEF GrantInv

\* The call of a quiet step ends or goes on without the server and without a record.
LEMMA QuietSteps ==
    ASSUME OAuthInv, NEW c \in Clients, NEW stage, NEW outcome, NEW record,
           Turns(c, stage, client[c].code, record, outcome),
           stage \notin {"waiting", "refreshing", "answered", "saving"}, ~Stands(c, "waiting"),
           \/ outcome # "oauth_callback_aborted"
           \/ outcome = client[c].outcome
           \/ client[c].aborted,
           c \in Users /\ BringsRecord(c) => lost',
           lost => lost', lost' \in BOOLEAN,
           server' = server, opened' \in SUBSET Logins, store' = store, endpoint' = endpoint
    PROVE  OAuthInv'
<1>1. OAuthTypeOK'
  BY DEF OAuthInv, OAuthTypeOK, Turns
<1>2. LoginsAreSeparate'
  BY OthersDoNotWait, Zenon DEF OAuthInv, LoginInv
<1>3. GrantInv'
  BY OneCallRests, RecordsRest, Zenon DEF OAuthInv
<1>4. QED
  BY <1>1, <1>2, <1>3 DEF OAuthInv

\* The actions of the logins, one by one.
LEMMA AuthorizeKeeps ==
    ASSUME OAuthInv, NEW c \in Logins, Authorize(c)
    PROVE  OAuthInv'
<1>1. c \in Clients /\ OAuthTypeOK /\ c \notin Users /\ client[c].stage = "idle"
  BY OAuthConstants DEF Clients, OAuthInv, Authorize, Stands
<1>2. Turns(c, "opening", client[c].code, client[c].record, client[c].outcome)
  BY <1>1, ClientTurns DEF Authorize
<1>3. /\ opened' \in SUBSET Logins /\ server' = server /\ store' = store /\ endpoint' = endpoint
      /\ lost' = lost /\ lost \in BOOLEAN
  BY <1>1 DEF Authorize, OAuthTypeOK
<1>4. ~Stands(c, "waiting")
  BY <1>1 DEF Stands
<1>5. "opening" \notin {"waiting", "refreshing", "answered", "saving"}
  OBVIOUS
<1>6. QED
  BY <1>1, <1>2, <1>3, <1>4, <1>5, QuietSteps, Zenon

LEMMA WaitForCallbackKeeps ==
    ASSUME OAuthInv, NEW c \in Logins, WaitForCallback(c)
    PROVE  OAuthInv'
<1>1. c \in Clients /\ OAuthTypeOK /\ c \notin Users /\ client[c].stage = "opening"
  BY OAuthConstants DEF Clients, OAuthInv, WaitForCallback, Stands
<1>2. /\ opened' = opened /\ store' = store /\ endpoint' = endpoint /\ lost' = lost
      /\ opened \in SUBSET Logins /\ lost \in BOOLEAN
  BY <1>1 DEF WaitForCallback, OAuthTypeOK
<1>3. ~Stands(c, "waiting")
  BY <1>1 DEF Stands
<1>4. ASSUME NEW o \in {"oauth_callback_server_closed", "oauth_callback_already_pending"},
             client' = Settle(c, o), server' = server
      PROVE  OAuthInv'
  <2>1. Turns(c, "done", client[c].code, Nil, o)
    <3>1. o \in Outcomes
      BY DEF Outcomes
    <3>2. QED
      BY <1>1, <1>4, <3>1, ClientTurns, Zenon
  <2>2. QED
    BY <1>1, <1>2, <1>3, <1>4, <2>1, QuietSteps
<1>5. CASE client' = Settle(c, "oauth_callback_aborted") /\ server' = server /\ client[c].aborted
  <2>1. Turns(c, "done", client[c].code, Nil, "oauth_callback_aborted")
    BY <1>1, <1>5, ClientTurns, Zenon DEF Outcomes
  <2>2. QED
    BY <1>1, <1>2, <1>3, <1>5, <2>1, QuietSteps
<1>6. CASE /\ client' = Moves(c, "waiting") /\ ~server.closed /\ server.pending = Nil
           /\ server' = [server EXCEPT !.pending = c, !.listening = server.listening \union {c}]
           /\ ~client[c].aborted
  <2>1. Turns(c, "waiting", client[c].code, client[c].record, client[c].outcome)
    BY <1>1, <1>6, ClientTurns
  <2>2. Serves(c, server.listening \union {c}, server.closed)
    BY <1>1, <1>6, ServerTurns
  <2>3. OAuthTypeOK'
    BY <1>1, <1>2, <2>1, <2>2 DEF OAuthTypeOK, Turns, Serves
  <2>4. LoginsAreSeparate'
    BY <1>6, <2>1, <2>2, WaitBegins DEF OAuthInv, LoginInv, WaitForCallback
  <2>5. GrantInv'
    BY <1>1, <1>2, <2>1, OneCallRests, RecordsRest DEF OAuthInv
  <2>6. QED
    BY <2>3, <2>4, <2>5 DEF OAuthInv
<1>7. QED
  BY <1>4, <1>5, <1>6 DEF WaitForCallback

LEMMA CallbackKeeps ==
    ASSUME OAuthInv, NEW state \in Logins \union {Nil}, NEW form \in Forms, Callback(state, form)
    PROVE  OAuthInv'
<1> DEFINE c == server.pending
           verdict == AssertCallback(c, state, form)
<1>1. c \in Logins /\ c \in Clients /\ OAuthTypeOK /\ c \notin Users /\ client[c].stage = "waiting"
  BY OAuthConstants DEF Clients, OAuthInv, OAuthTypeOK, Callback, Stands, LoginsAreSeparate,
     WaitsEndByTheirOwnCause
<1>2. /\ opened' = opened /\ store' = store /\ endpoint' = endpoint /\ lost' = lost
      /\ opened \in SUBSET Logins /\ lost \in BOOLEAN /\ server' = FinishPending
      /\ server.closed \in BOOLEAN
  BY <1>1 DEF Callback, OAuthTypeOK
<1>3. Serves(Nil, server.listening \ {server.pending}, server.closed)
  BY <1>1, <1>2, ServerTurns
<1>4. client[c].code \in {Nil, c}
  BY <1>1 DEF OAuthInv, LoginsAreSeparate, CodesStayWithTheirLogin
<1>5. ASSUME NEW stage \in {"done", "exchanging"}, NEW code \in {Nil, c}, NEW record, NEW outcome,
             outcome # "oauth_callback_aborted" \/ outcome = client[c].outcome,
             Turns(c, stage, code, record, outcome)
      PROVE  OAuthInv'
  <2>1. OAuthTypeOK'
    BY <1>1, <1>2, <1>3, <1>5 DEF OAuthTypeOK, Turns, Serves
  <2>2. LoginsAreSeparate'
    BY <1>1, <1>2, <1>3, <1>5, WaitEnds DEF OAuthInv, LoginInv
  <2>3. GrantInv'
    BY <1>1, <1>2, <1>5, OneCallRests, RecordsRest DEF OAuthInv
  <2>4. QED
    BY <2>1, <2>2, <2>3 DEF OAuthInv
<1>6. CASE verdict = "accepted"
  <2>1. state = c
    BY <1>6, <1>1 DEF AssertCallback, Forms
  <2>2. Turns(c, "exchanging", c, client[c].record, client[c].outcome)
    BY <1>1, <1>6, <2>1, ClientTurns DEF Callback
  <2>3. QED
    BY <1>5, <2>2
<1>7. CASE verdict # "accepted"
  <2>1. verdict \in {"oauth_callback_error", "oauth_state_mismatch", "oauth_missing_code"}
    BY <1>7 DEF AssertCallback, Forms
  <2>2. client' = Settle(c, verdict)
    BY <1>7 DEF Callback
  <2> HIDE DEF verdict
  <2>3. Turns(c, "done", client[c].code, Nil, verdict)
    <3>1. verdict \in Outcomes
      BY <2>1 DEF Outcomes
    <3>2. QED
      BY <1>1, <2>2, <3>1, ClientTurns, Zenon
  <2>4. QED
    BY <1>4, <1>5, <2>1, <2>3
<1>8. QED
  BY <1>6, <1>7

LEMMA CloseKeeps ==
    ASSUME OAuthInv, Close
    PROVE  OAuthInv'
<1>1. /\ opened' = opened /\ store' = store /\ endpoint' = endpoint /\ lost' = lost
      /\ opened \in SUBSET Logins /\ lost \in BOOLEAN /\ OAuthTypeOK /\ Logins \subseteq Clients
  BY DEF Close, OAuthInv, OAuthTypeOK, Clients
<1>2. CASE server.pending = Nil
  <2>1. client' = client
    BY <1>2 DEF Close
  <2>2. /\ server' \in [pending : Logins \union {Nil}, listening : SUBSET Logins, closed : BOOLEAN]
        /\ server'.pending = Nil /\ server'.listening = server.listening \ {Nil}
    BY <1>1, <1>2 DEF Close, FinishPending, OAuthTypeOK
  <2>3. OAuthTypeOK'
    BY <1>1, <2>1, <2>2 DEF OAuthTypeOK
  <2>4. \A d \in Logins : client[d].stage # "waiting" /\ d \notin server.listening
    BY <1>2, OAuthConstants DEF OAuthInv, LoginsAreSeparate, WaitsEndByTheirOwnCause, Stands
  <2>5. LoginsAreSeparate'
    BY <1>2, <2>1, <2>2, <2>4, OAuthConstants
       DEF OAuthInv, LoginsAreSeparate, WaitsEndByTheirOwnCause, CodesStayWithTheirLogin, Stands
  <2>6. NoRecordMoves
    BY <1>1, <2>1 DEF NoRecordMoves, HasRecord, BringsRecord
  <2>7. QED
    BY <2>3, <2>5, <2>6, RecordsRest DEF OAuthInv
<1>3. CASE server.pending # Nil
  <2> DEFINE c == server.pending
  <2>1. c \in Logins /\ c \in Clients /\ c \notin Users
    BY <1>1, <1>3, OAuthConstants DEF OAuthTypeOK
  <2>2. client' = Settle(c, "oauth_callback_server_closed") /\ server' = [FinishPending EXCEPT !.closed = TRUE]
    BY <1>3 DEF Close
  <2>3. Turns(c, "done", client[c].code, Nil, "oauth_callback_server_closed")
    BY <1>1, <2>1, <2>2, ClientTurns, Zenon DEF Outcomes
  <2>4. Serves(Nil, server.listening \ {server.pending}, TRUE)
    BY <1>1, <2>1, <2>2, ServerTurns
  <2>5. client[c].code \in {Nil, c}
    BY <2>1 DEF OAuthInv, LoginsAreSeparate, CodesStayWithTheirLogin
  <2>6. OAuthTypeOK'
    BY <1>1, <2>3, <2>4 DEF OAuthTypeOK, Turns, Serves
  <2>7. LoginsAreSeparate'
    BY <2>1, <2>3, <2>4, <2>5, WaitEnds DEF OAuthInv, LoginInv
  <2>8. GrantInv'
    BY <1>1, <2>1, <2>3, OneCallRests, RecordsRest DEF OAuthInv
  <2>9. QED
    BY <2>6, <2>7, <2>8 DEF OAuthInv
<1>4. QED
  BY <1>2, <1>3

\* The signal of a call ends its own wait or its own request, and marks it (waitForCallback).
LEMMA AbortKeeps ==
    ASSUME OAuthInv, NEW c \in Clients, Abort(c)
    PROVE  OAuthInv'
<1> DEFINE waiter == IF c \in server.listening THEN server.pending ELSE Nil
           marked == [client EXCEPT ![c].aborted = TRUE]
           ended  == IF waiter = Nil THEN server ELSE FinishPending
           l == [client[c] EXCEPT !.aborted = TRUE]
<1>1. /\ opened' = opened /\ store' = store /\ endpoint' = endpoint
      /\ opened \in SUBSET Logins /\ OAuthTypeOK /\ Logins \subseteq Clients
      /\ client[c] \in ClientRecords
  BY DEF Abort, OAuthInv, OAuthTypeOK, Clients
<1>2. lost' \in BOOLEAN /\ (lost => lost') /\ (client[c].stage = "answered" => lost')
  BY <1>1, Zenon DEF Abort, OAuthTypeOK, Stands
<1>3. /\ l \in ClientRecords /\ marked = [client EXCEPT ![c] = l] /\ marked[c] = l
      /\ l.stage = client[c].stage /\ l.code = client[c].code /\ l.record = client[c].record
      /\ l.outcome = client[c].outcome /\ l.aborted
  BY <1>1, ClientRecordsStay, ClientFields DEF OAuthTypeOK
<1>4. /\ client' = IF waiter # Nil
                   THEN [marked EXCEPT ![waiter] = Settled(marked[waiter], "oauth_callback_aborted")]
                   ELSE IF client[c].stage \in {"exchanging", "refreshing", "answered"}
                        THEN [marked EXCEPT ![c] = Settled(marked[c], "request_aborted")]
                        ELSE marked
      /\ server' = [ended EXCEPT !.listening = ended.listening \ {c}]
  BY DEF Abort
<1> HIDE DEF l
<1>5. \A o \in Outcomes :
         /\ Settled(l, o) \in ClientRecords
         /\ Settled(l, o).stage = "done" /\ Settled(l, o).code = l.code
         /\ Settled(l, o).outcome = o /\ Settled(l, o).aborted
  <2>1. ASSUME NEW o \in Outcomes
        PROVE  /\ Settled(l, o) \in ClientRecords
               /\ Settled(l, o).stage = "done" /\ Settled(l, o).code = l.code
               /\ Settled(l, o).outcome = o /\ Settled(l, o).aborted = l.aborted
    BY <1>3, ClientRecordsStay, SettledFields, Zenon
  <2>2. QED
    BY <1>3, <2>1, Zenon
<1>6. ASSUME NEW m \in ClientRecords, client' = [client EXCEPT ![c] = m],
             m.code = client[c].code, m.aborted, c \in Logins => m.stage # "waiting",
             m.stage = "done" \/ (m.stage = client[c].stage /\ m.record = client[c].record),
             client[c].stage # "saving" \/ m.stage = client[c].stage,
             server'.pending = (IF c \in Logins /\ server.pending = c THEN Nil ELSE server.pending),
             server'.listening = server.listening \ {c}, server'.closed = server.closed,
             server' \in [pending : Logins \union {Nil}, listening : SUBSET Logins, closed : BOOLEAN]
      PROVE  OAuthInv'
  <2>1. /\ client' \in [Clients -> ClientRecords] /\ client'[c] = m
        /\ \A d \in Clients : d # c => client'[d] = client[d]
    BY <1>1, <1>6, OneClientChanges
  <2>2. OAuthTypeOK'
    BY <1>1, <1>2, <1>6, <2>1 DEF OAuthTypeOK
  <2>3. CodesStayWithTheirLogin'
    BY <1>1, <1>6, <2>1 DEF OAuthInv, LoginsAreSeparate, CodesStayWithTheirLogin
  <2>4. ASSUME NEW d \in Logins
        PROVE  /\ client'[d].stage = "waiting" <=> server'.pending = d
               /\ client'[d].stage = "waiting" <=> d \in server'.listening
               /\ client'[d].stage = "waiting" => ~server'.closed /\ ~client'[d].aborted
               /\ client'[d].outcome = "oauth_callback_aborted" => client'[d].aborted
    <3>1. CASE d = c
      BY <1>6, <2>1, <3>1, OAuthConstants
    <3>2. CASE d # c
      BY <1>1, <1>6, <2>1, <3>2, OAuthConstants
         DEF OAuthInv, LoginsAreSeparate, WaitsEndByTheirOwnCause, Stands
    <3>3. QED
      BY <3>1, <3>2
  <2>5. LoginsAreSeparate'
    BY <2>3, <2>4 DEF LoginsAreSeparate, WaitsEndByTheirOwnCause, Stands
  <2>6. NoRecordMoves
    <3>1. ASSUME NEW d \in Clients, HasRecord(d)'
          PROVE  client'[d].stage = client[d].stage /\ client'[d].record = client[d].record
      <4>1. CASE d = c
        BY <1>6, <2>1, <3>1, <4>1 DEF HasRecord
      <4>2. CASE d # c
        BY <2>1, <4>2
      <4>3. QED
        BY <4>1, <4>2
    <3>2. ASSUME NEW d \in Users, BringsRecord(d)
          PROVE  BringsRecord(d)' \/ lost'
      <4>1. CASE d = c
        BY <1>2, <1>6, <2>1, <3>2, <4>1 DEF BringsRecord
      <4>2. CASE d # c
        BY <2>1, <3>2, <4>2 DEF BringsRecord, Clients
      <4>3. QED
        BY <4>1, <4>2
    <3>3. QED
      BY <1>1, <1>2, <3>1, <3>2 DEF NoRecordMoves
  <2>7. QED
    BY <2>2, <2>5, <2>6, RecordsRest DEF OAuthInv
<1>7. CASE c \in server.listening
  <2>1. /\ c \in Logins /\ client[c].stage = "waiting" /\ server.pending = c /\ waiter = c
        /\ waiter # Nil
    BY <1>1, <1>7, OAuthConstants
       DEF OAuthInv, OAuthTypeOK, LoginsAreSeparate, WaitsEndByTheirOwnCause, Stands
  <2> DEFINE m == Settled(l, "oauth_callback_aborted")
  <2>2. /\ m \in ClientRecords /\ m.stage = "done" /\ m.code = client[c].code /\ m.aborted
    BY <1>3, <1>5 DEF Outcomes
  <2>3. client' = [client EXCEPT ![c] = m]
    <3>1. client' = [marked EXCEPT ![c] = m]
      BY <1>3, <1>4, <2>1
    <3>2. QED
      BY <1>1, <1>3, <3>1 DEF OAuthTypeOK
  <2> HIDE DEF m
  <2>4. server' = [FinishPending EXCEPT !.listening = FinishPending.listening \ {c}]
    BY <1>4, <2>1
  <2>5. Serves(Nil, (server.listening \ {server.pending}) \ {c}, server.closed)
    BY <1>1, <2>4, ServerTurns
  <2>6. /\ server'.pending = Nil /\ server'.listening = server.listening \ {c}
        /\ server'.closed = server.closed
        /\ server' \in [pending : Logins \union {Nil}, listening : SUBSET Logins, closed : BOOLEAN]
    BY <2>1, <2>5 DEF Serves
  <2>7. QED
    BY <1>6, <2>1, <2>2, <2>3, <2>6
<1>8. CASE c \notin server.listening
  <2>1. waiter = Nil /\ (c \in Logins => client[c].stage # "waiting" /\ server.pending # c)
    BY <1>8 DEF OAuthInv, LoginsAreSeparate, WaitsEndByTheirOwnCause, Stands
  <2>2. server' = [server EXCEPT !.listening = server.listening \ {c}]
    BY <1>4, <1>8
  <2>3. Serves(server.pending, server.listening \ {c}, server.closed)
    BY <1>1, <2>2, ServerTurns
  <2>4. /\ server'.pending = (IF c \in Logins /\ server.pending = c THEN Nil ELSE server.pending)
        /\ server'.listening = server.listening \ {c} /\ server'.closed = server.closed
        /\ server' \in [pending : Logins \union {Nil}, listening : SUBSET Logins, closed : BOOLEAN]
    BY <2>1, <2>3 DEF Serves
  <2>5. CASE client[c].stage \in {"exchanging", "refreshing", "answered"}
    <3> DEFINE m == Settled(l, "request_aborted")
    <3>1. /\ m \in ClientRecords /\ m.stage = "done" /\ m.code = client[c].code /\ m.aborted
      BY <1>3, <1>5 DEF Outcomes
    <3>2. client' = [client EXCEPT ![c] = m]
      <4>1. client' = [marked EXCEPT ![c] = m]
        BY <1>3, <1>4, <2>1, <2>5
      <4>2. QED
        BY <1>1, <1>3, <4>1 DEF OAuthTypeOK
    <3> HIDE DEF m
    <3>3. QED
      BY <1>6, <2>4, <2>5, <3>1, <3>2
  <2>6. CASE client[c].stage \notin {"exchanging", "refreshing", "answered"}
    <3>1. client' = [client EXCEPT ![c] = l]
      BY <1>3, <1>4, <2>1, <2>6
    <3>2. QED
      BY <1>3, <1>6, <2>1, <2>4, <3>1
  <2>7. QED
    BY <2>5, <2>6
<1>9. QED
  BY <1>7, <1>8

\* The endpoint answers to a code and a verifier (exchangeToken).
LEMMA ExchangeTokenKeeps ==
    ASSUME OAuthInv, NEW c \in Logins, ExchangeToken(c)
    PROVE  OAuthInv'
<1>1. c \in Clients /\ OAuthTypeOK /\ c \notin Users /\ client[c].stage = "exchanging"
  BY OAuthConstants DEF Clients, OAuthInv, ExchangeToken, Stands
<1>2. /\ server' = server /\ opened' = opened /\ store' = store /\ lost' = lost
      /\ opened \in SUBSET Logins /\ lost \in BOOLEAN
  BY <1>1 DEF ExchangeToken, OAuthTypeOK
<1>3. ~Stands(c, "waiting")
  BY <1>1 DEF Stands
<1>4. CASE client' = Settle(c, "oauth_token_exchange_failed") /\ endpoint' = endpoint
  <2>1. Turns(c, "done", client[c].code, Nil, "oauth_token_exchange_failed")
    BY <1>1, <1>4, ClientTurns, Zenon DEF Outcomes
  <2>2. QED
    <3>1. /\ "done" \notin {"waiting", "refreshing", "answered", "saving"}
          /\ "oauth_token_exchange_failed" # "oauth_callback_aborted"
      OBVIOUS
    <3>2. QED
      BY <1>1, <1>2, <1>3, <1>4, <2>1, <3>1, QuietSteps, Zenon
<1>5. CASE ~(client' = Settle(c, "oauth_token_exchange_failed") /\ endpoint' = endpoint)
  <2> DEFINE t == IF endpoint.policy = "issues none" THEN 0 ELSE endpoint.last + 1
  <2>1. /\ client' = Holds(c, "saving", Grant(t))
        /\ endpoint' = [endpoint EXCEPT !.last = endpoint.last + 1,
                                        !.live = endpoint.live \union ({t} \ {0})]
    BY <1>5, Zenon DEF ExchangeToken
  <2>0. endpoint.last \in Nat /\ endpoint.last + 1 \in Nat
    BY <1>1 DEF OAuthTypeOK
  <2>2. t \in Nat
    BY <2>0
  <2>3. t = IF endpoint.policy = "issues none" THEN 0 ELSE endpoint.last + 1
    OBVIOUS
  <2> HIDE DEF t
  <2>4. Turns(c, "saving", client[c].code, Grant(t), client[c].outcome)
    <3>1. Grant(t) \in Grants
      BY <2>2 DEF Grant, Grants
    <3>2. QED
      BY <1>1, <2>1, <3>1, ClientTurns
  <2>5. endpoint' \in [live : SUBSET Nat, last : Nat, policy : TokenPolicies]
    <3> DEFINE n == endpoint.last + 1
               live == endpoint.live \union ({t} \ {0})
    <3>1. n \in Nat /\ live \in SUBSET Nat
      BY <1>1, <2>0, <2>2 DEF OAuthTypeOK
    <3>2. endpoint' = [endpoint EXCEPT !.last = n, !.live = live]
      BY <2>1
    <3> HIDE DEF n, live
    <3>3. QED
      BY <1>1, <3>1, <3>2 DEF OAuthTypeOK
  <2>6. OAuthTypeOK'
    BY <1>1, <1>2, <2>4, <2>5 DEF OAuthTypeOK, Turns
  <2>7. LoginsAreSeparate'
    BY <1>1, <1>2, <1>3, <2>4, OthersDoNotWait, Zenon DEF OAuthInv, LoginInv
  <2>8. GrantInv'
    BY <1>1, <1>2, <2>1, <2>2, <2>3, <2>4, ExchangeBringsToken, Zenon DEF OAuthInv
  <2>9. QED
    BY <2>6, <2>7, <2>8 DEF OAuthInv
<1>6. QED
  BY <1>4, <1>5

\* refresh, with the stored record.
LEMMA RefreshWithKeeps ==
    ASSUME OAuthInv, NEW c \in Users, Stands(c, "idle"), store # Nil,
           client' = RefreshWith(c, store),
           server' = server, opened' = opened, store' = store, endpoint' = endpoint, lost' = lost
    PROVE  OAuthInv'
<1>1. /\ c \in Clients /\ OAuthTypeOK /\ store \in Grants /\ opened \in SUBSET Logins
      /\ lost \in BOOLEAN /\ ~Stands(c, "waiting") /\ ~BringsRecord(c)
  BY DEF Clients, OAuthInv, OAuthTypeOK, Stands, BringsRecord
<1>2. CASE client' = Settle(c, "oauth_missing_refresh_token")
  <2>1. Turns(c, "done", client[c].code, Nil, "oauth_missing_refresh_token")
    BY <1>1, <1>2, ClientTurns, Zenon DEF Outcomes
  <2>2. QED
    BY <1>1, <2>1, QuietSteps
<1>3. CASE client' = Holds(c, "refreshing", store)
  <2>1. Turns(c, "refreshing", client[c].code, store, client[c].outcome)
    BY <1>1, <1>3, ClientTurns
  <2>2. OAuthTypeOK'
    BY <1>1, <2>1 DEF OAuthTypeOK, Turns
  <2>3. LoginsAreSeparate'
    BY <1>1, <2>1, OthersDoNotWait DEF OAuthInv, LoginInv
  <2>4. GrantInv'
    BY <1>1, <2>1, LoadTakesStored DEF OAuthInv
  <2>5. QED
    BY <2>2, <2>3, <2>4 DEF OAuthInv
<1>4. QED
  BY <1>2, <1>3 DEF RefreshWith

\* A user that needs no refresh, or cannot have one, ends (credential, refresh).
LEMMA UserEnds ==
    ASSUME OAuthInv, NEW c \in Users, NEW o \in Outcomes, o # "oauth_callback_aborted",
           client' = Settle(c, o), Stands(c, "idle") \/ Stands(c, "refreshing"),
           server' = server, opened' = opened, store' = store, endpoint' = endpoint, lost' = lost
    PROVE  OAuthInv'
<1>1. /\ c \in Clients /\ OAuthTypeOK /\ opened \in SUBSET Logins
      /\ lost \in BOOLEAN /\ ~Stands(c, "waiting") /\ ~BringsRecord(c)
  BY DEF Clients, OAuthInv, OAuthTypeOK, Stands, BringsRecord
<1>2. Turns(c, "done", client[c].code, Nil, o)
  BY <1>1, ClientTurns, Zenon
<1>3. QED
  BY <1>1, <1>2, QuietSteps, SMTT(30)

\* The actions that move records, one by one.
LEMMA LoadingKeeps ==
    ASSUME OAuthInv, NEW c \in Users, (\E force \in BOOLEAN : Credential(c, force)) \/ Refresh(c)
    PROVE  OAuthInv'
<1>1. /\ Stands(c, "idle")
      /\ server' = server /\ opened' = opened /\ store' = store /\ endpoint' = endpoint /\ lost' = lost
  BY DEF Credential, Refresh
<1>2. \/ \E o \in {"oauth_missing_record", "credential", "oauth_missing_refresh_token"} :
            client' = Settle(c, o)
      \/ store # Nil /\ client' = RefreshWith(c, store)
  BY DEF Credential, Refresh
<1>3. ASSUME NEW o \in {"oauth_missing_record", "credential", "oauth_missing_refresh_token"},
             client' = Settle(c, o)
      PROVE  OAuthInv'
  <2>1. o \in Outcomes /\ o # "oauth_callback_aborted"
    BY DEF Outcomes
  <2>2. QED
    BY <1>1, <1>3, <2>1, UserEnds, Zenon
<1>4. QED
  BY <1>1, <1>2, <1>3, RefreshWithKeeps

\* The endpoint handles a refresh (refreshToken).
LEMMA EndpointRefreshesKeeps ==
    ASSUME OAuthInv, NEW c \in Users, EndpointRefreshes(c)
    PROVE  OAuthInv'
<1> DEFINE used == client[c].record.refresh
           t == IF endpoint.policy = "rotates" THEN endpoint.last + 1 ELSE 0
           kept == Kept(used, t)
<1>1. c \in Clients /\ OAuthTypeOK /\ Stands(c, "refreshing") /\ ~Stands(c, "waiting")
  BY DEF Clients, OAuthInv, EndpointRefreshes, Stands
<1>2. /\ server' = server /\ opened' = opened /\ store' = store /\ lost' = lost
      /\ used \in endpoint.live /\ client' = Holds(c, "answered", Grant(kept))
      /\ endpoint' = IF t = 0 THEN endpoint
                     ELSE [endpoint EXCEPT !.last = t, !.live = (endpoint.live \ {used}) \union {t}]
  BY Zenon DEF EndpointRefreshes
<1>3. endpoint.last \in Nat /\ endpoint.last + 1 \in Nat /\ endpoint.live \in SUBSET Nat
  BY <1>1 DEF OAuthTypeOK
<1>4. t \in Nat
  BY <1>3
<1>5. kept \in Nat
  BY <1>2, <1>3, <1>4 DEF Kept
<1>6. /\ t = IF endpoint.policy = "rotates" THEN endpoint.last + 1 ELSE 0
      /\ kept = Kept(used, t) /\ used = client[c].record.refresh
  OBVIOUS
<1> HIDE DEF t, kept, used
<1>7. Turns(c, "answered", client[c].code, Grant(kept), client[c].outcome)
  <2>1. Grant(kept) \in Grants
    BY <1>5 DEF Grant, Grants
  <2>2. QED
    BY <1>1, <1>2, <2>1, ClientTurns
<1>8. endpoint' \in [live : SUBSET Nat, last : Nat, policy : TokenPolicies]
  <2> DEFINE live == (endpoint.live \ {used}) \union {t}
  <2>1. live \in SUBSET Nat
    BY <1>3, <1>4
  <2>2. endpoint' = IF t = 0 THEN endpoint ELSE [endpoint EXCEPT !.last = t, !.live = live]
    BY <1>2
  <2> HIDE DEF live
  <2>3. QED
    BY <1>1, <1>4, <2>1, <2>2 DEF OAuthTypeOK
<1>9. OAuthTypeOK'
  BY <1>1, <1>2, <1>7, <1>8 DEF OAuthTypeOK, Turns
<1>10. LoginsAreSeparate'
  <2>1. "answered" # "waiting"
    OBVIOUS
  <2>2. QED
    BY <1>1, <1>2, <1>7, <2>1, OthersDoNotWait, Zenon DEF OAuthInv, LoginInv
<1>11. GrantInv'
  <2>1. Turns(c, "answered", client[c].code, Grant(Kept(used, t)), client[c].outcome)
    BY <1>6, <1>7
  <2>2. QED
    BY <1>1, <1>2, <1>4, <1>6, <2>1, RefreshBringsToken, Zenon DEF OAuthInv
<1>12. QED
  BY <1>9, <1>10, <1>11 DEF OAuthInv

LEMMA AnswersKeep ==
    ASSUME OAuthInv, NEW c \in Users, RefreshAnswered(c) \/ RefreshFails(c)
    PROVE  OAuthInv'
<1>1. /\ c \in Clients /\ OAuthTypeOK
      /\ server' = server /\ opened' = opened /\ store' = store /\ endpoint' = endpoint
      /\ opened \in SUBSET Logins /\ lost \in BOOLEAN /\ ~Stands(c, "waiting")
  BY DEF Clients, OAuthInv, OAuthTypeOK, RefreshAnswered, RefreshFails, Stands
<1>2. CASE RefreshFails(c)
  <2>1. /\ client' = Settle(c, "oauth_refresh_failed") /\ Stands(c, "refreshing") /\ lost' = lost
        /\ "oauth_refresh_failed" \in Outcomes /\ "oauth_refresh_failed" # "oauth_callback_aborted"
    BY <1>2 DEF RefreshFails, Outcomes
  <2>2. QED
    BY <1>1, <2>1, UserEnds, Zenon
<1>3. CASE Stands(c, "answered") /\ client' = Moves(c, "saving") /\ lost' = lost
  <2>1. Turns(c, "saving", client[c].code, client[c].record, client[c].outcome)
    BY <1>1, <1>3, ClientTurns
  <2>2. OAuthTypeOK'
    BY <1>1, <1>3, <2>1 DEF OAuthTypeOK, Turns
  <2>3. LoginsAreSeparate'
    <3>1. "saving" # "waiting"
      OBVIOUS
    <3>2. QED
      BY <1>1, <2>1, <3>1, OthersDoNotWait, Zenon DEF OAuthInv, LoginInv
  <2>4. GrantInv'
    BY <1>1, <1>3, <2>1, AnswerIsBrought, Zenon DEF OAuthInv
  <2>5. QED
    BY <2>2, <2>3, <2>4 DEF OAuthInv
<1>4. CASE client' = Settle(c, "oauth_refresh_failed") /\ lost' = TRUE
  <2>1. Turns(c, "done", client[c].code, Nil, "oauth_refresh_failed")
    BY <1>1, <1>4, ClientTurns, Zenon DEF Outcomes
  <2>2. /\ "done" \notin {"waiting", "refreshing", "answered", "saving"}
        /\ "oauth_refresh_failed" # "oauth_callback_aborted" /\ lost' \in BOOLEAN /\ lost'
    BY <1>4
  <2>3. QED
    BY <1>1, <2>1, <2>2, QuietSteps, Zenon
<1>5. QED
  BY <1>2, <1>3, <1>4 DEF RefreshAnswered

\* A record reaches the store, or does not (exchange, refresh).
LEMMA SaveKeeps ==
    ASSUME OAuthInv, NEW c \in Clients, Save(c)
    PROVE  OAuthInv'
<1>1. /\ OAuthTypeOK /\ Stands(c, "saving") /\ ~Stands(c, "waiting")
      /\ server' = server /\ opened' = opened /\ endpoint' = endpoint
      /\ opened \in SUBSET Logins /\ endpoint.policy \in TokenPolicies
  BY DEF OAuthInv, OAuthTypeOK, Save, Stands
<1>2. lost' \in BOOLEAN
  BY <1>1, Zenon DEF OAuthTypeOK, Save
<1>3. CASE /\ store' = client[c].record
           /\ client' = Settle(c, IF c \in Logins THEN "authorized" ELSE "credential")
  <2> DEFINE o == IF c \in Logins THEN "authorized" ELSE "credential"
  <2>1. o \in Outcomes /\ o # "oauth_callback_aborted"
    BY DEF Outcomes
  <2>2. client' = Settle(c, o)
    BY <1>3
  <2> HIDE DEF o
  <2>3. Turns(c, "done", client[c].code, Nil, o)
    BY <1>1, <2>1, <2>2, ClientTurns, Zenon
  <2>4. store' \in Grants \union {Nil}
    BY <1>1, <1>3 DEF OAuthTypeOK, ClientRecords
  <2>5. OAuthTypeOK'
    BY <1>1, <1>2, <2>3, <2>4 DEF OAuthTypeOK, Turns
  <2>6. LoginsAreSeparate'
    <3>1. "done" # "waiting"
      OBVIOUS
    <3>2. QED
      BY <1>1, <2>1, <2>3, <3>1, OthersDoNotWait, Zenon DEF OAuthInv, LoginInv
  <2>7. GrantInv'
    BY <1>1, <1>3, <2>3, RecordIsStored, Zenon DEF OAuthInv
  <2>8. QED
    BY <2>5, <2>6, <2>7 DEF OAuthInv
<1>4. CASE lost' = (lost \/ c \in Users) /\ client' = Settle(c, "save_failed") /\ store' = store
  <2>1. Turns(c, "done", client[c].code, Nil, "save_failed")
    BY <1>1, <1>4, ClientTurns, Zenon DEF Outcomes
  <2>2. (c \in Users => lost') /\ (lost => lost')
    BY <1>4, Zenon
  <2>3. /\ "done" \notin {"waiting", "refreshing", "answered", "saving"}
        /\ "save_failed" # "oauth_callback_aborted"
    OBVIOUS
  <2>4. QED
    BY <1>1, <1>2, <1>4, <2>1, <2>2, <2>3, QuietSteps, Zenon
<1>5. QED
  BY <1>3, <1>4, Zenon DEF Save

\* An access token expires in the store.
LEMMA ExpireKeeps ==
    ASSUME OAuthInv, Expire
    PROVE  OAuthInv'
<1>1. /\ server' = server /\ opened' = opened /\ client' = client /\ endpoint' = endpoint /\ lost' = lost
  BY DEF Expire
<1>2. GrantInv' /\ store' \in Grants
  BY AgeDoesNotMatter DEF OAuthInv
<1>3. OAuthTypeOK' /\ LoginsAreSeparate'
  BY <1>1, <1>2 DEF OAuthInv, OAuthTypeOK, LoginsAreSeparate, CodesStayWithTheirLogin,
     WaitsEndByTheirOwnCause, Stands
<1>4. QED
  BY <1>2, <1>3 DEF OAuthInv

\* No call has begun.
LEMMA OAuthInitially ==
    LoginInit => OAuthInv
<1> SUFFICES ASSUME LoginInit PROVE OAuthInv
  OBVIOUS
<1>1. PICK kind \in TokenPolicies :
         /\ endpoint = [live |-> IF kind = "issues none" THEN {} ELSE {1}, last |-> 1,
                        policy |-> kind]
         /\ store \in {Nil, Grant(IF kind = "issues none" THEN 0 ELSE 1)}
  BY DEF LoginInit
<1>2. /\ server = NewServer /\ opened = {} /\ client = [c \in Clients |-> NewClient] /\ lost = FALSE
  BY DEF LoginInit
<1>3. NewClient \in ClientRecords
  BY DEF NewClient, ClientRecords, Outcomes
<1>4. OAuthTypeOK
  <2>1. /\ server \in [pending : Logins \union {Nil}, listening : SUBSET Logins, closed : BOOLEAN]
        /\ opened \in SUBSET Logins /\ client \in [Clients -> ClientRecords] /\ lost \in BOOLEAN
    BY <1>2, <1>3 DEF NewServer
  <2>2. store \in Grants \union {Nil}
    <3>1. Grant(0) \in Grants /\ Grant(1) \in Grants
      BY DEF Grants, Grant
    <3>2. store \in {Nil, Grant(0), Grant(1)}
      BY <1>1, Zenon
    <3>3. QED
      BY <3>1, <3>2, Zenon
  <2> DEFINE live == IF kind = "issues none" THEN {} ELSE {1}
  <2>3. live \in SUBSET Nat
    <3>1. {1} \in SUBSET Nat /\ {} \in SUBSET Nat
      OBVIOUS
    <3>2. QED
      BY <3>1, Zenon
  <2>4. endpoint = [live |-> live, last |-> 1, policy |-> kind] /\ kind \in TokenPolicies
    BY <1>1, Zenon
  <2> HIDE DEF live
  <2>5. endpoint \in [live : SUBSET Nat, last : Nat, policy : TokenPolicies]
    BY ONLY <2>3, <2>4
  <2>6. QED
    BY <2>1, <2>2, <2>5 DEF OAuthTypeOK
<1>5. LoginsAreSeparate
  BY <1>2, OAuthConstants DEF LoginsAreSeparate, CodesStayWithTheirLogin, WaitsEndByTheirOwnCause,
     Stands, NewServer, NewClient, Clients
<1>6. \A c \in Clients : ~HasRecord(c) /\ ~BringsRecord(c)
  BY <1>2 DEF HasRecord, BringsRecord, NewClient
<1>7. store # Nil => /\ store \in Grants /\ store.refresh <= endpoint.last
                     /\ kind # "issues none" => store.refresh \in endpoint.live
  <2>1. CASE kind = "issues none"
    <3>1. endpoint.last = 1 /\ store \in {Nil, Grant(0)}
      BY <1>1, <2>1
    <3>2. Grant(0) \in Grants /\ Grant(0).refresh = 0
      BY DEF Grants, Grant
    <3>3. 0 <= 1
      OBVIOUS
    <3>4. QED
      BY <2>1, <3>1, <3>2, <3>3, Zenon
  <2>2. CASE kind # "issues none"
    <3>1. endpoint.last = 1 /\ endpoint.live = {1} /\ store \in {Nil, Grant(1)}
      BY <1>1, <2>2
    <3>2. Grant(1) \in Grants /\ Grant(1).refresh = 1
      BY DEF Grants, Grant
    <3>3. 1 <= 1
      OBVIOUS
    <3>4. QED
      BY <3>1, <3>2, <3>3, Zenon
  <2>3. QED
    BY <2>1, <2>2
<1>8. \A t \in endpoint.live : t <= endpoint.last
  <2>1. endpoint.last = 1 /\ endpoint.live \subseteq {1}
    BY <1>1
  <2>2. QED
    BY <2>1
<1>9. endpoint.policy = kind
  BY <1>1
<1>10. TokensAreIssued
  BY <1>6, <1>7, <1>8 DEF TokensAreIssued
<1>11. KeptTokensLive /\ BroughtTokensLive
  BY <1>6, <1>7, <1>9 DEF KeptTokensLive, BroughtTokensLive
<1>12. StoredGrantIsLive
  BY <1>7, <1>9 DEF StoredGrantIsLive
<1>13. QED
  BY <1>4, <1>5, <1>10, <1>11, <1>12 DEF OAuthInv, GrantInv

\* Every step of the calls, of the callback server and of the endpoint.
LEMMA OAuthNextKeepsInv ==
    OAuthInv /\ [LoginNext]_loginVars => OAuthInv'
<1> SUFFICES ASSUME OAuthInv, [LoginNext]_loginVars
             PROVE  OAuthInv'
  OBVIOUS
<1>1. ASSUME NEW c \in Logins, Authorize(c) \/ WaitForCallback(c) \/ ExchangeToken(c)
      PROVE  OAuthInv'
  BY <1>1, AuthorizeKeeps, WaitForCallbackKeeps, ExchangeTokenKeeps
<1>2. ASSUME NEW state \in Logins \union {Nil}, NEW form \in Forms, Callback(state, form)
      PROVE  OAuthInv'
  BY <1>2, CallbackKeeps
<1>3. ASSUME NEW c \in Users,
             \/ \E force \in BOOLEAN : Credential(c, force)
             \/ Refresh(c) \/ EndpointRefreshes(c) \/ RefreshAnswered(c) \/ RefreshFails(c)
      PROVE  OAuthInv'
  BY <1>3, LoadingKeeps, EndpointRefreshesKeeps, AnswersKeep, Zenon
<1>4. ASSUME NEW c \in Clients, Save(c) \/ Abort(c)
      PROVE  OAuthInv'
  BY <1>4, SaveKeeps, AbortKeeps
<1>5. CASE Close
  BY <1>5, CloseKeeps
<1>6. CASE Expire
  BY <1>6, ExpireKeeps
<1>7. CASE UNCHANGED loginVars
  <2>1. OAuthTypeOK' /\ LoginsAreSeparate'
    BY <1>7 DEF loginVars, OAuthInv, OAuthTypeOK, LoginsAreSeparate, CodesStayWithTheirLogin,
       WaitsEndByTheirOwnCause, Stands
  <2>2. NoRecordMoves
    BY <1>7 DEF loginVars, NoRecordMoves, HasRecord, BringsRecord
  <2>3. QED
    BY <2>1, <2>2, RecordsRest DEF OAuthInv
<1>8. QED
  BY <1>1, <1>2, <1>3, <1>4, <1>5, <1>6, <1>7, Zenon DEF LoginNext

\* The invariant of the logins and of the refreshes: whom the callback server serves is the one
\* login that waits and listens, no token is known that was not issued, and one that a call brings
\* to the store of an endpoint that rotates is live and nobody else's.
THEOREM OAuthInvariant == LoginSpec => []OAuthInv
BY OAuthInitially, OAuthNextKeepsInv, PTL DEF LoginSpec

\* Logins that use one callback server never meet, for any number of logins and of calls: a code
\* is redeemed by the login it was sent for, and a wait ends by its own cause (assertCallback,
\* waitForCallback, finishPending).
THEOREM LoginsStaySeparate == LoginSpec => []LoginsAreSeparate
BY OAuthInvariant, PTL DEF OAuthInv

\* The refresh token in the store is one the endpoint accepts, for any number of credential calls
\* that refresh it concurrently, unless a refresh that rotated it was lost (credential, refresh).
THEOREM GrantStaysLive == LoginSpec => []StoredGrantIsLive
BY OAuthInvariant, PTL DEF OAuthInv, GrantInv

-----------------------------------------------------------------------------
(* CodexAuth *)

\* A document, whatever refresh token it has by now.
LoginTokens ==
    [access : {"absent", "fresh", "expiring"}, refresh : Nat, named : BOOLEAN, idToken : IdTokens]
LoginDocuments == [mode : Modes, apiKey : BOOLEAN, personal : BOOLEAN, tokens : LoginTokens]

\* The states of a resolution.
CodexOutcomes ==
    {"none", "chatgpt", "api-key", "personal-access-token", "write_failed", "codex_auth_missing",
     "codex_auth_read_failed", "codex_api_key_missing", "codex_personal_access_token_missing",
     "codex_agent_identity_unsupported", "codex_auth_mode_unsupported",
     "codex_chatgpt_token_missing", "codex_refresh_failed"}

Resolutions ==
    [stage : {"idle", "refreshing", "answered", "writing", "done"},
     document : LoginDocuments \union {Missing}, outcome : CodexOutcomes,
     account : {"account", Missing}]

CodexTypeOK ==
    /\ file \in LoginDocuments \union {Missing, Torn}
    /\ origin \in LoginDocuments \union {Missing}
    /\ resolution \in [Resolvers -> Resolutions]
    /\ issuer \in [live : Nat \ {0}, rotates : BOOLEAN]
    /\ unwritten \in BOOLEAN

\* A file that can be read.
Complete(f) == f \notin {Missing, Torn}

\* What a document has from the login it was; only tokens and their claims are renewed.
IsTheLogin(d) ==
    /\ d \in LoginDocuments /\ origin \in LoginDocuments
    /\ d.mode = origin.mode /\ d.apiKey = origin.apiKey /\ d.personal = origin.personal
    /\ d.tokens.named = origin.tokens.named
    /\ origin.tokens.refresh \in {0, 1}

\* A resolution that has a document: it read it, or got new tokens for it.
HoldsDocument(r) == resolution[r].stage \in {"refreshing", "answered", "writing"}

\* Whatever is in the file or on its way there is the login.
DocumentsAreTheLogin ==
    /\ Complete(file) => IsTheLogin(file)
    /\ \A r \in Resolvers : HoldsDocument(r) => IsTheLogin(resolution[r].document)

\* An endpoint that keeps its tokens leaves the one of the login everywhere.
OneTokenStays ==
    ~issuer.rotates =>
        /\ issuer.live = 1
        /\ Complete(file) => file.tokens.refresh = origin.tokens.refresh
        /\ \A r \in Resolvers :
              HoldsDocument(r) => resolution[r].document.tokens.refresh = origin.tokens.refresh

\* Under one that rotates them nobody but the resolution that is writing has the live one.
WriterHasTheToken ==
    issuer.rotates =>
        /\ Complete(file) => file.tokens.refresh <= issuer.live
        /\ \A r \in Resolvers :
              HoldsDocument(r) => resolution[r].document.tokens.refresh <= issuer.live
        /\ \A r \in Resolvers : Writing(r) =>
              /\ resolution[r].document.tokens.refresh = issuer.live
              /\ Complete(file) => file.tokens.refresh # issuer.live
              /\ \A q \in Resolvers \ {r} :
                    HoldsDocument(q) => resolution[q].document.tokens.refresh # issuer.live

\* The two statements of the property.
FileIsCurrent ==
    Complete(file) /\ ~unwritten /\ (\A r \in Resolvers : ~Writing(r)) /\ origin.tokens.refresh # 0
    => file.tokens.refresh = issuer.live

AccountsAreKept ==
    \A r \in Resolvers :
        resolution[r].outcome = "chatgpt" /\ NothingSet /\ origin.tokens.named
        => resolution[r].account = "account"

\* The invariant of CodexAuth.
CodexInv ==
    /\ CodexTypeOK
    /\ DocumentsAreTheLogin
    /\ OneTokenStays
    /\ WriterHasTheToken
    /\ FileIsCurrent
    /\ AccountsAreKept

\* What a document keeps is what the property compares.
LEMMA LoginIsRecognised ==
    ASSUME NEW d, IsTheLogin(d)
    PROVE  d.tokens.named = origin.tokens.named /\ [d EXCEPT !.tokens = origin.tokens] = origin
BY DEF IsTheLogin, LoginDocuments

LEMMA CodexInvSuffices ==
    CodexInv => LoginSurvivesRefreshes
BY LoginIsRecognised DEF CodexInv, DocumentsAreTheLogin, FileIsCurrent, AccountsAreKept, Complete,
   LoginSurvivesRefreshes

\* The tokens of a response renew those of a document (refreshChatGptToken).
LEMMA RefreshedDocuments ==
    ASSUME NEW d \in LoginDocuments,
           NEW response \in [access : BOOLEAN, refresh : Nat, idToken : IdTokens]
    PROVE  /\ Refreshed(d, response) \in LoginDocuments
           /\ Refreshed(d, response).mode = d.mode
           /\ Refreshed(d, response).apiKey = d.apiKey
           /\ Refreshed(d, response).personal = d.personal
           /\ Refreshed(d, response).tokens.named = d.tokens.named
           /\ Refreshed(d, response).tokens.refresh =
                 IF response.refresh = 0 THEN d.tokens.refresh ELSE response.refresh
<1> DEFINE tokens == Merged(d.tokens, response)
<1>1. /\ d.tokens.access \in {"absent", "fresh", "expiring"} /\ d.tokens.refresh \in Nat
      /\ d.tokens.named \in BOOLEAN /\ d.tokens.idToken \in IdTokens
  BY DEF LoginDocuments, LoginTokens
<1>2. tokens \in LoginTokens
  BY <1>1 DEF Merged, LoginTokens
<1>3. /\ tokens.named = d.tokens.named
      /\ tokens.refresh = IF response.refresh = 0 THEN d.tokens.refresh ELSE response.refresh
  BY DEF Merged
<1>4. Refreshed(d, response) = [d EXCEPT !.tokens = tokens]
  BY DEF Refreshed
<1> HIDE DEF tokens
<1>5. QED
  BY <1>2, <1>3, <1>4 DEF LoginDocuments

\* A step takes one resolution to this stage, document, outcome and account.
Proceeds(r, stage, document, outcome, account) ==
    /\ resolution' \in [Resolvers -> Resolutions]
    /\ \A q \in Resolvers : q # r => resolution'[q] = resolution[q]
    /\ resolution'[r].stage = stage /\ resolution'[r].document = document
    /\ resolution'[r].outcome = outcome /\ resolution'[r].account = account

\* The records a step gives to one resolution.
LEMMA ResolutionSteps ==
    ASSUME CodexTypeOK, NEW r \in Resolvers
    PROVE  /\ \A o \in CodexOutcomes, a \in {"account", Missing} :
                 resolution' = Ended(r, o, a) => Proceeds(r, "done", resolution[r].document, o, a)
           /\ \A stage \in {"refreshing", "answered"}, d \in LoginDocuments :
                 resolution' = Carries(r, stage, d)
                 => Proceeds(r, stage, d, resolution[r].outcome, resolution[r].account)
           /\ resolution' = [resolution EXCEPT ![r].stage = "writing"]
              => Proceeds(r, "writing", resolution[r].document, resolution[r].outcome,
                          resolution[r].account)
<1>1. resolution[r] \in Resolutions
  BY DEF CodexTypeOK
<1>2. ASSUME NEW m \in Resolutions, resolution' = [resolution EXCEPT ![r] = m]
      PROVE  /\ resolution' \in [Resolvers -> Resolutions] /\ resolution'[r] = m
             /\ \A q \in Resolvers : q # r => resolution'[q] = resolution[q]
  BY <1>2 DEF CodexTypeOK
<1>3. ASSUME NEW o \in CodexOutcomes, NEW a \in {"account", Missing}, resolution' = Ended(r, o, a)
      PROVE  Proceeds(r, "done", resolution[r].document, o, a)
  <2> DEFINE m == [resolution[r] EXCEPT !.stage = "done", !.outcome = o, !.account = a]
  <2>1. /\ m \in Resolutions /\ m.stage = "done" /\ m.document = resolution[r].document
        /\ m.outcome = o /\ m.account = a
    BY <1>1 DEF Resolutions
  <2>2. resolution' = [resolution EXCEPT ![r] = m]
    BY <1>3 DEF Ended
  <2> HIDE DEF m
  <2>3. QED
    BY <1>2, <2>1, <2>2, Zenon DEF Proceeds
<1>4. ASSUME NEW stage \in {"refreshing", "answered"}, NEW d \in LoginDocuments,
             resolution' = Carries(r, stage, d)
      PROVE  Proceeds(r, stage, d, resolution[r].outcome, resolution[r].account)
  <2> DEFINE m == [resolution[r] EXCEPT !.stage = stage, !.document = d]
  <2>1. /\ m \in Resolutions /\ m.stage = stage /\ m.document = d
        /\ m.outcome = resolution[r].outcome /\ m.account = resolution[r].account
    BY <1>1 DEF Resolutions
  <2>2. resolution' = [resolution EXCEPT ![r] = m]
    BY <1>4 DEF Carries
  <2> HIDE DEF m
  <2>3. QED
    BY <1>2, <2>1, <2>2, Zenon DEF Proceeds
<1>5. ASSUME resolution' = [resolution EXCEPT ![r].stage = "writing"]
      PROVE  Proceeds(r, "writing", resolution[r].document, resolution[r].outcome,
                      resolution[r].account)
  <2> DEFINE m == [resolution[r] EXCEPT !.stage = "writing"]
  <2>1. /\ m \in Resolutions /\ m.stage = "writing" /\ m.document = resolution[r].document
        /\ m.outcome = resolution[r].outcome /\ m.account = resolution[r].account
    BY <1>1 DEF Resolutions
  <2>2. resolution' = [resolution EXCEPT ![r] = m]
    BY <1>5
  <2> HIDE DEF m
  <2>3. QED
    BY <1>2, <2>1, <2>2, Zenon DEF Proceeds
<1>6. QED
  BY <1>3, <1>4, <1>5

\* Every step leaves the environment and the original alone.
Unmoved == environment' = environment /\ origin' = origin

\* A step whose outcome names its account disturbs no other outcome.
LEMMA AccountsStayKept ==
    ASSUME CodexInv, Unmoved, NEW r \in Resolvers, NEW stage, NEW document, NEW o, NEW a,
           Proceeds(r, stage, document, o, a),
           (o = "chatgpt" /\ NothingSet /\ origin.tokens.named) =>
               a = "account" \/ (o = resolution[r].outcome /\ a = resolution[r].account)
    PROVE  AccountsAreKept'
<1>1. NothingSet' <=> NothingSet
  BY DEF NothingSet, IsSet, Unmoved
<1>2. ASSUME NEW q \in Resolvers, resolution'[q].outcome = "chatgpt", NothingSet, origin.tokens.named
      PROVE  resolution'[q].account = "account"
  <2>1. CASE q = r
    BY <1>2, <2>1 DEF Proceeds, CodexInv, AccountsAreKept
  <2>2. CASE q # r
    BY <1>2, <2>2 DEF Proceeds, CodexInv, AccountsAreKept
  <2>3. QED
    BY <2>1, <2>2
<1>3. QED
  BY <1>1, <1>2 DEF AccountsAreKept, Unmoved

\* A resolution ends without writing; a token that it got is lost with it.
LEMMA ResolutionEnds ==
    ASSUME CodexInv, Unmoved, NEW r \in Resolvers, NEW o, NEW a,
           Proceeds(r, "done", resolution[r].document, o, a),
           o = "chatgpt" /\ NothingSet /\ origin.tokens.named => a = "account",
           file' = file, issuer' = issuer, unwritten' \in BOOLEAN,
           unwritten => unwritten', Writing(r) => unwritten'
    PROVE  CodexInv'
<1>1. /\ \A q \in Resolvers : q # r => resolution'[q] = resolution[q]
      /\ resolution'[r].stage = "done"
  BY DEF Proceeds
<1>2. /\ \A q \in Resolvers : HoldsDocument(q)' =>
             q # r /\ HoldsDocument(q) /\ resolution'[q] = resolution[q]
      /\ \A q \in Resolvers : Writing(q)' => q # r /\ Writing(q) /\ resolution'[q] = resolution[q]
      /\ \A q \in Resolvers : Writing(q) => Writing(q)' \/ unwritten'
  BY <1>1 DEF HoldsDocument, Writing
<1>3. CodexTypeOK'
  BY DEF CodexInv, CodexTypeOK, Proceeds, Unmoved
<1>4. DocumentsAreTheLogin'
  BY <1>2 DEF CodexInv, DocumentsAreTheLogin, IsTheLogin, Complete, Unmoved
<1>5. OneTokenStays'
  BY <1>2 DEF CodexInv, OneTokenStays, Complete, Unmoved
<1>6. WriterHasTheToken'
  BY <1>2 DEF CodexInv, WriterHasTheToken, Complete
<1>7. FileIsCurrent'
  BY <1>2 DEF CodexInv, FileIsCurrent, Complete, Unmoved
<1>8. AccountsAreKept'
  BY AccountsStayKept
<1>9. QED
  BY <1>3, <1>4, <1>5, <1>6, <1>7, <1>8 DEF CodexInv

\* A resolution that read a document is about to refresh its tokens.
LEMMA RefreshStarts ==
    ASSUME CodexInv, Unmoved, NEW r \in Resolvers, Reached(r, "idle"), Complete(file),
           resolution' = Carries(r, "refreshing", file),
           file' = file, issuer' = issuer, unwritten' = unwritten
    PROVE  CodexInv'
<1>1. IsTheLogin(file) /\ file \in LoginDocuments /\ CodexTypeOK
  BY DEF CodexInv, DocumentsAreTheLogin, IsTheLogin
<1>2. Proceeds(r, "refreshing", file, resolution[r].outcome, resolution[r].account)
  BY <1>1, ResolutionSteps
<1>3. /\ \A q \in Resolvers : q # r => resolution'[q] = resolution[q]
      /\ resolution'[r].stage = "refreshing" /\ resolution'[r].document = file
      /\ resolution[r].stage = "idle"
  BY <1>2 DEF Proceeds, Reached
<1>4. /\ \A q \in Resolvers : HoldsDocument(q)' =>
             \/ q = r
             \/ q # r /\ HoldsDocument(q) /\ resolution'[q] = resolution[q]
      /\ \A q \in Resolvers : Writing(q)' => q # r /\ Writing(q) /\ resolution'[q] = resolution[q]
      /\ \A q \in Resolvers : Writing(q) => Writing(q)'
  BY <1>3 DEF HoldsDocument, Writing
<1>5. CodexTypeOK'
  BY <1>1, <1>2 DEF CodexTypeOK, Proceeds, Unmoved
<1>6. DocumentsAreTheLogin'
  BY <1>1, <1>3, <1>4 DEF CodexInv, DocumentsAreTheLogin, IsTheLogin, Complete, Unmoved
<1>7. OneTokenStays'
  BY <1>3, <1>4 DEF CodexInv, OneTokenStays, Complete, Unmoved
<1>8. WriterHasTheToken'
  BY <1>3, <1>4 DEF CodexInv, WriterHasTheToken, Complete
<1>9. FileIsCurrent'
  BY <1>4 DEF CodexInv, FileIsCurrent, Complete, Unmoved
<1>10. AccountsAreKept'
  BY <1>2, AccountsStayKept
<1>11. QED
  BY <1>5, <1>6, <1>7, <1>8, <1>9, <1>10 DEF CodexInv

\* The outcomes that do not come from tokens.
LEMMA OutcomesAreKnown ==
    /\ FromEnvironment \in CodexOutcomes
    /\ \A d : FromMode(d) \in CodexOutcomes \ {"chatgpt"}
<1>1. FromEnvironment \in CodexOutcomes
  BY DEF FromEnvironment, CodexOutcomes
<1>2. ASSUME NEW d
      PROVE  FromMode(d) \in CodexOutcomes \ {"chatgpt"}
  <2> DEFINE mode == ResolvedMode(d)
  <2> HIDE DEF mode
  <2>1. FromMode(d) =
           CASE mode = "apikey" -> IF d.apiKey THEN "api-key" ELSE "codex_api_key_missing"
             [] mode = "personalaccesstoken" ->
                  IF d.personal THEN "personal-access-token" ELSE "codex_personal_access_token_missing"
             [] mode = "agentidentity" -> "codex_agent_identity_unsupported"
             [] OTHER -> "codex_auth_mode_unsupported"
    BY DEF FromMode, mode
  <2>2. QED
    BY <2>1 DEF CodexOutcomes
<1>3. QED
  BY <1>1, <1>2

\* A resolution starts: it ends at once or holds the document it read (resolveCodexAuth).
LEMMA ResolveKeeps ==
    ASSUME CodexInv, NEW r \in Resolvers, ResolveCodexAuth(r)
    PROVE  CodexInv'
<1>1. /\ Reached(r, "idle") /\ Unmoved /\ file' = file /\ issuer' = issuer
      /\ unwritten' = unwritten /\ CodexTypeOK /\ unwritten \in BOOLEAN /\ ~Writing(r)
  BY DEF ResolveCodexAuth, Unmoved, CodexInv, CodexTypeOK, Reached, Writing
<1>2. ASSUME NEW o \in CodexOutcomes, NEW a \in {"account", Missing},
             o = "chatgpt" /\ NothingSet /\ origin.tokens.named => a = "account",
             resolution' = Ended(r, o, a)
      PROVE  CodexInv'
  <2>1. Proceeds(r, "done", resolution[r].document, o, a)
    BY <1>1, <1>2, ResolutionSteps
  <2>2. QED
    BY <1>1, <1>2, <2>1, ResolutionEnds
<1>3. CASE ~NothingSet
  <2>1. resolution' = Ended(r, FromEnvironment, Missing)
    BY <1>3 DEF ResolveCodexAuth
  <2>2. QED
    BY <1>2, <1>3, <2>1, OutcomesAreKnown
<1>4. CASE NothingSet /\ file = Missing
  <2>1. resolution' = Ended(r, "codex_auth_missing", Missing)
    BY <1>4, CodexConstants DEF ResolveCodexAuth
  <2>2. QED
    BY <1>2, <2>1 DEF CodexOutcomes
<1>5. CASE NothingSet /\ file = Torn
  <2>1. resolution' = Ended(r, "codex_auth_read_failed", Missing)
    BY <1>5, CodexConstants DEF ResolveCodexAuth
  <2>2. QED
    BY <1>2, <2>1 DEF CodexOutcomes
<1>6. CASE NothingSet /\ Complete(file)
  <2> DEFINE mode == ResolvedMode(file)
  <2>1. resolution' =
           CASE mode # "chatgpt" -> Ended(r, FromMode(file), Missing)
             [] mode = "chatgpt" /\ file.tokens.access = "absent" ->
                    Ended(r, "codex_chatgpt_token_missing", Missing)
             [] mode = "chatgpt" /\ file.tokens.access = "expiring" /\ file.tokens.refresh # 0 ->
                    Carries(r, "refreshing", file)
             [] OTHER -> Ended(r, "chatgpt", AccountOf(file.tokens))
    BY <1>6, Zenon DEF ResolveCodexAuth, Complete
  <2> HIDE DEF mode
  <2>2. \/ resolution' = Ended(r, FromMode(file), Missing)
        \/ resolution' = Ended(r, "codex_chatgpt_token_missing", Missing)
        \/ resolution' = Carries(r, "refreshing", file)
        \/ resolution' = Ended(r, "chatgpt", AccountOf(file.tokens))
    BY <2>1
  <2>3. CASE resolution' = Ended(r, FromMode(file), Missing)
    BY <1>2, <2>3, OutcomesAreKnown
  <2>4. CASE resolution' = Ended(r, "codex_chatgpt_token_missing", Missing)
    BY <1>2, <2>4 DEF CodexOutcomes
  <2>5. CASE resolution' = Carries(r, "refreshing", file)
    BY <1>1, <1>6, <2>5, RefreshStarts
  <2>6. CASE resolution' = Ended(r, "chatgpt", AccountOf(file.tokens))
    <3>1. file.tokens.named = origin.tokens.named
      BY <1>6 DEF CodexInv, DocumentsAreTheLogin, IsTheLogin
    <3>2. /\ AccountOf(file.tokens) \in {"account", Missing}
          /\ origin.tokens.named => AccountOf(file.tokens) = "account"
      BY <3>1 DEF AccountOf
    <3>3. QED
      BY <1>2, <2>6, <3>2 DEF CodexOutcomes
  <2>7. QED
    BY <2>2, <2>3, <2>4, <2>5, <2>6
<1>7. QED
  BY <1>3, <1>4, <1>5, <1>6 DEF Complete

\* The endpoint answers with new tokens: if it rotates them the call has the only live one,
\* otherwise everybody keeps the one of the login (refreshChatGptToken).
LEMMA IssuerRefreshesKeeps ==
    ASSUME CodexInv, NEW r \in Resolvers, IssuerRefreshes(r)
    PROVE  CodexInv'
<1> DEFINE next == IF issuer.rotates THEN issuer.live + 1 ELSE 0
           d == resolution[r].document
<1>1. /\ resolution[r].stage = "refreshing" /\ Unmoved /\ file' = file /\ unwritten' = unwritten
      /\ d.tokens.refresh = issuer.live /\ CodexTypeOK
      /\ issuer' = IF next = 0 THEN issuer ELSE [issuer EXCEPT !.live = next]
  BY DEF IssuerRefreshes, Unmoved, CodexInv, Reached
<1>2. PICK response \in [access : BOOLEAN, refresh : {next}, idToken : IdTokens] :
         resolution' = Carries(r, "answered", Refreshed(d, response))
  BY DEF IssuerRefreshes
<1>3. HoldsDocument(r) /\ IsTheLogin(d) /\ d \in LoginDocuments
  BY <1>1 DEF CodexInv, DocumentsAreTheLogin, HoldsDocument, IsTheLogin
<1>4. /\ issuer.live \in Nat \ {0} /\ issuer.live + 1 \in Nat \ {0} /\ issuer.rotates \in BOOLEAN
      /\ \A u \in Nat : u <= issuer.live => u <= issuer.live + 1 /\ u # issuer.live + 1
  BY <1>1, NextIsNew DEF CodexTypeOK
<1>5. next \in Nat /\ response.refresh = next
  BY <1>2, <1>4
<1>6. response \in [access : BOOLEAN, refresh : Nat, idToken : IdTokens]
  BY <1>2, <1>5
<1> DEFINE e == Refreshed(d, response)
<1>7. /\ e \in LoginDocuments /\ e.mode = d.mode /\ e.apiKey = d.apiKey /\ e.personal = d.personal
      /\ e.tokens.named = d.tokens.named
      /\ e.tokens.refresh = IF next = 0 THEN issuer.live ELSE next
  BY <1>1, <1>3, <1>5, <1>6, RefreshedDocuments
<1>8. IsTheLogin(e)
  BY <1>3, <1>7 DEF IsTheLogin
<1> HIDE DEF e
<1>9. Proceeds(r, "answered", e, resolution[r].outcome, resolution[r].account)
  BY <1>1, <1>2, <1>7, ResolutionSteps DEF e
<1>10. /\ \A q \in Resolvers : q # r => resolution'[q] = resolution[q]
       /\ resolution'[r].stage = "answered" /\ resolution'[r].document = e
  BY <1>9 DEF Proceeds
<1>11. /\ \A q \in Resolvers : HoldsDocument(q)' =>
              \/ q = r
              \/ q # r /\ HoldsDocument(q) /\ resolution'[q] = resolution[q]
       /\ Writing(r)' /\ ~Writing(r)
       /\ \A q \in Resolvers : q # r /\ Writing(q)' => Writing(q)
  BY <1>1, <1>10 DEF HoldsDocument, Writing
<1>12. DocumentsAreTheLogin'
  <2>1. IsTheLogin(resolution[r].document)' /\ (Complete(file)' => IsTheLogin(file)')
    BY <1>1, <1>8, <1>10 DEF CodexInv, DocumentsAreTheLogin, IsTheLogin, Complete, Unmoved
  <2>2. \A q \in Resolvers : HoldsDocument(q)' => IsTheLogin(resolution[q].document)'
    BY <1>1, <1>10, <1>11, <2>1 DEF CodexInv, DocumentsAreTheLogin, IsTheLogin, Unmoved
  <2>3. QED
    BY <2>1, <2>2 DEF DocumentsAreTheLogin
<1>13. FileIsCurrent'
  BY <1>11 DEF FileIsCurrent
<1>14. AccountsAreKept'
  BY <1>1, <1>9, AccountsStayKept
<1>15. CASE ~issuer.rotates
  <2>1. issuer' = issuer /\ e.tokens.refresh = issuer.live
    BY <1>1, <1>7, <1>15
  <2>2. CodexTypeOK'
    BY <1>1, <1>9, <2>1 DEF CodexTypeOK, Proceeds, Unmoved
  <2>3. OneTokenStays'
    <3>1. e.tokens.refresh = origin.tokens.refresh
      BY <1>1, <1>3, <1>15, <2>1 DEF CodexInv, OneTokenStays
    <3>2. QED
      BY <1>1, <1>10, <1>11, <1>15, <2>1, <3>1 DEF CodexInv, OneTokenStays, Complete, Unmoved
  <2>4. WriterHasTheToken'
    BY <1>15, <2>1 DEF WriterHasTheToken
  <2>5. QED
    BY <1>12, <1>13, <1>14, <2>2, <2>3, <2>4 DEF CodexInv
<1>16. CASE issuer.rotates
  <2> DEFINE n == issuer.live + 1
  <2>1. next = n /\ next # 0
    BY <1>4, <1>16
  <2>2. /\ issuer'.live = n /\ issuer'.rotates /\ e.tokens.refresh = n
        /\ issuer' \in [live : Nat \ {0}, rotates : BOOLEAN]
    BY <1>1, <1>4, <1>7, <1>16, <2>1 DEF CodexTypeOK
  <2>3. /\ \A u \in Nat : u <= issuer.live => u <= n /\ u # n
        /\ n <= n
    BY <1>4, NextIsNew
  <2> HIDE DEF n
  <2>4. CodexTypeOK'
    BY <1>1, <1>9, <2>2 DEF CodexTypeOK, Proceeds, Unmoved
  <2>5. OneTokenStays'
    BY <2>2 DEF OneTokenStays
  <2>6. WriterHasTheToken'
    <3>1. Complete(file) => file.tokens.refresh \in Nat /\ file.tokens.refresh <= issuer.live
      BY <1>16
         DEF CodexInv, WriterHasTheToken, DocumentsAreTheLogin, IsTheLogin, LoginDocuments,
             LoginTokens
    <3>2. \A q \in Resolvers : HoldsDocument(q) =>
             /\ resolution[q].document.tokens.refresh \in Nat
             /\ resolution[q].document.tokens.refresh <= issuer.live
      BY <1>16
         DEF CodexInv, WriterHasTheToken, DocumentsAreTheLogin, IsTheLogin, LoginDocuments,
             LoginTokens
    <3>3. \A q \in Resolvers : ~Writing(q)
      BY <1>1, <1>3, <1>11, <1>16 DEF CodexInv, WriterHasTheToken
    <3>4. \A q \in Resolvers : HoldsDocument(q)' =>
             /\ resolution'[q].document.tokens.refresh <= n
             /\ q # r => resolution'[q].document.tokens.refresh # n
      BY <1>10, <1>11, <2>2, <2>3, <3>2
    <3>5. \A q \in Resolvers : Writing(q)' => q = r
      BY <1>11, <3>3
    <3>6. Complete(file)' => file'.tokens.refresh <= n /\ file'.tokens.refresh # n
      BY <1>1, <2>3, <3>1 DEF Complete
    <3>7. QED
      BY <1>10, <2>2, <3>4, <3>5, <3>6 DEF WriterHasTheToken
  <2>7. QED
    BY <1>12, <1>13, <1>14, <2>4, <2>5, <2>6 DEF CodexInv
<1>17. QED
  BY <1>15, <1>16

\* An answer, a refresh or a write is lost; one that took effect is remembered.
LEMMA AnswerLostKeeps ==
    ASSUME CodexInv, NEW r \in Resolvers, AnswerLost(r) \/ IssuerRefuses(r) \/ WriteFails(r)
    PROVE  CodexInv'
<1>1. /\ Unmoved /\ file' = file /\ issuer' = issuer /\ CodexTypeOK
      /\ unwritten' \in BOOLEAN /\ (unwritten => unwritten') /\ (Writing(r) => unwritten')
  BY DEF AnswerLost, IssuerRefuses, WriteFails, Unmoved, CodexInv, CodexTypeOK, Reached, Writing
<1>2. \E o \in {"codex_refresh_failed", "write_failed"} : resolution' = Ended(r, o, Missing)
  BY DEF AnswerLost, IssuerRefuses, WriteFails
<1>3. PICK o \in {"codex_refresh_failed", "write_failed"} : resolution' = Ended(r, o, Missing)
  BY <1>2
<1>4. o \in CodexOutcomes /\ o # "chatgpt"
  BY DEF CodexOutcomes
<1>5. Proceeds(r, "done", resolution[r].document, o, Missing)
  BY <1>1, <1>3, <1>4, ResolutionSteps
<1>6. QED
  BY <1>1, <1>4, <1>5, ResolutionEnds

\* The file is torn while it is written (writeFile).
LEMMA StartWritingKeeps ==
    ASSUME CodexInv, NEW r \in Resolvers, StartWriting(r)
    PROVE  CodexInv'
<1>1. /\ Unmoved /\ file' = Torn /\ issuer' = issuer /\ unwritten' = unwritten /\ CodexTypeOK
      /\ resolution[r].stage = "answered" /\ ~Complete(file)'
  BY DEF StartWriting, Unmoved, CodexInv, Reached, Complete
<1>2. Proceeds(r, "writing", resolution[r].document, resolution[r].outcome, resolution[r].account)
  BY <1>1, ResolutionSteps DEF StartWriting
<1>3. \A q \in Resolvers : /\ resolution'[q].document = resolution[q].document
                           /\ HoldsDocument(q)' <=> HoldsDocument(q)
                           /\ Writing(q)' <=> Writing(q)
  BY <1>1, <1>2 DEF Proceeds, HoldsDocument, Writing
<1>4. CodexTypeOK'
  BY <1>1, <1>2 DEF CodexTypeOK, Proceeds, Unmoved
<1>5. DocumentsAreTheLogin'
  BY <1>1, <1>3 DEF CodexInv, DocumentsAreTheLogin, IsTheLogin, Unmoved
<1>6. OneTokenStays' /\ WriterHasTheToken'
  BY <1>1, <1>3 DEF CodexInv, OneTokenStays, WriterHasTheToken, Unmoved
<1>7. FileIsCurrent'
  BY <1>1 DEF FileIsCurrent
<1>8. AccountsAreKept'
  BY <1>1, <1>2, AccountsStayKept
<1>9. QED
  BY <1>4, <1>5, <1>6, <1>7, <1>8 DEF CodexInv

\* The file has what its writer got: the token that is live.
LEMMA FinishWritingKeeps ==
    ASSUME CodexInv, NEW r \in Resolvers, FinishWriting(r)
    PROVE  CodexInv'
<1> DEFINE d == resolution[r].document
<1>1. /\ Unmoved /\ file' = d /\ issuer' = issuer /\ unwritten' = unwritten /\ CodexTypeOK
      /\ resolution[r].stage = "writing"
  BY DEF FinishWriting, Unmoved, CodexInv, Reached
<1>2. HoldsDocument(r) /\ Writing(r) /\ IsTheLogin(d) /\ d \in LoginDocuments
  BY <1>1 DEF CodexInv, DocumentsAreTheLogin, HoldsDocument, Writing, IsTheLogin
<1>3. /\ AccountOf(d.tokens) \in {"account", Missing}
      /\ origin.tokens.named => AccountOf(d.tokens) = "account"
  BY <1>2 DEF IsTheLogin, AccountOf
<1>4. PICK o \in {"codex_chatgpt_token_missing", "chatgpt"}, a \in {"account", Missing} :
         /\ resolution' = Ended(r, o, a)
         /\ o = "chatgpt" /\ origin.tokens.named => a = "account"
  BY <1>3 DEF FinishWriting
<1>5. Proceeds(r, "done", d, o, a)
  BY <1>1, <1>4, ResolutionSteps DEF CodexOutcomes
<1>6. /\ \A q \in Resolvers : q # r => resolution'[q] = resolution[q]
      /\ resolution'[r].stage = "done"
  BY <1>5 DEF Proceeds
<1>7. /\ \A q \in Resolvers : HoldsDocument(q)' =>
             q # r /\ HoldsDocument(q) /\ resolution'[q] = resolution[q]
      /\ \A q \in Resolvers : Writing(q)' => q # r /\ Writing(q) /\ HoldsDocument(q)
  BY <1>6 DEF HoldsDocument, Writing
<1>8. CodexTypeOK'
  BY <1>1, <1>2, <1>5 DEF CodexTypeOK, Proceeds, Unmoved
<1>9. DocumentsAreTheLogin'
  BY <1>1, <1>2, <1>7 DEF CodexInv, DocumentsAreTheLogin, IsTheLogin, Unmoved
<1>10. OneTokenStays'
  BY <1>1, <1>2, <1>7 DEF CodexInv, OneTokenStays, Unmoved
<1>11. WriterHasTheToken'
  <2>1. CASE ~issuer.rotates
    BY <1>1, <2>1 DEF WriterHasTheToken
  <2>2. CASE issuer.rotates
    <3>1. /\ d.tokens.refresh = issuer.live
          /\ \A q \in Resolvers \ {r} : HoldsDocument(q) =>
                /\ resolution[q].document.tokens.refresh # issuer.live
                /\ resolution[q].document.tokens.refresh <= issuer.live
          /\ d.tokens.refresh <= issuer.live
      BY <1>2, <2>2 DEF CodexInv, WriterHasTheToken
    <3>2. \A q \in Resolvers : ~Writing(q)'
      BY <1>7, <2>2, <3>1 DEF CodexInv, WriterHasTheToken
    <3>3. QED
      BY <1>1, <1>7, <3>1, <3>2 DEF WriterHasTheToken
  <2>3. QED
    BY <2>1, <2>2
<1>12. FileIsCurrent'
  <2>1. origin.tokens.refresh # 0 => d.tokens.refresh = issuer.live
    BY <1>2 DEF CodexInv, OneTokenStays, WriterHasTheToken, IsTheLogin
  <2>2. QED
    BY <1>1, <2>1 DEF FileIsCurrent, Unmoved
<1>13. AccountsAreKept'
  BY <1>1, <1>4, <1>5, AccountsStayKept
<1>14. QED
  BY <1>8, <1>9, <1>10, <1>11, <1>12, <1>13 DEF CodexInv

\* The clock changes the access token only (shouldRefresh).
LEMMA AccessExpiresKeeps ==
    ASSUME CodexInv, AccessExpires
    PROVE  CodexInv'
<1> DEFINE tokens == [file.tokens EXCEPT !.access = "expiring"]
<1>1. /\ Unmoved /\ Complete(file) /\ resolution' = resolution /\ issuer' = issuer
      /\ unwritten' = unwritten /\ CodexTypeOK /\ file' = [file EXCEPT !.tokens = tokens]
  BY DEF AccessExpires, Unmoved, CodexInv, Complete
<1>2. IsTheLogin(file) /\ file \in LoginDocuments /\ file.tokens \in LoginTokens
  BY <1>1 DEF CodexInv, DocumentsAreTheLogin, IsTheLogin, LoginDocuments
<1>3. /\ tokens \in LoginTokens /\ tokens.named = file.tokens.named
      /\ tokens.refresh = file.tokens.refresh
  BY <1>2 DEF LoginTokens
<1> HIDE DEF tokens
<1>4. /\ file' \in LoginDocuments /\ file'.mode = file.mode /\ file'.apiKey = file.apiKey
      /\ file'.personal = file.personal /\ file'.tokens = tokens
  BY <1>1, <1>2, <1>3 DEF LoginDocuments
<1>5. IsTheLogin(file)'
  BY <1>1, <1>2, <1>3, <1>4 DEF IsTheLogin, Unmoved
<1>6. \A q \in Resolvers : (HoldsDocument(q)' <=> HoldsDocument(q)) /\ (Writing(q)' <=> Writing(q))
  BY <1>1 DEF HoldsDocument, Writing
<1>7. CodexTypeOK'
  BY <1>1, <1>4 DEF CodexTypeOK, Unmoved
<1>8. DocumentsAreTheLogin'
  BY <1>1, <1>5, <1>6 DEF CodexInv, DocumentsAreTheLogin, IsTheLogin, Unmoved
<1>9. OneTokenStays'
  BY <1>1, <1>3, <1>4, <1>6 DEF CodexInv, OneTokenStays, Unmoved
<1>10. WriterHasTheToken'
  BY <1>1, <1>3, <1>4, <1>6 DEF CodexInv, WriterHasTheToken
<1>11. FileIsCurrent'
  BY <1>1, <1>3, <1>4, <1>6 DEF CodexInv, FileIsCurrent, Unmoved
<1>12. AccountsAreKept'
  BY <1>1 DEF CodexInv, AccountsAreKept, NothingSet, IsSet, Unmoved
<1>13. QED
  BY <1>7, <1>8, <1>9, <1>10, <1>11, <1>12 DEF CodexInv

\* No resolution has begun.
LEMMA CodexInitially ==
    CodexInit => CodexInv
<1> SUFFICES ASSUME CodexInit PROVE CodexInv
  OBVIOUS
<1>1. /\ file \in Documents \union {Missing} /\ origin = file
      /\ resolution = [r \in Resolvers |-> NewResolution]
      /\ issuer \in [live : {1}, rotates : BOOLEAN] /\ unwritten = FALSE
  BY DEF CodexInit, Files
<1>2. \A d \in Documents : d \in LoginDocuments /\ d.tokens.refresh \in {0, 1}
  BY DEF Documents, Tokens, LoginDocuments, LoginTokens
<1>3. NewResolution \in Resolutions /\ NewResolution.stage = "idle" /\ NewResolution.outcome = "none"
  BY DEF NewResolution, Resolutions, CodexOutcomes
<1>4. CodexTypeOK
  <2>1. file \in LoginDocuments \union {Missing} /\ origin \in LoginDocuments \union {Missing}
    BY <1>1, <1>2
  <2>2. resolution \in [Resolvers -> Resolutions]
    BY <1>1, <1>3
  <2>3. issuer \in [live : Nat \ {0}, rotates : BOOLEAN] /\ unwritten \in BOOLEAN
    <3>1. {1} \subseteq Nat \ {0}
      OBVIOUS
    <3>2. issuer \in [live : Nat \ {0}, rotates : BOOLEAN]
      BY <1>1, <3>1
    <3>3. QED
      BY <1>1, <3>2
  <2>4. QED
    BY <2>1, <2>2, <2>3 DEF CodexTypeOK
<1>5. \A r \in Resolvers : ~HoldsDocument(r) /\ ~Writing(r) /\ resolution[r].outcome = "none"
  BY <1>1, <1>3 DEF HoldsDocument, Writing
<1>6. Complete(file) => IsTheLogin(file)
  BY <1>1, <1>2 DEF Complete, IsTheLogin
<1>7. issuer.live = 1
  BY <1>1
<1>8. DocumentsAreTheLogin /\ OneTokenStays /\ AccountsAreKept
  BY <1>1, <1>5, <1>6, <1>7 DEF DocumentsAreTheLogin, OneTokenStays, AccountsAreKept
<1>9. Complete(file) => file.tokens.refresh \in {0, 1}
  BY <1>1, <1>6 DEF IsTheLogin
<1>10. WriterHasTheToken /\ FileIsCurrent
  BY <1>1, <1>5, <1>7, <1>9 DEF WriterHasTheToken, FileIsCurrent
<1>11. QED
  BY <1>4, <1>8, <1>10 DEF CodexInv

\* Every step of the resolutions.
LEMMA CodexNextKeepsInv ==
    CodexInv /\ [CodexNext]_codexVars => CodexInv'
<1> SUFFICES ASSUME CodexInv, [CodexNext]_codexVars
             PROVE  CodexInv'
  OBVIOUS
<1>1. ASSUME NEW r \in Resolvers,
             \/ ResolveCodexAuth(r) \/ IssuerRefreshes(r) \/ AnswerLost(r) \/ IssuerRefuses(r)
             \/ StartWriting(r) \/ FinishWriting(r) \/ WriteFails(r)
      PROVE  CodexInv'
  BY <1>1, ResolveKeeps, IssuerRefreshesKeeps, AnswerLostKeeps, StartWritingKeeps,
     FinishWritingKeeps, Zenon
<1>2. CASE AccessExpires
  BY <1>2, AccessExpiresKeeps
<1>3. CASE UNCHANGED codexVars
  BY <1>3 DEF codexVars, CodexInv, CodexTypeOK, DocumentsAreTheLogin, IsTheLogin, HoldsDocument,
     OneTokenStays, WriterHasTheToken, FileIsCurrent, AccountsAreKept, Complete, Writing,
     NothingSet, IsSet
<1>4. QED
  BY <1>1, <1>2, <1>3, Zenon DEF CodexNext

\* The invariant of the resolutions: every document in the file or held by a call is the login it
\* was, and only the call that is writing has the token that is live after a rotation.
THEOREM CodexInvariant == CodexSpec => []CodexInv
BY CodexInitially, CodexNextKeepsInv, PTL DEF CodexSpec

\* auth.json stays the login it was, for any number of resolutions that refresh and rewrite it
\* concurrently, and the credential keeps its account (refreshChatGptToken, chatGptCredential).
THEOREM LoginSurvives == CodexSpec => []LoginSurvivesRefreshes
BY CodexInvariant, CodexInvSuffices, PTL

-----------------------------------------------------------------------------
(* OkfGeneration *)

\* The fields of the record of a run.
Fields ==
    {"stage", "model", "batchSize", "listed", "offset", "read", "results", "entries", "aborted",
     "alone"}

\* The stages of work in which a source has been read and has no concept of this run yet.
UnderWork == {"lookup", "asking", "write", "writing"}

\* The shape of the records, of the work and of the bundle.
OkfTypeOK ==
    /\ generation = [g \in Runs |-> generation[g]]
    /\ \A g \in Runs : /\ DOMAIN generation[g] = Fields
                       /\ generation[g].alone \in BOOLEAN
                       /\ DOMAIN generation[g].read \subseteq SourceFiles
    /\ worker \in [Runs -> [SourceFiles -> {"none", "read", "done"} \cup UnderWork]]
    /\ Paths \subseteq DOMAIN bundle

\* A run that has not begun has no work under way.
IdleRunsRest ==
    \A g \in Runs : generation[g].stage = "idle" => \A f \in SourceFiles : ~Working(g, f)

\* While a run is alone no other has work under way.
AloneMeansAlone ==
    \A g, h \in Runs : generation[g].alone /\ g # h => ~Busy(h)

\* The concepts a run has to leave.
Made(g) == [f \in DOMAIN generation[g].read |-> Recipe(g, f)]

\* What a run that is alone has read is under work, or has its concept.
ReadsAreKept(g) ==
    /\ generation[g].stage \in {"walking", "indexing", "writing", "resolved"}
    /\ \A f \in SourceFiles : worker[g][f] \in UnderWork => f \in DOMAIN generation[g].read
    /\ \A f \in DOMAIN generation[g].read :
          \/ worker[g][f] \in UnderWork
          \/ /\ f \in DOMAIN generation[g].results
             /\ bundle[OutputPath(f)] = Recipe(g, f)
    /\ DOMAIN generation[g].results \subseteq DOMAIN generation[g].read
    /\ generation[g].stage # "walking" => \A f \in SourceFiles : ~Working(g, f)
    /\ generation[g].stage = "writing" => generation[g].entries = Made(g)
    /\ generation[g].stage = "resolved" => bundle[Index] = [entries |-> Made(g)]

\* The invariant of OkfGeneration.
OkfInv ==
    /\ OkfTypeOK
    /\ IdleRunsRest
    /\ AloneMeansAlone
    /\ \A g \in Runs : generation[g].alone => ReadsAreKept(g)

\* Concepts do not meet one another nor the index (outputPath).
LEMMA ConceptsAreApart ==
    /\ \A f \in SourceFiles : OutputPath(f) # Index
    /\ \A f, h \in SourceFiles : OutputPath(f) = OutputPath(h) => f = h
<1>1. ASSUME NEW f \in SourceFiles
      PROVE  /\ OutputPath(f).stem = f.stem
             /\ OutputPath(f).md = f.md + IF f.stem \in {"index", "log"} THEN 2 ELSE 1
             /\ f.md \in Nat /\ f = [stem |-> f.stem, md |-> f.md]
  <2>1. f.md \in Nat /\ f = [stem |-> f.stem, md |-> f.md]
    BY SourcesArePaths
  <2>2. QED
    BY <2>1 DEF OutputPath
<1>2. ASSUME NEW f \in SourceFiles
      PROVE  OutputPath(f) # Index
  BY <1>1 DEF Index
<1>3. ASSUME NEW f \in SourceFiles, NEW h \in SourceFiles, OutputPath(f) = OutputPath(h)
      PROVE  f = h
  <2>1. f.stem = h.stem
    BY <1>1, <1>3
  <2>2. f.md = h.md
    BY <1>1, <1>3, <2>1
  <2>3. QED
    BY <1>1, <2>1, <2>2
<1>4. QED
  BY <1>2, <1>3

\* All that is read is done once nothing is under work.
LEMMA OkfInvSuffices ==
    OkfInv => BundleMatchesSources
<1> SUFFICES ASSUME OkfInv, NEW g \in Runs, generation[g].stage = "resolved", generation[g].alone
             PROVE  /\ \A f \in DOMAIN Made(g) : bundle[OutputPath(f)] = Made(g)[f]
                    /\ bundle[Index] = [entries |-> Made(g)]
                    /\ DOMAIN generation[g].results = DOMAIN Made(g)
  BY DEF BundleMatchesSources, Made
<1>1. ReadsAreKept(g) /\ DOMAIN generation[g].read \subseteq SourceFiles
  BY DEF OkfInv, OkfTypeOK
<1>2. \A f \in DOMAIN generation[g].read :
         f \in DOMAIN generation[g].results /\ bundle[OutputPath(f)] = Recipe(g, f)
  BY <1>1 DEF ReadsAreKept, Working, UnderWork
<1>3. DOMAIN Made(g) = DOMAIN generation[g].read /\ \A f \in DOMAIN Made(g) : Made(g)[f] = Recipe(g, f)
  BY DEF Made
<1>4. QED
  BY <1>1, <1>2, <1>3 DEF ReadsAreKept

\* A step of one run that is busy: no other one is alone.
LEMMA OthersAreNotAlone ==
    ASSUME OkfInv, NEW g \in Runs, Busy(g)
    PROVE  \A h \in Runs : h # g => ~generation[h].alone
BY DEF OkfInv, AloneMeansAlone

\* What remains to be shown of a step of one run that is busy.
LEMMA BusyRunSteps ==
    ASSUME OkfInv, NEW g \in Runs, Busy(g), OkfTypeOK',
           \A h \in Runs : h # g => generation'[h] = generation[h] /\ worker'[h] = worker[h],
           generation'[g].alone => generation[g].alone /\ ReadsAreKept(g)',
           generation'[g].stage # "idle"
    PROVE  OkfInv'
<1>1. \A h \in Runs : h # g => ~generation'[h].alone
  BY OthersAreNotAlone
<1>2. \A h \in Runs : h # g => (Busy(h)' <=> Busy(h)) /\ \A f \in SourceFiles : Working(h, f)' <=> Working(h, f)
  BY DEF Busy, Active, Working
<1>3. IdleRunsRest'
  BY <1>2 DEF OkfInv, IdleRunsRest
<1>4. AloneMeansAlone'
  BY <1>1, <1>2 DEF OkfInv, AloneMeansAlone
<1>5. \A h \in Runs : generation'[h].alone => ReadsAreKept(h)'
  BY <1>1
<1>6. QED
  BY <1>3, <1>4, <1>5 DEF OkfInv

\* The record of one run is replaced.
LEMMA OneRunChanges ==
    ASSUME OkfTypeOK, NEW g \in Runs, NEW r, generation' = [generation EXCEPT ![g] = r]
    PROVE  /\ generation' = [h \in Runs |-> generation'[h]]
           /\ generation'[g] = r
           /\ \A h \in Runs : h # g => generation'[h] = generation[h]
BY DEF OkfTypeOK

\* The stage of work of one source changes, or none.
LEMMA OneSourceMoves ==
    ASSUME OkfTypeOK, NEW g \in Runs, NEW f \in SourceFiles,
           NEW stage \in {"done"} \cup UnderWork, Set(g, f, stage)
    PROVE  /\ worker' \in [Runs -> [SourceFiles -> {"none", "read", "done"} \cup UnderWork]]
           /\ \A h \in Runs : h # g => worker'[h] = worker[h]
           /\ worker'[g][f] = stage
           /\ \A e \in SourceFiles : e # f => worker'[g][e] = worker[g][e]
BY DEF OkfTypeOK, Set

\* A run that has not begun, or that ended without a trace.
LEMMA PlainRuns ==
    /\ DOMAIN Idle = Fields /\ Idle.stage = "idle" /\ Idle.alone = FALSE /\ DOMAIN Idle.read = {}
    /\ \A stage : LET r == [Idle EXCEPT !.stage = stage]
                  IN  /\ DOMAIN r = Fields /\ r.stage = stage /\ r.alone = FALSE
                      /\ DOMAIN r.read = {}
BY DEF Idle, Fields

\* A run that fails is not alone any more, whatever it had read.
LEMMA FailedRuns ==
    ASSUME OkfInv, NEW g \in Runs, Busy(g), NEW r,
           generation' = [generation EXCEPT ![g] = r],
           DOMAIN r = Fields, r.stage # "idle", r.alone = FALSE,
           DOMAIN r.read \subseteq SourceFiles,
           worker' \in [Runs -> [SourceFiles -> {"none", "read", "done"} \cup UnderWork]],
           \A h \in Runs : h # g => worker'[h] = worker[h],
           Paths \subseteq DOMAIN bundle'
    PROVE  OkfInv'
<1>1. OkfTypeOK
  BY DEF OkfInv
<1>2. /\ generation' = [h \in Runs |-> generation'[h]] /\ generation'[g] = r
      /\ \A h \in Runs : h # g => generation'[h] = generation[h]
  BY <1>1, OneRunChanges
<1>3. OkfTypeOK'
  BY <1>1, <1>2 DEF OkfTypeOK
<1>4. QED
  BY <1>2, <1>3, BusyRunSteps

\* The first failure rejects the run (boundary).
LEMMA RejectedRuns ==
    ASSUME OkfInv, NEW g \in Runs, Busy(g), RejectGeneration(g),
           worker' \in [Runs -> [SourceFiles -> {"none", "read", "done"} \cup UnderWork]],
           \A h \in Runs : h # g => worker'[h] = worker[h],
           Paths \subseteq DOMAIN bundle'
    PROVE  OkfInv'
<1> DEFINE r == [Idle EXCEPT !.stage = "rejected", !.model = generation[g].model,
                             !.read = generation[g].read, !.aborted = generation[g].aborted]
<1>1. generation' = [generation EXCEPT ![g] = r]
  BY DEF RejectGeneration
<1>2. DOMAIN r = Fields /\ r.stage = "rejected" /\ r.alone = FALSE /\ r.read = generation[g].read
  BY DEF Idle, Fields
<1>3. DOMAIN generation[g].read \subseteq SourceFiles
  BY DEF OkfInv, OkfTypeOK
<1> HIDE DEF r
<1>4. QED
  BY <1>1, <1>2, <1>3, FailedRuns

\* A run goes on: some fields of its record stay.
LEMMA RunFields ==
    ASSUME NEW r, DOMAIN r = Fields, NEW v, NEW w
    PROVE  /\ LET s == [r EXCEPT !.stage = v]
              IN  /\ DOMAIN s = Fields /\ s.stage = v /\ s.alone = r.alone /\ s.read = r.read
                  /\ s.results = r.results /\ s.entries = r.entries /\ s.model = r.model
           /\ LET s == [r EXCEPT !.stage = v, !.entries = w]
              IN  /\ DOMAIN s = Fields /\ s.stage = v /\ s.alone = r.alone /\ s.read = r.read
                  /\ s.results = r.results /\ s.entries = w /\ s.model = r.model
           /\ LET s == [r EXCEPT !.offset = v]
              IN  /\ DOMAIN s = Fields /\ s.stage = r.stage /\ s.alone = r.alone /\ s.read = r.read
                  /\ s.results = r.results /\ s.entries = r.entries /\ s.model = r.model
           /\ LET s == [r EXCEPT !.aborted = v]
              IN  /\ DOMAIN s = Fields /\ s.stage = r.stage /\ s.alone = r.alone /\ s.read = r.read
                  /\ s.results = r.results /\ s.entries = r.entries /\ s.model = r.model
           /\ LET s == [r EXCEPT !.read = v]
              IN  /\ DOMAIN s = Fields /\ s.stage = r.stage /\ s.alone = r.alone /\ s.read = v
                  /\ s.results = r.results /\ s.entries = r.entries /\ s.model = r.model
           /\ LET s == [r EXCEPT !.results = v]
              IN  /\ DOMAIN s = Fields /\ s.stage = r.stage /\ s.alone = r.alone /\ s.read = r.read
                  /\ s.results = v /\ s.entries = r.entries /\ s.model = r.model
BY DEF Fields

\* A run with the same reads and the same model has the same recipes and the same index.
LEMMA SameRecipes ==
    ASSUME NEW g \in Runs, generation'[g].read = generation[g].read,
           generation'[g].model = generation[g].model
    PROVE  /\ \A f : Recipe(g, f)' = Recipe(g, f)
           /\ Made(g)' = Made(g)
BY DEF Recipe, Made

\* The work on one source goes a stage further.
WorkGoesOn(g, f, stage) ==
    LET r == generation[g]
        s == generation'[g]
    IN  /\ Set(g, f, stage)
        /\ generation' = [h \in Runs |-> generation'[h]]
        /\ \A h \in Runs : h # g => generation'[h] = generation[h]
        /\ DOMAIN s = Fields /\ s.stage = r.stage /\ s.alone = r.alone /\ s.model = r.model
        /\ DOMAIN r.read \subseteq DOMAIN s.read /\ DOMAIN s.read \subseteq DOMAIN r.read \cup {f}
        /\ \A e \in DOMAIN r.read : e # f => s.read[e] = r.read[e]
        /\ DOMAIN r.results \subseteq DOMAIN s.results
        /\ DOMAIN s.results \subseteq DOMAIN r.results \cup {f}
        /\ Paths \subseteq DOMAIN bundle'
        /\ \A e \in SourceFiles : e # f => bundle'[OutputPath(e)] = bundle[OutputPath(e)]

\* Such a step keeps the invariant if the source itself is in order.
LEMMA WorkSteps ==
    ASSUME OkfInv, NEW g \in Runs, NEW f \in SourceFiles, Working(g, f),
           NEW stage \in {"done"} \cup UnderWork, WorkGoesOn(g, f, stage),
           generation[g].alone =>
              /\ stage \in UnderWork => f \in DOMAIN generation'[g].read
              /\ f \in DOMAIN generation'[g].read =>
                    \/ stage \in UnderWork
                    \/ /\ f \in DOMAIN generation'[g].results
                       /\ bundle'[OutputPath(f)] = Recipe(g, f)'
              /\ f \in DOMAIN generation'[g].results => f \in DOMAIN generation'[g].read
    PROVE  OkfInv'
<1>1. OkfTypeOK /\ Busy(g) /\ generation[g].stage # "idle"
  BY DEF OkfInv, Busy, IdleRunsRest
<1>2. /\ worker' \in [Runs -> [SourceFiles -> {"none", "read", "done"} \cup UnderWork]]
      /\ \A h \in Runs : h # g => worker'[h] = worker[h]
      /\ worker'[g][f] = stage
      /\ \A e \in SourceFiles : e # f => worker'[g][e] = worker[g][e]
  BY <1>1, OneSourceMoves DEF WorkGoesOn
<1>3. OkfTypeOK'
  BY <1>1, <1>2 DEF OkfTypeOK, WorkGoesOn
<1>4. ASSUME generation'[g].alone
      PROVE  ReadsAreKept(g)'
  <2>1. generation[g].alone /\ ReadsAreKept(g) /\ DOMAIN generation[g].read \subseteq SourceFiles
    BY <1>4 DEF WorkGoesOn, OkfInv, OkfTypeOK
  <2>2. generation[g].stage = "walking" /\ generation'[g].stage = "walking"
    BY <2>1 DEF ReadsAreKept, WorkGoesOn
  <2>3. \A e \in SourceFiles : worker'[g][e] \in UnderWork => e \in DOMAIN generation'[g].read
    BY <1>2, <2>1 DEF ReadsAreKept, WorkGoesOn
  <2>4. ASSUME NEW e \in DOMAIN generation'[g].read
        PROVE  \/ worker'[g][e] \in UnderWork
               \/ /\ e \in DOMAIN generation'[g].results
                  /\ bundle'[OutputPath(e)] = Recipe(g, e)'
    <3>1. CASE e = f
      BY <1>2, <2>1, <3>1
    <3>2. CASE e # f
      <4>1. e \in DOMAIN generation[g].read /\ e \in SourceFiles
        BY <2>1, <3>2 DEF WorkGoesOn
      <4>2. Recipe(g, e)' = Recipe(g, e)
        BY <3>2, <4>1 DEF WorkGoesOn, Recipe
      <4>3. /\ worker'[g][e] = worker[g][e] /\ bundle'[OutputPath(e)] = bundle[OutputPath(e)]
            /\ DOMAIN generation[g].results \subseteq DOMAIN generation'[g].results
        BY <1>2, <3>2, <4>1 DEF WorkGoesOn
      <4>4. QED
        BY <2>1, <4>1, <4>2, <4>3 DEF ReadsAreKept
    <3>3. QED
      BY <3>1, <3>2
  <2>5. DOMAIN generation'[g].results \subseteq DOMAIN generation'[g].read
    BY <2>1 DEF ReadsAreKept, WorkGoesOn
  <2>6. QED
    BY <2>2, <2>3, <2>4, <2>5 DEF ReadsAreKept
<1>5. QED
  BY <1>1, <1>2, <1>3, <1>4, BusyRunSteps DEF WorkGoesOn

\* A step that leaves the records of the runs alone.
LEMMA QuietWork ==
    ASSUME OkfInv, NEW g \in Runs, NEW f \in SourceFiles, NEW stage, Set(g, f, stage),
           generation' = generation, Paths \subseteq DOMAIN bundle',
           \A e \in SourceFiles : e # f => bundle'[OutputPath(e)] = bundle[OutputPath(e)]
    PROVE  WorkGoesOn(g, f, stage)
BY DEF WorkGoesOn, OkfInv, OkfTypeOK

\* One concept is written.
LEMMA OneConceptChanges ==
    ASSUME OkfInv, NEW f \in SourceFiles, NEW value,
           bundle' = [bundle EXCEPT ![OutputPath(f)] = value]
    PROVE  /\ Paths \subseteq DOMAIN bundle'
           /\ bundle'[OutputPath(f)] = value
           /\ \A e \in SourceFiles : e # f => bundle'[OutputPath(e)] = bundle[OutputPath(e)]
<1>1. OutputPath(f) \in Paths /\ Paths \subseteq DOMAIN bundle
  BY DEF Paths, OkfInv, OkfTypeOK
<1>2. \A e \in SourceFiles : e # f => OutputPath(e) # OutputPath(f)
  BY ConceptsAreApart
<1>3. QED
  BY <1>1, <1>2

\* A source is read, or passed over (walk).
LEMMA ReadSourceKeeps ==
    ASSUME OkfInv, NEW g \in Runs, NEW f \in SourceFiles, ReadSource(g, f)
    PROVE  OkfInv'
<1>1. /\ worker[g][f] = "read" /\ Working(g, f) /\ bundle' = bundle
      /\ OkfTypeOK /\ Paths \subseteq DOMAIN bundle'
  BY DEF ReadSource, Working, OkfInv, OkfTypeOK
<1>2. CASE Set(g, f, "done") /\ generation' = generation
  <2>1. WorkGoesOn(g, f, "done")
    BY <1>1, <1>2, QuietWork
  <2>2. generation[g].alone =>
           /\ f \in DOMAIN generation[g].read =>
                 f \in DOMAIN generation[g].results /\ bundle[OutputPath(f)] = Recipe(g, f)
           /\ f \in DOMAIN generation[g].results => f \in DOMAIN generation[g].read
    BY <1>1 DEF OkfInv, ReadsAreKept, UnderWork
  <2>3. Recipe(g, f)' = Recipe(g, f) /\ "done" \notin UnderWork
    BY <1>2 DEF Recipe, UnderWork
  <2>4. generation[g].alone =>
           /\ f \in DOMAIN generation'[g].read =>
                 /\ f \in DOMAIN generation'[g].results
                 /\ bundle'[OutputPath(f)] = Recipe(g, f)'
           /\ f \in DOMAIN generation'[g].results => f \in DOMAIN generation'[g].read
    BY <1>1, <1>2, <2>2, <2>3
  <2>5. QED
    BY <1>1, <2>1, <2>3, <2>4, WorkSteps, Zenon
<1>3. CASE /\ Set(g, f, "lookup")
           /\ generation' = [generation EXCEPT ![g].read = Entered(@, f, sources[f])]
  <2> DEFINE read == Entered(generation[g].read, f, sources[f])
             r == [generation[g] EXCEPT !.read = read]
  <2>1. generation' = [generation EXCEPT ![g] = r]
    BY <1>3
  <2>2. /\ DOMAIN r = Fields /\ r.stage = generation[g].stage /\ r.alone = generation[g].alone
        /\ r.read = read /\ r.results = generation[g].results /\ r.model = generation[g].model
    BY <1>1, RunFields DEF OkfTypeOK
  <2>3. /\ DOMAIN read = DOMAIN generation[g].read \cup {f}
        /\ \A h \in DOMAIN generation[g].read : h # f => read[h] = generation[g].read[h]
    BY DEF Entered
  <2> HIDE DEF read, r
  <2>4. /\ generation' = [h \in Runs |-> generation'[h]] /\ generation'[g] = r
        /\ \A h \in Runs : h # g => generation'[h] = generation[h]
    BY <1>1, <2>1, OneRunChanges
  <2>5. WorkGoesOn(g, f, "lookup")
    BY <1>1, <1>3, <2>2, <2>3, <2>4 DEF WorkGoesOn
  <2>6. "lookup" \in UnderWork /\ f \in DOMAIN generation'[g].read
    BY <2>2, <2>3, <2>4 DEF UnderWork
  <2>7. QED
    BY <1>1, <2>5, <2>6, WorkSteps
<1>4. QED
  BY <1>2, <1>3 DEF ReadSource

\* A source is finished: its concept is the one of its recipe (work).
LEMMA SuccessKeeps ==
    ASSUME OkfInv, NEW g \in Runs, NEW f \in SourceFiles, NEW outcome, Succeed(g, f, outcome),
           worker[g][f] \in UnderWork,
           Paths \subseteq DOMAIN bundle', bundle'[OutputPath(f)] = Recipe(g, f),
           \A e \in SourceFiles : e # f => bundle'[OutputPath(e)] = bundle[OutputPath(e)]
    PROVE  OkfInv'
<1>1. /\ Working(g, f) /\ OkfTypeOK /\ Set(g, f, "done")
      /\ generation[g].alone => generation[g].stage = "walking" /\ f \in DOMAIN generation[g].read
  BY DEF Working, OkfInv, UnderWork, ReadsAreKept, Succeed
<1>2. CASE generation[g].stage # "walking"
  <2>1. generation' = generation
    BY <1>2 DEF Succeed
  <2>2. WorkGoesOn(g, f, "done")
    BY <1>1, <2>1, QuietWork
  <2>3. QED
    BY <1>1, <1>2, <2>2, WorkSteps
<1>3. CASE generation[g].stage = "walking"
  <2> DEFINE results == Entered(generation[g].results, f, outcome)
             r == [generation[g] EXCEPT !.results = results]
  <2>1. generation' = [generation EXCEPT ![g] = r]
    BY <1>3 DEF Succeed
  <2>2. /\ DOMAIN r = Fields /\ r.stage = generation[g].stage /\ r.alone = generation[g].alone
        /\ r.read = generation[g].read /\ r.results = results /\ r.model = generation[g].model
    BY <1>1, RunFields DEF OkfTypeOK
  <2>3. DOMAIN results = DOMAIN generation[g].results \cup {f}
    BY DEF Entered
  <2> HIDE DEF results, r
  <2>4. /\ generation' = [h \in Runs |-> generation'[h]] /\ generation'[g] = r
        /\ \A h \in Runs : h # g => generation'[h] = generation[h]
    BY <1>1, <2>1, OneRunChanges
  <2>5. WorkGoesOn(g, f, "done")
    BY <1>1, <2>2, <2>3, <2>4 DEF WorkGoesOn
  <2>6. Recipe(g, f)' = Recipe(g, f)
    BY <2>2, <2>4 DEF Recipe
  <2>7. /\ f \in DOMAIN generation'[g].results
        /\ generation[g].alone => f \in DOMAIN generation'[g].read
    BY <1>1, <2>2, <2>3, <2>4
  <2>8. QED
    BY <1>1, <2>5, <2>6, <2>7, WorkSteps
<1>4. QED
  BY <1>2, <1>3

\* The stages from the lookup to the file (work).
LEMMA WorkingKeeps ==
    ASSUME OkfInv, NEW g \in Runs, NEW f \in SourceFiles,
           LookUp(g, f) \/ Completions(g, f) \/ BeginWrite(g, f) \/ EndWrite(g, f)
    PROVE  OkfInv'
<1>1. /\ Paths \subseteq DOMAIN bundle /\ OkfTypeOK
      /\ worker[g][f] \in UnderWork /\ Working(g, f)
      /\ generation[g].alone => f \in DOMAIN generation[g].read
                                /\ DOMAIN generation[g].results \subseteq DOMAIN generation[g].read
  BY DEF OkfInv, OkfTypeOK, LookUp, Completions, BeginWrite, EndWrite, Working, UnderWork,
     ReadsAreKept
<1>2. ASSUME NEW stage \in UnderWork, Set(g, f, stage), generation' = generation,
             Paths \subseteq DOMAIN bundle',
             \A e \in SourceFiles : e # f => bundle'[OutputPath(e)] = bundle[OutputPath(e)]
      PROVE  OkfInv'
  <2>1. WorkGoesOn(g, f, stage)
    BY <1>2, QuietWork
  <2>2. QED
    BY <1>1, <1>2, <2>1, WorkSteps
<1>3. CASE LookUp(g, f)
  <2>1. CASE Cached(OutputPath(f), Recipe(g, f)) /\ Succeed(g, f, "cached") /\ bundle' = bundle
    BY <1>1, <2>1, SuccessKeeps DEF Cached
  <2>2. CASE Set(g, f, "asking") /\ generation' = generation /\ bundle' = bundle
    BY <1>1, <1>2, <2>2 DEF UnderWork
  <2>3. QED
    BY <1>3, <2>1, <2>2 DEF LookUp
<1>4. CASE Completions(g, f)
  BY <1>1, <1>2, <1>4 DEF Completions, UnderWork
<1>5. CASE BeginWrite(g, f)
  <2>1. /\ Set(g, f, "writing") /\ generation' = generation
        /\ bundle' = [bundle EXCEPT ![OutputPath(f)] = HalfWritten]
    BY <1>5 DEF BeginWrite
  <2>2. QED
    BY <1>2, <2>1, OneConceptChanges DEF UnderWork
<1>6. CASE EndWrite(g, f)
  <2>1. /\ Succeed(g, f, "generated")
        /\ bundle' = [bundle EXCEPT ![OutputPath(f)] = Recipe(g, f)]
    BY <1>6 DEF EndWrite
  <2>2. QED
    BY <1>1, <2>1, OneConceptChanges, SuccessKeeps
<1>7. QED
  BY <1>3, <1>4, <1>5, <1>6

\* The work on a source fails or is aborted, and with it the run (work, completeText).
LEMMA FailedWorkKeeps ==
    ASSUME OkfInv, NEW g \in Runs, NEW f \in SourceFiles, WorkFails(g, f) \/ WorkAborts(g, f)
    PROVE  OkfInv'
<1>1. /\ OkfTypeOK /\ Set(g, f, "done") /\ RejectGeneration(g) /\ Working(g, f)
  BY DEF WorkFails, WorkAborts, Working, OkfInv
<1>2. Paths \subseteq DOMAIN bundle'
  BY <1>1 DEF WorkFails, WorkAborts, OkfTypeOK
<1>3. /\ worker' \in [Runs -> [SourceFiles -> {"none", "read", "done"} \cup UnderWork]]
      /\ \A h \in Runs : h # g => worker'[h] = worker[h]
  BY <1>1, OneSourceMoves
<1>4. QED
  BY <1>1, <1>2, <1>3, RejectedRuns DEF Busy

\* A batch is handed out, or refused after an abort (walk).
LEMMA NextBatchKeeps ==
    ASSUME OkfInv, NEW g \in Runs, NextBatch(g)
    PROVE  OkfInv'
<1>1. /\ generation[g].stage = "walking" /\ Busy(g) /\ OkfTypeOK /\ bundle' = bundle
      /\ \A f \in SourceFiles : worker[g][f] \in {"none", "done"}
      /\ Paths \subseteq DOMAIN bundle
  BY DEF NextBatch, Busy, Active, OkfInv, OkfTypeOK, Working
<1>2. CASE RejectGeneration(g) /\ worker' = worker
  BY <1>1, <1>2, RejectedRuns DEF OkfTypeOK
<1>3. CASE /\ generation' = [generation EXCEPT ![g].offset = @ + generation[g].batchSize]
           /\ worker' = [worker EXCEPT ![g] =
                           [f \in SourceFiles |-> IF f \in Batch(g) THEN "read" ELSE worker[g][f]]]
  <2> DEFINE offset == generation[g].offset + generation[g].batchSize
             r == [generation[g] EXCEPT !.offset = offset]
  <2>1. generation' = [generation EXCEPT ![g] = r]
    BY <1>3
  <2> HIDE DEF offset
  <2>2. /\ DOMAIN r = Fields /\ r.stage = generation[g].stage /\ r.alone = generation[g].alone
        /\ r.read = generation[g].read /\ r.results = generation[g].results
        /\ r.model = generation[g].model
    BY <1>1, RunFields DEF OkfTypeOK
  <2> HIDE DEF r
  <2>3. /\ generation' = [h \in Runs |-> generation'[h]] /\ generation'[g] = r
        /\ \A h \in Runs : h # g => generation'[h] = generation[h]
    BY <1>1, <2>1, OneRunChanges
  <2>4. /\ worker' \in [Runs -> [SourceFiles -> {"none", "read", "done"} \cup UnderWork]]
        /\ \A h \in Runs : h # g => worker'[h] = worker[h]
        /\ \A f \in SourceFiles : worker'[g][f] \in {"none", "read", "done"}
    BY <1>1, <1>3 DEF OkfTypeOK
  <2>5. OkfTypeOK'
    BY <1>1, <2>2, <2>3, <2>4 DEF OkfTypeOK
  <2>6. ASSUME generation'[g].alone
        PROVE  ReadsAreKept(g)'
    <3>1. generation[g].alone /\ ReadsAreKept(g) /\ DOMAIN generation[g].read \subseteq SourceFiles
      BY <2>2, <2>3, <2>6 DEF OkfInv, OkfTypeOK
    <3>2. /\ \A f : Recipe(g, f)' = Recipe(g, f)
          /\ \A f \in SourceFiles : worker[g][f] \notin UnderWork /\ worker'[g][f] \notin UnderWork
      BY <1>1, <2>2, <2>3, <2>4 DEF Recipe, UnderWork
    <3>3. QED
      BY <1>1, <2>2, <2>3, <3>1, <3>2 DEF ReadsAreKept
  <2>7. QED
    BY <1>1, <2>2, <2>3, <2>4, <2>5, <2>6, BusyRunSteps
<1>4. QED
  BY <1>2, <1>3 DEF NextBatch

\* A run goes a stage further without work: its reads are kept if the next stage is right.
LEMMA StageKeeps ==
    ASSUME OkfInv, NEW g \in Runs, Busy(g), NEW r,
           generation' = [generation EXCEPT ![g] = r],
           DOMAIN r = Fields, r.stage # "idle", r.alone = generation[g].alone,
           r.read = generation[g].read, r.model = generation[g].model,
           r.results = generation[g].results, worker' = worker,
           Paths \subseteq DOMAIN bundle',
           \A f \in SourceFiles : bundle'[OutputPath(f)] = bundle[OutputPath(f)],
           generation[g].alone =>
              /\ r.stage \in {"walking", "indexing", "writing", "resolved"}
              /\ r.stage # "walking" => \A f \in SourceFiles : ~Working(g, f)
              /\ r.stage = "writing" => r.entries = Made(g)
              /\ r.stage = "resolved" => bundle'[Index] = [entries |-> Made(g)]
    PROVE  OkfInv'
<1>1. OkfTypeOK
  BY DEF OkfInv
<1>2. /\ generation' = [h \in Runs |-> generation'[h]] /\ generation'[g] = r
      /\ \A h \in Runs : h # g => generation'[h] = generation[h]
  BY <1>1, OneRunChanges
<1>3. OkfTypeOK'
  BY <1>1, <1>2 DEF OkfTypeOK
<1>4. ASSUME generation'[g].alone
      PROVE  ReadsAreKept(g)'
  <2>1. generation[g].alone /\ ReadsAreKept(g) /\ DOMAIN generation[g].read \subseteq SourceFiles
    BY <1>1, <1>2, <1>4 DEF OkfInv, OkfTypeOK
  <2>2. (\A f : Recipe(g, f)' = Recipe(g, f)) /\ Made(g)' = Made(g)
    BY <1>2, SameRecipes
  <2>3. \A f \in SourceFiles : Working(g, f)' <=> Working(g, f)
    BY DEF Working
  <2>4. QED
    BY <1>2, <2>1, <2>2, <2>3 DEF ReadsAreKept
<1>5. QED
  BY <1>2, <1>3, <1>4, BusyRunSteps

\* The walk ends, the signal of a run is aborted.
LEMMA WalkKeeps ==
    ASSUME OkfInv, NEW g \in Runs, WalkEnds(g) \/ AbortGeneration(g)
    PROVE  OkfInv'
<1>1. /\ OkfTypeOK /\ Paths \subseteq DOMAIN bundle /\ DOMAIN generation[g] = Fields
      /\ bundle' = bundle /\ worker' = worker /\ Busy(g) /\ generation[g].stage # "idle"
  BY DEF OkfInv, OkfTypeOK, WalkEnds, AbortGeneration, Busy, Active, IdleRunsRest
<1>2. CASE WalkEnds(g)
  <2> DEFINE r == [generation[g] EXCEPT !.stage = "indexing"]
  <2>1. /\ DOMAIN r = Fields /\ r.stage = "indexing" /\ r.alone = generation[g].alone
        /\ r.read = generation[g].read /\ r.results = generation[g].results
        /\ r.model = generation[g].model
    BY <1>1, RunFields
  <2>2. /\ generation' = [generation EXCEPT ![g] = r]
        /\ \A f \in SourceFiles : ~Working(g, f)
    BY <1>2 DEF WalkEnds
  <2> HIDE DEF r
  <2>3. QED
    BY <1>1, <2>1, <2>2, StageKeeps
<1>3. CASE AbortGeneration(g)
  <2> DEFINE r == [generation[g] EXCEPT !.aborted = TRUE]
  <2>1. /\ DOMAIN r = Fields /\ r.stage = generation[g].stage /\ r.alone = generation[g].alone
        /\ r.read = generation[g].read /\ r.results = generation[g].results
        /\ r.model = generation[g].model
    BY <1>1, RunFields
  <2>2. /\ generation' = [generation EXCEPT ![g] = r]
        /\ generation[g].stage = "walking" \/ \E f \in SourceFiles : Working(g, f)
    BY <1>3 DEF AbortGeneration
  <2> HIDE DEF r
  <2>3. generation[g].alone => generation[g].stage = "walking"
    BY <2>2 DEF OkfInv, ReadsAreKept
  <2>4. QED
    BY <1>1, <2>1, <2>2, <2>3, StageKeeps
<1>4. QED
  BY <1>2, <1>3

\* The index is read together and written, or fails (entry, renderTree).
LEMMA IndexKeeps ==
    ASSUME OkfInv, NEW g \in Runs, ReadEntries(g) \/ WriteIndex(g) \/ IndexFails(g)
    PROVE  OkfInv'
<1>1. /\ OkfTypeOK /\ Paths \subseteq DOMAIN bundle /\ DOMAIN generation[g] = Fields
      /\ DOMAIN generation[g].read \subseteq SourceFiles
      /\ worker' = worker /\ Busy(g) /\ generation[g].stage \in {"indexing", "writing"}
  BY DEF OkfInv, OkfTypeOK, ReadEntries, WriteIndex, IndexFails, Busy, Active
<1>2. generation[g].alone => ReadsAreKept(g) /\ \A f \in SourceFiles : ~Working(g, f)
  BY <1>1 DEF OkfInv, ReadsAreKept
<1>3. ASSUME generation' = [generation EXCEPT ![g] = [Idle EXCEPT !.stage = "rejected"]],
             bundle' = bundle
      PROVE  OkfInv'
  <2> DEFINE r == [Idle EXCEPT !.stage = "rejected"]
  <2>1. DOMAIN r = Fields /\ r.stage = "rejected" /\ r.alone = FALSE /\ DOMAIN r.read = {}
    BY PlainRuns
  <2>2. generation' = [generation EXCEPT ![g] = r]
    BY <1>3
  <2> HIDE DEF r
  <2>3. QED
    BY <1>1, <1>3, <2>1, <2>2, FailedRuns DEF OkfTypeOK
<1>4. ASSUME generation[g].stage = "indexing", bundle' = bundle,
             NEW entries, entries = [f \in DOMAIN generation[g].read |-> bundle[OutputPath(f)]],
             generation' = [generation EXCEPT ![g].stage = "writing", ![g].entries = entries]
      PROVE  OkfInv'
  <2> DEFINE r == [generation[g] EXCEPT !.stage = "writing", !.entries = entries]
  <2>1. /\ DOMAIN r = Fields /\ r.stage = "writing" /\ r.alone = generation[g].alone
        /\ r.read = generation[g].read /\ r.results = generation[g].results
        /\ r.model = generation[g].model /\ r.entries = entries
    BY <1>1, RunFields
  <2>2. generation' = [generation EXCEPT ![g] = r]
    BY <1>1, <1>4 DEF OkfTypeOK
  <2> HIDE DEF r
  <2>3. ASSUME generation[g].alone
        PROVE  entries = Made(g)
    <3>1. \A f \in DOMAIN generation[g].read : bundle[OutputPath(f)] = Recipe(g, f)
      BY <1>1, <1>2, <2>3 DEF ReadsAreKept, Working, UnderWork
    <3>2. QED
      BY <1>4, <3>1 DEF Made
  <2>4. generation[g].alone =>
           /\ r.stage \in {"walking", "indexing", "writing", "resolved"}
           /\ r.stage # "walking" => \A f \in SourceFiles : ~Working(g, f)
           /\ r.stage = "writing" => r.entries = Made(g)
           /\ r.stage = "resolved" => bundle'[Index] = [entries |-> Made(g)]
    BY <1>2, <2>1, <2>3
  <2>5. r.stage # "idle"
    BY <2>1
  <2>6. /\ Paths \subseteq DOMAIN bundle'
        /\ \A f \in SourceFiles : bundle'[OutputPath(f)] = bundle[OutputPath(f)]
    BY <1>1, <1>4
  <2>7. QED
    BY <1>1, <2>1, <2>2, <2>4, <2>5, <2>6, StageKeeps, Zenon
<1>5. CASE ReadEntries(g)
  BY <1>3, <1>4, <1>5 DEF ReadEntries
<1>6. CASE WriteIndex(g)
  <2> DEFINE r == [generation[g] EXCEPT !.stage = "resolved", !.entries = <<>>]
  <2>1. /\ DOMAIN r = Fields /\ r.stage = "resolved" /\ r.alone = generation[g].alone
        /\ r.read = generation[g].read /\ r.results = generation[g].results
        /\ r.model = generation[g].model
    BY <1>1, RunFields
  <2>2. /\ generation' = [generation EXCEPT ![g] = r] /\ generation[g].stage = "writing"
        /\ bundle' = [bundle EXCEPT ![Index] = [entries |-> generation[g].entries]]
    BY <1>1, <1>6 DEF WriteIndex, OkfTypeOK
  <2> HIDE DEF r
  <2>3. Index \in DOMAIN bundle
    BY <1>1 DEF Paths
  <2>4. /\ Paths \subseteq DOMAIN bundle'
        /\ bundle'[Index] = [entries |-> generation[g].entries]
        /\ \A f \in SourceFiles : bundle'[OutputPath(f)] = bundle[OutputPath(f)]
    <3>1. \A f \in SourceFiles : OutputPath(f) \in DOMAIN bundle /\ OutputPath(f) # Index
      BY <1>1, ConceptsAreApart DEF Paths
    <3>2. QED
      BY <1>1, <2>2, <2>3, <3>1
  <2>5. generation[g].alone => generation[g].entries = Made(g)
    BY <1>2, <2>2 DEF ReadsAreKept
  <2>6. QED
    BY <1>1, <1>2, <2>1, <2>2, <2>4, <2>5, StageKeeps
<1>7. CASE IndexFails(g)
  BY <1>3, <1>7 DEF IndexFails
<1>8. QED
  BY <1>5, <1>6, <1>7

\* A run begins: it is alone when nothing is busy, and then nobody else is (generate).
LEMMA GenerateKeeps ==
    ASSUME OkfInv, NEW g \in Runs, Generate(g)
    PROVE  OkfInv'
<1> DEFINE free == \A other \in Runs \ {g} : ~Busy(other)
<1>1. PICK model \in Models, size \in 1..Len(Order) :
         generation' = [h \in Runs |->
                    IF h = g
                    THEN [Idle EXCEPT !.stage = "walking", !.model = model, !.batchSize = size,
                             !.listed = Listed, !.alone = free]
                    ELSE [generation[h] EXCEPT !.alone = FALSE]]
  BY DEF Generate
<1>2. /\ OkfTypeOK /\ worker' = worker /\ bundle' = bundle
      /\ \A f \in SourceFiles : ~Working(g, f)
  BY DEF Generate, OkfInv, IdleRunsRest
<1> DEFINE r == [Idle EXCEPT !.stage = "walking", !.model = model, !.batchSize = size,
                             !.listed = Listed, !.alone = free]
<1>3. /\ DOMAIN r = Fields /\ r.stage = "walking" /\ r.alone = free
      /\ DOMAIN r.read = {} /\ DOMAIN r.results = {}
  BY DEF Idle, Fields
<1>4. generation'[g] = r /\ free \in BOOLEAN
  BY <1>1
<1> HIDE DEF r
<1>5. \A h \in Runs : h # g =>
         /\ DOMAIN generation'[h] = Fields /\ generation'[h].stage = generation[h].stage
         /\ generation'[h].alone = FALSE /\ generation'[h].read = generation[h].read
  BY <1>1, <1>2 DEF OkfTypeOK, Fields
<1>6. generation' = [h \in Runs |-> generation'[h]]
  BY <1>1
<1>7. \A h \in Runs : h # g /\ free => ~Busy(h)
  OBVIOUS
<1> HIDE DEF free
<1>8. \A h \in Runs, f \in SourceFiles : Working(h, f)' <=> Working(h, f)
  BY <1>2 DEF Working
<1>9. \A h \in Runs : h # g => (Busy(h)' <=> Busy(h))
  BY <1>5, <1>8 DEF Busy, Active
<1>10. OkfTypeOK'
  <2>1. \A h \in Runs : /\ DOMAIN generation'[h] = Fields /\ generation'[h].alone \in BOOLEAN
                         /\ DOMAIN generation'[h].read \subseteq SourceFiles
    BY <1>2, <1>3, <1>4, <1>5 DEF OkfTypeOK
  <2>2. QED
    BY <1>2, <1>6, <2>1 DEF OkfTypeOK
<1>11. IdleRunsRest'
  BY <1>3, <1>4, <1>5, <1>8 DEF OkfInv, IdleRunsRest
<1>12. AloneMeansAlone'
  BY <1>3, <1>4, <1>5, <1>7, <1>9 DEF AloneMeansAlone
<1>13. ReadsAreKept(g)'
  BY <1>2, <1>3, <1>4 DEF ReadsAreKept, Working, UnderWork
<1>14. \A h \in Runs : generation'[h].alone => ReadsAreKept(h)'
  BY <1>5, <1>13
<1>15. QED
  BY <1>10, <1>11, <1>12, <1>14 DEF OkfInv

\* A crash ends every run that has begun.
LEMMA CrashKeeps ==
    ASSUME OkfInv, Crash
    PROVE  OkfInv'
<1> DEFINE r == [Idle EXCEPT !.stage = "lost"]
<1>1. /\ generation' = [g \in Runs |-> IF generation[g].stage = "idle" THEN generation[g] ELSE r]
      /\ worker' = [g \in Runs |-> [f \in SourceFiles |-> "none"]] /\ bundle' = bundle
      /\ OkfTypeOK
  BY DEF Crash, OkfInv
<1>2. DOMAIN r = Fields /\ r.stage = "lost" /\ r.alone = FALSE /\ DOMAIN r.read = {}
  BY PlainRuns
<1> HIDE DEF r
<1>3. \A g \in Runs : generation[g].stage = "idle" => ~generation[g].alone
  BY DEF OkfInv, ReadsAreKept
<1>4. \A g \in Runs : /\ DOMAIN generation'[g] = Fields /\ generation'[g].alone = FALSE
                       /\ DOMAIN generation'[g].read \subseteq SourceFiles
  BY <1>1, <1>2, <1>3 DEF OkfTypeOK
<1>5. generation' = [g \in Runs |-> generation'[g]]
  BY <1>1
<1>6. OkfTypeOK'
  BY <1>1, <1>4, <1>5 DEF OkfTypeOK
<1>7. IdleRunsRest'
  BY <1>1 DEF IdleRunsRest, Working
<1>8. QED
  BY <1>4, <1>6, <1>7 DEF OkfInv, AloneMeansAlone

\* No run has begun.
LEMMA OkfInitially ==
    OkfInit => OkfInv
<1> SUFFICES ASSUME OkfInit PROVE OkfInv
  OBVIOUS
<1>1. /\ generation = [g \in Runs |-> Idle]
      /\ worker = [g \in Runs |-> [f \in SourceFiles |-> "none"]]
      /\ DOMAIN bundle = Paths
  BY DEF OkfInit
<1>2. \A g \in Runs : /\ DOMAIN generation[g] = Fields /\ generation[g].alone = FALSE
                       /\ DOMAIN generation[g].read \subseteq SourceFiles
  BY <1>1, PlainRuns
<1>3. OkfTypeOK
  BY <1>1, <1>2 DEF OkfTypeOK
<1>4. IdleRunsRest
  BY <1>1 DEF IdleRunsRest, Working
<1>5. QED
  BY <1>2, <1>3, <1>4 DEF OkfInv, AloneMeansAlone

\* Every step of the runs, of the sources and of the process.
LEMMA OkfNextKeepsInv ==
    OkfInv /\ [OkfNext]_okfVars => OkfInv'
<1> SUFFICES ASSUME OkfInv, [OkfNext]_okfVars
             PROVE  OkfInv'
  OBVIOUS
<1>1. ASSUME NEW g \in Runs, NEW f \in SourceFiles, Work(g, f)
      PROVE  OkfInv'
  BY <1>1, ReadSourceKeeps, WorkingKeeps, FailedWorkKeeps DEF Work
<1>2. ASSUME NEW g \in Runs,
             \/ Generate(g) \/ NextBatch(g) \/ WalkEnds(g)
             \/ ReadEntries(g) \/ WriteIndex(g) \/ IndexFails(g) \/ AbortGeneration(g)
      PROVE  OkfInv'
  BY <1>2, GenerateKeeps, NextBatchKeeps, WalkKeeps, IndexKeeps
<1>3. CASE Crash
  BY <1>3, CrashKeeps
<1>4. CASE (\E f \in SourceFiles : EditSource(f)) \/ UNCHANGED okfVars
  <2>1. UNCHANGED <<bundle, generation, worker>>
    BY <1>4 DEF EditSource, okfVars
  <2>2. QED
    BY <2>1 DEF OkfInv, OkfTypeOK, IdleRunsRest, AloneMeansAlone, ReadsAreKept, Made, Recipe,
       Working, Busy, Active
<1>5. QED
  BY <1>1, <1>2, <1>3, <1>4, Zenon DEF OkfNext

\* The invariant of generate: while a run is alone nobody else is busy, and what it has read
\* is under work or has its concept.
THEOREM OkfInvariant == OkfSpec => []OkfInv
BY OkfInitially, OkfNextKeepsInv, PTL DEF OkfSpec

\* A generation that nobody else's work overlapped leaves the bundle of what it read, for any
\* number of runs, sources and faults before it (generate, walk, outputPath).
THEOREM BundleMatches == OkfSpec => []BundleMatchesSources
BY OkfInvariant, OkfInvSuffices, PTL

-----------------------------------------------------------------------------
(* Docker *)


\* Where a sandbox is, in provisionDocker and in dispose.
Cleaning == {"rules", "directory", "container"}
Provisioning == {"image", "create", "start", "inspect", "mkdir", "table", "ssh"}
AtRest == {"idle", "ready", "retry", "rejected", "disposed"}

Locals ==
    [pc : Cleaning \cup Provisioning \cup AtRest, quota : BOOLEAN, found : Addresses \cup {NoIp},
     table : BOOLEAN, hostDisposed : BOOLEAN, owner : {"provision", "dispose"},
     hostFailed : BOOLEAN, failed : BOOLEAN, leaked : BOOLEAN]

DockerTypeOK ==
    /\ policy \in Policies
    /\ containers \subseteq Vms
    /\ address \in [Vms -> Addresses \cup {NoIp}]
    /\ DOMAIN filter \subseteq Vms
    /\ directories \subseteq Vms
    /\ vm \in [Vms -> Locals]
    /\ running \subseteq Vms

HasRules(v) == v \in DOMAIN filter
KeepsAny(v) == v \in containers \/ HasRules(v) \/ v \in directories

-----------------------------------------------------------------------------
(* What a sandbox is and has, place by place *)

\* A disposal is under way, or waits to be repeated.
BeingDisposed(v) == At(v, "retry") \/ (vm[v].pc \in Cleaning /\ vm[v].owner = "dispose")

\* The registry lists a sandbox from the end of its provisioning to the end of its disposal.
Registered(v) ==
    /\ v \in running <=> At(v, "ready") \/ BeingDisposed(v)
    /\ vm[v].pc \in Provisioning \cup {"idle", "ready", "rejected"} => vm[v].owner = "provision"
    /\ vm[v].pc \in {"retry", "disposed"} => vm[v].owner = "dispose"

\* Provisioning takes the container first, then the directory, then the rules.
TakesInOrder(v) ==
    /\ vm[v].pc \in {"idle", "image", "create"} => ~KeepsAny(v)
    /\ vm[v].pc \in {"start", "inspect", "mkdir", "table", "ssh", "ready"} => v \in containers
    /\ vm[v].pc \in {"start", "inspect", "mkdir"} => v \notin directories
    /\ vm[v].pc \in {"start", "inspect", "mkdir", "table"} => ~HasRules(v)

\* Without a network there is nothing to do on the host.
HostNeedsEgress(v) ==
    vm[v].pc \in {"inspect", "mkdir", "table", "ssh"} \/ HasRules(v) \/ v \in directories
        => policy.egress

\* The rules filter the address that was found, which the container still has
\* unless it ended or a cleanup failed.
RulesFitContainer(v) ==
    /\ vm[v].pc \in {"mkdir", "table"} => address[v] \in {NoIp, vm[v].found}
    /\ HasRules(v) =>
          /\ filter[v] = vm[v].found /\ filter[v] # NoIp
          /\ vm[v].leaked \/ (v \in containers /\ address[v] \in {NoIp, filter[v]})

\* Unless AddRules failed, a table that is remembered is there.
TablesAreThere(v) ==
    vm[v].pc \in Provisioning \cup {"idle", "ready"} \/ vm[v].owner = "dispose" => (vm[v].table => HasRules(v))

\* What a cleanup has left is remembered in its locals.
CleanupRemembers(v) ==
    /\ vm[v].hostFailed => vm[v].failed
    /\ At(v, "directory") /\ HasRules(v) => vm[v].hostFailed /\ vm[v].leaked
    /\ At(v, "container") /\ (HasRules(v) \/ v \in directories) => vm[v].failed /\ vm[v].leaked
    /\ At(v, "retry") /\ HasRules(v) => vm[v].leaked
    /\ At(v, "rejected") /\ KeepsAny(v) => vm[v].leaked
    /\ At(v, "disposed") => ~KeepsAny(v)
    /\ vm[v].hostDisposed =>
          /\ vm[v].pc \in {"container", "retry", "rejected", "disposed"}
          /\ ~HasRules(v) /\ v \notin directories

SandboxOK(v) ==
    /\ Registered(v) /\ TakesInOrder(v) /\ HostNeedsEgress(v)
    /\ RulesFitContainer(v) /\ TablesAreThere(v) /\ CleanupRemembers(v)

AddressesAreUnique ==
    \A v, w \in Vms : v # w /\ address[v] # NoIp => address[v] # address[w]

DockerInv == DockerTypeOK /\ AddressesAreUnique /\ \A v \in Vms : SandboxOK(v)

-----------------------------------------------------------------------------
\* A local that gets a value of its type stays a local.
LEMMA LocalsStayLocals ==
    ASSUME NEW x \in Locals
    PROVE  /\ \A pc \in Cleaning \cup Provisioning \cup AtRest : [x EXCEPT !.pc = pc] \in Locals
           /\ \A a \in Addresses \cup {NoIp} : [x EXCEPT !.found = a] \in Locals
           /\ \A o \in {"provision", "dispose"} : [x EXCEPT !.owner = o] \in Locals
           /\ \A b \in BOOLEAN :
                 /\ [x EXCEPT !.quota = b] \in Locals /\ [x EXCEPT !.table = b] \in Locals
                 /\ [x EXCEPT !.hostDisposed = b] \in Locals /\ [x EXCEPT !.hostFailed = b] \in Locals
                 /\ [x EXCEPT !.failed = b] \in Locals /\ [x EXCEPT !.leaked = b] \in Locals
    BY DEF Locals

\* dispose goes through its steps in order, and then the call ends.
LEMMA CleanupSteps ==
    ASSUME NEW v, NEW failed
    PROVE  /\ After(v, "rules", failed) = "directory"
           /\ After(v, "directory", failed) = "container"
           /\ After(v, "container", failed) =
                 IF vm[v].owner = "provision" THEN "rejected"
                 ELSE IF failed THEN "retry" ELSE "disposed"
           /\ Head(CleanupOrder) = "rules"
<1>1. /\ Len(CleanupOrder) = 3 /\ DOMAIN CleanupOrder = 1..3
      /\ CleanupOrder[1] = "rules" /\ CleanupOrder[2] = "directory" /\ CleanupOrder[3] = "container"
      /\ Head(CleanupOrder) = "rules"
    BY DEF CleanupOrder
<1>2. Last(CleanupOrder) = "container"
    BY <1>1 DEF Last
<1>3. \A r : (CHOOSE i \in DOMAIN CleanupOrder : CleanupOrder[i] = r) =
             (CHOOSE i \in 1..3 : CleanupOrder[i] = r)
    BY <1>1
<1>4. (CHOOSE i \in 1..3 : CleanupOrder[i] = "rules") = 1
    BY <1>1
<1>5. (CHOOSE i \in 1..3 : CleanupOrder[i] = "directory") = 2
    BY <1>1
<1> QED
    BY <1>1, <1>2, <1>3, <1>4, <1>5 DEF After

\* What a step of a cleanup does to the locals.
LEMMA CleanupStepTypes ==
    ASSUME DockerTypeOK, NEW v \in Vms, NEW step \in Cleaning, NEW failed \in BOOLEAN, NEW left \in BOOLEAN,
           Steps(v, step, failed, left)
    PROVE  vm' \in [Vms -> Locals]
<1> DEFINE x == vm[v]
           y == [x EXCEPT !.pc = After(v, step, failed \/ x.failed), !.failed = @ \/ failed,
                          !.leaked = @ \/ left, !.hostFailed = @ \/ (failed /\ step # "container"),
                          !.hostDisposed = @ \/ (step = "directory" /\ ~failed /\ ~x.hostFailed)]
<1>1. vm' = [vm EXCEPT ![v] = y]
    BY DEF Steps
<1>2. x \in Locals
    BY DEF DockerTypeOK
<1>3. After(v, step, failed \/ x.failed) \in Cleaning \cup Provisioning \cup AtRest
    BY CleanupSteps DEF Cleaning, AtRest
<1>4. [x EXCEPT !.pc = After(v, step, failed \/ x.failed)] \in Locals
    BY <1>2, <1>3, LocalsStayLocals
<1>5. [x EXCEPT !.pc = After(v, step, failed \/ x.failed), !.failed = @ \/ failed] \in Locals
    BY <1>4, LocalsStayLocals
<1>6. [x EXCEPT !.pc = After(v, step, failed \/ x.failed), !.failed = @ \/ failed,
                !.leaked = @ \/ left] \in Locals
    BY <1>5, LocalsStayLocals
<1>7. [x EXCEPT !.pc = After(v, step, failed \/ x.failed), !.failed = @ \/ failed,
                !.leaked = @ \/ left, !.hostFailed = @ \/ (failed /\ step # "container")] \in Locals
    BY <1>6, LocalsStayLocals
<1>8. y \in Locals
    BY <1>7, LocalsStayLocals
<1> HIDE DEF y
<1> QED
    BY <1>1, <1>8 DEF DockerTypeOK

\* A step of v leaves the other sandboxes alone.
OnlyMoves(v) ==
    /\ policy' = policy
    /\ \A w \in Vms \ {v} :
          /\ vm'[w] = vm[w] /\ address'[w] = address[w]
          /\ w \in containers' <=> w \in containers
          /\ w \in directories' <=> w \in directories
          /\ w \in running' <=> w \in running
          /\ w \in DOMAIN filter' <=> w \in DOMAIN filter
          /\ w \in DOMAIN filter => filter'[w] = filter[w]

LEMMA OneSandboxMoves ==
    ASSUME DockerInv, NEW v \in Vms, OnlyMoves(v), DockerTypeOK', SandboxOK(v)',
           address'[v] # NoIp => \A w \in Vms \ {v} : address[w] # address'[v]
    PROVE  DockerInv'
<1>1. ASSUME NEW w \in Vms \ {v} PROVE SandboxOK(w)'
    BY DEF DockerInv, OnlyMoves, SandboxOK, Registered, BeingDisposed, TakesInOrder, HostNeedsEgress,
           RulesFitContainer, TablesAreThere, CleanupRemembers, HasRules, KeepsAny, At
<1>2. AddressesAreUnique'
    BY DEF DockerInv, OnlyMoves, AddressesAreUnique
<1> QED
    BY <1>1, <1>2 DEF DockerInv

LEMMA ProvisionStep ==
    ASSUME DockerInv, NEW v \in Vms, Provision(v)
    PROVE  DockerInv' /\ OnlyMoves(v)
<1>1. DockerTypeOK'
    BY DEF DockerInv, DockerTypeOK, Locals, Cleaning, Provisioning, AtRest, Provision, Goto, At, hostVars
<1>2. OnlyMoves(v)
    BY DEF DockerInv, DockerTypeOK, OnlyMoves, Provision, Goto, At, hostVars
<1>3. SandboxOK(v)'
    BY DEF DockerInv, DockerTypeOK, Locals, Cleaning, Provisioning, AtRest, Provision, Goto, At, hostVars,
       SandboxOK, Registered, BeingDisposed, TakesInOrder, HostNeedsEgress, RulesFitContainer,
       TablesAreThere, CleanupRemembers, HasRules, KeepsAny
<1>4. address'[v] # NoIp => \A w \in Vms \ {v} : address[w] # address'[v]
    BY DEF DockerInv, DockerTypeOK, AddressesAreUnique, Provision, hostVars
<1> QED
    BY <1>1, <1>2, <1>3, <1>4, OneSandboxMoves

LEMMA EnsureImageStep ==
    ASSUME DockerInv, NEW v \in Vms, EnsureImage(v)
    PROVE  DockerInv' /\ OnlyMoves(v)
<1>1. DockerTypeOK'
    BY DEF DockerInv, DockerTypeOK, Locals, Cleaning, Provisioning, AtRest, EnsureImage, Goto, At,
       hostVars
<1>2. OnlyMoves(v)
    BY DEF DockerInv, DockerTypeOK, OnlyMoves, EnsureImage, Goto, At, hostVars
<1>3. SandboxOK(v)'
    BY DEF DockerInv, DockerTypeOK, Locals, Cleaning, Provisioning, AtRest, EnsureImage, Goto, At,
       hostVars, SandboxOK, Registered, BeingDisposed, TakesInOrder, HostNeedsEgress,
       RulesFitContainer, TablesAreThere, CleanupRemembers, HasRules, KeepsAny
<1>4. address'[v] # NoIp => \A w \in Vms \ {v} : address[w] # address'[v]
    BY DEF DockerInv, DockerTypeOK, AddressesAreUnique, EnsureImage, hostVars
<1> QED
    BY <1>1, <1>2, <1>3, <1>4, OneSandboxMoves

LEMMA EnsureImageFailsStep ==
    ASSUME DockerInv, NEW v \in Vms, EnsureImageFails(v)
    PROVE  DockerInv' /\ OnlyMoves(v)
<1>1. DockerTypeOK'
    BY DEF DockerInv, DockerTypeOK, Locals, Cleaning, Provisioning, AtRest, EnsureImageFails, Goto, At,
       hostVars, Fault
<1>2. OnlyMoves(v)
    BY DEF DockerInv, DockerTypeOK, OnlyMoves, EnsureImageFails, Goto, At, hostVars, Fault
<1>3. SandboxOK(v)'
    BY DEF DockerInv, DockerTypeOK, Locals, Cleaning, Provisioning, AtRest, EnsureImageFails, Goto, At,
       hostVars, Fault, SandboxOK, Registered, BeingDisposed, TakesInOrder, HostNeedsEgress,
       RulesFitContainer, TablesAreThere, CleanupRemembers, HasRules, KeepsAny
<1>4. address'[v] # NoIp => \A w \in Vms \ {v} : address[w] # address'[v]
    BY DEF DockerInv, DockerTypeOK, AddressesAreUnique, EnsureImageFails, hostVars
<1> QED
    BY <1>1, <1>2, <1>3, <1>4, OneSandboxMoves

LEMMA CreateContainerStep ==
    ASSUME DockerInv, NEW v \in Vms, CreateContainer(v)
    PROVE  DockerInv' /\ OnlyMoves(v)
<1>1. DockerTypeOK'
    BY DEF DockerInv, DockerTypeOK, Locals, Cleaning, Provisioning, AtRest, CreateContainer, Goto, At
<1>2. OnlyMoves(v)
    BY DEF DockerInv, DockerTypeOK, OnlyMoves, CreateContainer, Goto, At
<1>3. SandboxOK(v)'
    BY DEF DockerInv, DockerTypeOK, Locals, Cleaning, Provisioning, AtRest, CreateContainer, Goto, At,
       SandboxOK, Registered, BeingDisposed, TakesInOrder, HostNeedsEgress, RulesFitContainer,
       TablesAreThere, CleanupRemembers, HasRules, KeepsAny
<1>4. address'[v] # NoIp => \A w \in Vms \ {v} : address[w] # address'[v]
    BY DEF DockerInv, DockerTypeOK, AddressesAreUnique, CreateContainer
<1> QED
    BY <1>1, <1>2, <1>3, <1>4, OneSandboxMoves

LEMMA RetryWithoutQuotaStep ==
    ASSUME DockerInv, NEW v \in Vms, RetryWithoutQuota(v)
    PROVE  DockerInv' /\ OnlyMoves(v)
<1>1. DockerTypeOK'
    <2> DEFINE x == vm[v]
               y == [x EXCEPT !.quota = FALSE]
    <2>1. vm' = [vm EXCEPT ![v] = y]
        BY DEF RetryWithoutQuota
    <2>2. x \in Locals
        BY DEF DockerInv, DockerTypeOK
    <2>3. [x EXCEPT !.quota = FALSE] \in Locals
        BY <2>2, LocalsStayLocals DEF DockerInv, DockerTypeOK, Cleaning, Provisioning, AtRest
    <2> HIDE DEF y
    <2> QED
        BY <2>1, <2>3 DEF DockerInv, DockerTypeOK, RetryWithoutQuota, hostVars
<1>2. OnlyMoves(v)
    BY DEF DockerInv, DockerTypeOK, OnlyMoves, RetryWithoutQuota, At, hostVars
<1>3. SandboxOK(v)'
    BY DEF DockerInv, DockerTypeOK, Locals, Cleaning, Provisioning, AtRest, RetryWithoutQuota, At,
       hostVars, SandboxOK, Registered, BeingDisposed, TakesInOrder, HostNeedsEgress,
       RulesFitContainer, TablesAreThere, CleanupRemembers, HasRules, KeepsAny
<1>4. address'[v] # NoIp => \A w \in Vms \ {v} : address[w] # address'[v]
    BY DEF DockerInv, DockerTypeOK, AddressesAreUnique, RetryWithoutQuota, hostVars
<1> QED
    BY <1>1, <1>2, <1>3, <1>4, OneSandboxMoves

LEMMA CreateFailsStep ==
    ASSUME DockerInv, NEW v \in Vms, CreateFails(v)
    PROVE  DockerInv' /\ OnlyMoves(v)
<1>1. DockerTypeOK'
    <2>1. PICK created \in BOOLEAN :
             /\ containers' = IF created THEN containers \cup {v} ELSE containers
             /\ vm' = [vm EXCEPT ![v].pc = "rejected", ![v].leaked = created]
        BY DEF CreateFails
    <2> DEFINE x == vm[v]
               y == [x EXCEPT !.pc = "rejected", !.leaked = created]
    <2>2. vm' = [vm EXCEPT ![v] = y]
        BY <2>1
    <2>3. x \in Locals
        BY DEF DockerInv, DockerTypeOK
    <2>4. [x EXCEPT !.pc = "rejected"] \in Locals
        BY <2>3, LocalsStayLocals DEF AtRest
    <2>5. y \in Locals
        BY <2>4, LocalsStayLocals
    <2> HIDE DEF y
    <2> QED
        BY <2>1, <2>2, <2>5, ZenonT(30) DEF DockerInv, DockerTypeOK, CreateFails
<1>2. OnlyMoves(v)
    BY DEF DockerInv, DockerTypeOK, OnlyMoves, CreateFails, At, Fault
<1>3. SandboxOK(v)'
    BY DEF DockerInv, DockerTypeOK, Locals, Cleaning, Provisioning, AtRest, CreateFails, At, Fault,
       SandboxOK, Registered, BeingDisposed, TakesInOrder, HostNeedsEgress, RulesFitContainer,
       TablesAreThere, CleanupRemembers, HasRules, KeepsAny
<1>4. address'[v] # NoIp => \A w \in Vms \ {v} : address[w] # address'[v]
    BY DEF DockerInv, DockerTypeOK, AddressesAreUnique, CreateFails
<1> QED
    BY <1>1, <1>2, <1>3, <1>4, OneSandboxMoves

LEMMA StartContainerStep ==
    ASSUME DockerInv, NEW v \in Vms, StartContainer(v)
    PROVE  DockerInv' /\ OnlyMoves(v)
<1>1. DockerTypeOK'
    BY DEF DockerInv, DockerTypeOK, Locals, Cleaning, Provisioning, AtRest, StartContainer, Goto, At,
       Started
<1>2. OnlyMoves(v)
    BY DEF DockerInv, DockerTypeOK, OnlyMoves, StartContainer, Goto, At, Started
<1>3. SandboxOK(v)'
    <2>1. Registered(v)'
        BY DEF DockerInv, DockerTypeOK, Locals, Cleaning, Provisioning, AtRest, StartContainer, Goto, At,
           Started, SandboxOK, Registered, BeingDisposed, TakesInOrder, HostNeedsEgress,
           RulesFitContainer, TablesAreThere, CleanupRemembers, HasRules, KeepsAny
    <2>2. TakesInOrder(v)'
        BY DEF DockerInv, DockerTypeOK, Locals, Cleaning, Provisioning, AtRest, StartContainer, Goto, At,
           Started, SandboxOK, Registered, BeingDisposed, TakesInOrder, HostNeedsEgress,
           RulesFitContainer, TablesAreThere, CleanupRemembers, HasRules, KeepsAny
    <2>3. HostNeedsEgress(v)'
        BY DEF DockerInv, DockerTypeOK, Locals, Cleaning, Provisioning, AtRest, StartContainer, Goto, At,
           Started, SandboxOK, Registered, BeingDisposed, TakesInOrder, HostNeedsEgress,
           RulesFitContainer, TablesAreThere, CleanupRemembers, HasRules, KeepsAny
    <2>4. RulesFitContainer(v)'
        BY DEF DockerInv, DockerTypeOK, Locals, Cleaning, Provisioning, AtRest, StartContainer, Goto, At,
           Started, SandboxOK, Registered, BeingDisposed, TakesInOrder, HostNeedsEgress,
           RulesFitContainer, TablesAreThere, CleanupRemembers, HasRules, KeepsAny
    <2>5. TablesAreThere(v)'
        BY DEF DockerInv, DockerTypeOK, Locals, Cleaning, Provisioning, AtRest, StartContainer, Goto, At,
           Started, SandboxOK, Registered, BeingDisposed, TakesInOrder, HostNeedsEgress,
           RulesFitContainer, TablesAreThere, CleanupRemembers, HasRules, KeepsAny
    <2>6. CleanupRemembers(v)'
        BY DEF DockerInv, DockerTypeOK, Locals, Cleaning, Provisioning, AtRest, StartContainer, Goto, At,
           Started, SandboxOK, Registered, BeingDisposed, TakesInOrder, HostNeedsEgress,
           RulesFitContainer, TablesAreThere, CleanupRemembers, HasRules, KeepsAny
    <2> QED
        BY <2>1, <2>2, <2>3, <2>4, <2>5, <2>6 DEF SandboxOK
<1>4. address'[v] # NoIp => \A w \in Vms \ {v} : address[w] # address'[v]
    BY DEF DockerInv, DockerTypeOK, AddressesAreUnique, StartContainer, Started
<1> QED
    BY <1>1, <1>2, <1>3, <1>4, OneSandboxMoves

LEMMA StartFailsStep ==
    ASSUME DockerInv, NEW v \in Vms, StartFails(v)
    PROVE  DockerInv' /\ OnlyMoves(v)
<1>1. DockerTypeOK'
    BY DEF DockerInv, DockerTypeOK, Locals, Cleaning, Provisioning, AtRest, StartFails, Goto, At, Started,
       Fault
<1>2. OnlyMoves(v)
    BY DEF DockerInv, DockerTypeOK, OnlyMoves, StartFails, Goto, At, Started, Fault
<1>3. SandboxOK(v)'
    BY DEF DockerInv, DockerTypeOK, Locals, Cleaning, Provisioning, AtRest, StartFails, Goto, At, Started,
       Fault, SandboxOK, Registered, BeingDisposed, TakesInOrder, HostNeedsEgress, RulesFitContainer,
       TablesAreThere, CleanupRemembers, HasRules, KeepsAny
<1>4. address'[v] # NoIp => \A w \in Vms \ {v} : address[w] # address'[v]
    BY DEF DockerInv, DockerTypeOK, AddressesAreUnique, StartFails, Started
<1> QED
    BY <1>1, <1>2, <1>3, <1>4, OneSandboxMoves

LEMMA InspectContainerStep ==
    ASSUME DockerInv, NEW v \in Vms, InspectContainer(v)
    PROVE  DockerInv' /\ OnlyMoves(v)
<1>1. DockerTypeOK'
    <2> DEFINE x == vm[v]
               y == [x EXCEPT !.pc = "mkdir", !.found = address[v]]
    <2>1. vm' = [vm EXCEPT ![v] = y]
        BY DEF InspectContainer
    <2>2. x \in Locals
        BY DEF DockerInv, DockerTypeOK
    <2>3. [x EXCEPT !.pc = "mkdir"] \in Locals
        BY <2>2, LocalsStayLocals DEF DockerInv, DockerTypeOK, Cleaning, Provisioning, AtRest
    <2>4. [x EXCEPT !.pc = "mkdir", !.found = address[v]] \in Locals
        BY <2>3, LocalsStayLocals DEF DockerInv, DockerTypeOK, Cleaning, Provisioning, AtRest
    <2> HIDE DEF y
    <2> QED
        BY <2>1, <2>4 DEF DockerInv, DockerTypeOK, InspectContainer, hostVars
<1>2. OnlyMoves(v)
    BY DEF DockerInv, DockerTypeOK, OnlyMoves, InspectContainer, At, hostVars
<1>3. SandboxOK(v)'
    BY DEF DockerInv, DockerTypeOK, Locals, Cleaning, Provisioning, AtRest, InspectContainer, At,
       hostVars, SandboxOK, Registered, BeingDisposed, TakesInOrder, HostNeedsEgress,
       RulesFitContainer, TablesAreThere, CleanupRemembers, HasRules, KeepsAny
<1>4. address'[v] # NoIp => \A w \in Vms \ {v} : address[w] # address'[v]
    BY DEF DockerInv, DockerTypeOK, AddressesAreUnique, InspectContainer, hostVars
<1> QED
    BY <1>1, <1>2, <1>3, <1>4, OneSandboxMoves

LEMMA InspectFailsStep ==
    ASSUME DockerInv, NEW v \in Vms, InspectFails(v)
    PROVE  DockerInv' /\ OnlyMoves(v)
<1>1. DockerTypeOK'
    BY DEF DockerInv, DockerTypeOK, Locals, Cleaning, Provisioning, AtRest, InspectFails, Goto, At,
       hostVars, Fault
<1>2. OnlyMoves(v)
    BY DEF DockerInv, DockerTypeOK, OnlyMoves, InspectFails, Goto, At, hostVars, Fault
<1>3. SandboxOK(v)'
    BY DEF DockerInv, DockerTypeOK, Locals, Cleaning, Provisioning, AtRest, InspectFails, Goto, At,
       hostVars, Fault, SandboxOK, Registered, BeingDisposed, TakesInOrder, HostNeedsEgress,
       RulesFitContainer, TablesAreThere, CleanupRemembers, HasRules, KeepsAny
<1>4. address'[v] # NoIp => \A w \in Vms \ {v} : address[w] # address'[v]
    BY DEF DockerInv, DockerTypeOK, AddressesAreUnique, InspectFails, hostVars
<1> QED
    BY <1>1, <1>2, <1>3, <1>4, OneSandboxMoves

LEMMA MakeDirectoryStep ==
    ASSUME DockerInv, NEW v \in Vms, MakeDirectory(v)
    PROVE  DockerInv' /\ OnlyMoves(v)
<1>1. DockerTypeOK'
    BY DEF DockerInv, DockerTypeOK, Locals, Cleaning, Provisioning, AtRest, MakeDirectory, Goto, At
<1>2. OnlyMoves(v)
    BY DEF DockerInv, DockerTypeOK, OnlyMoves, MakeDirectory, Goto, At
<1>3. SandboxOK(v)'
    BY DEF DockerInv, DockerTypeOK, Locals, Cleaning, Provisioning, AtRest, MakeDirectory, Goto, At,
       SandboxOK, Registered, BeingDisposed, TakesInOrder, HostNeedsEgress, RulesFitContainer,
       TablesAreThere, CleanupRemembers, HasRules, KeepsAny
<1>4. address'[v] # NoIp => \A w \in Vms \ {v} : address[w] # address'[v]
    BY DEF DockerInv, DockerTypeOK, AddressesAreUnique, MakeDirectory
<1> QED
    BY <1>1, <1>2, <1>3, <1>4, OneSandboxMoves

LEMMA MakeDirectoryFailsStep ==
    ASSUME DockerInv, NEW v \in Vms, MakeDirectoryFails(v)
    PROVE  DockerInv' /\ OnlyMoves(v)
<1>1. DockerTypeOK'
    BY DEF DockerInv, DockerTypeOK, Locals, Cleaning, Provisioning, AtRest, MakeDirectoryFails, Goto, At,
       hostVars, Fault
<1>2. OnlyMoves(v)
    BY DEF DockerInv, DockerTypeOK, OnlyMoves, MakeDirectoryFails, Goto, At, hostVars, Fault
<1>3. SandboxOK(v)'
    BY DEF DockerInv, DockerTypeOK, Locals, Cleaning, Provisioning, AtRest, MakeDirectoryFails, Goto, At,
       hostVars, Fault, SandboxOK, Registered, BeingDisposed, TakesInOrder, HostNeedsEgress,
       RulesFitContainer, TablesAreThere, CleanupRemembers, HasRules, KeepsAny
<1>4. address'[v] # NoIp => \A w \in Vms \ {v} : address[w] # address'[v]
    BY DEF DockerInv, DockerTypeOK, AddressesAreUnique, MakeDirectoryFails, hostVars
<1> QED
    BY <1>1, <1>2, <1>3, <1>4, OneSandboxMoves

LEMMA AddRulesStep ==
    ASSUME DockerInv, NEW v \in Vms, AddRules(v)
    PROVE  DockerInv' /\ OnlyMoves(v)
<1>1. DockerTypeOK'
    BY DEF DockerInv, DockerTypeOK, Locals, Cleaning, Provisioning, AtRest, AddRules, Goto, At, NoAddress
<1>2. OnlyMoves(v)
    BY DEF DockerInv, DockerTypeOK, OnlyMoves, AddRules, Goto, At, NoAddress
<1>3. SandboxOK(v)'
    <2>1. Registered(v)'
        BY DEF DockerInv, DockerTypeOK, Locals, Cleaning, Provisioning, AtRest, AddRules, Goto, At,
           NoAddress, SandboxOK, Registered, BeingDisposed, TakesInOrder, HostNeedsEgress,
           RulesFitContainer, TablesAreThere, CleanupRemembers, HasRules, KeepsAny
    <2>2. TakesInOrder(v)'
        BY DEF DockerInv, DockerTypeOK, Locals, Cleaning, Provisioning, AtRest, AddRules, Goto, At,
           NoAddress, SandboxOK, Registered, BeingDisposed, TakesInOrder, HostNeedsEgress,
           RulesFitContainer, TablesAreThere, CleanupRemembers, HasRules, KeepsAny
    <2>3. HostNeedsEgress(v)'
        BY DEF DockerInv, DockerTypeOK, Locals, Cleaning, Provisioning, AtRest, AddRules, Goto, At,
           NoAddress, SandboxOK, Registered, BeingDisposed, TakesInOrder, HostNeedsEgress,
           RulesFitContainer, TablesAreThere, CleanupRemembers, HasRules, KeepsAny
    <2>4. RulesFitContainer(v)'
        BY DEF DockerInv, DockerTypeOK, Locals, Cleaning, Provisioning, AtRest, AddRules, Goto, At,
           NoAddress, SandboxOK, Registered, BeingDisposed, TakesInOrder, HostNeedsEgress,
           RulesFitContainer, TablesAreThere, CleanupRemembers, HasRules, KeepsAny
    <2>5. TablesAreThere(v)'
        BY DEF DockerInv, DockerTypeOK, Locals, Cleaning, Provisioning, AtRest, AddRules, Goto, At,
           NoAddress, SandboxOK, Registered, BeingDisposed, TakesInOrder, HostNeedsEgress,
           RulesFitContainer, TablesAreThere, CleanupRemembers, HasRules, KeepsAny
    <2>6. CleanupRemembers(v)'
        BY DEF DockerInv, DockerTypeOK, Locals, Cleaning, Provisioning, AtRest, AddRules, Goto, At,
           NoAddress, SandboxOK, Registered, BeingDisposed, TakesInOrder, HostNeedsEgress,
           RulesFitContainer, TablesAreThere, CleanupRemembers, HasRules, KeepsAny
    <2> QED
        BY <2>1, <2>2, <2>3, <2>4, <2>5, <2>6 DEF SandboxOK
<1>4. address'[v] # NoIp => \A w \in Vms \ {v} : address[w] # address'[v]
    BY DEF DockerInv, DockerTypeOK, AddressesAreUnique, AddRules
<1> QED
    BY <1>1, <1>2, <1>3, <1>4, OneSandboxMoves

LEMMA AddRulesFailsStep ==
    ASSUME DockerInv, NEW v \in Vms, AddRulesFails(v)
    PROVE  DockerInv' /\ OnlyMoves(v)
<1>1. DockerTypeOK'
    <2> DEFINE x == vm[v]
               y == [x EXCEPT !.pc = "rules", !.table = ~NoAddress(v)]
    <2>1. vm' = [vm EXCEPT ![v] = y]
        BY DEF AddRulesFails
    <2>2. x \in Locals
        BY DEF DockerInv, DockerTypeOK
    <2>3. [x EXCEPT !.pc = "rules"] \in Locals
        BY <2>2, LocalsStayLocals DEF DockerInv, DockerTypeOK, Cleaning, Provisioning, AtRest
    <2>4. [x EXCEPT !.pc = "rules", !.table = ~NoAddress(v)] \in Locals
        BY <2>3, LocalsStayLocals DEF DockerInv, DockerTypeOK, Cleaning, Provisioning, AtRest, NoAddress
    <2> HIDE DEF y
    <2> QED
        BY <2>1, <2>4 DEF DockerInv, DockerTypeOK, AddRulesFails, hostVars, Fault
<1>2. OnlyMoves(v)
    BY DEF DockerInv, DockerTypeOK, OnlyMoves, AddRulesFails, At, hostVars, Fault, NoAddress
<1>3. SandboxOK(v)'
    BY DEF DockerInv, DockerTypeOK, Locals, Cleaning, Provisioning, AtRest, AddRulesFails, At, hostVars,
       Fault, NoAddress, SandboxOK, Registered, BeingDisposed, TakesInOrder, HostNeedsEgress,
       RulesFitContainer, TablesAreThere, CleanupRemembers, HasRules, KeepsAny
<1>4. address'[v] # NoIp => \A w \in Vms \ {v} : address[w] # address'[v]
    BY DEF DockerInv, DockerTypeOK, AddressesAreUnique, AddRulesFails, hostVars
<1> QED
    BY <1>1, <1>2, <1>3, <1>4, OneSandboxMoves

LEMMA ConfigureSshStep ==
    ASSUME DockerInv, NEW v \in Vms, ConfigureSsh(v)
    PROVE  DockerInv' /\ OnlyMoves(v)
<1>1. DockerTypeOK'
    BY DEF DockerInv, DockerTypeOK, Locals, Cleaning, Provisioning, AtRest, ConfigureSsh, Goto, At,
       hostVars
<1>2. OnlyMoves(v)
    BY DEF DockerInv, DockerTypeOK, OnlyMoves, ConfigureSsh, Goto, At, hostVars
<1>3. SandboxOK(v)'
    BY DEF DockerInv, DockerTypeOK, Locals, Cleaning, Provisioning, AtRest, ConfigureSsh, Goto, At,
       hostVars, SandboxOK, Registered, BeingDisposed, TakesInOrder, HostNeedsEgress,
       RulesFitContainer, TablesAreThere, CleanupRemembers, HasRules, KeepsAny
<1>4. address'[v] # NoIp => \A w \in Vms \ {v} : address[w] # address'[v]
    BY DEF DockerInv, DockerTypeOK, AddressesAreUnique, ConfigureSsh, hostVars
<1> QED
    BY <1>1, <1>2, <1>3, <1>4, OneSandboxMoves

LEMMA ConfigureSshFailsStep ==
    ASSUME DockerInv, NEW v \in Vms, ConfigureSshFails(v)
    PROVE  DockerInv' /\ OnlyMoves(v)
<1>1. DockerTypeOK'
    BY DEF DockerInv, DockerTypeOK, Locals, Cleaning, Provisioning, AtRest, ConfigureSshFails, Goto, At,
       hostVars, Fault
<1>2. OnlyMoves(v)
    BY DEF DockerInv, DockerTypeOK, OnlyMoves, ConfigureSshFails, Goto, At, hostVars, Fault
<1>3. SandboxOK(v)'
    BY DEF DockerInv, DockerTypeOK, Locals, Cleaning, Provisioning, AtRest, ConfigureSshFails, Goto, At,
       hostVars, Fault, SandboxOK, Registered, BeingDisposed, TakesInOrder, HostNeedsEgress,
       RulesFitContainer, TablesAreThere, CleanupRemembers, HasRules, KeepsAny
<1>4. address'[v] # NoIp => \A w \in Vms \ {v} : address[w] # address'[v]
    BY DEF DockerInv, DockerTypeOK, AddressesAreUnique, ConfigureSshFails, hostVars
<1> QED
    BY <1>1, <1>2, <1>3, <1>4, OneSandboxMoves

LEMMA ContainerExitsStep ==
    ASSUME DockerInv, NEW v \in Vms, ContainerExits(v)
    PROVE  DockerInv' /\ OnlyMoves(v)
<1>1. DockerTypeOK'
    BY DEF DockerInv, DockerTypeOK, Locals, Cleaning, Provisioning, AtRest, ContainerExits, At, Fault
<1>2. OnlyMoves(v)
    BY DEF DockerInv, DockerTypeOK, OnlyMoves, ContainerExits, At, Fault
<1>3. SandboxOK(v)'
    BY DEF DockerInv, DockerTypeOK, Locals, Cleaning, Provisioning, AtRest, ContainerExits, At, Fault,
       SandboxOK, Registered, BeingDisposed, TakesInOrder, HostNeedsEgress, RulesFitContainer,
       TablesAreThere, CleanupRemembers, HasRules, KeepsAny
<1>4. address'[v] # NoIp => \A w \in Vms \ {v} : address[w] # address'[v]
    BY DEF DockerInv, DockerTypeOK, AddressesAreUnique, ContainerExits
<1> QED
    BY <1>1, <1>2, <1>3, <1>4, OneSandboxMoves

LEMMA DisposeStep ==
    ASSUME DockerInv, NEW v \in Vms, Dispose(v)
    PROVE  DockerInv' /\ OnlyMoves(v)
<1>1. DockerTypeOK'
    <2> DEFINE x == vm[v]
               y == [x EXCEPT !.pc = IF policy.egress /\ ~x.hostDisposed THEN Head(CleanupOrder) ELSE "container", !.owner = "dispose", !.hostFailed = FALSE, !.failed = FALSE]
    <2>1. vm' = [vm EXCEPT ![v] = y]
        BY DEF Dispose
    <2>2. x \in Locals
        BY DEF DockerInv, DockerTypeOK
    <2>3. [x EXCEPT !.pc = IF policy.egress /\ ~x.hostDisposed THEN Head(CleanupOrder) ELSE "container"] \in Locals
        BY <2>2, LocalsStayLocals, CleanupSteps DEF DockerInv, DockerTypeOK, Cleaning, Provisioning,
           AtRest
    <2>4. [x EXCEPT !.pc = IF policy.egress /\ ~x.hostDisposed THEN Head(CleanupOrder) ELSE "container", !.owner = "dispose"] \in Locals
        BY <2>3, LocalsStayLocals, CleanupSteps DEF DockerInv, DockerTypeOK, Cleaning, Provisioning,
           AtRest
    <2>5. [x EXCEPT !.pc = IF policy.egress /\ ~x.hostDisposed THEN Head(CleanupOrder) ELSE "container", !.owner = "dispose", !.hostFailed = FALSE] \in Locals
        BY <2>4, LocalsStayLocals, CleanupSteps DEF DockerInv, DockerTypeOK, Cleaning, Provisioning,
           AtRest
    <2>6. [x EXCEPT !.pc = IF policy.egress /\ ~x.hostDisposed THEN Head(CleanupOrder) ELSE "container", !.owner = "dispose", !.hostFailed = FALSE, !.failed = FALSE] \in Locals
        BY <2>5, LocalsStayLocals, CleanupSteps DEF DockerInv, DockerTypeOK, Cleaning, Provisioning,
           AtRest
    <2> HIDE DEF y
    <2> QED
        BY <2>1, <2>6 DEF DockerInv, DockerTypeOK, Dispose, hostVars
<1>2. OnlyMoves(v)
    BY CleanupSteps DEF DockerInv, DockerTypeOK, OnlyMoves, Dispose, At, hostVars
<1>3. SandboxOK(v)'
    <2>1. /\ vm'[v].pc = IF policy.egress /\ ~vm[v].hostDisposed THEN "rules" ELSE "container"
          /\ vm'[v].owner = "dispose" /\ vm'[v].hostFailed = FALSE /\ vm'[v].failed = FALSE
          /\ vm'[v].found = vm[v].found /\ vm'[v].table = vm[v].table
          /\ vm'[v].hostDisposed = vm[v].hostDisposed /\ vm'[v].leaked = vm[v].leaked
        BY CleanupSteps DEF DockerInv, DockerTypeOK, Locals, Dispose
    <2>2. /\ At(v, "ready") \/ At(v, "retry")
          /\ UNCHANGED <<policy, containers, address, filter, directories, running>>
        BY DEF Dispose, hostVars
    <2>3. v \in running
        BY <2>2 DEF DockerInv, SandboxOK, Registered, BeingDisposed
    <2>4. HasRules(v) \/ v \in directories => policy.egress /\ ~vm[v].hostDisposed
        BY DEF DockerInv, SandboxOK, HostNeedsEgress, CleanupRemembers
    <2>5. Registered(v)'
        BY <2>1, <2>2, <2>3, <2>4 DEF DockerInv, SandboxOK, Registered, BeingDisposed, KeepsAny,
           HasRules, At, Cleaning, Provisioning, CleanupRemembers
    <2>6. TakesInOrder(v)'
        BY <2>1, <2>2, <2>3, <2>4 DEF DockerInv, SandboxOK, TakesInOrder, BeingDisposed, KeepsAny,
           HasRules, At, Cleaning, Provisioning, CleanupRemembers
    <2>7. HostNeedsEgress(v)'
        BY <2>1, <2>2, <2>3, <2>4 DEF DockerInv, SandboxOK, HostNeedsEgress, BeingDisposed, KeepsAny,
           HasRules, At, Cleaning, Provisioning, CleanupRemembers
    <2>8. RulesFitContainer(v)'
        BY <2>1, <2>2, <2>3, <2>4 DEF DockerInv, SandboxOK, RulesFitContainer, BeingDisposed, KeepsAny,
           HasRules, At, Cleaning, Provisioning, CleanupRemembers
    <2>9. TablesAreThere(v)'
        BY <2>1, <2>2, <2>3, <2>4 DEF DockerInv, SandboxOK, Registered, TablesAreThere,
           BeingDisposed, KeepsAny, HasRules, At, Cleaning, Provisioning, CleanupRemembers
    <2>10. CleanupRemembers(v)'
        BY <2>1, <2>2, <2>3, <2>4 DEF DockerInv, SandboxOK, BeingDisposed, KeepsAny, HasRules, At,
           Cleaning, Provisioning, CleanupRemembers
    <2> QED
        BY <2>5, <2>6, <2>7, <2>8, <2>9, <2>10 DEF SandboxOK
<1>4. address'[v] # NoIp => \A w \in Vms \ {v} : address[w] # address'[v]
    BY DEF DockerInv, DockerTypeOK, AddressesAreUnique, Dispose, hostVars
<1> QED
    BY <1>1, <1>2, <1>3, <1>4, OneSandboxMoves

LEMMA DeleteRulesStep ==
    ASSUME DockerInv, NEW v \in Vms, DeleteRules(v)
    PROVE  DockerInv' /\ OnlyMoves(v)
<1>1. DockerTypeOK'
    BY CleanupSteps DEF DockerInv, DockerTypeOK, Locals, Cleaning, Provisioning, AtRest, DeleteRules, At,
       ForgetTable
<1>2. OnlyMoves(v)
    BY CleanupSteps DEF DockerInv, DockerTypeOK, OnlyMoves, DeleteRules, At, ForgetTable
<1>3. SandboxOK(v)'
    BY CleanupSteps DEF DockerInv, DockerTypeOK, Locals, Cleaning, Provisioning, AtRest, DeleteRules, At,
       ForgetTable, SandboxOK, Registered, BeingDisposed, TakesInOrder, HostNeedsEgress,
       RulesFitContainer, TablesAreThere, CleanupRemembers, HasRules, KeepsAny
<1>4. address'[v] # NoIp => \A w \in Vms \ {v} : address[w] # address'[v]
    BY DEF DockerInv, DockerTypeOK, AddressesAreUnique, DeleteRules
<1> QED
    BY <1>1, <1>2, <1>3, <1>4, OneSandboxMoves

LEMMA DeleteRulesFailsStep ==
    ASSUME DockerInv, NEW v \in Vms, DeleteRulesFails(v)
    PROVE  DockerInv' /\ OnlyMoves(v)
<1>1. DockerTypeOK'
    <2>1. vm' \in [Vms -> Locals]
        <3>1. Steps(v, "rules", TRUE, v \in DOMAIN filter)
            BY DEF DeleteRulesFails
        <3>2. \E left \in BOOLEAN : Steps(v, "rules", TRUE, left)
            <4>1. CASE v \in DOMAIN filter
                <5>1. Steps(v, "rules", TRUE, TRUE)
                    BY <3>1, <4>1 DEF Steps
                <5> QED
                    BY <5>1
            <4>2. CASE ~(v \in DOMAIN filter)
                <5>1. Steps(v, "rules", TRUE, FALSE)
                    BY <3>1, <4>2 DEF Steps
                <5> QED
                    BY <5>1
            <4> QED
                BY <4>1, <4>2
        <3>3. PICK left \in BOOLEAN : Steps(v, "rules", TRUE, left)
            BY <3>2
        <3> QED
            BY <3>3, CleanupStepTypes DEF DockerInv, Cleaning
    <2> QED
        BY <2>1 DEF DockerInv, DockerTypeOK, DeleteRulesFails, hostVars
<1>2. OnlyMoves(v)
    BY CleanupSteps DEF DockerInv, DockerTypeOK, OnlyMoves, DeleteRulesFails, At, hostVars, Fault, Steps
<1>3. SandboxOK(v)'
    BY CleanupSteps DEF DockerInv, DockerTypeOK, Locals, Cleaning, Provisioning, AtRest, DeleteRulesFails,
       At, hostVars, Fault, Steps, SandboxOK, Registered, BeingDisposed, TakesInOrder,
       HostNeedsEgress, RulesFitContainer, TablesAreThere, CleanupRemembers, HasRules, KeepsAny
<1>4. address'[v] # NoIp => \A w \in Vms \ {v} : address[w] # address'[v]
    BY DEF DockerInv, DockerTypeOK, AddressesAreUnique, DeleteRulesFails, hostVars
<1> QED
    BY <1>1, <1>2, <1>3, <1>4, OneSandboxMoves

LEMMA RemoveDirectoryStep ==
    ASSUME DockerInv, NEW v \in Vms, RemoveDirectory(v)
    PROVE  DockerInv' /\ OnlyMoves(v)
<1>1. DockerTypeOK'
    <2>1. vm' \in [Vms -> Locals]
        <3>1. Steps(v, "directory", FALSE, FALSE)
            BY DEF RemoveDirectory
        <3> QED
            BY <3>1, CleanupStepTypes DEF DockerInv, Cleaning
    <2> QED
        BY <2>1 DEF DockerInv, DockerTypeOK, RemoveDirectory
<1>2. OnlyMoves(v)
    BY CleanupSteps DEF DockerInv, DockerTypeOK, OnlyMoves, RemoveDirectory, At, Steps
<1>3. SandboxOK(v)'
    BY CleanupSteps DEF DockerInv, DockerTypeOK, Locals, Cleaning, Provisioning, AtRest, RemoveDirectory,
       At, Steps, SandboxOK, Registered, BeingDisposed, TakesInOrder, HostNeedsEgress,
       RulesFitContainer, TablesAreThere, CleanupRemembers, HasRules, KeepsAny
<1>4. address'[v] # NoIp => \A w \in Vms \ {v} : address[w] # address'[v]
    BY DEF DockerInv, DockerTypeOK, AddressesAreUnique, RemoveDirectory
<1> QED
    BY <1>1, <1>2, <1>3, <1>4, OneSandboxMoves

LEMMA RemoveDirectoryFailsStep ==
    ASSUME DockerInv, NEW v \in Vms, RemoveDirectoryFails(v)
    PROVE  DockerInv' /\ OnlyMoves(v)
<1>1. DockerTypeOK'
    <2>1. vm' \in [Vms -> Locals]
        <3>1. Steps(v, "directory", TRUE, TRUE)
            BY DEF RemoveDirectoryFails
        <3> QED
            BY <3>1, CleanupStepTypes DEF DockerInv, Cleaning
    <2> QED
        BY <2>1 DEF DockerInv, DockerTypeOK, RemoveDirectoryFails, hostVars
<1>2. OnlyMoves(v)
    BY CleanupSteps DEF DockerInv, DockerTypeOK, OnlyMoves, RemoveDirectoryFails, At, hostVars, Fault,
       Steps
<1>3. SandboxOK(v)'
    BY CleanupSteps DEF DockerInv, DockerTypeOK, Locals, Cleaning, Provisioning, AtRest,
       RemoveDirectoryFails, At, hostVars, Fault, Steps, SandboxOK, Registered, BeingDisposed,
       TakesInOrder, HostNeedsEgress, RulesFitContainer, TablesAreThere, CleanupRemembers, HasRules,
       KeepsAny
<1>4. address'[v] # NoIp => \A w \in Vms \ {v} : address[w] # address'[v]
    BY DEF DockerInv, DockerTypeOK, AddressesAreUnique, RemoveDirectoryFails, hostVars
<1> QED
    BY <1>1, <1>2, <1>3, <1>4, OneSandboxMoves

LEMMA RemoveContainerStep ==
    ASSUME DockerInv, NEW v \in Vms, RemoveContainer(v)
    PROVE  DockerInv' /\ OnlyMoves(v)
<1>1. DockerTypeOK'
    <2>1. vm' \in [Vms -> Locals]
        <3>1. Steps(v, "container", FALSE, FALSE)
            BY DEF RemoveContainer
        <3> QED
            BY <3>1, CleanupStepTypes DEF DockerInv, Cleaning
    <2> QED
        BY <2>1 DEF DockerInv, DockerTypeOK, RemoveContainer, Removed, Unregister
<1>2. OnlyMoves(v)
    BY CleanupSteps DEF DockerInv, DockerTypeOK, OnlyMoves, RemoveContainer, At, Removed, Steps,
       Unregister
<1>3. SandboxOK(v)'
    BY CleanupSteps, SMTT(30)
       DEF DockerInv, DockerTypeOK, Locals, Cleaning, Provisioning, AtRest, RemoveContainer,
       At, Removed, Steps, Unregister, SandboxOK, Registered, BeingDisposed, TakesInOrder,
       HostNeedsEgress, RulesFitContainer, TablesAreThere, CleanupRemembers, HasRules, KeepsAny
<1>4. address'[v] # NoIp => \A w \in Vms \ {v} : address[w] # address'[v]
    BY DEF DockerInv, DockerTypeOK, AddressesAreUnique, RemoveContainer, Removed
<1> QED
    BY <1>1, <1>2, <1>3, <1>4, OneSandboxMoves

LEMMA RemoveContainerFailsStep ==
    ASSUME DockerInv, NEW v \in Vms, RemoveContainerFails(v)
    PROVE  DockerInv' /\ OnlyMoves(v)
<1>1. DockerTypeOK'
    <2>1. vm' \in [Vms -> Locals]
        <3>1. Steps(v, "container", TRUE, v \in containers')
            BY DEF RemoveContainerFails
        <3>2. \E left \in BOOLEAN : Steps(v, "container", TRUE, left)
            <4>1. CASE v \in containers'
                <5>1. Steps(v, "container", TRUE, TRUE)
                    BY <3>1, <4>1 DEF Steps
                <5> QED
                    BY <5>1
            <4>2. CASE ~(v \in containers')
                <5>1. Steps(v, "container", TRUE, FALSE)
                    BY <3>1, <4>2 DEF Steps
                <5> QED
                    BY <5>1
            <4> QED
                BY <4>1, <4>2
        <3>3. PICK left \in BOOLEAN : Steps(v, "container", TRUE, left)
            BY <3>2
        <3> QED
            BY <3>3, CleanupStepTypes DEF DockerInv, Cleaning
    <2> QED
        BY <2>1 DEF DockerInv, DockerTypeOK, RemoveContainerFails, Removed, Unregister
<1>2. OnlyMoves(v)
    BY CleanupSteps DEF DockerInv, DockerTypeOK, OnlyMoves, RemoveContainerFails, At, Removed, Fault,
       Steps, Unregister
<1>3. SandboxOK(v)'
    BY CleanupSteps DEF DockerInv, DockerTypeOK, Locals, Cleaning, Provisioning, AtRest,
       RemoveContainerFails, At, Removed, Fault, Steps, Unregister, SandboxOK, Registered,
       BeingDisposed, TakesInOrder, HostNeedsEgress, RulesFitContainer, TablesAreThere,
       CleanupRemembers, HasRules, KeepsAny
<1>4. address'[v] # NoIp => \A w \in Vms \ {v} : address[w] # address'[v]
    BY DEF DockerInv, DockerTypeOK, AddressesAreUnique, RemoveContainerFails, Removed
<1> QED
    BY <1>1, <1>2, <1>3, <1>4, OneSandboxMoves

-----------------------------------------------------------------------------
(* The invariant *)

LEMMA InitInv == DockerInit => DockerInv
<1> SUFFICES ASSUME DockerInit PROVE DockerInv
    OBVIOUS
<1>1. Fresh \in Locals
    BY DEF Fresh, Locals, AtRest
<1>2. DockerTypeOK
    BY <1>1 DEF DockerInit, DockerTypeOK
<1>3. \A v \in Vms : SandboxOK(v)
    BY DEF DockerInit, Fresh, SandboxOK, Registered, BeingDisposed, TakesInOrder, HostNeedsEgress,
       RulesFitContainer, TablesAreThere, CleanupRemembers, HasRules, KeepsAny, At, Cleaning
<1> QED
    BY <1>2, <1>3 DEF DockerInit, DockerInv, AddressesAreUnique

\* Every step is a step of one sandbox and keeps the invariant.
LEMMA NextInv == ASSUME DockerInv, [DockerNext]_dockerVars PROVE DockerInv'
<1>1. CASE UNCHANGED dockerVars
    BY <1>1 DEF dockerVars, DockerInv, DockerTypeOK, AddressesAreUnique, SandboxOK, Registered, BeingDisposed,
       TakesInOrder, HostNeedsEgress, RulesFitContainer, TablesAreThere, CleanupRemembers, HasRules,
       KeepsAny, At
<1>2. ASSUME NEW v \in Vms, Provision(v) \/ Dispose(v) \/ Advance(v) \/ Fails(v)
      PROVE  DockerInv'
    BY <1>2, ProvisionStep, EnsureImageStep, EnsureImageFailsStep, CreateContainerStep,
       RetryWithoutQuotaStep, CreateFailsStep, StartContainerStep, StartFailsStep,
       InspectContainerStep, InspectFailsStep, MakeDirectoryStep, MakeDirectoryFailsStep,
       AddRulesStep, AddRulesFailsStep, ConfigureSshStep, ConfigureSshFailsStep,
       ContainerExitsStep, DisposeStep, DeleteRulesStep, DeleteRulesFailsStep,
       RemoveDirectoryStep, RemoveDirectoryFailsStep, RemoveContainerStep, RemoveContainerFailsStep
       DEF Advance, Fails
<1> QED
    BY <1>1, <1>2 DEF DockerNext

\* Each sandbox holds, at each place of provisionDocker and dispose, what the code counts on.
THEOREM DockerInvariant == DockerSpec => []DockerInv
<1> QED
    BY InitInv, NextInv, PTL DEF DockerSpec

\* The rules of a sandbox never meet the traffic of another one, and no
\* disposal deletes a table that is not there (host.dispose, CleanupOrder).
THEOREM RulesMeetOnlyTheirContainer == DockerSpec => []RulesMeetTheirContainer
<1>1. DockerInv => RulesMeetTheirContainer
    BY DEF DockerInv, DockerTypeOK, AddressesAreUnique, SandboxOK, RulesFitContainer, TablesAreThere,
       RulesMeetTheirContainer, HasRules
<1> QED
    BY <1>1, DockerInvariant, PTL

-----------------------------------------------------------------------------
(* The refinement *)

\* What one sandbox may do, in the terms of SandboxProvider: it stutters, or
\* begins, takes, gives back, is excused, resolves, rejects or is disposed of.
SandboxStep(v) ==
    \/ Phase(v)' = Phase(v) /\ KeepsAny(v)' = KeepsAny(v) /\ vm'[v].leaked = vm[v].leaked
    \/ /\ Phase(v) = "none" /\ Phase(v)' = "provisioning"
       /\ KeepsAny(v)' = KeepsAny(v) /\ vm'[v].leaked = vm[v].leaked
    \/ /\ Phase(v) = "provisioning" /\ Phase(v)' = Phase(v)
       /\ KeepsAny(v)' /\ vm'[v].leaked = vm[v].leaked
    \/ /\ Phase(v) # "none" /\ Phase(v)' = Phase(v)
       /\ ~KeepsAny(v)' /\ vm'[v].leaked = vm[v].leaked
    \/ Phase(v)' = Phase(v) /\ KeepsAny(v)' = KeepsAny(v) /\ vm'[v].leaked
    \/ /\ Phase(v) = "provisioning" /\ Phase(v)' = "running"
       /\ KeepsAny(v) /\ KeepsAny(v)' /\ vm'[v].leaked = vm[v].leaked
    \/ /\ Phase(v) = "provisioning" /\ Phase(v)' = "rejected"
       /\ vm[v].leaked \/ KeepsAny(v)' => vm'[v].leaked
    \/ /\ Phase(v) = "running" /\ Phase(v)' = "disposed"
       /\ ~KeepsAny(v)' /\ vm'[v].leaked = vm[v].leaked

\* A step of one sandbox is a step of the mapped variables at its place.
LEMMA MappedVariables ==
    ASSUME DockerInv, DockerInv', NEW v \in Vms, OnlyMoves(v)
    PROVE  /\ [w \in Vms |-> Phase(w)]' = [[w \in Vms |-> Phase(w)] EXCEPT ![v] = Phase(v)']
           /\ Holding' = IF KeepsAny(v)' THEN Holding \cup {v} ELSE Holding \ {v}
           /\ KeepsAny(v) <=> v \in Holding
           /\ Excused' = IF vm'[v].leaked THEN Excused \cup {v} ELSE Excused \ {v}
           /\ vm[v].leaked <=> v \in Excused
           /\ [w \in Vms |-> Phase(w)][v] = Phase(v)
<1>1. \A w \in Vms \ {v} : Phase(w)' = Phase(w)
    BY DEF OnlyMoves, Phase, At
<1>2. [w \in Vms |-> Phase(w)]' = [[w \in Vms |-> Phase(w)] EXCEPT ![v] = Phase(v)']
    BY <1>1
<1>3. Holding' = IF KeepsAny(v)' THEN Holding \cup {v} ELSE Holding \ {v}
    BY DEF Holding, KeepsAny, HasRules, OnlyMoves, DockerInv, DockerTypeOK
<1>4. Excused' = IF vm'[v].leaked THEN Excused \cup {v} ELSE Excused \ {v}
    BY DEF Excused, OnlyMoves
<1>5. /\ KeepsAny(v) <=> v \in Holding
      /\ vm[v].leaked <=> v \in Excused
    BY DEF Holding, KeepsAny, HasRules, Excused
<1> QED
    BY <1>2, <1>3, <1>4, <1>5

LEMMA SandboxStepsImplement ==
    ASSUME DockerInv, DockerInv', NEW v \in Vms, OnlyMoves(v), SandboxStep(v)
    PROVE  [Provider!ProviderNext]_Provider!providerVars
<1> QED
    BY MappedVariables, ZenonT(30)
       DEF SandboxStep, Provider!ProviderNext, Provider!providerVars, Provider!Move,
       Provider!Begin, Provider!Take, Provider!GiveBack, Provider!Excuse, Provider!Resolve,
       Provider!Reject, Provider!Disposed

\* Every step of Docker is one of those.
LEMMA StepsOfSandboxes ==
    ASSUME DockerInv, DockerInv', NEW v \in Vms,
           Provision(v) \/ Dispose(v) \/ Advance(v) \/ Fails(v)
    PROVE  SandboxStep(v)
<1> USE DEF SandboxStep, Phase, KeepsAny, HasRules, At
<1>1. CASE Provision(v)
    BY <1>1 DEF DockerInv, DockerTypeOK, Locals, SandboxOK, Registered, BeingDisposed, TakesInOrder, HostNeedsEgress, CleanupRemembers, Cleaning, Provisioning, Provision, Goto, hostVars
<1>2. CASE EnsureImage(v)
    BY <1>2 DEF DockerInv, DockerTypeOK, Locals, SandboxOK, Registered, BeingDisposed, TakesInOrder, HostNeedsEgress, CleanupRemembers, Cleaning, Provisioning, EnsureImage, Goto, hostVars
<1>3. CASE EnsureImageFails(v)
    BY <1>3 DEF DockerInv, DockerTypeOK, Locals, SandboxOK, Registered, BeingDisposed, TakesInOrder, HostNeedsEgress, CleanupRemembers, Cleaning, Provisioning, EnsureImageFails, Goto, hostVars, Fault
<1>4. CASE CreateContainer(v)
    BY <1>4 DEF DockerInv, DockerTypeOK, Locals, SandboxOK, Registered, BeingDisposed, TakesInOrder, HostNeedsEgress, CleanupRemembers, Cleaning, Provisioning, CreateContainer, Goto
<1>5. CASE RetryWithoutQuota(v)
    BY <1>5 DEF DockerInv, DockerTypeOK, Locals, SandboxOK, Registered, BeingDisposed, TakesInOrder, HostNeedsEgress, CleanupRemembers, Cleaning, Provisioning, RetryWithoutQuota, hostVars
<1>6. CASE CreateFails(v)
    BY <1>6 DEF DockerInv, DockerTypeOK, Locals, SandboxOK, Registered, BeingDisposed, TakesInOrder, HostNeedsEgress, CleanupRemembers, Cleaning, Provisioning, CreateFails, Fault
<1>7. CASE StartContainer(v)
    BY <1>7 DEF DockerInv, DockerTypeOK, Locals, SandboxOK, Registered, BeingDisposed, TakesInOrder, HostNeedsEgress, CleanupRemembers, Cleaning, Provisioning, StartContainer, Goto, Started
<1>8. CASE StartFails(v)
    BY <1>8 DEF DockerInv, DockerTypeOK, Locals, SandboxOK, Registered, BeingDisposed, TakesInOrder, HostNeedsEgress, CleanupRemembers, Cleaning, Provisioning, StartFails, Goto, Started, Fault
<1>9. CASE InspectContainer(v)
    BY <1>9 DEF DockerInv, DockerTypeOK, Locals, SandboxOK, Registered, BeingDisposed, TakesInOrder, HostNeedsEgress, CleanupRemembers, Cleaning, Provisioning, InspectContainer, hostVars
<1>10. CASE InspectFails(v)
    BY <1>10 DEF DockerInv, DockerTypeOK, Locals, SandboxOK, Registered, BeingDisposed, TakesInOrder, HostNeedsEgress, CleanupRemembers, Cleaning, Provisioning, InspectFails, Goto, hostVars, Fault
<1>11. CASE MakeDirectory(v)
    BY <1>11 DEF DockerInv, DockerTypeOK, Locals, SandboxOK, Registered, BeingDisposed, TakesInOrder, HostNeedsEgress, CleanupRemembers, Cleaning, Provisioning, MakeDirectory, Goto
<1>12. CASE MakeDirectoryFails(v)
    BY <1>12 DEF DockerInv, DockerTypeOK, Locals, SandboxOK, Registered, BeingDisposed, TakesInOrder, HostNeedsEgress, CleanupRemembers, Cleaning, Provisioning, MakeDirectoryFails, Goto, hostVars, Fault
<1>13. CASE AddRules(v)
    BY <1>13 DEF DockerInv, DockerTypeOK, Locals, SandboxOK, Registered, BeingDisposed, TakesInOrder, HostNeedsEgress, CleanupRemembers, Cleaning, Provisioning, AddRules, Goto, NoAddress
<1>14. CASE AddRulesFails(v)
    BY <1>14 DEF DockerInv, DockerTypeOK, Locals, SandboxOK, Registered, BeingDisposed, TakesInOrder, HostNeedsEgress, CleanupRemembers, Cleaning, Provisioning, AddRulesFails, hostVars, Fault, NoAddress
<1>15. CASE ConfigureSsh(v)
    BY <1>15 DEF DockerInv, DockerTypeOK, Locals, SandboxOK, Registered, BeingDisposed, TakesInOrder, HostNeedsEgress, CleanupRemembers, Cleaning, Provisioning, ConfigureSsh, Goto, hostVars
<1>16. CASE ConfigureSshFails(v)
    BY <1>16 DEF DockerInv, DockerTypeOK, Locals, SandboxOK, Registered, BeingDisposed, TakesInOrder, HostNeedsEgress, CleanupRemembers, Cleaning, Provisioning, ConfigureSshFails, Goto, hostVars, Fault
<1>17. CASE ContainerExits(v)
    BY <1>17 DEF DockerInv, DockerTypeOK, Locals, SandboxOK, Registered, BeingDisposed, TakesInOrder, HostNeedsEgress, CleanupRemembers, Cleaning, Provisioning, ContainerExits, Fault
<1>18. CASE Dispose(v)
    <2>1. vm'[v].leaked = vm[v].leaked
        BY <1>18 DEF DockerInv, DockerTypeOK, Locals, Dispose
    <2>2. UNCHANGED <<containers, filter, directories, running>>
        BY <1>18 DEF Dispose, hostVars
    <2>3. v \in running
        BY <1>18 DEF Dispose, DockerInv, SandboxOK, Registered, BeingDisposed
    <2> QED
        BY <2>1, <2>2, <2>3
<1>19. CASE DeleteRules(v)
    BY <1>19, CleanupSteps DEF DockerInv, DockerTypeOK, Locals, SandboxOK, Registered, BeingDisposed, TakesInOrder, HostNeedsEgress, CleanupRemembers, Cleaning, Provisioning, DeleteRules, ForgetTable
<1>20. CASE DeleteRulesFails(v)
    <2>1. At(v, "rules") /\ UNCHANGED <<containers, filter, directories, running>>
        BY <1>20 DEF DeleteRulesFails, hostVars
    <2>2. Steps(v, "rules", TRUE, v \in DOMAIN filter)
        BY <1>20 DEF DeleteRulesFails
    <2>3. /\ vm'[v].pc = "directory"
          /\ vm'[v].leaked = (vm[v].leaked \/ v \in DOMAIN filter)
        BY <2>2, CleanupSteps DEF Steps, DockerInv, DockerTypeOK, Locals
    <2>4. vm[v].leaked \in BOOLEAN /\ vm'[v].leaked \in BOOLEAN
        BY DEF DockerInv, DockerTypeOK, Locals
    <2> QED
        BY <2>1, <2>3, <2>4
<1>21. CASE RemoveDirectory(v)
    <2>1. At(v, "directory") /\ UNCHANGED <<containers, filter, running>>
        BY <1>21 DEF RemoveDirectory, hostVars
    <2>2. Steps(v, "directory", FALSE, FALSE)
        BY <1>21 DEF RemoveDirectory
    <2>3. /\ vm'[v].pc = "container"
          /\ vm'[v].leaked = (vm[v].leaked \/ FALSE)
        BY <2>2, CleanupSteps, SMTT(30) DEF Steps, DockerInv, DockerTypeOK, Locals
    <2>4. vm[v].leaked \in BOOLEAN /\ vm'[v].leaked \in BOOLEAN
        BY DEF DockerInv, DockerTypeOK, Locals
    <2> QED
        BY <2>1, <2>3, <2>4, <1>21 DEF RemoveDirectory
<1>22. CASE RemoveDirectoryFails(v)
    <2>1. At(v, "directory") /\ UNCHANGED <<containers, filter, directories, running>>
        BY <1>22 DEF RemoveDirectoryFails, hostVars
    <2>2. Steps(v, "directory", TRUE, TRUE)
        BY <1>22 DEF RemoveDirectoryFails
    <2>3. /\ vm'[v].pc = "container"
          /\ vm'[v].leaked = (vm[v].leaked \/ TRUE)
        BY <2>2, CleanupSteps DEF Steps, DockerInv, DockerTypeOK, Locals
    <2>4. vm[v].leaked \in BOOLEAN /\ vm'[v].leaked \in BOOLEAN
        BY DEF DockerInv, DockerTypeOK, Locals
    <2> QED
        BY <2>1, <2>3, <2>4
<1>23. CASE RemoveContainer(v)
    <2>1. /\ At(v, "container") /\ UNCHANGED <<filter, directories>>
          /\ running' = Unregister(v, vm[v].failed)
          /\ v \notin containers'
        BY <1>23 DEF RemoveContainer, Removed
    <2>2. Steps(v, "container", FALSE, FALSE)
        BY <1>23 DEF RemoveContainer
    <2>3. /\ vm'[v].pc = IF vm[v].owner = "provision" THEN "rejected"
                        ELSE IF vm[v].failed THEN "retry" ELSE "disposed"
          /\ vm'[v].leaked = (vm[v].leaked \/ FALSE)
        BY <2>2, CleanupSteps, SMTT(30) DEF Steps, DockerInv, DockerTypeOK, Locals
    <2>4. /\ vm[v].leaked \in BOOLEAN /\ vm'[v].leaked \in BOOLEAN /\ vm[v].failed \in BOOLEAN
          /\ vm[v].owner \in {"provision", "dispose"}
        BY DEF DockerInv, DockerTypeOK, Locals
    <2>5. /\ v \in running <=> vm[v].owner = "dispose"
          /\ HasRules(v) \/ v \in directories => vm[v].failed /\ vm[v].leaked
        BY <2>1, <2>4 DEF DockerInv, SandboxOK, Registered, BeingDisposed, CleanupRemembers, Cleaning
    <2>6. CASE vm[v].owner = "provision"
        BY <2>1, <2>3, <2>4, <2>5, <2>6 DEF Unregister
    <2>7. CASE vm[v].owner = "dispose"
        BY <2>1, <2>3, <2>4, <2>5, <2>7 DEF Unregister
    <2> QED
        BY <2>4, <2>6, <2>7
<1>24. CASE RemoveContainerFails(v)
    <2>1. /\ At(v, "container") /\ UNCHANGED <<filter, directories>>
          /\ running' = Unregister(v, TRUE)
          /\ v \in containers' => v \in containers
        BY <1>24 DEF RemoveContainerFails, Removed
    <2>2. Steps(v, "container", TRUE, v \in containers')
        BY <1>24 DEF RemoveContainerFails
    <2>3. /\ vm'[v].pc = IF vm[v].owner = "provision" THEN "rejected"
                        ELSE IF TRUE THEN "retry" ELSE "disposed"
          /\ vm'[v].leaked = (vm[v].leaked \/ v \in containers')
        BY <2>2, CleanupSteps DEF Steps, DockerInv, DockerTypeOK, Locals
    <2>4. /\ vm[v].leaked \in BOOLEAN /\ vm'[v].leaked \in BOOLEAN /\ vm[v].failed \in BOOLEAN
          /\ vm[v].owner \in {"provision", "dispose"}
        BY DEF DockerInv, DockerTypeOK, Locals
    <2>5. /\ v \in running <=> vm[v].owner = "dispose"
          /\ HasRules(v) \/ v \in directories => vm[v].failed /\ vm[v].leaked
        BY <2>1, <2>4 DEF DockerInv, SandboxOK, Registered, BeingDisposed, CleanupRemembers, Cleaning
    <2>6. CASE vm[v].owner = "provision"
        BY <2>1, <2>3, <2>4, <2>5, <2>6 DEF Unregister
    <2>7. CASE vm[v].owner = "dispose"
        BY <2>1, <2>3, <2>4, <2>5, <2>7 DEF Unregister
    <2> QED
        BY <2>4, <2>6, <2>7
<1> QED
    BY <1>1, <1>2, <1>3, <1>4, <1>5, <1>6, <1>7, <1>8, <1>9, <1>10, <1>11, <1>12, <1>13, <1>14, <1>15, <1>16, <1>17, <1>18, <1>19, <1>20, <1>21, <1>22, <1>23, <1>24 DEF Advance, Fails

\* Docker implements the provider of packages/sandbox: provisioning leaves a
\* registered sandbox or nothing, and a disposal that resolves leaves nothing
\* (provisionDocker, dispose, tracked).
THEOREM DockerImplementsProvider == DockerSpec => ProviderImplemented
<1>1. DockerInit => Provider!ProviderInit
    BY DEF DockerInit, Fresh, Provider!ProviderInit, Phase, Holding, Excused, At
<1>2. ASSUME DockerInv, [DockerNext]_dockerVars
      PROVE  [Provider!ProviderNext]_Provider!providerVars
    <2>1. DockerInv'
        BY <1>2, NextInv
    <2>2. CASE UNCHANGED dockerVars
        BY <2>2 DEF dockerVars, Provider!providerVars, Phase, Holding, Excused, At
    <2>3. ASSUME NEW v \in Vms, Provision(v) \/ Dispose(v) \/ Advance(v) \/ Fails(v)
          PROVE  [Provider!ProviderNext]_Provider!providerVars
        <3>1. OnlyMoves(v)
            BY <1>2, <2>3, ProvisionStep, EnsureImageStep, EnsureImageFailsStep, CreateContainerStep,
               RetryWithoutQuotaStep, CreateFailsStep, StartContainerStep, StartFailsStep,
               InspectContainerStep, InspectFailsStep, MakeDirectoryStep, MakeDirectoryFailsStep,
               AddRulesStep, AddRulesFailsStep, ConfigureSshStep, ConfigureSshFailsStep,
               ContainerExitsStep, DisposeStep, DeleteRulesStep, DeleteRulesFailsStep,
               RemoveDirectoryStep, RemoveDirectoryFailsStep, RemoveContainerStep, RemoveContainerFailsStep
               DEF Advance, Fails
        <3>2. SandboxStep(v)
            BY <1>2, <2>1, <2>3, StepsOfSandboxes
        <3> QED
            BY <1>2, <2>1, <3>1, <3>2, SandboxStepsImplement
    <2> QED
        BY <1>2, <2>2, <2>3 DEF DockerNext
<1> QED
    BY <1>1, <1>2, DockerInvariant, PTL DEF DockerSpec, ProviderImplemented, Provider!ProviderSpec

=============================================================================
