----------------------------- MODULE LlmProofs -----------------------------
(***************************************************************************)
(* What every body of packages/llms keeps of the request it is built from, *)
(* for conversations of any length, every request and every support of a   *)
(* model; and what callers who share one catalog are told, for any number  *)
(* of them.                                                                *)
(*                                                                         *)
(* A body renders the messages one by one, after system messages went to   *)
(* the front.  Both are flatMaps, so the argument is an algebra of         *)
(* flatMaps (CommunityLemmas): the user's texts that are heard are a       *)
(* flatMap of a flatMap of the messages, hence a flatMap of the messages   *)
(* themselves.                                                             *)
(*                                                                         *)
(* A stream's log tells what the caller saw first, for any number of       *)
(* streams, any bodies and any cuts.  What each event adds is a fold over  *)
(* its pieces (FoldLemmas); the invariant compares the log with what was   *)
(* handed out, and rests on what every dialect keeps: a return comes with  *)
(* an event that ends the stream, and so does the end of the loop.         *)
(*                                                                         *)
(* What a stream hands out does not depend on where its chunks are cut:    *)
(* decoder, splitter and line loop are folds over the wire, and at every   *)
(* step what the stream would still hear, were the body to end after any   *)
(* later piece, makes it hand out what those pieces give in one chunk.     *)
(***************************************************************************)
EXTENDS LlmRequests, LlmStream, CommunityLemmas

\* The items that a message may become.
Items ==
    {ReasoningItem} \cup [item : {"call", "result"}, id : Texts]
        \cup [item : {"text"}, role : {"system", "user", "assistant", "tool"}, text : Texts]

\* Messages by their roles, and what a filter has for each message.
SystemMessages == {m \in Messages : m.role = "system"}
ToolMessages == {m \in Messages : m.role = "tool"}
JustSystem == [m \in Messages |-> IF m.role = "system" THEN <<m>> ELSE <<>>]
JustOther == [m \in Messages |-> IF m.role # "system" THEN <<m>> ELSE <<>>]
JustUser == [m \in Messages |-> IF m.role = "user" THEN <<m>> ELSE <<>>]

\* What a user said in a message, and what of it an item says.
UserTexts == [m \in Messages |-> IF m.role = "user" THEN <<TextItem("user", m.text)>> ELSE <<>>]
IsHeard(i) == i.item = "text" /\ i.role = "user"
HeardTexts == [i \in Items |-> IF IsHeard(i) THEN <<i>> ELSE <<>>]

Answered(provider) == {p \in Messages \X ToolMessages : Makes(p[1], p[2].result, provider)}
ResultItems == [item : {"result"}, id : Texts]
Calling == {p \in Items \X ResultItems : p[1] = CallItem(p[2].id)}

\* A conversation with a provider in which results follow their calls.
Sound(messages, provider) ==
    messages \in Seq(Messages) /\ Behind(messages, ToolMessages, Answered(provider))

\* Nothing that the system or a user said in the one is missing in the other.
SameTalk(messages, original) ==
    /\ FlatMap(messages, UserTexts) = FlatMap(original, UserTexts)
    /\ \A m \in SystemMessages : Contains(original, m) => Contains(messages, m)

\* ... nor in the items of a body.
Delivers(items, messages) ==
    /\ items \in Seq(Items)
    /\ Behind(items, ResultItems, Calling)
    /\ FlatMap(items, HeardTexts) = FlatMap(messages, UserTexts)
    /\ \A m \in SystemMessages : Contains(messages, m) => Contains(items, TextItem("system", m.text))

\* A way to render one message for a provider.
Renders(H, provider) ==
    /\ H \in Expansions(Messages, Items)
    /\ \A m \in Messages : \A i \in ResultItems : Contains(H[m], i) =>
          /\ m \in ToolMessages
          /\ \A y \in Messages : Makes(y, m.result, provider) => Contains(H[y], CallItem(i.id))
    /\ \A m \in Messages : FlatMap(H[m], HeardTexts) = UserTexts[m]
    /\ \A m \in SystemMessages : Contains(H[m], TextItem("system", m.text))

-----------------------------------------------------------------------------
(* What filters and renderings are *)

\* The types of the filters.
LEMMA FilterTypes ==
    /\ JustSystem \in Expansions(Messages, Messages)
    /\ JustOther \in Expansions(Messages, Messages)
    /\ JustUser \in Expansions(Messages, Messages)
    /\ UserTexts \in Expansions(Messages, Items)
    /\ HeardTexts \in Expansions(Items, Items)
<1>1. \A m \in Messages : <<m>> \in Seq(Messages) /\ <<>> \in Seq(Messages)
  OBVIOUS
<1>2. \A i \in Items : <<i>> \in Seq(Items) /\ <<>> \in Seq(Items)
  OBVIOUS
<1>3. \A m \in Messages : m.role = "user" => TextItem("user", m.text) \in Items
  BY DEF Messages, Items, TextItem
<1>4. UserTexts \in Expansions(Messages, Items)
  <2>1. \A m \in Messages : UserTexts[m] \in Seq(Items)
    BY <1>2, <1>3 DEF UserTexts
  <2>2. QED
    BY <2>1 DEF UserTexts, Expansions
<1>5. JustSystem \in Expansions(Messages, Messages)
  BY <1>1 DEF JustSystem, Expansions
<1>6. JustOther \in Expansions(Messages, Messages)
  BY <1>1 DEF JustOther, Expansions
<1>7. JustUser \in Expansions(Messages, Messages)
  BY <1>1 DEF JustUser, Expansions
<1>8. HeardTexts \in Expansions(Items, Items)
  BY <1>2 DEF HeardTexts, Expansions
<1>9. QED
  BY <1>4, <1>5, <1>6, <1>7, <1>8

\* Array.filter is a flatMap.
LEMMA FilteredMessages ==
    ASSUME NEW messages \in Seq(Messages)
    PROVE  /\ Filtered(messages, IsSystem) = FlatMap(messages, JustSystem)
           /\ Filtered(messages, IsOther) = FlatMap(messages, JustOther)
           /\ Filtered(messages, LAMBDA m : m.role = "user") = FlatMap(messages, JustUser)
<1>1. \A i \in DOMAIN messages : messages[i] \in Messages
  OBVIOUS
<1>2. \A i \in DOMAIN messages :
         /\ JustSystem[messages[i]] = IF messages[i].role = "system" THEN <<messages[i]>> ELSE <<>>
         /\ JustOther[messages[i]] = IF messages[i].role # "system" THEN <<messages[i]>> ELSE <<>>
         /\ JustUser[messages[i]] = IF messages[i].role = "user" THEN <<messages[i]>> ELSE <<>>
  BY <1>1 DEF JustSystem, JustOther, JustUser
<1>3. Filtered(messages, IsSystem) = FlatMap(messages, JustSystem)
  BY <1>2 DEF Filtered, FlatMap, Pieces, IsSystem
<1>4. Filtered(messages, IsOther) = FlatMap(messages, JustOther)
  BY <1>2 DEF Filtered, FlatMap, Pieces, IsOther
<1>5. Filtered(messages, LAMBDA m : m.role = "user") = FlatMap(messages, JustUser)
  BY <1>2 DEF Filtered, FlatMap, Pieces
<1>6. QED
  BY <1>3, <1>4, <1>5

\* A conversation of the agent with a provider is sound.
LEMMA SoundAtFirst ==
    ASSUME NEW provider, NEW messages \in Seq(Messages), ResultsFollowCalls(messages, provider)
    PROVE  Sound(messages, provider) /\ SameTalk(messages, messages)
<1>1. SUFFICES ASSUME NEW p \in 1..Len(messages), messages[p] \in ToolMessages
               PROVE  \E d \in 1..(p - 1) : <<messages[d], messages[p]>> \in Answered(provider)
  BY DEF Sound, SameTalk, Behind
<1>2. p \in DOMAIN messages /\ messages[p].role = "tool" /\ messages[p] \in Messages
  BY <1>1 DEF ToolMessages
<1>3. PICK d \in 1..(p - 1) : Makes(messages[d], messages[p].result, provider)
  BY <1>2 DEF ResultsFollowCalls
<1>4. d \in 1..Len(messages) /\ messages[d] \in Messages
  OBVIOUS
<1>5. QED
  BY <1>1, <1>3, <1>4 DEF Answered

\* System messages, then what is added to them, then the others: sound as the
\* conversation was, and nobody's talk is lost.
LEMMA Rearranged ==
    ASSUME NEW provider, NEW messages, Sound(messages, provider), NEW added \in Seq(SystemMessages)
    PROVE  LET all == FlatMap(messages, JustSystem) \o added \o FlatMap(messages, JustOther)
           IN  /\ Sound(all, provider) /\ SameTalk(all, messages)
               /\ \A i \in 1..Len(added) : Contains(all, added[i])
<1> DEFINE A == FlatMap(messages, JustSystem)
           B == FlatMap(messages, JustOther)
           AE == A \o added
           all == AE \o B
<1>0. messages \in Seq(Messages) /\ Behind(messages, ToolMessages, Answered(provider))
  BY DEF Sound
<1>1. SystemMessages \subseteq Messages /\ added \in Seq(Messages)
  BY DEF SystemMessages
<1>2. A \in Seq(Messages) /\ B \in Seq(Messages)
  BY <1>0, FilterTypes, FlatMapType
<1>3. AE \in Seq(Messages) /\ all \in Seq(Messages)
  <2>1. \A s, t \in Seq(Messages) : s \o t \in Seq(Messages)
    OBVIOUS
  <2> HIDE DEF A, B
  <2>2. QED
    BY <2>1, <1>1, <1>2
<1>4. \A m : Contains(A, m) => m \in SystemMessages
  <2> SUFFICES ASSUME NEW m, Contains(A, m) PROVE m \in SystemMessages
    OBVIOUS
  <2>1. PICK x \in Messages : Contains(JustSystem[x], m)
    BY <1>0, FilterTypes, FlatMapContains
  <2>2. CASE x.role = "system"
    <3>1. JustSystem[x] = <<x>>
      BY <2>2 DEF JustSystem
    <3>2. m = x
      BY <2>1, <3>1, ContainsOne
    <3>3. QED
      BY <2>2, <3>2 DEF SystemMessages
  <2>3. CASE x.role # "system"
    <3>1. JustSystem[x] = <<>>
      BY <2>3 DEF JustSystem
    <3>2. QED
      BY <2>1, <3>1, ContainsOne
  <2>4. QED
    BY <2>2, <2>3
<1>a. \A m \in SystemMessages : Contains(messages, m) => Contains(A, m)
  <2> SUFFICES ASSUME NEW m \in SystemMessages, Contains(messages, m) PROVE Contains(A, m)
    OBVIOUS
  <2>1. m \in Messages /\ JustSystem[m] = <<m>>
    BY <1>1 DEF JustSystem, SystemMessages
  <2>2. Contains(JustSystem[m], m)
    BY <2>1, ContainsOne
  <2>3. QED
    BY <1>0, <2>1, <2>2, FilterTypes, FlatMapContains
<1> HIDE DEF A
<1>5. \A m : Contains(AE, m) <=> Contains(A, m) \/ Contains(added, m)
  BY <1>1, <1>2, ConcatContains
<1>b. \A p \in 1..Len(AE) : AE[p] \in SystemMessages
  <2> TAKE p \in 1..Len(AE)
  <2> HIDE DEF AE
  <2>1. Contains(AE, AE[p])
    BY DEF Contains
  <2>2. \A m : Contains(added, m) => m \in SystemMessages
    BY ContainsType
  <2>3. QED
    BY <2>1, <2>2, <1>4, <1>5
<1> HIDE DEF B
<1>6. Behind(B, ToolMessages, Answered(provider))
  <2>1. ASSUME NEW x \in Messages, NEW i \in ToolMessages, Contains(JustOther[x], i)
        PROVE  /\ x \in ToolMessages
               /\ \A y \in Messages : <<y, x>> \in Answered(provider) =>
                     \E z : Contains(JustOther[y], z) /\ <<z, i>> \in Answered(provider)
    <3>1. JustOther[x] = <<x>> \/ JustOther[x] = <<>>
      BY DEF JustOther
    <3>2. i = x
      <4>1. CASE JustOther[x] = <<x>>
        BY <2>1, <4>1, ContainsOne
      <4>2. CASE JustOther[x] = <<>>
        BY <2>1, <4>2, ContainsOne
      <4>3. QED
        BY <3>1, <4>1, <4>2
    <3>3. ASSUME NEW y \in Messages, <<y, x>> \in Answered(provider)
          PROVE  \E z : Contains(JustOther[y], z) /\ <<z, i>> \in Answered(provider)
      <4>1. JustOther[y] = <<y>>
        BY <3>3 DEF Answered, Makes, JustOther
      <4>2. Contains(JustOther[y], y)
        BY <4>1, ContainsOne
      <4>3. QED
        BY <4>2, <3>2, <3>3
    <3>4. QED
      BY <3>2, <3>3
  <2>a. JustOther \in Expansions(Messages, Messages)
    BY FilterTypes
  <2> DEFINE Keeps(H, T, N, V) == \A x \in Messages : \A i \in N : Contains(H[x], i) =>
                 /\ x \in ToolMessages
                 /\ \A y \in Messages : <<y, x>> \in Answered(provider) =>
                       \E z : Contains(H[y], z) /\ <<z, i>> \in V
  <2>b. Keeps(JustOther, Messages, ToolMessages, Answered(provider))
    BY <2>1
  <2>c. ASSUME NEW T, NEW N, NEW V, NEW H \in Expansions(Messages, T), Keeps(H, T, N, V)
        PROVE  Behind(FlatMap(messages, H), N, V)
    BY <1>0, <2>c, FlatMapBehind
  <2> HIDE DEF Keeps
  <2>2. Behind(FlatMap(messages, JustOther), ToolMessages, Answered(provider))
    BY <2>a, <2>b, <2>c
  <2>3. QED
    BY <2>2 DEF B
<1>7. Behind(all, ToolMessages, Answered(provider))
  <2>1. \A p \in 1..Len(AE) : AE[p] \notin ToolMessages
    BY <1>b DEF SystemMessages, ToolMessages
  <2> HIDE DEF AE
  <2>2. QED
    BY <1>2, <1>3, <1>6, <2>1, BehindFreeOnes
<1>8. FlatMap(all, UserTexts) = FlatMap(messages, UserTexts)
  <2>1. FlatMap(all, UserTexts) = FlatMap(AE, UserTexts) \o FlatMap(B, UserTexts)
    <3>1. \A s, t \in Seq(Messages) :
             FlatMap(s \o t, UserTexts) = FlatMap(s, UserTexts) \o FlatMap(t, UserTexts)
      BY FilterTypes, FlatMapConcat
    <3> HIDE DEF AE
    <3>2. QED
      BY <1>2, <1>3, <3>1, Zenon
  <2>2. FlatMap(AE, UserTexts) = <<>>
    <3>1. \A p \in 1..Len(AE) : UserTexts[AE[p]] = <<>>
      BY <1>b, <1>1 DEF SystemMessages, UserTexts
    <3> HIDE DEF AE
    <3>2. QED
      BY <3>1, <1>3, FilterTypes, FlatMapNothing
  <2>3. FlatMap(B, UserTexts) = FlatMap(messages, [x \in Messages |-> FlatMap(JustOther[x], UserTexts)])
    BY <1>0, FilterTypes, FlatMapTwice DEF B
  <2>4. [x \in Messages |-> FlatMap(JustOther[x], UserTexts)] = UserTexts
    <3>1. \A x \in Messages : FlatMap(JustOther[x], UserTexts) = UserTexts[x]
      <4> TAKE x \in Messages
      <4>1. CASE x.role = "system"
        <5>1. JustOther[x] = <<>> /\ UserTexts[x] = <<>>
          BY <4>1 DEF JustOther, UserTexts
        <5>2. QED
          BY <5>1, FlatMapEmpty
      <4>2. CASE x.role # "system"
        <5>1. JustOther[x] = <<x>>
          BY <4>2 DEF JustOther
        <5>2. FlatMap(<<x>>, UserTexts) = UserTexts[x]
          BY FilterTypes, FlatMapSingle
        <5>3. QED
          BY <5>1, <5>2
      <4>3. QED
        BY <4>1, <4>2
    <3>2. QED
      BY <3>1 DEF UserTexts
  <2>5. FlatMap(messages, UserTexts) \in Seq(Items)
    BY <1>0, FilterTypes, FlatMapType
  <2>6. <<>> \o FlatMap(messages, UserTexts) = FlatMap(messages, UserTexts)
    BY <2>5, ConcatEmptySeq
  <2>7. QED
    BY <2>1, <2>2, <2>3, <2>4, <2>6, Zenon
<1>9. \A m : Contains(AE, m) => Contains(all, m)
  <2>1. \A s, t \in Seq(Messages) : \A m : Contains(s \o t, m) <=> Contains(s, m) \/ Contains(t, m)
    BY ConcatContains
  <2> HIDE DEF AE
  <2>2. QED
    BY <2>1, <1>2, <1>3
<1>10. \A m \in SystemMessages : Contains(messages, m) => Contains(all, m)
  BY <1>a, <1>5, <1>9
<1>11. \A i \in 1..Len(added) : Contains(all, added[i])
  <2> TAKE i \in 1..Len(added)
  <2>1. Contains(added, added[i])
    BY DEF Contains
  <2>2. QED
    BY <2>1, <1>5, <1>9
<1>12. Sound(all, provider) /\ SameTalk(all, messages)
  BY <1>3, <1>7, <1>8, <1>10 DEF Sound, SameTalk
<1>13. QED
  BY <1>11, <1>12 DEF A, B

-----------------------------------------------------------------------------
(* What a rendering delivers *)

\* Whatever renders the messages one by one delivers a sound conversation.
LEMMA RenderedArrives ==
    ASSUME NEW provider, NEW messages, Sound(messages, provider), NEW H, Renders(H, provider)
    PROVE  Delivers(FlatMap(messages, H), messages)
<1> DEFINE items == FlatMap(messages, H)
<1>0. messages \in Seq(Messages) /\ Behind(messages, ToolMessages, Answered(provider))
  BY DEF Sound
<1>1. H \in Expansions(Messages, Items)
  BY DEF Renders
<1>2. items \in Seq(Items)
  BY <1>0, <1>1, FlatMapType
<1>3. Behind(items, ResultItems, Calling)
  <2>1. ASSUME NEW x \in Messages, NEW i \in ResultItems, Contains(H[x], i)
        PROVE  /\ x \in ToolMessages
               /\ \A y \in Messages : <<y, x>> \in Answered(provider) =>
                     \E z : Contains(H[y], z) /\ <<z, i>> \in Calling
    <3>1. /\ x \in ToolMessages
          /\ \A y \in Messages : Makes(y, x.result, provider) => Contains(H[y], CallItem(i.id))
      BY <2>1 DEF Renders
    <3>2. <<CallItem(i.id), i>> \in Calling
      BY DEF Calling, CallItem, ResultItems, Items
    <3>3. \A y \in Messages : <<y, x>> \in Answered(provider) => Makes(y, x.result, provider)
      BY DEF Answered
    <3>4. QED
      BY <3>1, <3>2, <3>3
  <2>2. QED
    BY <1>0, <1>1, <2>1, FlatMapBehind
<1>4. FlatMap(items, HeardTexts) = FlatMap(messages, UserTexts)
  <2>1. FlatMap(items, HeardTexts) = FlatMap(messages, [x \in Messages |-> FlatMap(H[x], HeardTexts)])
    BY <1>0, <1>1, FilterTypes, FlatMapTwice
  <2>2. \A x \in Messages : FlatMap(H[x], HeardTexts) = UserTexts[x]
    BY DEF Renders
  <2>3. [x \in Messages |-> FlatMap(H[x], HeardTexts)] = UserTexts
    BY <2>2 DEF UserTexts
  <2>4. QED
    BY <2>1, <2>3, Zenon
<1>5. \A m \in SystemMessages : Contains(messages, m) => Contains(items, TextItem("system", m.text))
  <2> SUFFICES ASSUME NEW m \in SystemMessages, Contains(messages, m)
               PROVE  Contains(items, TextItem("system", m.text))
    OBVIOUS
  <2>1. m \in Messages /\ Contains(H[m], TextItem("system", m.text))
    BY DEF Renders, SystemMessages
  <2>2. QED
    BY <1>0, <1>1, <2>1, FlatMapContains
<1>6. QED
  BY <1>2, <1>3, <1>4, <1>5 DEF Delivers

\* What delivers a conversation delivers the one that it has the talk of.
LEMMA ArrivesAsSaid ==
    ASSUME NEW items, NEW messages, NEW original,
           Delivers(items, messages), SameTalk(messages, original)
    PROVE  Delivers(items, original)
BY DEF Delivers, SameTalk

\* The calls of a message, as items, and its texts.
LEMMA CallsOf ==
    ASSUME NEW m \in Messages
    PROVE  LET calls == [i \in DOMAIN m.calls |-> CallItem(m.calls[i])]
           IN  /\ calls \in Seq(Items)
               /\ \A i : Contains(calls, i) => i.item = "call"
               /\ \A id : id \in ToSet(m.calls) => Contains(calls, CallItem(id))
               /\ FlatMap(calls, HeardTexts) = <<>>
<1> DEFINE n == Len(m.calls)
           calls == [i \in DOMAIN m.calls |-> CallItem(m.calls[i])]
<1>0. m.calls \in Seq(Texts)
  BY DEF Messages
<1>1. m.calls \in Seq(Texts) /\ n \in Nat /\ DOMAIN m.calls = 1..n
  BY <1>0
<1>2. \A i \in 1..n : m.calls[i] \in Texts
  BY <1>1
<1>3. \A i \in 1..n : CallItem(m.calls[i]) \in Items
  BY <1>2 DEF CallItem, Items
<1>4. calls \in [1..n -> Items] /\ \A i \in 1..n : calls[i] = CallItem(m.calls[i])
  BY <1>1, <1>3
<1> HIDE DEF calls
<1>5. calls \in Seq(Items) /\ Len(calls) = n
  BY <1>1, <1>4
<1>a. \A i \in 1..n : calls[i] \in Items /\ calls[i].item = "call"
  <2> TAKE i \in 1..n
  <2>1. calls[i] = CallItem(m.calls[i]) /\ CallItem(m.calls[i]) \in Items
    BY <1>3, <1>4
  <2>2. CallItem(m.calls[i]).item = "call"
    BY DEF CallItem
  <2>3. QED
    BY <2>1, <2>2, Zenon
<1>6. \A i : Contains(calls, i) => i.item = "call"
  BY <1>a, <1>5 DEF Contains
<1>7. \A id : id \in ToSet(m.calls) => Contains(calls, CallItem(id))
  BY <1>1, <1>4, <1>5 DEF Contains, ToSet
<1>8. \A i \in 1..Len(calls) : HeardTexts[calls[i]] = <<>>
  <2> TAKE i \in 1..Len(calls)
  <2>1. calls[i] \in Items /\ calls[i].item = "call"
    BY <1>a, <1>5
  <2>2. QED
    BY <2>1 DEF HeardTexts, IsHeard
<1>9. FlatMap(calls, HeardTexts) = <<>>
  BY <1>5, <1>8, FilterTypes, FlatMapNothing
<1>10. QED
  BY <1>5, <1>6, <1>7, <1>9 DEF calls

\* Items that are joined.
LEMMA JoinedItems ==
    ASSUME NEW s \in Seq(Items), NEW t \in Seq(Items)
    PROVE  /\ s \o t \in Seq(Items)
           /\ FlatMap(s \o t, HeardTexts) = FlatMap(s, HeardTexts) \o FlatMap(t, HeardTexts)
           /\ \A i : Contains(s \o t, i) <=> Contains(s, i) \/ Contains(t, i)
<1>1. s \o t \in Seq(Items)
  BY ConcatPlaces
<1>2. FlatMap(s \o t, HeardTexts) = FlatMap(s, HeardTexts) \o FlatMap(t, HeardTexts)
  BY FilterTypes, FlatMapConcat
<1>3. \A i : Contains(s \o t, i) <=> Contains(s, i) \/ Contains(t, i)
  BY ConcatContains
<1>4. QED
  BY <1>1, <1>2, <1>3

\* One item, as a sequence.
LEMMA OneItem ==
    ASSUME NEW i \in Items
    PROVE  /\ <<i>> \in Seq(Items)
           /\ FlatMap(<<i>>, HeardTexts) = IF IsHeard(i) THEN <<i>> ELSE <<>>
           /\ \A e : Contains(<<i>>, e) <=> e = i
<1>1. FlatMap(<<i>>, HeardTexts) = HeardTexts[i]
  BY FilterTypes, FlatMapSingle
<1>2. HeardTexts[i] = IF IsHeard(i) THEN <<i>> ELSE <<>>
  BY DEF HeardTexts
<1>3. \A e : Contains(<<i>>, e) <=> e = i
  BY ContainsOne
<1>4. QED
  BY <1>1, <1>2, <1>3

\* The text of a message, or the result it brings, as an item.
LEMMA TextOrResult ==
    ASSUME NEW m \in Messages
    PROVE  LET i == IF m.role = "tool" THEN ResultItem(m.result) ELSE TextItem(m.role, m.text)
           IN  /\ i \in Items
               /\ i \in ResultItems => m \in ToolMessages /\ i.id = m.result
               /\ (IF IsHeard(i) THEN <<i>> ELSE <<>>) = UserTexts[m]
<1>1. m.role \in {"system", "user", "assistant", "tool"} /\ m.text \in Texts /\ m.result \in Texts
  BY DEF Messages
<1>2. UserTexts[m] = IF m.role = "user" THEN <<TextItem("user", m.text)>> ELSE <<>>
  BY DEF UserTexts
<1>3. CASE m.role = "tool"
  <2>1. ResultItem(m.result) \in Items /\ ResultItem(m.result).id = m.result
    BY <1>1 DEF ResultItem, Items
  <2>2. ~IsHeard(ResultItem(m.result))
    BY DEF IsHeard, ResultItem
  <2>3. m \in ToolMessages /\ UserTexts[m] = <<>>
    BY <1>2, <1>3 DEF ToolMessages
  <2>4. QED
    BY <1>3, <2>1, <2>2, <2>3
<1>4. CASE m.role # "tool"
  <2>1. TextItem(m.role, m.text) \in Items
    BY <1>1, <1>4 DEF TextItem, Items
  <2>2. TextItem(m.role, m.text) \notin ResultItems
    BY DEF TextItem, ResultItems
  <2>3. IsHeard(TextItem(m.role, m.text)) <=> m.role = "user"
    BY DEF IsHeard, TextItem
  <2>4. QED
    BY <1>2, <1>4, <2>1, <2>2, <2>3
<1>5. QED
  BY <1>3, <1>4

\* What ChatItems makes of a message.
LEMMA ChatItemsOf ==
    ASSUME NEW m \in Messages, NEW policy
    PROVE  /\ ChatItems(m, policy) \in Seq(Items)
           /\ \A i \in ResultItems : Contains(ChatItems(m, policy), i) =>
                 m \in ToolMessages /\ i.id = m.result
           /\ \A id : id \in ToSet(m.calls) => Contains(ChatItems(m, policy), CallItem(id))
           /\ FlatMap(ChatItems(m, policy), HeardTexts) = UserTexts[m]
           /\ m \in SystemMessages => Contains(ChatItems(m, policy), TextItem("system", m.text))
<1> DEFINE i0 == IF m.role = "tool" THEN ResultItem(m.result) ELSE TextItem(m.role, m.text)
           A == <<i0>>
           B == IF m.replay = <<>> \/ (policy = "tool_calls" /\ m.calls = <<>>) THEN <<>>
                ELSE <<ReasoningItem>>
           C == [i \in DOMAIN m.calls |-> CallItem(m.calls[i])]
           U == UserTexts[m]
<1>1. ChatItems(m, policy) = (A \o B) \o C
  BY DEF ChatItems
<1>2. /\ A \in Seq(Items) /\ FlatMap(A, HeardTexts) = U
      /\ \A e : Contains(A, e) <=> e = i0
      /\ i0 \in ResultItems => m \in ToolMessages /\ i0.id = m.result
  <2>1. /\ i0 \in Items
        /\ i0 \in ResultItems => m \in ToolMessages /\ i0.id = m.result
        /\ (IF IsHeard(i0) THEN <<i0>> ELSE <<>>) = U
    BY TextOrResult
  <2> HIDE DEF i0, U
  <2>2. QED
    BY <2>1, OneItem
<1>3. /\ B \in Seq(Items) /\ FlatMap(B, HeardTexts) = <<>>
      /\ \A e \in ResultItems : ~Contains(B, e)
  <2>1. ReasoningItem \in Items /\ ~IsHeard(ReasoningItem) /\ ReasoningItem \notin ResultItems
    BY DEF ReasoningItem, Items, IsHeard, ResultItems
  <2>c. PICK x : x = ReasoningItem
    OBVIOUS
  <2>d. /\ <<x>> \in Seq(Items) /\ FlatMap(<<x>>, HeardTexts) = IF IsHeard(x) THEN <<x>> ELSE <<>>
        /\ \A e : Contains(<<x>>, e) <=> e = x
    BY <2>1, <2>c, OneItem
  <2>2. /\ <<ReasoningItem>> \in Seq(Items) /\ FlatMap(<<ReasoningItem>>, HeardTexts) = <<>>
        /\ \A e : Contains(<<ReasoningItem>>, e) <=> e = ReasoningItem
    BY <2>1, <2>c, <2>d
  <2>a. FlatMap(<<>>, HeardTexts) = <<>>
    BY FlatMapEmpty
  <2>b. <<>> \in Seq(Items) /\ \A e : ~Contains(<<>>, e)
    BY DEF Contains
  <2>3. <<>> \in Seq(Items) /\ FlatMap(<<>>, HeardTexts) = <<>> /\ \A e : ~Contains(<<>>, e)
    BY <2>a, <2>b
  <2>4. B = <<>> \/ B = <<ReasoningItem>>
    OBVIOUS
  <2> HIDE DEF B
  <2>5. QED
    BY <2>1, <2>2, <2>3, <2>4
<1>4. /\ C \in Seq(Items) /\ FlatMap(C, HeardTexts) = <<>>
      /\ \A e : Contains(C, e) => e.item = "call"
      /\ \A id : id \in ToSet(m.calls) => Contains(C, CallItem(id))
  BY CallsOf
<1>5. U \in Seq(Items)
  BY FilterTypes DEF Expansions
<1> HIDE DEF A, B, C, U
<1>6. /\ A \o B \in Seq(Items) /\ FlatMap(A \o B, HeardTexts) = U \o <<>>
      /\ \A e : Contains(A \o B, e) <=> Contains(A, e) \/ Contains(B, e)
  BY <1>2, <1>3, JoinedItems
<1>7. U \o <<>> = U
  BY <1>5, ConcatEmptySeq
<1> DEFINE AB == A \o B
<1>8. /\ AB \in Seq(Items) /\ FlatMap(AB, HeardTexts) = U
      /\ \A e : Contains(AB, e) <=> Contains(A, e) \/ Contains(B, e)
  BY <1>6, <1>7
<1> HIDE DEF AB
<1>9. /\ AB \o C \in Seq(Items) /\ FlatMap(AB \o C, HeardTexts) = U \o <<>>
      /\ \A e : Contains(AB \o C, e) <=> Contains(AB, e) \/ Contains(C, e)
  BY <1>4, <1>8, JoinedItems
<1>10. \A e \in ResultItems : ~Contains(C, e)
  BY <1>4 DEF ResultItems
<1>11. \A e : Contains(AB \o C, e) <=> e = i0 \/ Contains(B, e) \/ Contains(C, e)
  BY <1>2, <1>8, <1>9
<1>12. m \in SystemMessages => i0 = TextItem("system", m.text)
  BY DEF SystemMessages
<1> HIDE DEF i0
<1>13. \A i \in ResultItems : Contains(AB \o C, i) => m \in ToolMessages /\ i.id = m.result
  BY <1>2, <1>3, <1>10, <1>11
<1>14. QED
  BY <1>1, <1>4, <1>7, <1>9, <1>11, <1>12, <1>13 DEF AB, U

\* ChatItems renders, with any policy, whatever becomes of the replays.
LEMMA ChatItemsRender ==
    ASSUME NEW provider, NEW policy, NEW G \in [Messages -> Messages],
           \A m \in Messages : /\ G[m].role = m.role /\ G[m].text = m.text
                               /\ G[m].calls = m.calls /\ G[m].result = m.result,
           NEW H, H = [m \in Messages |-> ChatItems(G[m], policy)]
    PROVE  Renders(H, provider)
<1>1. \A m \in Messages : G[m] \in Messages /\ H[m] = ChatItems(G[m], policy)
  OBVIOUS
<1>2. H \in Expansions(Messages, Items)
  BY <1>1, ChatItemsOf DEF Expansions
<1>3. ASSUME NEW m \in Messages, NEW i \in ResultItems, Contains(H[m], i)
      PROVE  /\ m \in ToolMessages
             /\ \A y \in Messages : Makes(y, m.result, provider) => Contains(H[y], CallItem(i.id))
  <2>1. G[m] \in ToolMessages /\ i.id = G[m].result
    BY <1>1, <1>3, ChatItemsOf
  <2>2. m \in ToolMessages /\ i.id = m.result
    BY <2>1 DEF ToolMessages
  <2>3. ASSUME NEW y \in Messages, Makes(y, m.result, provider)
        PROVE  Contains(H[y], CallItem(i.id))
    <3>1. i.id \in ToSet(G[y].calls)
      BY <2>2, <2>3 DEF Makes
    <3>2. QED
      BY <3>1, <1>1, ChatItemsOf
  <2>4. QED
    BY <2>2, <2>3
<1>4. ASSUME NEW m \in Messages
      PROVE  FlatMap(H[m], HeardTexts) = UserTexts[m]
  <2>1. FlatMap(H[m], HeardTexts) = UserTexts[G[m]]
    BY <1>1, ChatItemsOf
  <2>2. UserTexts[G[m]] = UserTexts[m]
    BY <1>1 DEF UserTexts
  <2>3. QED
    BY <2>1, <2>2
<1>5. ASSUME NEW m \in SystemMessages
      PROVE  Contains(H[m], TextItem("system", m.text))
  <2>1. m \in Messages /\ G[m] \in SystemMessages /\ G[m].text = m.text
    BY <1>1 DEF SystemMessages
  <2>2. QED
    BY <2>1, <1>1, ChatItemsOf
<1>6. QED
  BY <1>2, <1>3, <1>4, <1>5 DEF Renders

\* A replay is what a model said: no result is in it, and nothing of a user.
LEMMA ReplayOf ==
    ASSUME NEW m \in Messages
    PROVE  /\ m.replay \in Seq(Items)
           /\ \A i \in ResultItems : ~Contains(m.replay, i)
           /\ FlatMap(m.replay, HeardTexts) = <<>>
<1>1. m.replay \in Seq(ReplayItems)
  BY DEF Messages
<1>2. \A i \in ReplayItems : i \in Items /\ i \notin ResultItems /\ ~IsHeard(i)
  BY DEF ReplayItems, Items, ResultItems, IsHeard, ReasoningItem
<1>3. PICK q : q = m.replay
  OBVIOUS
<1>4. ReplayItems \subseteq Items
  BY <1>2
<1>5. q \in Seq(ReplayItems) /\ q \in Seq(Items)
  BY <1>1, <1>3, <1>4
<1>6. \A i : Contains(q, i) => i \in ReplayItems
  BY <1>5, ContainsType
<1>7. \A p \in 1..Len(q) : HeardTexts[q[p]] = <<>>
  <2> TAKE p \in 1..Len(q)
  <2>1. q[p] \in ReplayItems
    BY <1>5
  <2>2. QED
    BY <2>1, <1>2 DEF HeardTexts
<1>8. FlatMap(q, HeardTexts) = <<>>
  BY <1>5, <1>7, FilterTypes, FlatMapNothing
<1>9. QED
  BY <1>2, <1>3, <1>5, <1>6, <1>8

\* inputItems renders: what is sent of an assistant's message holds the calls
\* that are answered.
LEMMA InputItemsRender ==
    ASSUME NEW provider \in OverResponses, NEW H, H = [m \in Messages |-> InputItems(m)]
    PROVE  Renders(H, provider)
<1> DEFINE Text(m) == IF m.role = "tool" THEN ResultItem(m.result) ELSE TextItem(m.role, m.text)
           Calls(m) == [i \in DOMAIN m.calls |-> CallItem(m.calls[i])]
<1>1. ASSUME NEW m \in Messages
      PROVE  /\ H[m] \in Seq(Items)
             /\ \A i \in ResultItems : Contains(H[m], i) => m \in ToolMessages /\ i.id = m.result
             /\ FlatMap(H[m], HeardTexts) = UserTexts[m]
             /\ m \in SystemMessages => Contains(H[m], TextItem("system", m.text))
  <2>0. m.role \in {"system", "user", "assistant", "tool"}
    BY DEF Messages
  <2>1. CASE m.role = "assistant"
    <3>1. UserTexts[m] = <<>> /\ m \notin SystemMessages
      BY <2>1 DEF UserTexts, SystemMessages
    <3>2. H[m] = m.replay \/ H[m] = Calls(m)
      BY <2>1 DEF InputItems
    <3>3. \A i \in ResultItems : i.item # "call"
      BY DEF ResultItems
    <3>4. /\ m.replay \in Seq(Items) /\ FlatMap(m.replay, HeardTexts) = <<>>
          /\ \A i \in ResultItems : ~Contains(m.replay, i)
      BY ReplayOf
    <3>5. /\ Calls(m) \in Seq(Items) /\ FlatMap(Calls(m), HeardTexts) = <<>>
          /\ \A i : Contains(Calls(m), i) => i.item = "call"
      BY CallsOf
    <3> HIDE DEF Calls
    <3>6. QED
      BY <3>1, <3>2, <3>3, <3>4, <3>5
  <2>2. CASE m.role # "assistant"
    <3>1. H[m] = <<Text(m)>>
      BY <2>0, <2>2 DEF InputItems
    <3>2. /\ Text(m) \in Items
          /\ Text(m) \in ResultItems => m \in ToolMessages /\ Text(m).id = m.result
          /\ (IF IsHeard(Text(m)) THEN <<Text(m)>> ELSE <<>>) = UserTexts[m]
      BY TextOrResult
    <3>3. m \in SystemMessages => Text(m) = TextItem("system", m.text)
      BY DEF SystemMessages
    <3> HIDE DEF Text
    <3>4. /\ <<Text(m)>> \in Seq(Items) /\ FlatMap(<<Text(m)>>, HeardTexts) = UserTexts[m]
          /\ \A e : Contains(<<Text(m)>>, e) <=> e = Text(m)
      BY <3>2, OneItem
    <3>5. QED
      BY <3>1, <3>2, <3>3, <3>4
  <2>3. QED
    BY <2>1, <2>2
<1>2. ASSUME NEW y \in Messages, NEW id, Makes(y, id, provider)
      PROVE  Contains(H[y], CallItem(id))
  <2>1. y.role = "assistant" /\ id \in ToSet(y.calls)
    BY <1>2 DEF Makes
  <2>2. CASE y.replay = <<>>
    <3>1. H[y] = Calls(y)
      BY <2>1, <2>2 DEF InputItems
    <3>2. Contains(Calls(y), CallItem(id))
      BY <2>1, CallsOf
    <3>3. QED
      BY <3>1, <3>2
  <2>3. CASE y.replay # <<>>
    <3>1. H[y] = y.replay /\ CallItem(id) \in ToSet(y.replay)
      BY <1>2, <2>1, <2>3 DEF InputItems, Makes
    <3>2. y.replay \in Seq(ReplayItems)
      BY DEF Messages
    <3>3. QED
      BY <3>1, <3>2 DEF Contains, ToSet
  <2>4. QED
    BY <2>2, <2>3
<1>3. H \in Expansions(Messages, Items)
  BY <1>1 DEF Expansions
<1>4. \A m \in SystemMessages : m \in Messages
  BY DEF SystemMessages
<1>5. QED
  BY <1>1, <1>2, <1>3, <1>4 DEF Renders

\* One text of each message that has one, as lmstudio takes them: nothing needs
\* another item there.
Spoken == [m \in Messages |-> IF m.text # NoText THEN <<TextItem(m.role, m.text)>> ELSE <<>>]

\* ... renders a message.
LEMMA SpokenRenders == \A provider : Renders(Spoken, provider)
<1>1. ASSUME NEW m \in Messages
      PROVE  /\ Spoken[m] \in Seq(Items)
             /\ \A i \in ResultItems : ~Contains(Spoken[m], i)
             /\ FlatMap(Spoken[m], HeardTexts) = UserTexts[m]
             /\ m \in SystemMessages => Contains(Spoken[m], TextItem("system", m.text))
  <2>1. /\ m.role \in {"system", "user", "assistant", "tool"} /\ m.text \in Texts
        /\ m.role \in {"system", "user"} => m.text # NoText
    BY DEF Messages
  <2>2. UserTexts[m] = IF m.role = "user" THEN <<TextItem("user", m.text)>> ELSE <<>>
    BY DEF UserTexts
  <2>3. CASE m.text # NoText
    <3>1. PICK x : x = TextItem(m.role, m.text)
      OBVIOUS
    <3>2. Spoken[m] = <<x>> /\ x \in Items
      BY <2>1, <2>3, <3>1 DEF Spoken, TextItem, Items
    <3>3. x \notin ResultItems /\ (IsHeard(x) <=> m.role = "user")
      BY <3>1 DEF TextItem, ResultItems, IsHeard
    <3>4. /\ <<x>> \in Seq(Items) /\ FlatMap(<<x>>, HeardTexts) = IF IsHeard(x) THEN <<x>> ELSE <<>>
          /\ \A e : Contains(<<x>>, e) <=> e = x
      BY <3>2, OneItem
    <3>5. (IF IsHeard(x) THEN <<x>> ELSE <<>>) = UserTexts[m]
      BY <2>2, <3>1, <3>3
    <3>6. m \in SystemMessages => x = TextItem("system", m.text)
      BY <3>1 DEF SystemMessages
    <3>7. QED
      BY <3>2, <3>3, <3>4, <3>5, <3>6
  <2>4. CASE m.text = NoText
    <3>1. Spoken[m] = <<>> /\ UserTexts[m] = <<>> /\ m \notin SystemMessages
      BY <2>1, <2>2, <2>4 DEF Spoken, SystemMessages
    <3>2. FlatMap(<<>>, HeardTexts) = <<>>
      BY FlatMapEmpty
    <3>3. <<>> \in Seq(Items) /\ \A e : ~Contains(<<>>, e)
      BY DEF Contains
    <3>4. QED
      BY <3>1, <3>2, <3>3
  <2>5. QED
    BY <2>3, <2>4
<1>2. Spoken \in Expansions(Messages, Items)
  BY <1>1 DEF Expansions, Spoken
<1>3. \A m \in SystemMessages : m \in Messages
  BY DEF SystemMessages
<1>4. QED
  BY <1>1, <1>2, <1>3 DEF Renders

-----------------------------------------------------------------------------
(* The bodies *)

\* What a message is made of.
LEMMA MessageOf ==
    ASSUME NEW role \in {"system", "user", "assistant", "tool"}, NEW text \in Texts,
           NEW replay \in Seq(ReplayItems), role \in {"system", "user"} => text # NoText
    PROVE  [Message(role, text) EXCEPT !.replay = replay] \in Messages
<1>1. PICK Calls : Calls = Seq(Texts)
  OBVIOUS
<1>2. PICK Replay : Replay = Seq(ReplayItems)
  OBVIOUS
<1>3. PICK m : m = [role |-> role, text |-> text, calls |-> <<>>, result |-> "none", replay |-> replay]
  OBVIOUS
<1>4. [Message(role, text) EXCEPT !.replay = replay] = m
  BY <1>3 DEF Message
<1>5. <<>> \in Calls
  BY <1>1
<1>6. replay \in Replay
  BY <1>2
<1>7. \A R, T, C, Q : \A a \in R : \A t, n \in T : \A c \in C : \A q \in Q :
         [role |-> a, text |-> t, calls |-> c, result |-> n, replay |-> q]
           \in [role : R, text : T, calls : C, result : T, replay : Q]
  OBVIOUS
<1>8. "none" \in Texts
  BY Zenon DEF Texts
<1>9. m \in [role : {"system", "user", "assistant", "tool"}, text : Texts, calls : Calls,
             result : Texts, replay : Replay]
  BY <1>3, <1>5, <1>6, <1>7, <1>8, Zenon
<1>10. m.role = role /\ m.text = text
  BY <1>3
<1>11. QED
  BY <1>1, <1>2, <1>4, <1>9, <1>10, Zenon DEF Messages

\* Generated system messages are messages of the system.
LEMMA GeneratedMessages ==
    \A text \in {"schema", "sequential", "default"} :
       Message("system", text) \in SystemMessages
<1> TAKE text \in {"schema", "sequential", "default"}
<1>1. text \in Texts /\ text # NoText
  BY Zenon DEF Texts, NoText
<1>2. <<>> \in Seq(ReplayItems) /\ "system" \in {"system", "user", "assistant", "tool"}
  OBVIOUS
<1>3. [Message("system", text) EXCEPT !.replay = <<>>] \in Messages
  BY <1>1, <1>2, MessageOf
<1>4. /\ [Message("system", text) EXCEPT !.replay = <<>>] = Message("system", text)
      /\ Message("system", text).role = "system"
  BY DEF Message
<1>5. QED
  BY <1>3, <1>4 DEF SystemMessages

\* A generated instruction: behind the authored ones, and nothing is lost.
LEMMA InstructionAdded ==
    ASSUME NEW provider, NEW messages, Sound(messages, provider), NEW text \in {"schema", "sequential"}
    PROVE  /\ Sound(WithInstruction(messages, text), provider)
           /\ SameTalk(WithInstruction(messages, text), messages)
           /\ Contains(WithInstruction(messages, text), Message("system", text))
<1> DEFINE x == Message("system", text)
           all == FlatMap(messages, JustSystem) \o <<x>> \o FlatMap(messages, JustOther)
<1>1. messages \in Seq(Messages) /\ x \in SystemMessages
  BY GeneratedMessages DEF Sound
<1>2. WithInstruction(messages, text) = all
  BY <1>1, FilteredMessages DEF WithInstruction
<1>3. <<x>> \in Seq(SystemMessages) /\ 1 \in 1..Len(<<x>>) /\ <<x>>[1] = x
  BY <1>1
<1>4. Sound(all, provider) /\ SameTalk(all, messages) /\ \A i \in 1..Len(<<x>>) : Contains(all, <<x>>[i])
  BY <1>3, Rearranged
<1>5. QED
  BY <1>2, <1>3, <1>4

\* The talk of what has the talk.
LEMMA TalkOfTalk ==
    ASSUME NEW a, NEW b, NEW c, SameTalk(a, b), SameTalk(b, c)
    PROVE  SameTalk(a, c)
BY DEF SameTalk

\* The instruction that asks for the schema in words.
LEMMA SchemaAdded ==
    ASSUME NEW provider, NEW r, Sound(r.messages, provider), NEW prompted
    PROVE  LET all == MessagesWithStructuredSchema(r, prompted)
           IN  /\ Sound(all, provider) /\ SameTalk(all, r.messages)
               /\ prompted /\ HasSchema(r) => Contains(all, Message("system", "schema"))
<1>1. SameTalk(r.messages, r.messages)
  BY DEF SameTalk
<1>2. QED
  BY <1>1, InstructionAdded DEF MessagesWithStructuredSchema

\* The body of OpenRouter, of a request whose messages are sound.
LEMMA OpenRouterArrives ==
    ASSUME NEW provider, NEW p, Sound(p.request.messages, provider)
    PROVE  LET items == OpenRouterBody(p).items
               r == p.request
           IN  /\ Delivers(items, r.messages)
               /\ HasSchema(r) /\ (r.prompted \/ p.structuredOutput # "json_schema") =>
                     Contains(items, TextItem("system", "schema"))
<1> DEFINE r == p.request
           prompted == r.prompted \/ p.structuredOutput # "json_schema"
           all == MessagesWithStructuredSchema(r, prompted)
           H == [m \in Messages |-> ChatItems(m, p.replay)]
           items == OpenRouterBody(p).items
<1>1. /\ Sound(all, provider) /\ SameTalk(all, r.messages)
      /\ prompted /\ HasSchema(r) => Contains(all, Message("system", "schema"))
  BY SchemaAdded
<1>2. Renders(H, provider)
  <2> DEFINE G == [m \in Messages |-> m]
  <2>1. /\ G \in [Messages -> Messages]
        /\ \A m \in Messages : /\ G[m].role = m.role /\ G[m].text = m.text
                               /\ G[m].calls = m.calls /\ G[m].result = m.result
    OBVIOUS
  <2>2. H = [m \in Messages |-> ChatItems(G[m], p.replay)]
    OBVIOUS
  <2> HIDE DEF G, H
  <2>3. QED
    BY <2>1, <2>2, ChatItemsRender
<1>3. items = FlatMap(all, H)
  <2>1. items = FlattenSeq([i \in DOMAIN all |-> ChatItems(all[i], p.replay)])
    BY DEF OpenRouterBody
  <2> HIDE DEF all
  <2>2. \A i \in DOMAIN all : all[i] \in Messages
    BY <1>1 DEF Sound
  <2>3. [i \in DOMAIN all |-> ChatItems(all[i], p.replay)] = Pieces(all, H)
    BY <2>2 DEF Pieces
  <2>4. QED
    BY <2>1, <2>3 DEF FlatMap
<1> HIDE DEF all, H, items
<1>4. Delivers(items, all)
  BY <1>1, <1>2, <1>3, RenderedArrives
<1>5. Delivers(items, r.messages)
  BY <1>1, <1>4, ArrivesAsSaid
<1>6. Contains(all, Message("system", "schema")) => Contains(items, TextItem("system", "schema"))
  <2>1. Message("system", "schema") \in SystemMessages /\ Message("system", "schema").text = "schema"
    BY GeneratedMessages DEF Message
  <2>2. QED
    BY <2>1, <1>4 DEF Delivers
<1>7. QED
  BY <1>1, <1>5, <1>6 DEF items

\* The body of the Responses API: the instructions, then the rest.
LEMMA OpenAiArrives ==
    ASSUME NEW provider \in OverResponses, NEW r, Sound(r.messages, provider)
    PROVE  Delivers(OpenAiBody(r).items, r.messages)
<1> DEFINE all == MessagesWithStructuredSchema(r, r.prompted)
           A == FlatMap(all, JustSystem)
           B == FlatMap(all, JustOther)
           default == Message("system", "default")
           added == IF A = <<>> /\ r.provider = "codex" THEN <<default>> ELSE <<>>
           instructions == IF A = <<>> /\ r.provider = "codex" THEN <<default>> ELSE A
           K == [m \in Messages |-> InputItems(m)]
           texts == [i \in DOMAIN instructions |-> TextItem("system", instructions[i].text)]
           inputs == FlattenSeq([i \in DOMAIN B |-> InputItems(B[i])])
           arranged == A \o added \o B
<1>1. Sound(all, provider) /\ SameTalk(all, r.messages)
  BY SchemaAdded
<1> HIDE DEF all
<1>2. all \in Seq(Messages)
  BY <1>1 DEF Sound
<1>3. OpenAiBody(r).items = texts \o inputs
  BY <1>2, FilteredMessages DEF OpenAiBody, all
<1>4. /\ default \in SystemMessages /\ default \in Messages
      /\ A \in Seq(Messages) /\ B \in Seq(Messages)
  <2>1. A \in Seq(Messages) /\ B \in Seq(Messages)
    BY <1>2, FilterTypes, FlatMapType
  <2>2. default \in SystemMessages
    BY GeneratedMessages
  <2>3. QED
    BY <2>1, <2>2 DEF SystemMessages
<1>5. added \in Seq(SystemMessages)
  <2> HIDE DEF A, default
  <2>1. <<>> \in Seq(SystemMessages) /\ <<default>> \in Seq(SystemMessages)
    BY <1>4
  <2>2. QED
    BY <2>1
<1>6. Sound(arranged, provider) /\ SameTalk(arranged, all)
  <2> HIDE DEF added
  <2>1. QED
    BY <1>1, <1>5, Rearranged
<1>7. A \o added = instructions /\ instructions \in Seq(Messages)
  <2> HIDE DEF A, default
  <2>1. CASE A = <<>> /\ r.provider = "codex"
    <3>1. <<>> \o <<default>> = <<default>> /\ <<default>> \in Seq(Messages)
      BY <1>4, ConcatEmptySeq
    <3>2. QED
      BY <2>1, <3>1
  <2>2. CASE ~(A = <<>> /\ r.provider = "codex")
    <3>1. A \o <<>> = A
      BY <1>4, ConcatEmptySeq
    <3>2. QED
      BY <2>2, <3>1, <1>4
  <2>3. QED
    BY <2>1, <2>2
<1>8. Renders(K, provider)
  BY InputItemsRender
<1>9. \A i \in DOMAIN instructions : instructions[i] \in SystemMessages
  <2>1. \A m : Contains(A, m) => m.role = "system" /\ m \in Messages
    <3> SUFFICES ASSUME NEW m, Contains(A, m) PROVE m.role = "system" /\ m \in Messages
      OBVIOUS
    <3>1. PICK x \in Messages : Contains(JustSystem[x], m)
      BY <1>2, FilterTypes, FlatMapContains
    <3>2. CASE x.role = "system"
      <4>1. JustSystem[x] = <<x>>
        BY <3>2 DEF JustSystem
      <4>2. QED
        BY <3>1, <3>2, <4>1, ContainsOne
    <3>3. CASE x.role # "system"
      <4>1. JustSystem[x] = <<>>
        BY <3>3 DEF JustSystem
      <4>2. QED
        BY <3>1, <4>1, ContainsOne
    <3>4. QED
      BY <3>2, <3>3
  <2> HIDE DEF A, default
  <2>2. \A i \in DOMAIN A : A[i] \in SystemMessages
    <3> TAKE i \in DOMAIN A
    <3>1. Contains(A, A[i])
      BY <1>4 DEF Contains
    <3>2. QED
      BY <2>1, <3>1 DEF SystemMessages
  <2>3. \A i \in DOMAIN <<default>> : <<default>>[i] = default
    OBVIOUS
  <2>4. QED
    BY <1>4, <2>2, <2>3
<1>10. texts = FlatMap(instructions, K)
  <2> HIDE DEF instructions
  <2>1. PICK F : F = [m \in Messages |-> TextItem("system", m.text)]
    OBVIOUS
  <2>2. PICK J : J = [m \in Messages |-> <<F[m]>>]
    OBVIOUS
  <2>3. \A m \in Messages : TextItem("system", m.text) \in Items
    BY DEF TextItem, Items, Messages
  <2>4. F \in [Messages -> Items]
    BY <2>1, <2>3
  <2>a. J \in Expansions(Messages, Items) /\ \A m \in Messages : J[m] = <<F[m]>>
    BY <2>2, <2>4 DEF Expansions
  <2>5. /\ J \in Expansions(Messages, Items) /\ Len(FlatMap(instructions, J)) = Len(instructions)
        /\ \A i \in 1..Len(instructions) : FlatMap(instructions, J)[i] = F[instructions[i]]
    BY <1>7, <2>a, <2>4, FlatMapOfSingles
  <2>6. FlatMap(instructions, J) \in Seq(Items)
    BY <1>7, <2>5, FlatMapType
  <2>7. /\ DOMAIN instructions = 1..Len(instructions) /\ Len(instructions) \in Nat
        /\ \A i \in 1..Len(instructions) : instructions[i] \in Messages
    BY <1>7
  <2>8. \A i \in 1..Len(instructions) : texts[i] = F[instructions[i]] /\ texts[i] \in Items
    BY <2>1, <2>3, <2>7
  <2>9. texts \in Seq(Items) /\ Len(texts) = Len(instructions)
    <3>1. texts \in [1..Len(instructions) -> Items]
      BY <2>7, <2>8
    <3> HIDE DEF texts
    <3>2. QED
      BY <2>7, <3>1
  <2> HIDE DEF texts
  <2>10. texts = FlatMap(instructions, J)
    BY <2>5, <2>6, <2>8, <2>9, SameSequence
  <2>11. ASSUME NEW m, Contains(instructions, m)
         PROVE  J[m] = K[m]
    <3>1. m \in Messages /\ m.role = "system"
      BY <1>9, <2>7, <2>11 DEF SystemMessages, Contains
    <3>2. J[m] = <<TextItem("system", m.text)>>
      BY <2>1, <2>2, <3>1
    <3>3. K[m] = <<TextItem("system", m.text)>>
      BY <3>1 DEF InputItems
    <3>4. QED
      BY <3>2, <3>3
  <2> HIDE DEF K
  <2>12. FlatMap(instructions, J) = FlatMap(instructions, K)
    BY <1>7, <2>11, FlatMapSame
  <2>13. QED
    BY <2>10, <2>12
<1>11. inputs = FlatMap(B, K)
  <2> HIDE DEF B
  <2>1. \A i \in DOMAIN B : B[i] \in Messages
    BY <1>4
  <2>2. [i \in DOMAIN B |-> InputItems(B[i])] = Pieces(B, K)
    BY <2>1 DEF Pieces
  <2>3. QED
    BY <2>2 DEF FlatMap
<1> HIDE DEF A, B, instructions, texts, inputs, K, default, added
<1>12. OpenAiBody(r).items = FlatMap(arranged, K)
  <2>1. K \in Expansions(Messages, Items)
    BY <1>8 DEF Renders
  <2>2. FlatMap(instructions \o B, K) = FlatMap(instructions, K) \o FlatMap(B, K)
    BY <1>4, <1>7, <2>1, FlatMapConcat
  <2>3. arranged = instructions \o B
    BY <1>7
  <2>4. QED
    BY <1>3, <1>10, <1>11, <2>2, <2>3
<1> HIDE DEF arranged
<1>13. Delivers(FlatMap(arranged, K), arranged)
  BY <1>6, <1>8, RenderedArrives
<1>14. SameTalk(arranged, r.messages)
  BY <1>1, <1>6, TalkOfTalk
<1>15. QED
  BY <1>12, <1>13, <1>14, ArrivesAsSaid

\* The bodies of LM Studio: over its chat completions, and its own.
LEMMA CompatibleArrives ==
    ASSUME NEW provider, NEW r, Sound(r.messages, provider)
    PROVE  Delivers(CompatibleBody(r).items, r.messages)
<1> DEFINE all == MessagesWithStructuredSchema(r, r.prompted)
           G == [m \in Messages |-> [m EXCEPT !.replay = <<>>]]
           H == [m \in Messages |-> ChatItems(G[m], "all")]
           items == CompatibleBody(r).items
<1>1. Sound(all, provider) /\ SameTalk(all, r.messages)
  BY SchemaAdded
<1>2. \A m \in Messages : /\ [m EXCEPT !.replay = <<>>] \in Messages
                          /\ [m EXCEPT !.replay = <<>>].role = m.role
                          /\ [m EXCEPT !.replay = <<>>].text = m.text
                          /\ [m EXCEPT !.replay = <<>>].calls = m.calls
                          /\ [m EXCEPT !.replay = <<>>].result = m.result
  <2>1. PICK Replay : Replay = Seq(ReplayItems)
    OBVIOUS
  <2>2. <<>> \in Replay
    BY <2>1
  <2>3. QED
    BY <2>1, <2>2 DEF Messages
<1>3. /\ G \in [Messages -> Messages]
      /\ \A m \in Messages : /\ G[m].role = m.role /\ G[m].text = m.text
                             /\ G[m].calls = m.calls /\ G[m].result = m.result
  BY <1>2
<1>4. items = FlatMap(all, H)
  <2>1. items = FlattenSeq([i \in DOMAIN all |-> ChatItems([all[i] EXCEPT !.replay = <<>>], "all")])
    BY DEF CompatibleBody
  <2> HIDE DEF all
  <2>2. \A i \in DOMAIN all : all[i] \in Messages
    BY <1>1 DEF Sound
  <2>3. [i \in DOMAIN all |-> ChatItems([all[i] EXCEPT !.replay = <<>>], "all")] = Pieces(all, H)
    BY <2>2 DEF Pieces
  <2>4. QED
    BY <2>1, <2>3 DEF FlatMap
<1>5. Renders(H, provider)
  <2> HIDE DEF G
  <2>1. QED
    BY <1>3, ChatItemsRender
<1> HIDE DEF all, H, items
<1>6. Delivers(items, all)
  BY <1>1, <1>4, <1>5, RenderedArrives
<1>7. QED
  BY <1>1, <1>6, ArrivesAsSaid DEF items

\* chatBody of lmstudio: what is spoken, a text for each.
LEMMA NativeArrives ==
    ASSUME NEW provider, NEW r, Sound(r.messages, provider)
    PROVE  Delivers(NativeBody(r).items, r.messages)
<1> DEFINE all == MessagesWithStructuredSchema(r, r.prompted)
           A == FlatMap(all, JustSystem)
           B == FlatMap(all, JustOther)
           ordered == A \o B
           Said(m) == m.text # NoText
           JustSaid == [m \in Messages |-> IF Said(m) THEN <<m>> ELSE <<>>]
           spoken == FlatMap(ordered, JustSaid)
           texts == [i \in DOMAIN spoken |-> TextItem(spoken[i].role, spoken[i].text)]
<1>1. Sound(all, provider) /\ SameTalk(all, r.messages)
  BY SchemaAdded
<1> HIDE DEF all
<1>2. all \in Seq(Messages)
  BY <1>1 DEF Sound
<1>3. A \in Seq(Messages) /\ B \in Seq(Messages)
  BY <1>2, FilterTypes, FlatMapType
<1>4. <<>> \in Seq(SystemMessages) /\ A \o <<>> = A
  BY <1>3, ConcatEmptySeq
<1>5. Sound(ordered, provider) /\ SameTalk(ordered, all)
  <2>1. Sound(A \o <<>> \o B, provider) /\ SameTalk(A \o <<>> \o B, all)
    BY <1>1, <1>4, Rearranged
  <2> HIDE DEF A
  <2>2. QED
    BY <1>4, <2>1
<1>6. ordered \in Seq(Messages)
  BY <1>5 DEF Sound
<1>7. JustSaid \in Expansions(Messages, Messages)
  <2>1. \A m \in Messages : <<m>> \in Seq(Messages) /\ <<>> \in Seq(Messages)
    OBVIOUS
  <2>2. ASSUME NEW Q, \A m \in Messages : <<m>> \in Q /\ <<>> \in Q
        PROVE  JustSaid \in [Messages -> Q]
    <3> HIDE DEF Said
    <3>1. QED
      BY <2>2
  <2> HIDE DEF JustSaid
  <2>3. QED
    BY <2>1, <2>2 DEF Expansions
<1>8. spoken \in Seq(Messages)
  BY <1>6, <1>7, FlatMapType
<1>9. Filtered(ordered, Said) = spoken
  <2> HIDE DEF ordered
  <2>1. \A i \in DOMAIN ordered :
           JustSaid[ordered[i]] = IF Said(ordered[i]) THEN <<ordered[i]>> ELSE <<>>
    <3>1. \A i \in DOMAIN ordered : ordered[i] \in Messages
      BY <1>6
    <3> HIDE DEF Said
    <3>2. QED
      BY <3>1
  <2>2. [i \in DOMAIN ordered |-> IF Said(ordered[i]) THEN <<ordered[i]>> ELSE <<>>]
          = Pieces(ordered, JustSaid)
    BY <2>1, Zenon DEF Pieces
  <2>3. QED
    BY <2>2, Zenon DEF Filtered, FlatMap
<1>10. NativeBody(r).items = texts
  <2>1. Filtered(all, IsSystem) = A /\ Filtered(all, IsOther) = B
    BY <1>2, FilteredMessages
  <2>2. NativeBody(r).items =
          LET said == Filtered(Filtered(all, IsSystem) \o Filtered(all, IsOther), Said)
          IN  [i \in DOMAIN said |-> TextItem(said[i].role, said[i].text)]
    BY Zenon DEF NativeBody, all
  <2> HIDE DEF A, B
  <2>3. QED
    BY <1>9, <2>1, <2>2, Zenon
<1> HIDE DEF A, B, Said, texts
<1>11. texts = FlatMap(ordered, Spoken)
  <2> HIDE DEF ordered, spoken, JustSaid
  <2>1. PICK F : F = [m \in Messages |-> TextItem(m.role, m.text)]
    OBVIOUS
  <2>2. PICK J : J = [m \in Messages |-> <<F[m]>>]
    OBVIOUS
  <2>3. \A m \in Messages : TextItem(m.role, m.text) \in Items
    <3> TAKE m \in Messages
    <3>1. m.role \in {"system", "user", "assistant", "tool"} /\ m.text \in Texts
      BY DEF Messages
    <3>2. QED
      BY <3>1 DEF TextItem, Items
  <2>4. F \in [Messages -> Items] /\ \A m \in Messages : F[m] = TextItem(m.role, m.text)
    BY <2>1, <2>3
  <2>5. J \in Expansions(Messages, Items) /\ \A m \in Messages : J[m] = <<F[m]>>
    BY <2>2, <2>4 DEF Expansions
  <2>6. /\ Len(FlatMap(spoken, J)) = Len(spoken)
        /\ \A i \in 1..Len(spoken) : FlatMap(spoken, J)[i] = F[spoken[i]]
    BY <1>8, <2>4, <2>5, FlatMapOfSingles
  <2>7. FlatMap(spoken, J) \in Seq(Items)
    BY <1>8, <2>5, FlatMapType
  <2>8. /\ DOMAIN spoken = 1..Len(spoken) /\ Len(spoken) \in Nat
        /\ \A i \in 1..Len(spoken) : spoken[i] \in Messages
    BY <1>8
  <2>9. /\ DOMAIN texts = 1..Len(spoken)
        /\ \A i \in 1..Len(spoken) : texts[i] = F[spoken[i]] /\ texts[i] \in Items
    BY <2>3, <2>4, <2>8 DEF texts
  <2>10. texts \in Seq(Items) /\ Len(texts) = Len(spoken)
    <3>1. texts \in [1..Len(spoken) -> Items]
      BY <2>8, <2>9 DEF texts
    <3>2. QED
      BY <2>8, <3>1
  <2>11. texts = FlatMap(spoken, J)
    BY <2>6, <2>7, <2>9, <2>10, SameSequence
  <2>12. FlatMap(spoken, J) = FlatMap(ordered, [m \in Messages |-> FlatMap(JustSaid[m], J)])
    BY <1>6, <1>7, <2>5, FlatMapTwice DEF spoken
  <2>13. \A m \in Messages : FlatMap(JustSaid[m], J) = Spoken[m]
    <3> TAKE m \in Messages
    <3>1. CASE Said(m)
      <4>1. JustSaid[m] = <<m>> /\ Spoken[m] = <<TextItem(m.role, m.text)>>
        BY <3>1, Zenon DEF JustSaid, Spoken, Said
      <4>2. FlatMap(<<m>>, J) = J[m]
        BY <2>5, FlatMapSingle
      <4>3. QED
        BY <4>1, <4>2, <2>4, <2>5
    <3>2. CASE ~Said(m)
      <4>1. JustSaid[m] = <<>> /\ Spoken[m] = <<>>
        BY <3>2, Zenon DEF JustSaid, Spoken, Said
      <4>2. QED
        BY <4>1, FlatMapEmpty
    <3>3. QED
      BY <3>1, <3>2
  <2>14. [m \in Messages |-> FlatMap(JustSaid[m], J)] = Spoken
    BY <2>13, Zenon DEF Spoken
  <2>15. QED
    BY <2>11, <2>12, <2>14
<1> HIDE DEF ordered, spoken
<1>12. Delivers(FlatMap(ordered, Spoken), ordered)
  BY <1>5, RenderedArrives, SpokenRenders
<1>13. SameTalk(ordered, r.messages)
  BY <1>1, <1>5, TalkOfTalk
<1>14. QED
  BY <1>10, <1>11, <1>12, <1>13, ArrivesAsSaid

\* What the preparer makes of a request: what a model lacks is left out, an
\* instruction takes the place of the parallel flag, and nobody's talk is lost.
LEMMA PreparedRequest ==
    ASSUME NEW provider, NEW r \in ChatRequests, Sound(r.messages, provider), NEW support
    PROVE  LET p == Prepared(r, support)
               q == p.request
               limited == support.known /\ "tool_choice" \notin support.parameters
           IN  /\ Sound(q.messages, provider) /\ SameTalk(q.messages, r.messages)
               /\ r.parallel = "no" /\ q.tools => Contains(q.messages, Message("system", "sequential"))
               /\ q.schema = r.schema /\ q.prompted = r.prompted /\ Tuned(q) = Tuned(r)
               /\ q.tools = (r.tools /\ ~(limited /\ r.choice = "none"))
               /\ q.choice = IF limited /\ r.choice \in {"none", "auto"} THEN "unset" ELSE r.choice
               /\ q.parallel = IF "parallel_tool_calls" \in support.parameters
                              THEN r.parallel ELSE "unset"
               /\ p.structuredOutput = StructuredStrategy(r, support)
<1> DEFINE limited == support.known /\ "tool_choice" \notin support.parameters
           a == NormalizeToolChoice(r, support)
           n == NormalizeParallelToolCalls(a, support)
           w == [n EXCEPT !.messages = WithInstruction(@, "sequential")]
           p == Prepared(r, support)
           q == p.request
<1>1. PICK M : M = Seq(Messages)
  OBVIOUS
<1>2. r \in [op : {"complete", "stream"}, provider : Providers, model : STRING, messages : M,
              tools : BOOLEAN, schema : {"unset", "object", "text"}, prompted : BOOLEAN,
              choice : {"unset", "auto", "none", "required"}, parallel : {"unset", "yes", "no"},
              effort : STRING, tuning : SUBSET Tuning]
  BY <1>1 DEF ChatRequests
<1>3. /\ a.messages = r.messages /\ a.schema = r.schema /\ a.prompted = r.prompted
      /\ a.parallel = r.parallel /\ a.effort = r.effort /\ a.tuning = r.tuning
      /\ a.tools = (r.tools /\ ~(limited /\ r.choice = "none"))
      /\ a.choice = IF limited /\ r.choice \in {"none", "auto"} THEN "unset" ELSE r.choice
      /\ a = [r EXCEPT !.tools = a.tools, !.choice = a.choice]
  <2>1. CASE ~limited
    BY <1>2, <2>1 DEF NormalizeToolChoice
  <2>2. CASE limited /\ r.choice = "none"
    BY <1>2, <2>2 DEF NormalizeToolChoice
  <2>3. CASE limited /\ r.choice = "auto"
    BY <1>2, <2>3 DEF NormalizeToolChoice
  <2>4. CASE limited /\ r.choice \notin {"none", "auto"}
    BY <1>2, <2>4 DEF NormalizeToolChoice
  <2>5. QED
    BY <2>1, <2>2, <2>3, <2>4
<1> HIDE DEF a, limited
<1>4. /\ n.messages = r.messages /\ n.schema = r.schema /\ n.prompted = r.prompted
      /\ n.effort = r.effort /\ n.tuning = r.tuning
      /\ n.tools = a.tools /\ n.choice = a.choice
      /\ n.parallel = IF "parallel_tool_calls" \in support.parameters THEN r.parallel ELSE "unset"
      /\ "messages" \in DOMAIN n
  BY <1>2, <1>3 DEF NormalizeParallelToolCalls
<1> HIDE DEF n
<1>5. /\ w.messages = WithInstruction(r.messages, "sequential") /\ w.schema = n.schema
      /\ w.prompted = n.prompted /\ w.tools = n.tools /\ w.choice = n.choice
      /\ w.parallel = n.parallel /\ w.effort = r.effort /\ w.tuning = r.tuning
  BY <1>4
<1> HIDE DEF w
<1>6. q = (IF r.parallel = "no" /\ n.tools THEN w ELSE n) /\ p.structuredOutput = StructuredStrategy(r, support)
  BY DEF Prepared, a, n, w
<1> HIDE DEF q, p
<1>7. q.tools = n.tools /\ q.choice = n.choice /\ q.schema = r.schema /\ q.prompted = r.prompted
      /\ q.parallel = n.parallel /\ Tuned(q) = Tuned(r)
  BY <1>4, <1>5, <1>6 DEF Tuned
<1>8. /\ Sound(q.messages, provider) /\ SameTalk(q.messages, r.messages)
      /\ r.parallel = "no" /\ q.tools => Contains(q.messages, Message("system", "sequential"))
  <2>1. CASE r.parallel = "no" /\ n.tools
    <3>1. q.messages = WithInstruction(r.messages, "sequential")
      BY <1>5, <1>6, <2>1
    <3>2. QED
      BY <3>1, InstructionAdded
  <2>2. CASE ~(r.parallel = "no" /\ n.tools)
    <3>1. q.messages = r.messages /\ SameTalk(r.messages, r.messages)
      BY <1>4, <1>6, <2>2 DEF SameTalk
    <3>2. QED
      BY <3>1, <1>7, <2>2
  <2>3. QED
    BY <2>1, <2>2
<1>9. QED
  BY <1>3, <1>4, <1>6, <1>7, <1>8 DEF p, q, limited

\* Every provider's body delivers the conversation of the request.
LEMMA BodyDelivers ==
    ASSUME NEW r \in ChatRequests, ResultsFollowCalls(r.messages, r.provider), NEW support
    PROVE  Delivers(BodyFor(r, support).items, r.messages)
<1>1. r.messages \in Seq(Messages) /\ r.provider \in Providers
  <2>1. PICK M : M = Seq(Messages)
    OBVIOUS
  <2>2. QED
    BY <2>1 DEF ChatRequests
<1>2. Sound(r.messages, r.provider) /\ SameTalk(r.messages, r.messages)
  BY <1>1, SoundAtFirst
<1>3. CASE r.provider \in {"unified", "proxy"}
  <2> DEFINE p == Prepared(r, support)
  <2>1. Sound(p.request.messages, r.provider) /\ SameTalk(p.request.messages, r.messages)
    BY <1>2, PreparedRequest
  <2> HIDE DEF p
  <2>2. Delivers(OpenRouterBody(p).items, p.request.messages)
    BY <2>1, OpenRouterArrives
  <2>3. Delivers(OpenRouterBody(p).items, r.messages)
    BY <2>1, <2>2, ArrivesAsSaid
  <2>4. BodyFor(r, support) = OpenRouterBody(p)
    BY <1>3 DEF BodyFor, p, OverResponses
  <2>5. QED
    BY <2>3, <2>4
<1>4. CASE r.provider = "openrouter"
  <2> DEFINE p == [request |-> r, structuredOutput |-> "json_schema", replay |-> "all",
                   requireParameters |-> FALSE]
  <2>1. p.request = r
    OBVIOUS
  <2>2. BodyFor(r, support) = OpenRouterBody(p)
    BY <1>4 DEF BodyFor, OverResponses
  <2> HIDE DEF p
  <2>3. Delivers(OpenRouterBody(p).items, p.request.messages)
    BY <1>2, <2>1, OpenRouterArrives
  <2>4. QED
    BY <2>1, <2>2, <2>3
<1>5. CASE r.provider \in OverResponses
  <2>1. BodyFor(r, support) = OpenAiBody(r)
    BY <1>5 DEF BodyFor, OverResponses
  <2>2. QED
    BY <1>2, <1>5, <2>1, OpenAiArrives
<1>6. CASE r.provider = "compatible"
  <2>1. BodyFor(r, support) = CompatibleBody(r)
    BY <1>6 DEF BodyFor, OverResponses
  <2>2. QED
    BY <1>2, <2>1, CompatibleArrives
<1>7. CASE r.provider = "native"
  <2>1. BodyFor(r, support) = NativeBody(r)
    BY <1>7 DEF BodyFor, OverResponses
  <2>2. QED
    BY <1>2, <2>1, NativeArrives
<1>8. QED
  BY <1>1, <1>3, <1>4, <1>5, <1>6, <1>7 DEF Providers, OverOpenRouter

\* What delivery means, item by item.
LEMMA DeliveryMeans ==
    ASSUME NEW messages \in Seq(Messages), NEW items, Delivers(items, messages)
    PROVE  LET said == Filtered(messages, LAMBDA m : m.role = "user")
               heard == Filtered(items, LAMBDA i : i.item = "text" /\ i.role = "user")
           IN  /\ \A i \in DOMAIN items : items[i].item = "result" =>
                     \E j \in 1..(i - 1) : items[j] = CallItem(items[i].id)
               /\ Len(heard) = Len(said)
               /\ \A i \in DOMAIN heard : heard[i].text = said[i].text
               /\ \A i \in DOMAIN messages : IsSystem(messages[i]) =>
                     TextItem("system", messages[i].text) \in ToSet(items)
<1> DEFINE said == FlatMap(messages, JustUser)
           heard == FlatMap(items, HeardTexts)
<1>1. items \in Seq(Items)
  BY DEF Delivers
<1>2. Filtered(messages, LAMBDA m : m.role = "user") = said
  BY FilteredMessages
<1>3. Filtered(items, LAMBDA i : i.item = "text" /\ i.role = "user") = heard
  <2>1. \A i \in DOMAIN items : items[i] \in Items
    BY <1>1
  <2>2. \A i \in DOMAIN items : HeardTexts[items[i]] =
           IF items[i].item = "text" /\ items[i].role = "user" THEN <<items[i]>> ELSE <<>>
    BY <2>1 DEF HeardTexts, IsHeard
  <2>3. QED
    BY <2>2 DEF Filtered, FlatMap, Pieces
<1>4. \A i \in DOMAIN items : items[i].item = "result" =>
         \E j \in 1..(i - 1) : items[j] = CallItem(items[i].id)
  <2> SUFFICES ASSUME NEW i \in DOMAIN items, items[i].item = "result"
               PROVE  \E j \in 1..(i - 1) : items[j] = CallItem(items[i].id)
    OBVIOUS
  <2>1. i \in 1..Len(items) /\ items[i] \in Items
    BY <1>1
  <2>2. items[i] \in ResultItems
    <3>1. PICK x : x = items[i]
      OBVIOUS
    <3>2. x \in Items /\ x.item = "result"
      BY <2>1, <3>1
    <3>3. x \in ResultItems
      BY <3>2 DEF Items, ResultItems, ReasoningItem
    <3>4. QED
      BY <3>1, <3>3
  <2>3. PICK j \in 1..(i - 1) : <<items[j], items[i]>> \in Calling
    BY <2>1, <2>2 DEF Delivers, Behind
  <2>4. items[j] = CallItem(items[i].id)
    BY <2>3 DEF Calling
  <2>5. QED
    BY <2>4
<1>5. /\ said \in Seq(Messages) /\ heard \in Seq(Items)
      /\ Len(heard) = Len(said) /\ \A i \in 1..Len(said) : heard[i].text = said[i].text
  <2>1. said \in Seq(Messages) /\ heard \in Seq(Items)
    BY <1>1, FilterTypes, FlatMapType
  <2>2. PICK F : F = [m \in Messages |-> TextItem("user", m.text)]
    OBVIOUS
  <2>3. PICK J : J = [m \in Messages |-> <<F[m]>>]
    OBVIOUS
  <2>4. \A m \in Messages : TextItem("user", m.text) \in Items
    <3> TAKE m \in Messages
    <3>1. m.text \in Texts
      BY DEF Messages
    <3>2. QED
      BY <3>1 DEF TextItem, Items
  <2>5. F \in [Messages -> Items] /\ \A m \in Messages : F[m] = TextItem("user", m.text)
    BY <2>2, <2>4
  <2>6. J \in Expansions(Messages, Items) /\ \A m \in Messages : J[m] = <<F[m]>>
    BY <2>3, <2>5 DEF Expansions
  <2>7. /\ Len(FlatMap(said, J)) = Len(said)
        /\ \A i \in 1..Len(said) : FlatMap(said, J)[i] = F[said[i]]
    BY <2>1, <2>5, <2>6, FlatMapOfSingles
  <2>8. FlatMap(said, J) = FlatMap(messages, [m \in Messages |-> FlatMap(JustUser[m], J)])
    BY <2>6, FilterTypes, FlatMapTwice
  <2>9. \A m \in Messages : FlatMap(JustUser[m], J) = UserTexts[m]
    <3> TAKE m \in Messages
    <3>1. CASE m.role = "user"
      <4>1. JustUser[m] = <<m>> /\ UserTexts[m] = <<TextItem("user", m.text)>>
        BY <3>1 DEF JustUser, UserTexts
      <4>2. FlatMap(<<m>>, J) = J[m]
        BY <2>6, FlatMapSingle
      <4>3. QED
        BY <4>1, <4>2, <2>5, <2>6
    <3>2. CASE m.role # "user"
      <4>1. JustUser[m] = <<>> /\ UserTexts[m] = <<>>
        BY <3>2 DEF JustUser, UserTexts
      <4>2. QED
        BY <4>1, FlatMapEmpty
    <3>3. QED
      BY <3>1, <3>2
  <2>10. [m \in Messages |-> FlatMap(JustUser[m], J)] = UserTexts
    BY <2>9, Zenon DEF UserTexts
  <2>11. heard = FlatMap(said, J)
    BY <2>8, <2>10 DEF Delivers
  <2>12. \A i \in 1..Len(said) : F[said[i]].text = said[i].text
    <3> HIDE DEF said
    <3>1. \A i \in 1..Len(said) : said[i] \in Messages
      BY <2>1
    <3>2. \A m \in Messages : F[m].text = m.text
      BY <2>5 DEF TextItem
    <3>3. QED
      BY <3>1, <3>2
  <2> HIDE DEF said, heard
  <2>13. QED
    BY <2>1, <2>7, <2>11, <2>12
<1>6. \A i \in DOMAIN messages : IsSystem(messages[i]) =>
         TextItem("system", messages[i].text) \in ToSet(items)
  <2> SUFFICES ASSUME NEW i \in DOMAIN messages, IsSystem(messages[i])
               PROVE  TextItem("system", messages[i].text) \in ToSet(items)
    OBVIOUS
  <2>1. messages[i] \in SystemMessages /\ Contains(messages, messages[i])
    BY DEF IsSystem, SystemMessages, Contains
  <2>2. Contains(items, TextItem("system", messages[i].text))
    BY <2>1 DEF Delivers
  <2>3. QED
    BY <2>2, <1>1 DEF Contains, ToSet
<1> HIDE DEF said, heard
<1>7. \A i \in DOMAIN heard : heard[i].text = said[i].text
  BY <1>5
<1>8. QED
  BY <1>2, <1>3, <1>4, <1>5, <1>6, <1>7

\* Whatever was asked, the body has it or says it in words.
LEMMA IntentOfBody ==
    ASSUME NEW r \in ChatRequests, ResultsFollowCalls(r.messages, r.provider), NEW support,
           r.provider \in OverOpenRouter \cup OverResponses
    PROVE  LET body == BodyFor(r, support)
           IN  /\ r.choice = "required" => body.choice = "required"
               /\ r.choice = "none" => body.choice = "none" \/ ~body.tools
               /\ r.tools /\ r.choice # "none" => body.tools
               /\ r.parallel = "no" /\ body.tools =>
                    body.parallel = "no" \/ Instructed(body, "sequential")
               /\ HasSchema(r) => body.format = "json_schema" \/ Instructed(body, "schema")
<1> DEFINE body == BodyFor(r, support)
<1>1. CASE r.provider \in {"unified", "proxy"}
  <2> DEFINE p == Prepared(r, support)
             q == p.request
             items == OpenRouterBody(p).items
  <2>1. r.messages \in Seq(Messages)
    <3>1. PICK M : M = Seq(Messages)
      OBVIOUS
    <3>2. QED
      BY <3>1 DEF ChatRequests
  <2>2. Sound(r.messages, r.provider)
    BY <2>1, SoundAtFirst
  <2>a. LET limited == support.known /\ "tool_choice" \notin support.parameters
        IN  /\ Sound(q.messages, r.provider) /\ SameTalk(q.messages, r.messages)
            /\ r.parallel = "no" /\ q.tools => Contains(q.messages, Message("system", "sequential"))
            /\ q.schema = r.schema /\ q.prompted = r.prompted /\ Tuned(q) = Tuned(r)
            /\ q.tools = (r.tools /\ ~(limited /\ r.choice = "none"))
            /\ q.choice = IF limited /\ r.choice \in {"none", "auto"} THEN "unset" ELSE r.choice
            /\ q.parallel = IF "parallel_tool_calls" \in support.parameters
                           THEN r.parallel ELSE "unset"
            /\ p.structuredOutput = StructuredStrategy(r, support)
    BY <2>2, PreparedRequest
  <2>b. r.tools \in BOOLEAN
    <3>1. PICK M : M = Seq(Messages)
      OBVIOUS
    <3>2. QED
      BY <3>1 DEF ChatRequests
  <2> HIDE DEF q
  <2>3. /\ Sound(q.messages, r.provider)
        /\ r.parallel = "no" /\ q.tools => Contains(q.messages, Message("system", "sequential"))
        /\ q.schema = r.schema /\ q.prompted = r.prompted
        /\ r.choice = "required" => q.choice = "required"
        /\ r.choice = "none" => q.choice = "none" \/ ~q.tools
        /\ r.tools /\ r.choice # "none" => q.tools
    BY <2>a, <2>b
  <2>4. body = OpenRouterBody(p)
    BY <1>1 DEF BodyFor, OverResponses
  <2> HIDE DEF p
  <2>5. /\ body.tools = q.tools /\ body.choice = q.choice /\ body.items = items
        /\ HasSchema(r) /\ p.structuredOutput = "json_schema" => body.format = "json_schema"
    BY <2>3, <2>4 DEF OpenRouterBody, HasSchema, q
  <2> HIDE DEF body
  <2>6. /\ Delivers(items, q.messages)
        /\ HasSchema(r) /\ p.structuredOutput # "json_schema" => Contains(items, TextItem("system", "schema"))
    BY <2>3, OpenRouterArrives DEF q, HasSchema
  <2>7. \A e : Contains(items, e) => e \in ToSet(items)
    BY DEF Contains, ToSet
  <2>8. q.tools /\ r.parallel = "no" => Contains(items, TextItem("system", "sequential"))
    <3>1. Message("system", "sequential") \in SystemMessages
      BY GeneratedMessages
    <3>2. Message("system", "sequential").text = "sequential"
      BY DEF Message
    <3>3. QED
      BY <2>3, <2>6, <3>1, <3>2 DEF Delivers
  <2> HIDE DEF items
  <2>9. QED
    BY <2>3, <2>5, <2>6, <2>7, <2>8 DEF body, Instructed
<1>2. CASE r.provider = "openrouter"
  <2> DEFINE p == [request |-> r, structuredOutput |-> "json_schema", replay |-> "all",
                   requireParameters |-> FALSE]
  <2>1. body = OpenRouterBody(p)
    BY <1>2 DEF BodyFor, OverResponses
  <2>2. /\ OpenRouterBody(p).tools = r.tools /\ OpenRouterBody(p).choice = r.choice
        /\ OpenRouterBody(p).parallel = r.parallel
        /\ HasSchema(r) => OpenRouterBody(p).format = "json_schema"
    BY DEF OpenRouterBody
  <2> HIDE DEF p, body
  <2>3. QED
    BY <2>1, <2>2 DEF body
<1>3. CASE r.provider \in OverResponses
  <2>1. body = OpenAiBody(r)
    BY <1>3 DEF BodyFor, OverResponses
  <2>2. /\ OpenAiBody(r).tools = r.tools /\ OpenAiBody(r).choice = r.choice
        /\ OpenAiBody(r).parallel = r.parallel
        /\ HasSchema(r) => OpenAiBody(r).format = "json_schema"
    BY DEF OpenAiBody
  <2> HIDE DEF body
  <2>3. QED
    BY <2>1, <2>2 DEF body
<1>4. QED
  BY <1>1, <1>2, <1>3 DEF OverOpenRouter

-----------------------------------------------------------------------------
(* The checks *)

\* No first error is no error, and a first error is one of them.
LEMMA FirstErrorOf ==
    ASSUME NEW n \in Nat, NEW errors, DOMAIN errors = 1..n
    PROVE  /\ FirstError(errors) = "none" => \A i \in 1..n : errors[i] = "none"
           /\ FirstError(errors) # "none" => \E i \in 1..n : FirstError(errors) = errors[i]
<1> DEFINE found == {i \in 1..n : errors[i] # "none"}
<1>1. CASE found = {}
  BY <1>1, Zenon DEF FirstError
<1>2. CASE found # {}
  <2>1. \E x \in found : \A y \in found : x <= y
    <3>1. found \subseteq Nat
      OBVIOUS
    <3> HIDE DEF found
    <3>2. QED
      BY <1>2, <3>1, LeastElement
  <2>2. Min(found) \in found
    BY <2>1 DEF Min
  <2>3. FirstError(errors) = errors[Min(found)]
    BY <1>2, Zenon DEF FirstError
  <2>4. QED
    BY <2>2, <2>3
<1>3. QED
  BY <1>1, <1>2

\* A request whose checks all pass asks a model for nothing it lacks, but for
\* the caller's own tuning.
LEMMA BodyRespectsSupport ==
    ASSUME NEW r \in ChatRequests, ResultsFollowCalls(r.messages, r.provider), NEW support,
           NEW credentials,
           r.provider = "unified", support.known,
           FirstError(Checks(r, support, credentials)) = "none"
    PROVE  Demands(BodyFor(r, support)) \subseteq support.parameters \cup Tuned(r)
<1> DEFINE p == Prepared(r, support)
           q == p.request
           body == OpenRouterBody(p)
           errors == Checks(r, support, credentials)
<1>1. PICK M : M = Seq(Messages)
  OBVIOUS
<1>2. /\ r.op \in {"complete", "stream"} /\ r.tools \in BOOLEAN /\ r.messages \in M
      /\ r.choice \in {"unset", "auto", "none", "required"}
      /\ r.schema \in {"unset", "object", "text"}
  BY <1>1 DEF ChatRequests
<1>3. Sound(r.messages, r.provider)
  BY <1>1, <1>2, SoundAtFirst
<1>4. errors = OpenRouterChat(r, support, credentials)
  BY <1>2 DEF Checks, OverOpenRouter, IsChat
<1>5. DOMAIN errors = 1..5 /\ errors[3] = Refusal(r, support, ProfileFor(r))
  BY <1>4 DEF OpenRouterChat
<1>a. FirstError(errors) = "none"
  OBVIOUS
<1> HIDE DEF errors
<1>6. Refusal(r, support, ProfileFor(r)) = "none"
  <2>1. \A i \in 1..5 : errors[i] = "none"
    BY <1>5, <1>a, FirstErrorOf
  <2>2. QED
    BY <1>5, <2>1
<1>7. /\ r.tools => "tools" \in support.parameters
      /\ r.choice = "required" => "tool_choice" \in support.parameters
  BY <1>2, <1>6 DEF Refusal, Forced
<1>b. LET limited == support.known /\ "tool_choice" \notin support.parameters
      IN  /\ Sound(q.messages, r.provider) /\ SameTalk(q.messages, r.messages)
          /\ r.parallel = "no" /\ q.tools => Contains(q.messages, Message("system", "sequential"))
          /\ q.schema = r.schema /\ q.prompted = r.prompted /\ Tuned(q) = Tuned(r)
          /\ q.tools = (r.tools /\ ~(limited /\ r.choice = "none"))
          /\ q.choice = IF limited /\ r.choice \in {"none", "auto"} THEN "unset" ELSE r.choice
          /\ q.parallel = IF "parallel_tool_calls" \in support.parameters
                         THEN r.parallel ELSE "unset"
          /\ p.structuredOutput = StructuredStrategy(r, support)
  BY <1>3, PreparedRequest
<1> HIDE DEF p, q
<1>8. /\ q.schema = r.schema /\ Tuned(q) = Tuned(r)
      /\ q.tools => r.tools
      /\ Set(q.choice) => r.choice = "required" \/ "tool_choice" \in support.parameters
      /\ Set(q.parallel) => "parallel_tool_calls" \in support.parameters
      /\ p.structuredOutput = StructuredStrategy(r, support)
  BY <1>2, <1>b DEF Set
<1>9. BodyFor(r, support) = body
  BY DEF BodyFor, OverResponses, p
<1>10. /\ body.tools = q.tools /\ body.choice = q.choice /\ body.parallel = q.parallel
       /\ body.tuning = Tuned(q)
       /\ body.format = IF HasSchema(q) /\ p.structuredOutput # "prompt"
                        THEN p.structuredOutput ELSE "unset"
  BY DEF OpenRouterBody, q
<1> HIDE DEF body
<1>11. /\ body.format = "json_schema" => "structured_outputs" \in support.parameters
       /\ body.format = "json_object" => "response_format" \in support.parameters
  BY <1>8, <1>10 DEF StructuredStrategy, HasSchema, Set
<1>12. Demands(body) \subseteq support.parameters \cup Tuned(r)
  BY <1>7, <1>8, <1>10, <1>11 DEF Demands
<1>13. QED
  BY <1>9, <1>12

\* No check fails as an abort does.
LEMMA ChecksAreNoAborts ==
    ASSUME NEW r, r.provider \in Providers, NEW support, NEW credentials
    PROVE  FirstError(Checks(r, support, credentials)) # "aborted"
<1> DEFINE errors == Checks(r, support, credentials)
           Harmless(s) == \E n \in Nat : DOMAIN s = 1..n /\ \A i \in 1..n : s[i] # "aborted"
<1>1. /\ RequireRequestInput(r) # "aborted" /\ RequireEmbeddingInput(r) # "aborted"
      /\ RequireRerankInput(r) # "aborted" /\ StructuredToolsError(r) # "aborted"
      /\ SchemaError(r) # "aborted" /\ Authorization(credentials) # "aborted"
      /\ OpenRouterAuthorization(credentials) # "aborted"
      /\ Refusal(r, support, ProfileFor(r)) # "aborted"
  BY DEF RequireRequestInput, RequireEmbeddingInput, RequireRerankInput, StructuredToolsError,
         SchemaError, Authorization, OpenRouterAuthorization, Refusal
<1>2. Harmless(OpenRouterChat(r, support, credentials))
  BY <1>1 DEF OpenRouterChat
<1>3. Harmless(OpenRouterOther(r, credentials))
  BY <1>1 DEF OpenRouterOther
<1>4. Harmless(OpenAiChat(r, credentials))
  BY <1>1 DEF OpenAiChat
<1>5. Harmless(OpenAiOther(r, credentials)) /\ Harmless(CompatibleOther(r, credentials))
  BY <1>1 DEF OpenAiOther, CompatibleOther
<1>6. Harmless(CompatibleChat(r, credentials))
  BY <1>1 DEF CompatibleChat
<1>7. Harmless(NativeChat(r, credentials))
  BY <1>1 DEF NativeChat
<1>8. Harmless(NativeOther(r, credentials))
  BY <1>1 DEF NativeOther
<1>9. Harmless(CodexChat(r, credentials))
  BY <1>1 DEF CodexChat
<1>10. Harmless(CodexOther(r, credentials))
  BY <1>1 DEF CodexOther
<1>11. Harmless(errors)
  <2> HIDE DEF Harmless
  <2>1. QED
    BY <1>2, <1>3, <1>4, <1>5, <1>6, <1>7, <1>8, <1>9, <1>10
       DEF Checks, Providers, OverOpenRouter, OverResponses
<1> HIDE DEF errors
<1>12. FirstError(errors) # "aborted"
  <2>1. PICK n \in Nat : DOMAIN errors = 1..n /\ \A i \in 1..n : errors[i] # "aborted"
    BY <1>11
  <2>2. FirstError(errors) # "none" => \E i \in 1..n : FirstError(errors) = errors[i]
    BY <2>1, FirstErrorOf
  <2>3. QED
    BY <2>1, <2>2
<1>13. QED
  BY <1>12 DEF errors

\* Nor does a check of a reply; and only chats are repaired.
LEMMA ReplyErrorOf ==
    ASSUME NEW r, NEW reply
    PROVE  /\ ReplyError(r, reply) # "aborted"
           /\ ReplyError(r, reply) = "invalid_structured_output" => IsChat(r)
BY DEF ReplyError, Validated, ParseStructuredOutput, ParseEmbedding, ParseRerank

\* A repaired request is a request of the agent's kind.
LEMMA RepairedRequest ==
    ASSUME NEW r, IsRequest(r), IsChat(r), NEW reply, reply.text \in Texts,
           reply.replay \in Seq(ReplayItems)
    PROVE  IsRequest(Repaired(r, reply)) /\ IsChat(Repaired(r, reply))
<1> DEFINE s == r.messages
           q == Repaired(r, reply)
           said == [Message("assistant", reply.text) EXCEPT !.replay = reply.replay]
           correction == Message("user", "correction")
           t == <<said, correction>>
<1>1. PICK M : M = Seq(Messages)
  OBVIOUS
<1>2. r \in [op : {"complete", "stream"}, provider : Providers, model : STRING, messages : M,
              tools : BOOLEAN, schema : {"unset", "object", "text"}, prompted : BOOLEAN,
              choice : {"unset", "auto", "none", "required"}, parallel : {"unset", "yes", "no"},
              effort : STRING, tuning : SUBSET Tuning]
  BY <1>1 DEF IsRequest, ChatRequests
<1>3. s \in Seq(Messages) /\ ResultsFollowCalls(s, r.provider)
  BY <1>1, <1>2 DEF IsRequest
<1> HIDE DEF s
<1>4. said \in Messages /\ correction \in Messages
  <2>1. "correction" \in Texts /\ "correction" # NoText
    BY Zenon DEF Texts, NoText
  <2>2. <<>> \in Seq(ReplayItems)
    OBVIOUS
  <2>3. [correction EXCEPT !.replay = <<>>] \in Messages
    BY <2>1, <2>2, MessageOf
  <2>4. [correction EXCEPT !.replay = <<>>] = correction
    BY DEF Message
  <2>5. said \in Messages
    BY MessageOf
  <2>6. QED
    BY <2>3, <2>4, <2>5
<1>5. said.role = "assistant" /\ correction.role = "user"
  BY DEF Message
<1> HIDE DEF said, correction
<1>6. /\ t \in Seq(Messages) /\ Len(t) = 2
      /\ \A i \in 1..2 : t[i].role # "tool"
  BY <1>4, <1>5
<1> HIDE DEF t
<1>7. s \o t \in Seq(Messages)
  BY <1>3, <1>6, ConcatPlaces
<1>8. ResultsFollowCalls(s \o t, r.provider)
  <2>1. /\ Len(s) \in Nat /\ DOMAIN s = 1..Len(s) /\ DOMAIN (s \o t) = 1..(Len(s) + 2)
        /\ \A p \in 1..Len(s) : (s \o t)[p] = s[p]
        /\ \A j \in 1..2 : (s \o t)[Len(s) + j] = t[j]
    <3>1. \A u \in Seq(Messages) : DOMAIN u = 1..Len(u) /\ Len(u) \in Nat
      OBVIOUS
    <3>2. /\ Len(s \o t) = Len(s) + Len(t)
          /\ \A p \in 1..Len(s) : (s \o t)[p] = s[p]
          /\ \A j \in 1..Len(t) : (s \o t)[Len(s) + j] = t[j]
      <4>1. \A a, b \in Seq(Messages) :
               /\ Len(a \o b) = Len(a) + Len(b)
               /\ \A p \in 1..Len(a) : (a \o b)[p] = a[p]
               /\ \A j \in 1..Len(b) : (a \o b)[Len(a) + j] = b[j]
        BY ConcatPlaces
      <4>2. QED
        BY <1>3, <1>6, <4>1, Zenon
    <3>3. QED
      BY <1>3, <1>6, <1>7, <3>1, <3>2, Zenon
  <2> SUFFICES ASSUME NEW i \in DOMAIN (s \o t), (s \o t)[i].role = "tool"
               PROVE  \E j \in 1..(i - 1) : Makes((s \o t)[j], (s \o t)[i].result, r.provider)
    BY DEF ResultsFollowCalls
  <2>2. i \in 1..Len(s)
    <3>1. i \notin 1..Len(s) => i - Len(s) \in 1..2 /\ i = Len(s) + (i - Len(s))
      BY <2>1
    <3>2. QED
      BY <1>6, <2>1, <3>1
  <2>3. PICK j \in 1..(i - 1) : Makes(s[j], s[i].result, r.provider)
    BY <1>3, <2>1, <2>2 DEF ResultsFollowCalls
  <2>4. (s \o t)[j] = s[j] /\ (s \o t)[i] = s[i]
    BY <2>1, <2>2
  <2>5. QED
    BY <2>3, <2>4
<1>9. q = [r EXCEPT !.messages = s \o t]
  BY DEF Repaired, s, t, said, correction
<1> HIDE DEF q
<1>10. PICK m : m = s \o t
  OBVIOUS
<1>11. q = [r EXCEPT !.messages = m] /\ m \in M
  BY <1>1, <1>7, <1>9, <1>10
<1>12. q.messages = m /\ q.provider = r.provider /\ q.op = r.op
  BY <1>2, <1>11
<1>13. q \in ChatRequests
  BY <1>1, <1>2, <1>11 DEF ChatRequests
<1>14. QED
  BY <1>2, <1>8, <1>10, <1>12, <1>13 DEF IsRequest, IsChat, q

-----------------------------------------------------------------------------
(* The calls *)

IsCall(k) == DOMAIN k = {"phase", "aborted", "request", "support", "usage", "spent", "attempts"}

\* A call that waits for the catalog or for its reply.
Underway(k) ==
    /\ IsCall(k) /\ k.aborted \in BOOLEAN /\ IsRequest(k.request)
    /\ k.phase = "sending" =>
          \E credentials \in Secrets : FirstError(Checks(k.request, k.support, credentials)) = "none"

\* Who is told of an abort has aborted.
Local(k) == k.phase = "settled" /\ (k.code = "aborted" \/ k.log = "cancelled") => k.aborted

IsCallOf(k) ==
    /\ k.phase \in {"idle", "loading", "sending", "settled"}
    /\ k.phase \in {"loading", "sending"} => Underway(k)
    /\ Local(k)

\* The inductive invariant: what is under way is a request whose checks passed
\* with the support that its body is built with, and who waits for the catalog
\* waits for a load.
RequestsInv ==
    /\ \A c \in Callers : scene[c] = <<>> \/ IsRequest(scene[c])
    /\ DOMAIN call = Callers
    /\ \A c \in Callers : IsCallOf(call[c])
    /\ \A c \in Callers : call[c].phase = "loading" => pending # NoLoad

\* A call that settles.
LEMMA SettledCall ==
    ASSUME NEW k, NEW code, NEW usage, code = "aborted" => k.aborted
    PROVE  IsCallOf(Settled(k, code, usage)) /\ Settled(k, code, usage).phase = "settled"
BY DEF Settled, IsCallOf, Local

\* A call whose body is built: refused, or sent as its checks allow.
LEMMA SentCall ==
    ASSUME NEW k, IsCall(k), k.aborted \in BOOLEAN, IsRequest(k.request), NEW support,
           NEW credentials \in Secrets
    PROVE  IsCallOf(Sent(k, support, credentials)) /\ Sent(k, support, credentials).phase # "loading"
<1> DEFINE error == FirstError(Checks(k.request, support, credentials))
           sent == [k EXCEPT !.phase = "sending", !.support = support, !.attempts = @ + 1]
<1>1. CASE error # "none"
  <2>1. error # "aborted"
    BY ChecksAreNoAborts DEF IsRequest
  <2>2. Sent(k, support, credentials) = Settled(k, error, <<>>)
    BY <1>1 DEF Sent
  <2> HIDE DEF error
  <2>3. QED
    BY <2>1, <2>2, SettledCall
<1>2. CASE error = "none"
  <2>1. Sent(k, support, credentials) = sent
    BY <1>2 DEF Sent
  <2>2. /\ sent.phase = "sending" /\ sent.aborted = k.aborted /\ sent.request = k.request
        /\ sent.support = support /\ IsCall(sent)
    BY DEF IsCall
  <2> HIDE DEF sent
  <2>3. QED
    BY <1>2, <2>1, <2>2 DEF IsCallOf, Underway, Local
<1>3. QED
  BY <1>1, <1>2

\* An attempt: the call is refused, sent, or waits for a load.
LEMMA AttemptedCall ==
    ASSUME RequestsInv, NEW c \in Callers, NEW k, IsCall(k), k.aborted \in BOOLEAN,
           IsRequest(k.request), NEW credentials \in Secrets, Attempt(c, k, credentials)
    PROVE  /\ \E n : call' = [call EXCEPT ![c] = n] /\ IsCallOf(n)
                      /\ (n.phase = "loading" => pending' # NoLoad)
           /\ pending # NoLoad => pending' # NoLoad
<1>1. CASE ~NeedsSupport(k.request)
  <2>1. call' = [call EXCEPT ![c] = Sent(k, Unknown, credentials)] /\ pending' = pending
    BY <1>1 DEF Attempt
  <2>2. QED
    BY <2>1, SentCall
<1>2. CASE NeedsSupport(k.request) /\ cached # NoCatalog /\ fresh
  <2>1. /\ call' = [call EXCEPT ![c] = Sent(k, SupportIn(cached, k.request.model), credentials)]
        /\ pending' = pending
    BY <1>2 DEF Attempt
  <2>2. QED
    BY <2>1, SentCall
<1>3. CASE NeedsSupport(k.request) /\ ~(cached # NoCatalog /\ fresh)
  <2> DEFINE n == [k EXCEPT !.phase = "loading"]
  <2>1. /\ call' = [call EXCEPT ![c] = n]
        /\ pending' = IF pending = NoLoad THEN c ELSE pending
    BY <1>3 DEF Attempt
  <2>2. n.phase = "loading" /\ n.aborted = k.aborted /\ n.request = k.request /\ IsCall(n)
    BY DEF IsCall
  <2> HIDE DEF n
  <2>3. IsCallOf(n)
    BY <2>2 DEF IsCallOf, Underway, Local
  <2>4. pending' # NoLoad
    BY <2>1, RequestsAreSound
  <2>5. QED
    BY <2>1, <2>3, <2>4
<1>4. QED
  BY <1>1, <1>2, <1>3

\* What a step makes of one call leaves the other calls.
LEMMA OneCall ==
    ASSUME RequestsInv, scene' = scene, NEW c \in Callers, NEW n, IsCallOf(n),
           call' = [call EXCEPT ![c] = n],
           n.phase = "loading" => pending' # NoLoad, pending # NoLoad => pending' # NoLoad
    PROVE  RequestsInv'
<1>1. DOMAIN call' = Callers /\ call'[c] = n /\ \A d \in Callers : d # c => call'[d] = call[d]
  BY DEF RequestsInv
<1>2. \A d \in Callers : IsCallOf(call'[d])
  BY <1>1 DEF RequestsInv
<1>3. \A d \in Callers : call'[d].phase = "loading" => pending' # NoLoad
  BY <1>1 DEF RequestsInv
<1>4. \A d \in Callers : scene'[d] = <<>> \/ IsRequest(scene'[d])
  BY DEF RequestsInv
<1>5. QED
  BY <1>1, <1>2, <1>3, <1>4 DEF RequestsInv

\* The invariant holds at first.
LEMMA RequestsInvAtFirst == RequestsInit => RequestsInv
<1> SUFFICES ASSUME RequestsInit PROVE RequestsInv
  OBVIOUS
<1>1. \A c \in Callers : scene[c] = <<>> \/ IsRequest(scene[c])
  BY RequestsAreSound DEF RequestsInit
<1>2. DOMAIN call = Callers /\ \A c \in Callers : call[c].phase = "idle"
  BY DEF RequestsInit, NoCall
<1>3. QED
  BY <1>1, <1>2 DEF RequestsInv, IsCallOf, Local

\* A caller's call keeps the invariant.
LEMMA AskKeeps ==
    ASSUME RequestsInv, NEW c \in Callers, NEW credentials \in Secrets, Ask(c, credentials)
    PROVE  RequestsInv'
<1> DEFINE r == scene[c]
           k == [phase |-> "asked", aborted |-> FALSE, request |-> r, support |-> Unknown,
                 usage |-> <<>>, spent |-> <<>>, attempts |-> 0]
           early == IF NeedsSupport(r)
                    THEN FirstError(<<RequireRequestInput(r), StructuredToolsError(r)>>) ELSE "none"
<1>1. IsRequest(r) /\ scene' = scene
  BY DEF Ask, RequestsInv
<1>2. early # "aborted"
  <2>1. RequireRequestInput(r) # "aborted" /\ StructuredToolsError(r) # "aborted"
    BY DEF RequireRequestInput, StructuredToolsError
  <2>2. PICK errors : errors = <<RequireRequestInput(r), StructuredToolsError(r)>>
    OBVIOUS
  <2>3. 2 \in Nat /\ DOMAIN errors = 1..2 /\ \A i \in 1..2 : errors[i] # "aborted"
    BY <2>1, <2>2
  <2>4. FirstError(errors) # "none" => \E i \in 1..2 : FirstError(errors) = errors[i]
    BY <2>3, FirstErrorOf
  <2>5. QED
    BY <2>2, <2>3, <2>4
<1> HIDE DEF early
<1>3. CASE early # "none"
  <2>1. call' = [call EXCEPT ![c] = Settled(k, early, <<>>)] /\ pending' = pending
    BY <1>3 DEF Ask, early
  <2> HIDE DEF k
  <2>2. IsCallOf(Settled(k, early, <<>>)) /\ Settled(k, early, <<>>).phase = "settled"
    BY <1>2, SettledCall
  <2>3. QED
    BY <1>1, <2>1, <2>2, OneCall
<1>4. CASE early = "none"
  <2>1. Attempt(c, k, credentials)
    BY <1>4 DEF Ask, early
  <2>2. IsCall(k) /\ k.aborted \in BOOLEAN /\ k.request = r
    BY DEF IsCall
  <2> HIDE DEF k
  <2>3. /\ \E n : call' = [call EXCEPT ![c] = n] /\ IsCallOf(n)
                  /\ (n.phase = "loading" => pending' # NoLoad)
        /\ pending # NoLoad => pending' # NoLoad
    BY <1>1, <2>1, <2>2, AttemptedCall
  <2>4. QED
    BY <1>1, <2>3, OneCall
<1>5. QED
  BY <1>3, <1>4

\* A reply that arrives keeps the invariant: settled, or repaired and tried again.
LEMMA AnswerKeeps ==
    ASSUME RequestsInv, NEW c \in Callers, NEW credentials \in Secrets,
           call[c].phase = "sending", NEW reply \in Replies[call[c].request.op],
           Answer(c, reply, credentials)
    PROVE  RequestsInv'
<1> DEFINE k == call[c]
           error == ReplyError(k.request, reply)
           counted == [k EXCEPT !.spent = IF IsChat(k.request) THEN AddUsage(@, reply.usage) ELSE @]
           usage == IF IsChat(k.request) THEN Accumulated(k, reply) ELSE <<>>
           repaired == [counted EXCEPT !.usage = usage, !.request = Repaired(@, reply)]
           again == /\ error = "invalid_structured_output" /\ Repairable(k)
                    /\ k.request.provider \in {"unified", "proxy"}
<1>1. Underway(k) /\ k.phase = "sending" /\ ~k.aborted /\ scene' = scene
  BY DEF RequestsInv, IsCallOf, Answer
<1>2. IsCall(k) /\ IsRequest(k.request) /\ k.aborted \in BOOLEAN
  BY <1>1 DEF Underway
<1>3. error # "aborted" /\ (again => IsChat(k.request))
  BY ReplyErrorOf
<1> HIDE DEF k
<1>4. IsCall(counted) /\ counted.request = k.request /\ counted.aborted = k.aborted
  BY <1>2 DEF IsCall
<1>a. IF again THEN Attempt(c, repaired, credentials)
      ELSE /\ call' = [call EXCEPT ![c] = Settled(counted, error, IF error = "none" THEN usage ELSE <<>>)]
           /\ UNCHANGED pending
  BY DEF Answer, k
<1> HIDE DEF error, usage, counted, again
<1>5. CASE again
  <2>1. Attempt(c, repaired, credentials)
    BY <1>5, <1>a
  <2>2. reply.text \in Texts /\ reply.replay \in Seq(ReplayItems)
    <3>1. k.request.op \in {"complete", "stream"} /\ reply \in Replies[k.request.op]
      BY <1>3, <1>5 DEF IsChat, k
    <3>2. QED
      BY <3>1, RequestsAreSound
  <2>3. IsRequest(Repaired(k.request, reply))
    BY <1>2, <1>3, <1>5, <2>2, RepairedRequest
  <2>4. IsCall(repaired) /\ repaired.request = Repaired(k.request, reply) /\ repaired.aborted = k.aborted
    BY <1>4 DEF IsCall
  <2> HIDE DEF repaired
  <2>5. /\ \E n : call' = [call EXCEPT ![c] = n] /\ IsCallOf(n)
                  /\ (n.phase = "loading" => pending' # NoLoad)
        /\ pending # NoLoad => pending' # NoLoad
    BY <1>2, <2>1, <2>3, <2>4, AttemptedCall
  <2>6. QED
    BY <1>1, <2>5, OneCall
<1>6. CASE ~again
  <2> DEFINE n == Settled(counted, error, IF error = "none" THEN usage ELSE <<>>)
  <2>1. call' = [call EXCEPT ![c] = n] /\ pending' = pending
    BY <1>6, <1>a
  <2>2. IsCallOf(n) /\ n.phase = "settled"
    BY <1>3, SettledCall
  <2> HIDE DEF n
  <2>3. QED
    BY <1>1, <2>1, <2>2, OneCall
<1>7. QED
  BY <1>5, <1>6

\* A load that ends keeps the invariant: nobody goes on waiting for it.
LEMMA LoadEndKeeps ==
    ASSUME RequestsInv, scene' = scene, NEW next,
           \A c \in Loading : IsCallOf(next[c]) /\ next[c].phase # "loading",
           call' = [c \in Callers |-> IF c \in Loading THEN next[c] ELSE call[c]]
    PROVE  RequestsInv'
<1>1. DOMAIN call' = Callers
  OBVIOUS
<1>2. \A c \in Callers : IsCallOf(call'[c]) /\ call'[c].phase # "loading"
  BY DEF RequestsInv, Loading
<1>3. QED
  BY <1>1, <1>2 DEF RequestsInv

\* The catalog that was waited for, and the failure of its load: who aborted is
\* told so, who did not goes on.
LEMMA LoadsKeep ==
    ASSUME RequestsInv, NEW credentials \in Secrets,
           CatalogFails(credentials) \/ \E catalog \in Catalogs : CatalogLoads(catalog, credentials)
    PROVE  RequestsInv'
<1>1. \A c \in Loading : Underway(call[c])
  BY DEF Loading, RequestsInv, IsCallOf
<1>2. CASE CatalogFails(credentials)
  <2> DEFINE next == [c \in Loading |-> Unloaded(call[c], credentials)]
  <2>1. \A c \in Loading : IsCallOf(Unloaded(call[c], credentials))
                         /\ Unloaded(call[c], credentials).phase # "loading"
    <3> TAKE c \in Loading
    <3>1. CASE call[c].aborted
      <4>1. Unloaded(call[c], credentials) = Settled(call[c], "aborted", <<>>)
        BY <3>1 DEF Unloaded
      <4>2. QED
        BY <3>1, <4>1, SettledCall
    <3>2. CASE ~call[c].aborted
      <4> DEFINE support == IF cached = NoCatalog THEN Unknown
                            ELSE SupportIn(cached, call[c].request.model)
      <4>1. Unloaded(call[c], credentials) = Sent(call[c], support, credentials)
        BY <3>2 DEF Unloaded
      <4> HIDE DEF support
      <4>2. QED
        BY <1>1, <4>1, SentCall DEF Underway
    <3>3. QED
      BY <3>1, <3>2
  <2>2. /\ scene' = scene
        /\ call' = [c \in Callers |-> IF c \in Loading THEN next[c] ELSE call[c]]
    BY <1>2 DEF CatalogFails
  <2>3. \A c \in Loading : IsCallOf(next[c]) /\ next[c].phase # "loading"
    BY <2>1
  <2> HIDE DEF next
  <2>4. QED
    BY <2>2, <2>3, LoadEndKeeps
<1>3. CASE \E catalog \in Catalogs : CatalogLoads(catalog, credentials)
  <2>1. PICK catalog \in Catalogs : CatalogLoads(catalog, credentials)
    BY <1>3
  <2> DEFINE next == [c \in Loading |->
                        Sent(call[c], SupportIn(catalog, call[c].request.model), credentials)]
  <2>2. /\ scene' = scene
        /\ call' = [c \in Callers |-> IF c \in Loading THEN next[c] ELSE call[c]]
    BY <2>1 DEF CatalogLoads
  <2>3. \A c \in Loading : IsCallOf(next[c]) /\ next[c].phase # "loading"
    BY <1>1, SentCall DEF Underway
  <2> HIDE DEF next
  <2>4. QED
    BY <2>2, <2>3, LoadEndKeeps
<1>4. QED
  BY <1>2, <1>3

\* Every step of the callers and of the catalog keeps the invariant.
LEMMA RequestsInvKept == RequestsInv /\ [RequestsNext]_requestVars => RequestsInv'
<1> SUFFICES ASSUME RequestsInv, [RequestsNext]_requestVars PROVE RequestsInv'
  OBVIOUS
<1>1. ASSUME NEW credentials \in Secrets, NEW c \in Callers, Ask(c, credentials)
      PROVE  RequestsInv'
  BY <1>1, AskKeeps
<1>2. ASSUME NEW credentials \in Secrets, NEW c \in Callers, Answers(c, credentials)
      PROVE  RequestsInv'
  BY <1>2, AnswerKeeps DEF Answers
<1>3. ASSUME NEW credentials \in Secrets,
             CatalogFails(credentials) \/ \E catalog \in Catalogs : CatalogLoads(catalog, credentials)
      PROVE  RequestsInv'
  BY <1>3, LoadsKeep
<1>4. ASSUME NEW c \in Callers, AbortCall(c)
      PROVE  RequestsInv'
  <2> DEFINE n == [call[c] EXCEPT !.aborted = TRUE]
  <2>1. Underway(call[c]) /\ call[c].phase \in {"loading", "sending"}
    BY <1>4 DEF AbortCall, RequestsInv, IsCallOf
  <2>2. /\ n.phase = call[c].phase /\ n.aborted = TRUE /\ n.request = call[c].request
        /\ n.support = call[c].support /\ IsCall(n)
    BY <2>1 DEF Underway, IsCall
  <2>3. call' = [call EXCEPT ![c] = n] /\ scene' = scene /\ pending' = pending
    BY <1>4 DEF AbortCall
  <2> HIDE DEF n
  <2>4. IsCallOf(n)
    BY <2>1, <2>2 DEF IsCallOf, Underway, Local
  <2>5. n.phase = "loading" => pending' # NoLoad
    BY <2>2, <2>3 DEF RequestsInv
  <2>6. QED
    BY <2>3, <2>4, <2>5, OneCall
<1>5. ASSUME NEW c \in Callers, NEW code \in Failures, CallFails(c, code)
      PROVE  RequestsInv'
  <2> DEFINE n == Settled(call[c], code, <<>>)
  <2>1. /\ call' = [call EXCEPT ![c] = n] /\ scene' = scene /\ pending' = pending
        /\ code = "aborted" => call[c].aborted
    BY <1>5 DEF CallFails
  <2>2. IsCallOf(n) /\ n.phase = "settled"
    BY <2>1, SettledCall
  <2> HIDE DEF n
  <2>3. QED
    BY <2>1, <2>2, OneCall
<1>6. CASE CatalogExpires \/ UNCHANGED requestVars
  <2>1. scene' = scene /\ call' = call /\ pending' = pending
    BY <1>6 DEF CatalogExpires, requestVars
  <2>2. QED
    BY <2>1 DEF RequestsInv
<1>7. QED
  BY <1>1, <1>2, <1>3, <1>4, <1>5, <1>6 DEF RequestsNext

-----------------------------------------------------------------------------
(* The theorems *)

\* Whatever callers, catalogs and replies there are: a request is sent only when
\* all its checks passed with the support that its body is built with, who waits
\* for the catalog waits for a load in flight, and repairs make requests of the
\* same kind (unified/lib.ts complete, unified/catalog.ts).
THEOREM RequestsInvariant == RequestsSpec => []RequestsInv
<1>1. RequestsInit => RequestsInv
  BY RequestsInvAtFirst
<1>2. RequestsInv /\ [RequestsNext]_requestVars => RequestsInv'
  BY RequestsInvKept
<1>3. QED
  BY <1>1, <1>2, PTL DEF RequestsSpec

\* However many callers share the one load of the catalog, only who aborted is
\* told of an abort, and nobody waits for a load that is over.
THEOREM AbortsStayWithTheirCaller == RequestsSpec => []AbortsStayLocal
<1>1. RequestsInv => AbortsStayLocal
  BY DEF RequestsInv, IsCallOf, Local, AbortsStayLocal
<1>2. QED
  BY <1>1, RequestsInvariant, PTL

\* No body offers tools to a model, chooses among them, asks for parallel calls
\* or for a structured output, when the catalog says that the model lacks it,
\* whatever was asked, published, replayed or repaired (unified/prepare.ts); only
\* the tuning that a caller asks for goes out unchecked (openrouter/body.ts).
THEOREM SupportRespected == RequestsSpec => []SupportIsRespected
<1>1. ASSUME RequestsInv PROVE SupportIsRespected
  <2> SUFFICES ASSUME NEW c \in Callers, SendingChat(c), call[c].request.provider = "unified",
                      call[c].support.known
               PROVE  Demands(SentBody(call[c]))
                        \subseteq call[c].support.parameters \cup Tuned(call[c].request)
    BY DEF SupportIsRespected
  <2>1. /\ IsRequest(call[c].request) /\ IsChat(call[c].request)
        /\ \E credentials \in Secrets :
              FirstError(Checks(call[c].request, call[c].support, credentials)) = "none"
    BY <1>1 DEF RequestsInv, IsCallOf, Underway, SendingChat
  <2>2. QED
    BY <2>1, BodyRespectsSupport DEF IsRequest, SentBody
<1>2. QED
  BY <1>1, RequestsInvariant, PTL

\* What a caller asks for is in the body or in its words, at every attempt and
\* with every support of the model (prepare.ts, openrouter/body.ts,
\* openai/body.ts).
THEOREM IntentReaches == RequestsSpec => []IntentReachesModel
<1>1. ASSUME RequestsInv PROVE IntentReachesModel
  <2> SUFFICES ASSUME NEW c \in Callers, SendingChat(c),
                      call[c].request.provider \in OverOpenRouter \cup OverResponses
               PROVE  LET r == call[c].request
                          body == SentBody(call[c])
                      IN  /\ r.choice = "required" => body.choice = "required"
                          /\ r.choice = "none" => body.choice = "none" \/ ~body.tools
                          /\ r.tools /\ r.choice # "none" => body.tools
                          /\ r.parallel = "no" /\ body.tools =>
                               body.parallel = "no" \/ Instructed(body, "sequential")
                          /\ HasSchema(r) => body.format = "json_schema" \/ Instructed(body, "schema")
    BY DEF IntentReachesModel
  <2>1. IsRequest(call[c].request) /\ IsChat(call[c].request)
    BY <1>1 DEF RequestsInv, IsCallOf, Underway, SendingChat
  <2>2. /\ call[c].request \in ChatRequests
        /\ ResultsFollowCalls(call[c].request.messages, call[c].request.provider)
    BY <2>1 DEF IsRequest
  <2>3. QED
    BY <2>2, IntentOfBody DEF SentBody
<1>2. QED
  BY <1>1, RequestsInvariant, PTL

\* Every provider gets the whole conversation, however long it is, whatever is
\* replayed, moved or repaired: results behind their calls, each text of the
\* user in its order, and each of the system (openai/body.ts, openrouter/body.ts,
\* lmstudio bodies).
THEOREM ConversationReachesModel == RequestsSpec => []ConversationArrives
<1>1. ASSUME RequestsInv PROVE ConversationArrives
  <2>1. ASSUME NEW c \in Callers, SendingChat(c)
        PROVE  /\ call[c].request.messages \in Seq(Messages)
               /\ Delivers(SentBody(call[c]).items, call[c].request.messages)
    <3>1. IsRequest(call[c].request) /\ IsChat(call[c].request)
      BY <1>1, <2>1 DEF RequestsInv, IsCallOf, Underway, SendingChat
    <3>2. /\ call[c].request \in ChatRequests
          /\ ResultsFollowCalls(call[c].request.messages, call[c].request.provider)
      BY <3>1 DEF IsRequest
    <3>3. PICK M : M = Seq(Messages)
      OBVIOUS
    <3>4. call[c].request.messages \in M
      BY <3>2, <3>3 DEF ChatRequests
    <3>5. QED
      BY <3>2, <3>3, <3>4, BodyDelivers DEF SentBody
  <2>2. QED
    BY <2>1, DeliveryMeans, Zenon DEF ConversationArrives
<1>2. QED
  BY <1>1, RequestsInvariant, PTL

-----------------------------------------------------------------------------
(* The streams of LlmStream *)

\* The log after some events, and what comes of the pieces of calls of a
\* choice and of the choices of a chunk.
OverEvents == INSTANCE FoldLemmas WITH Op <- Noted
OverCalls == INSTANCE FoldLemmas WITH Op <- ChatCall
OverChoices == INSTANCE FoldLemmas WITH Op <- ChatChoice

\* What an array is.
LEMMA ArrayShape ==
    ASSUME NEW v, IsArray(v)
    PROVE  /\ Len(v) \in Nat /\ DOMAIN v = 1..Len(v)
           /\ v = [i \in 1..Len(v) |-> v[i]]
           /\ \A S : ToSet(v) \subseteq S => v \in Seq(S)
<1>1. v \in Seq(ToSet(v))
  BY DEF IsArray
<1>2. Len(v) \in Nat /\ DOMAIN v = 1..Len(v) /\ v = [i \in 1..Len(v) |-> v[i]]
  BY <1>1
<1>3. \A i \in 1..Len(v) : v[i] \in ToSet(v)
  BY <1>1
<1>4. \A S : ToSet(v) \subseteq S => v \in Seq(S)
  <2> TAKE S
  <2>1. SUFFICES ASSUME ToSet(v) \subseteq S PROVE v \in Seq(S)
    OBVIOUS
  <2>2. \A i \in 1..Len(v) : v[i] \in S
    BY <1>3, <2>1
  <2>3. QED
    BY <1>2, <2>2
<1>5. QED
  BY <1>2, <1>4

\* A sequence of anything is an array.
LEMMA SequencesAreArrays ==
    ASSUME NEW S, NEW v \in Seq(S)
    PROVE  IsArray(v)
<1>1. \A i \in 1..Len(v) : v[i] \in ToSet(v)
  BY DEF ToSet
<1>2. v \in Seq(ToSet(v))
  BY <1>1
<1>3. QED
  BY <1>2 DEF IsArray

\* A function on the first numbers is an array.
LEMMA ArraysByIndex ==
    ASSUME NEW v, NEW n \in Nat, DOMAIN v = 1..n, v = [i \in DOMAIN v |-> v[i]]
    PROVE  IsArray(v) /\ Len(v) = n
<1>1. \A i \in 1..n : v[i] \in ToSet(v)
  BY DEF ToSet
<1>2. v \in [1..n -> ToSet(v)]
  BY <1>1
<1>3. v \in Seq(ToSet(v)) /\ Len(v) = n
  BY <1>2
<1>4. QED
  BY <1>3 DEF IsArray

\* Arrays are joined as sequences are.
LEMMA ArraysJoin ==
    ASSUME NEW a, NEW b, IsArray(a), IsArray(b)
    PROVE  /\ IsArray(a \o b)
           /\ Len(a \o b) = Len(a) + Len(b)
           /\ \A p \in 1..Len(a) : (a \o b)[p] = a[p]
           /\ \A j \in 1..Len(b) : (a \o b)[Len(a) + j] = b[j]
<1>1. PICK S : S = ToSet(a) \cup ToSet(b)
  OBVIOUS
<1>2. a \in Seq(S) /\ b \in Seq(S)
  BY <1>1, ArrayShape
<1>3. /\ a \o b \in Seq(S) /\ Len(a \o b) = Len(a) + Len(b)
      /\ \A p \in 1..Len(a) : (a \o b)[p] = a[p]
      /\ \A j \in 1..Len(b) : (a \o b)[Len(a) + j] = b[j]
  BY <1>2, ConcatPlaces
<1>4. IsArray(a \o b)
  BY <1>3, SequencesAreArrays
<1>5. QED
  BY <1>3, <1>4

\* An element at the end.
LEMMA ArraysGrow ==
    ASSUME NEW a, NEW e, IsArray(a)
    PROVE  IsArray(Append(a, e))
<1>1. PICK S : S = ToSet(a) \cup {e}
  OBVIOUS
<1>2. a \in Seq(S) /\ e \in S
  BY <1>1, ArrayShape
<1>3. Append(a, e) \in Seq(S)
  BY <1>2
<1>4. QED
  BY <1>3, SequencesAreArrays

\* Short arrays.
LEMMA ShortArrays ==
    /\ IsArray(<<>>)
    /\ \A x : IsArray(<<x>>)
    /\ \A x : DOMAIN <<x>> = {1} /\ <<x>>[1] = x /\ Len(<<x>>) = 1
<1>1. <<>> \in Seq({})
  OBVIOUS
<1>2. \A x : <<x>> \in Seq({x})
  OBVIOUS
<1>3. IsArray(<<>>)
  BY <1>1, SequencesAreArrays
<1>4. \A x : IsArray(<<x>>)
  <2> TAKE x
  <2>1. QED
    BY <1>2, SequencesAreArrays
<1>5. \A x : DOMAIN <<x>> = {1} /\ <<x>>[1] = x /\ Len(<<x>>) = 1
  OBVIOUS
<1>6. QED
  BY <1>3, <1>4, <1>5

-----------------------------------------------------------------------------
\* What an event says of the outcome, and when a log tells what was handed out.
Outcome(e) == IF e.type = "error" THEN "failed" ELSE TerminalFromFinish(e.finish)
FirstAt(out, i) == i \in 1..Len(out) /\ IsTerminal(out[i]) /\ \A j \in 1..(i - 1) : ~IsTerminal(out[j])
Unfinished(out) == \A j \in 1..Len(out) : ~IsTerminal(out[j])
Told(out, log) ==
    \/ Unfinished(out) /\ log = <<>>
    \/ \E i \in 1..Len(out) : FirstAt(out, i) /\ log = <<Outcome(out[i])>>

\* One event is noted when it is the first that ends the stream.
LEMMA NotedOne ==
    ASSUME NEW log, NEW e
    PROVE  /\ log # <<>> \/ ~IsTerminal(e) => Noted(log, e) = log
           /\ log = <<>> /\ IsTerminal(e) => Noted(log, e) = <<Outcome(e)>>
<1>1. CASE e.type = "error"
  BY <1>1 DEF Noted, IsTerminal, Outcome
<1>2. CASE e.type = "response.finished"
  BY <1>2 DEF Noted, IsTerminal, Outcome
<1>3. CASE e.type # "error" /\ e.type # "response.finished"
  BY <1>3 DEF Noted, IsTerminal, Outcome
<1>4. QED
  BY <1>1, <1>2, <1>3

\* A sequence either has an event that ends the stream, and a first such event, or not.
LEMMA FirstOrNone ==
    ASSUME NEW out, IsArray(out), ~Unfinished(out)
    PROVE  \E i \in 1..Len(out) : FirstAt(out, i)
<1> DEFINE T == {i \in 1..Len(out) : IsTerminal(out[i])}
<1>1. Len(out) \in Nat
  BY ArrayShape
<1>2. T \subseteq Nat /\ T # {}
  BY <1>1 DEF Unfinished
<1>3. PICK i \in T : \A j \in T : i <= j
  BY <1>2, LeastElement
<1>4. \A j \in 1..(i - 1) : ~IsTerminal(out[j])
  BY <1>1, <1>3
<1>5. QED
  BY <1>3, <1>4 DEF FirstAt

\* The log after some events tells what it told before and what they say.
LEMMA NotedEvents ==
    ASSUME NEW log, NEW s, IsArray(s)
    PROVE  /\ log # <<>> => OverEvents!Fold(log, s) = log
           /\ log = <<>> => Told(s, OverEvents!Fold(log, s))
<1>1. Len(s) \in Nat /\ DOMAIN s = 1..Len(s)
  BY ArrayShape
<1>2. PICK n \in Nat : n = Len(s)
  BY <1>1
<1>3. DOMAIN s = 1..n
  BY <1>1, <1>2
<1>4. PICK h : OverEvents!Steps(h, log, s, n)
  BY <1>3, OverEvents!FoldGoes
<1> DEFINE Quiet(k) == \A j \in 1..k : ~IsTerminal(s[j])
           OK(k) == \/ h[k] = log /\ (log # <<>> \/ Quiet(k))
                    \/ /\ log = <<>>
                       /\ \E i \in 1..k : FirstAt(s, i) /\ h[k] = <<Outcome(s[i])>>
           I == {k \in 0..n : OK(k)}
<1>5. 0 \in I
  BY <1>4 DEF OverEvents!Steps
<1>6. \A k \in 0..(n - 1) : k \in I => k + 1 \in I
  <2> SUFFICES ASSUME NEW k \in 0..(n - 1), OK(k) PROVE OK(k + 1)
    OBVIOUS
  <2>1. k + 1 \in 1..n /\ (k + 1) - 1 = k /\ k \in Nat
    OBVIOUS
  <2>2. h[k + 1] = Noted(h[k], s[k + 1])
    BY <1>4, <2>1 DEF OverEvents!Steps
  <2>3. CASE h[k] = log /\ log # <<>>
    BY <2>2, <2>3, NotedOne
  <2>4. CASE h[k] = log /\ log = <<>> /\ Quiet(k) /\ ~IsTerminal(s[k + 1])
    <3>1. h[k + 1] = log
      BY <2>2, <2>4, NotedOne
    <3>2. Quiet(k + 1)
      BY <2>4, <2>1
    <3>3. QED
      BY <3>1, <3>2
  <2>5. CASE h[k] = log /\ log = <<>> /\ Quiet(k) /\ IsTerminal(s[k + 1])
    <3>1. h[k + 1] = <<Outcome(s[k + 1])>>
      BY <2>2, <2>5, NotedOne
    <3>2. FirstAt(s, k + 1)
      BY <2>5, <2>1, <1>2 DEF FirstAt
    <3>3. QED
      BY <3>1, <3>2, <2>5, <2>1
  <2>6. CASE log = <<>> /\ \E i \in 1..k : FirstAt(s, i) /\ h[k] = <<Outcome(s[i])>>
    <3>1. PICK i \in 1..k : FirstAt(s, i) /\ h[k] = <<Outcome(s[i])>>
      BY <2>6
    <3>2. h[k] # <<>>
      BY <3>1
    <3>3. h[k + 1] = h[k]
      BY <2>2, <3>2, NotedOne
    <3>4. i \in 1..(k + 1)
      BY <2>1
    <3>5. QED
      BY <3>1, <3>3, <3>4, <2>6
  <2>7. QED
    BY <2>3, <2>4, <2>5, <2>6
<1> HIDE DEF I
<1>7. \A k \in 0..n : k \in I
  BY <1>5, <1>6, Upwards
<1>8. OK(n)
  BY <1>7 DEF I
<1>9. QED
  BY <1>8, <1>4, <1>2 DEF Told, Unfinished, OverEvents!Steps

\* ... and so the log of a stream tells what the caller was handed in the end.
LEMMA LogFollows ==
    ASSUME NEW out, NEW log, NEW s, IsArray(out), IsArray(s), Told(out, log)
    PROVE  Told(out \o s, OverEvents!Fold(log, s))
<1>1. /\ Len(out) \in Nat /\ Len(s) \in Nat /\ Len(out \o s) = Len(out) + Len(s)
      /\ \A p \in 1..Len(out) : (out \o s)[p] = out[p]
      /\ \A j \in 1..Len(s) : (out \o s)[Len(out) + j] = s[j]
  BY ArraysJoin, ArrayShape
<1>2. PICK all : all = out \o s
  OBVIOUS
<1>3. PICK noted : noted = OverEvents!Fold(log, s)
  OBVIOUS
<1>4. CASE Unfinished(out) /\ log = <<>>
  <2>1. Told(s, noted)
    BY <1>3, <1>4, NotedEvents
  <2>2. \A p \in 1..Len(all) : p \in 1..Len(out) \/ \E j \in 1..Len(s) : p = Len(out) + j
    <3> TAKE p \in 1..Len(all)
    <3>1. p \in 1..Len(out) \/ (p - Len(out) \in 1..Len(s) /\ p = Len(out) + (p - Len(out)))
      BY <1>1, <1>2
    <3>2. QED
      BY <3>1
  <2>3. CASE Unfinished(s) /\ noted = <<>>
    <3>1. Unfinished(all)
      BY <1>1, <1>2, <1>4, <2>2, <2>3 DEF Unfinished
    <3>2. QED
      BY <3>1, <2>3, <1>2, <1>3 DEF Told
  <2>4. CASE \E i \in 1..Len(s) : FirstAt(s, i) /\ noted = <<Outcome(s[i])>>
    <3>1. PICK i \in 1..Len(s) : FirstAt(s, i) /\ noted = <<Outcome(s[i])>>
      BY <2>4
    <3>2. PICK p : p = Len(out) + i
      OBVIOUS
    <3>3. p \in 1..Len(all) /\ all[p] = s[i]
      BY <1>1, <1>2, <3>2
    <3>4. \A q \in 1..(p - 1) : ~IsTerminal(all[q])
      <4> TAKE q \in 1..(p - 1)
      <4>1. q \in 1..Len(all)
        BY <3>3, <1>1, <1>2
      <4>2. CASE q \in 1..Len(out)
        BY <4>2, <1>1, <1>2, <1>4 DEF Unfinished
      <4>3. CASE \E j \in 1..Len(s) : q = Len(out) + j
        <5>1. PICK j \in 1..Len(s) : q = Len(out) + j
          BY <4>3
        <5>2. j \in 1..(i - 1)
          BY <5>1, <3>2, <1>1
        <5>3. QED
          BY <5>1, <5>2, <3>1, <1>1, <1>2 DEF FirstAt
      <4>4. QED
        BY <4>1, <4>2, <4>3, <2>2
    <3>5. FirstAt(all, p) /\ noted = <<Outcome(all[p])>>
      BY <3>1, <3>3, <3>4 DEF FirstAt
    <3>6. QED
      BY <3>3, <3>5, <1>2, <1>3 DEF Told
  <2>5. QED
    BY <2>1, <2>3, <2>4 DEF Told
<1>5. CASE \E i \in 1..Len(out) : FirstAt(out, i) /\ log = <<Outcome(out[i])>>
  <2>1. PICK i \in 1..Len(out) : FirstAt(out, i) /\ log = <<Outcome(out[i])>>
    BY <1>5
  <2>2. log # <<>>
    BY <2>1
  <2>3. noted = log
    BY <2>2, <1>3, NotedEvents
  <2>4. i \in 1..Len(all) /\ all[i] = out[i] /\ \A j \in 1..(i - 1) : all[j] = out[j]
    BY <1>1, <1>2
  <2>5. FirstAt(all, i) /\ noted = <<Outcome(all[i])>>
    BY <2>1, <2>3, <2>4 DEF FirstAt
  <2>6. QED
    BY <2>4, <2>5, <1>2, <1>3 DEF Told
<1>6. QED
  BY <1>4, <1>5 DEF Told

-----------------------------------------------------------------------------
\* What a stream has collected, and a step whose return ends the stream.
IsState(st) ==
    /\ st = [text |-> st.text, reasoning |-> st.reasoning, refusal |-> st.refusal,
             calls |-> st.calls, items |-> st.items, texts |-> st.texts, parts |-> st.parts,
             usage |-> st.usage, finishReason |-> st.finishReason, replay |-> st.replay]
    /\ IsArray(st.calls)
IsStep(step) ==
    /\ IsState(step.state) /\ IsArray(step.out)
    /\ step.next = "return" => ~Unfinished(step.out)
\* ... and one after which the loop goes on.
GoesOn(step) ==
    /\ step = Yield(step.state, step.out)
    /\ IsState(step.state) /\ IsArray(step.out)

\* What is yielded is a step.
LEMMA YieldIsStep ==
    ASSUME NEW st, NEW out, IsState(st), IsArray(out)
    PROVE  GoesOn(Yield(st, out)) /\ IsStep(Yield(st, out))
BY DEF Yield, GoesOn, IsStep

\* Who goes on makes a step.
LEMMA GoingOnIsStep ==
    ASSUME NEW step, GoesOn(step)
    PROVE  IsStep(step)
BY DEF Yield, GoesOn, IsStep

\* So is leaving the loop.
LEMMA BreakIsStep ==
    ASSUME NEW st, IsState(st)
    PROVE  IsStep(Break(st))
BY ShortArrays DEF Break, IsStep

\* Events behind which the stream ends.
LEMMA EndsWith ==
    ASSUME NEW out, NEW e, IsArray(out), IsTerminal(e)
    PROVE  IsArray(out \o <<e>>) /\ ~Unfinished(out \o <<e>>)
<1>1. /\ IsArray(out \o <<e>>) /\ Len(out \o <<e>>) = Len(out) + 1
      /\ (out \o <<e>>)[Len(out) + 1] = e
  <2>1. IsArray(<<e>>) /\ Len(<<e>>) = 1 /\ <<e>>[1] = e
    BY ShortArrays
  <2>2. PICK one : one = <<e>>
    OBVIOUS
  <2>3. IsArray(out \o one) /\ Len(out \o one) = Len(out) + 1 /\ (out \o one)[Len(out) + 1] = e
    BY <2>1, <2>2, ArraysJoin
  <2>4. QED
    BY <2>2, <2>3
<1>2. Len(out) \in Nat
  BY ArrayShape
<1>3. QED
  BY <1>1, <1>2 DEF Unfinished

\* A return behind events that end the stream.
LEMMA ReturnIsStep ==
    ASSUME NEW st, NEW out, IsState(st), IsArray(out), ~Unfinished(out)
    PROVE  IsStep(Return(st, out))
BY DEF Return, IsStep

\* What is no call may be replaced in what was collected.
LEMMA StatesChange ==
    ASSUME NEW st, IsState(st), NEW v
    PROVE  /\ IsState([st EXCEPT !.text = v]) /\ IsState([st EXCEPT !.reasoning = v])
           /\ IsState([st EXCEPT !.refusal = v]) /\ IsState([st EXCEPT !.items = v])
           /\ IsState([st EXCEPT !.texts = v]) /\ IsState([st EXCEPT !.parts = v])
           /\ IsState([st EXCEPT !.usage = v]) /\ IsState([st EXCEPT !.finishReason = v])
           /\ IsState([st EXCEPT !.replay = v])
           /\ IsArray(v) => IsState([st EXCEPT !.calls = v])
BY DEF IsState

\* The calls stay an array.
LEMMA SetCallIsArray ==
    ASSUME NEW calls, NEW one, IsArray(calls)
    PROVE  IsArray(SetCall(calls, one))
<1>1. CASE \E i \in DOMAIN calls : calls[i].index = one.index
  <2>1. PICK new : new = [i \in DOMAIN calls |-> IF calls[i].index = one.index THEN one ELSE calls[i]]
    OBVIOUS
  <2>2. Len(calls) \in Nat /\ DOMAIN new = 1..Len(calls) /\ new = [i \in DOMAIN new |-> new[i]]
    BY <2>1, ArrayShape
  <2>3. IsArray(new)
    BY <2>2, ArraysByIndex
  <2>4. QED
    BY <1>1, <2>1, <2>3 DEF SetCall
<1>2. CASE ~ \E i \in DOMAIN calls : calls[i].index = one.index
  BY <1>2, ArraysGrow DEF SetCall
<1>3. QED
  BY <1>1, <1>2

\* Optional fields and array fields are arrays.
LEMMA FieldsAreArrays ==
    ASSUME NEW r, NEW f
    PROVE  IsArray(Present(r, f)) /\ IsArray(ArrayField(r, f))
BY ShortArrays DEF Present, ArrayField

\* Array.map gives an array.
LEMMA UsageIsArray ==
    ASSUME NEW usage, IsArray(usage)
    PROVE  IsArray(UsageEvents(usage))
<1>1. PICK new : new = UsageEvents(usage)
  OBVIOUS
<1>2. Len(usage) \in Nat /\ DOMAIN new = 1..Len(usage) /\ new = [i \in DOMAIN new |-> new[i]]
  BY <1>1, ArrayShape DEF UsageEvents
<1>3. QED
  BY <1>1, <1>2, ArraysByIndex

-----------------------------------------------------------------------------
\* One piece of a call.
LEMMA CallGoesOn ==
    ASSUME NEW r, NEW c, GoesOn(r)
    PROVE  GoesOn(ChatCall(r, c))
<1>1. PICK one, e : ChatCall(r, c) = Yield([r.state EXCEPT !.calls = SetCall(r.state.calls, one)],
                                            Append(r.out, e))
  BY Zenon DEF ChatCall
<1>2. IsState(r.state) /\ IsArray(r.state.calls) /\ IsArray(r.out)
  BY DEF GoesOn, IsState
<1>3. IsState([r.state EXCEPT !.calls = SetCall(r.state.calls, one)])
  BY <1>2, SetCallIsArray, StatesChange
<1>4. IsArray(Append(r.out, e))
  BY <1>2, ArraysGrow
<1>5. QED
  BY <1>1, <1>3, <1>4, YieldIsStep

\* All pieces of calls of a choice.
LEMMA CallsGoOn ==
    ASSUME NEW r, NEW s, GoesOn(r), IsArray(s)
    PROVE  GoesOn(OverCalls!Fold(r, s))
<1>1. PICK n \in Nat : n = Len(s) /\ DOMAIN s = 1..n
  BY ArrayShape
<1>2. PICK h : OverCalls!Steps(h, r, s, n)
  BY <1>1, OverCalls!FoldGoes
<1> DEFINE I == {k \in 0..n : GoesOn(h[k])}
<1>3. 0 \in I
  BY <1>2 DEF OverCalls!Steps
<1>4. \A k \in 0..(n - 1) : k \in I => k + 1 \in I
  <2> TAKE k \in 0..(n - 1)
  <2>1. k + 1 \in 1..n /\ k + 1 \in 0..n /\ (k + 1) - 1 = k
    OBVIOUS
  <2>2. h[k + 1] = ChatCall(h[k], s[k + 1])
    BY <1>2, <2>1 DEF OverCalls!Steps
  <2>3. GoesOn(h[k]) => GoesOn(h[k + 1])
    BY <2>2, CallGoesOn
  <2>4. QED
    BY <2>1, <2>3
<1> HIDE DEF I
<1>5. \A k \in 0..n : k \in I
  BY <1>3, <1>4, Upwards
<1>6. n \in I
  BY <1>5
<1>7. QED
  BY <1>2, <1>6 DEF I, OverCalls!Steps

\* One choice of a chunk.
LEMMA ChoiceGoesOn ==
    ASSUME NEW r, NEW choice, GoesOn(r)
    PROVE  GoesOn(ChatChoice(r, choice))
<1> DEFINE text == Present(choice, "content")
           reasoning == Present(choice, "reasoning")
           refusal == Present(choice, "refusal")
           st == [r.state EXCEPT !.replay = @ \o ArrayField(choice, "reasoning_details"),
                                 !.text = @ \o FlattenSeq(text),
                                 !.reasoning = @ \o FlattenSeq(reasoning),
                                 !.refusal = @ \o FlattenSeq(refusal)]
           texts == [i \in DOMAIN text |-> Delta("text.delta", text[i])]
           reasonings == [i \in DOMAIN reasoning |-> Delta("reasoning.delta", reasoning[i])]
           refusals == [i \in DOMAIN refusal |-> Delta("refusal.delta", refusal[i])]
           out == r.out \o texts \o reasonings \o refusals
           called == OverCalls!Fold(Yield(st, out), ArrayField(choice, "tool_calls"))
           reason == FinishReason(Field(choice, "finish_reason", "null"))
<1>1. ChatChoice(r, choice) = Yield([called.state EXCEPT !.finishReason = reason], called.out)
  BY Zenon DEF ChatChoice, OverCalls!Fold, OverCalls!FoldLeft, FoldLeft, OverCalls!MapThenFoldSet,
     MapThenFoldSet, OverCalls!Max, Max
<1>2. IsState(st)
  <2>1. IsState(r.state)
    BY DEF GoesOn
  <2>2. \A q, v : IsState(q) => /\ IsState([q EXCEPT !.replay = v]) /\ IsState([q EXCEPT !.text = v])
                                /\ IsState([q EXCEPT !.reasoning = v])
                                /\ IsState([q EXCEPT !.refusal = v])
    BY StatesChange
  <2>3. PICK v1, v2, v3, v4 :
          st = [r.state EXCEPT !.replay = v1, !.text = v2, !.reasoning = v3, !.refusal = v4]
    <3> HIDE DEF text, reasoning, refusal
    <3>1. PICK q : q = r.state
      OBVIOUS
    <3>2. QED
      BY <2>1, <3>1 DEF IsState
  <2>4. [r.state EXCEPT !.replay = v1, !.text = v2, !.reasoning = v3, !.refusal = v4]
        = [[[[r.state EXCEPT !.replay = v1] EXCEPT !.text = v2] EXCEPT !.reasoning = v3]
             EXCEPT !.refusal = v4]
    OBVIOUS
  <2> HIDE DEF st
  <2>5. QED
    BY <2>1, <2>2, <2>3, <2>4
<1>3. IsArray(texts) /\ IsArray(reasonings) /\ IsArray(refusals)
  <2>1. ASSUME NEW v, NEW kind, IsArray(v)
        PROVE  IsArray([i \in DOMAIN v |-> Delta(kind, v[i])])
    <3>1. PICK new : new = [i \in DOMAIN v |-> Delta(kind, v[i])]
      OBVIOUS
    <3>2. Len(v) \in Nat /\ DOMAIN new = 1..Len(v) /\ new = [i \in DOMAIN new |-> new[i]]
      BY <3>1, <2>1, ArrayShape
    <3>3. QED
      BY <3>1, <3>2, ArraysByIndex
  <2>2. IsArray(text) /\ IsArray(reasoning) /\ IsArray(refusal)
    BY FieldsAreArrays
  <2> HIDE DEF text, reasoning, refusal
  <2>3. QED
    BY <2>1, <2>2
<1>4. IsArray(out)
  <2>1. IsArray(r.out)
    BY DEF GoesOn
  <2>2. \A a, b : IsArray(a) /\ IsArray(b) => IsArray(a \o b)
    BY ArraysJoin
  <2> HIDE DEF texts, reasonings, refusals
  <2>3. QED
    BY <1>3, <2>1, <2>2
<1> HIDE DEF st, out
<1>5. GoesOn(called)
  <2>1. GoesOn(Yield(st, out))
    BY <1>2, <1>4, YieldIsStep
  <2>2. IsArray(ArrayField(choice, "tool_calls"))
    BY FieldsAreArrays
  <2>3. QED
    BY <2>1, <2>2, CallsGoOn
<1> HIDE DEF called, reason
<1>6. IsState(called.state) /\ IsArray(called.out)
  BY <1>5 DEF GoesOn
<1>7. IsState([called.state EXCEPT !.finishReason = reason])
  BY <1>6, StatesChange
<1>8. QED
  BY <1>1, <1>6, <1>7, YieldIsStep

\* All choices of a chunk.
LEMMA ChoicesGoOn ==
    ASSUME NEW r, NEW s, GoesOn(r), IsArray(s)
    PROVE  GoesOn(OverChoices!Fold(r, s))
<1>1. PICK n \in Nat : n = Len(s) /\ DOMAIN s = 1..n
  BY ArrayShape
<1>2. PICK h : OverChoices!Steps(h, r, s, n)
  BY <1>1, OverChoices!FoldGoes
<1> DEFINE I == {k \in 0..n : GoesOn(h[k])}
<1>3. 0 \in I
  BY <1>2 DEF OverChoices!Steps
<1>4. \A k \in 0..(n - 1) : k \in I => k + 1 \in I
  <2> TAKE k \in 0..(n - 1)
  <2>1. k + 1 \in 1..n /\ k + 1 \in 0..n /\ (k + 1) - 1 = k
    OBVIOUS
  <2>2. h[k + 1] = ChatChoice(h[k], s[k + 1])
    BY <1>2, <2>1 DEF OverChoices!Steps
  <2>3. GoesOn(h[k]) => GoesOn(h[k + 1])
    BY <2>2, ChoiceGoesOn
  <2>4. QED
    BY <2>1, <2>3
<1> HIDE DEF I
<1>5. \A k \in 0..n : k \in I
  BY <1>3, <1>4, Upwards
<1>6. n \in I
  BY <1>5
<1>7. QED
  BY <1>2, <1>6 DEF I, OverChoices!Steps

\* A chunk of the chat dialect.
LEMMA ChunkGoesOn ==
    ASSUME NEW st, NEW p, IsState(st)
    PROVE  GoesOn(ChatChunk(st, p))
<1> DEFINE usage == Present(p, "usage")
           counted == IF usage = <<>> THEN st ELSE [st EXCEPT !.usage = usage]
<1>1. ChatChunk(st, p) = OverChoices!Fold(Yield(counted, UsageEvents(usage)), ArrayField(p, "choices"))
  BY Zenon DEF ChatChunk, OverChoices!Fold, OverChoices!FoldLeft, FoldLeft, OverChoices!MapThenFoldSet,
     MapThenFoldSet, OverChoices!Max, Max
<1>2. IsState(counted)
  <2> HIDE DEF usage
  <2>1. QED
    BY StatesChange
<1>3. IsArray(UsageEvents(usage))
  <2>1. IsArray(usage)
    BY FieldsAreArrays
  <2> HIDE DEF usage
  <2>2. QED
    BY <2>1, UsageIsArray
<1> HIDE DEF counted, usage
<1>4. GoesOn(Yield(counted, UsageEvents(usage)))
  BY <1>2, <1>3, YieldIsStep
<1>5. IsArray(ArrayField(p, "choices"))
  BY FieldsAreArrays
<1>6. QED
  BY <1>1, <1>4, <1>5, ChoicesGoOn

-----------------------------------------------------------------------------
\* One event in each dialect, and what follows the loop.
LEMMA ChatIsStep ==
    ASSUME NEW st, NEW ev, IsState(st)
    PROVE  IsStep(Chat(st, ev))
<1>1. \A code : ~Unfinished(<<StreamError(code)>>) /\ IsArray(<<StreamError(code)>>)
  BY ShortArrays DEF Unfinished, StreamError, IsTerminal
<1>2. \A code : IsStep(Return(st, <<StreamError(code)>>))
  BY <1>1, ReturnIsStep
<1>3. IsStep(Break(st))
  BY BreakIsStep
<1>4. \A p : IsStep(ChatChunk(st, p))
  BY ChunkGoesOn, GoingOnIsStep
<1>5. QED
  BY <1>2, <1>3, <1>4, Zenon DEF Chat

\* The finish of a stream.
LEMMA FinishEnds ==
    ASSUME NEW out, NEW finish, IsArray(out)
    PROVE  IsArray(out \o <<Finished(finish)>>) /\ ~Unfinished(out \o <<Finished(finish)>>)
<1>1. IsTerminal(Finished(finish))
  BY DEF IsTerminal, Finished
<1>2. QED
  BY <1>1, EndsWith

\* One event of the native dialect.
LEMMA NativeIsStep ==
    ASSUME NEW st, NEW ev, IsState(st)
    PROVE  IsStep(Native(st, ev))
<1>1. \A code : ~Unfinished(<<StreamError(code)>>) /\ IsArray(<<StreamError(code)>>)
  BY ShortArrays DEF Unfinished, StreamError, IsTerminal
<1>2. \A code : IsStep(Return(st, <<StreamError(code)>>)) /\ IsStep(Yield(st, <<StreamError(code)>>))
  BY <1>1, ReturnIsStep, YieldIsStep
<1>3. IsStep(Break(st)) /\ IsStep(Yield(st, <<>>))
  BY BreakIsStep, YieldIsStep, ShortArrays
<1>4. \A v, e : /\ IsStep(Yield([st EXCEPT !.text = v], <<e>>))
                /\ IsStep(Yield([st EXCEPT !.reasoning = v], <<e>>))
  BY YieldIsStep, StatesChange, ShortArrays
<1>5. \A f, r : IsStep(Return(st, UsageEvents(NativeFinish(st, r).usage) \o <<Finished(f)>>))
  <2> TAKE f, r
  <2>1. PICK usage : usage = NativeFinish(st, r).usage
    OBVIOUS
  <2>2. IsArray(usage)
    <3>1. NativeFinish(st, r).usage = Present(r, "stats")
      BY DEF NativeFinish
    <3>2. QED
      BY <2>1, <3>1, FieldsAreArrays
  <2>3. QED
    BY <2>1, <2>2, UsageIsArray, FinishEnds, ReturnIsStep
<1>6. QED
  BY <1>2, <1>3, <1>4, <1>5, Zenon DEF Native

\* What a delta changes.
LEMMA DeltaGoesOn ==
    ASSUME NEW st, NEW p, IsState(st)
    PROVE  GoesOn(ResponsesDelta(st, p))
<1>1. \A one, e : GoesOn(Yield([st EXCEPT !.calls = SetCall(st.calls, one)], <<e>>))
  <2> TAKE one, e
  <2>1. IsArray(SetCall(st.calls, one))
    BY SetCallIsArray DEF IsState
  <2>2. IsState([st EXCEPT !.calls = SetCall(st.calls, one)])
    BY <2>1, StatesChange
  <2>3. QED
    BY <2>2, YieldIsStep, ShortArrays
<1>2. \A v, e : /\ GoesOn(Yield([st EXCEPT !.text = v], <<e>>))
                /\ GoesOn(Yield([st EXCEPT !.reasoning = v], <<e>>))
                /\ GoesOn(Yield([st EXCEPT !.refusal = v], <<e>>))
  BY YieldIsStep, StatesChange, ShortArrays
<1>3. GoesOn(Yield(st, <<>>))
  BY YieldIsStep, ShortArrays
<1>4. QED
  BY <1>1, <1>2, <1>3, Zenon DEF ResponsesDelta

\* A snapshot of a text is recorded.
LEMMA SnapshotKeepsState ==
    ASSUME NEW st, NEW p, IsState(st)
    PROVE  IsState(RecordTextSnapshot(st, p))
<1>1. \A v : /\ IsState([st EXCEPT !.items = v]) /\ IsState([st EXCEPT !.texts = v])
             /\ IsState([st EXCEPT !.parts = v])
  BY StatesChange
<1>2. QED
  BY <1>1, Zenon DEF RecordTextSnapshot

\* One event of the responses dialect.
LEMMA ResponsesIsStep ==
    ASSUME NEW st, NEW ev, IsState(st)
    PROVE  IsStep(Responses(st, ev))
<1>1. \A code : ~Unfinished(<<StreamError(code)>>) /\ IsArray(<<StreamError(code)>>)
  BY ShortArrays DEF Unfinished, StreamError, IsTerminal
<1>2. IsStep(Return(st, <<StreamError("malformed_stream_event")>>)) /\ IsStep(Break(st))
  BY <1>1, ReturnIsStep, BreakIsStep
<1> DEFINE p == Payload(ev)
           step == ResponsesDelta(st, p)
           kept == RecordTextSnapshot(step.state, p)
           finish == ParseFinished(kept, p.response)
<1>3. IsState(kept) /\ IsArray(step.out)
  <2> HIDE DEF p
  <2>1. IsState(step.state) /\ IsArray(step.out)
    BY DeltaGoesOn DEF GoesOn
  <2> HIDE DEF step
  <2>2. QED
    BY <2>1, SnapshotKeepsState
<1>4. IsStep(Yield(kept, step.out))
  <2> HIDE DEF kept, step
  <2>1. QED
    BY <1>3, YieldIsStep
<1>5. IsStep(Return(kept, step.out \o <<StreamError("provider_error")>>))
  <2> HIDE DEF kept, step
  <2>1. IsTerminal(StreamError("provider_error"))
    BY DEF IsTerminal, StreamError
  <2>2. QED
    BY <1>3, <2>1, EndsWith, ReturnIsStep
<1>6. IsStep(Return(kept, step.out \o UsageEvents(finish.usage) \o <<Finished(finish)>>))
  <2>1. finish.usage = Present(p.response, "usage")
    BY DEF ParseFinished
  <2>2. IsArray(finish.usage)
    BY <2>1, FieldsAreArrays
  <2> HIDE DEF kept, step, finish
  <2>3. IsArray(UsageEvents(finish.usage))
    BY <2>2, UsageIsArray
  <2>4. IsArray(step.out \o UsageEvents(finish.usage))
    BY <1>3, <2>3, ArraysJoin
  <2>5. QED
    BY <1>3, <2>4, FinishEnds, ReturnIsStep
<1>7. QED
  BY <1>2, <1>4, <1>5, <1>6, Zenon DEF Responses

Dialects == {"responses", "chat", "native"}

\* Every event makes a step.
LEMMA HandleIsStep ==
    ASSUME NEW dialect \in Dialects, NEW st, NEW ev, IsState(st)
    PROVE  IsStep(Handle(dialect, st, ev))
<1>1. CASE dialect = "responses"
  BY <1>1, ResponsesIsStep DEF Handle
<1>2. CASE dialect = "chat"
  BY <1>2, ChatIsStep DEF Handle
<1>3. CASE dialect = "native"
  BY <1>3, NativeIsStep DEF Handle
<1>4. QED
  BY <1>1, <1>2, <1>3 DEF Dialects

\* What follows the loop ends the stream.
LEMMA AfterLoopEnds ==
    ASSUME NEW dialect \in Dialects, NEW st, IsState(st)
    PROVE  IsArray(AfterLoop(dialect, st)) /\ ~Unfinished(AfterLoop(dialect, st))
<1>1. \A finish : IsArray(<<Finished(finish)>>) /\ ~Unfinished(<<Finished(finish)>>)
  BY ShortArrays DEF Unfinished, IsTerminal, Finished
<1>2. CASE dialect = "responses"
  <2>1. PICK finish : AfterLoop(dialect, st) = <<Finished(finish)>>
    BY <1>2 DEF AfterLoop, ResponsesEnd
  <2>2. QED
    BY <1>1, <2>1
<1>3. CASE dialect = "chat"
  <2>1. PICK finish : AfterLoop(dialect, st) =
                        [i \in DOMAIN st.calls |-> CallDone(st.calls[i])] \o <<Finished(finish)>>
    BY <1>3 DEF AfterLoop, ChatEnd
  <2>2. PICK new : new = [i \in DOMAIN st.calls |-> CallDone(st.calls[i])]
    OBVIOUS
  <2>3. IsArray(st.calls)
    BY DEF IsState
  <2>4. Len(st.calls) \in Nat /\ DOMAIN new = 1..Len(st.calls) /\ new = [i \in DOMAIN new |-> new[i]]
    BY <2>2, <2>3, ArrayShape
  <2>5. IsArray(new)
    BY <2>4, ArraysByIndex
  <2>6. QED
    BY <2>1, <2>2, <2>5, FinishEnds
<1>4. CASE dialect = "native"
  <2>1. PICK finish : AfterLoop(dialect, st) = <<Finished(finish)>>
    BY <1>4 DEF AfterLoop, NativeEnd
  <2>2. QED
    BY <1>1, <2>1
<1>5. QED
  BY <1>2, <1>3, <1>4 DEF Dialects

-----------------------------------------------------------------------------
\* What a caller is handed of some events ends the stream when they do.
LEMMA HandedOutEnds ==
    ASSUME NEW body, NEW events, IsArray(events)
    PROVE  /\ IsArray(HandedOut(body, events))
           /\ ~Unfinished(events) => ~Unfinished(HandedOut(body, events))
<1>1. Len(events) \in Nat /\ DOMAIN events = 1..Len(events) /\ events \in Seq(ToSet(events))
  BY ArrayShape
<1>2. CASE body.use = "complete" /\ ~Unfinished(events)
  <2>1. \E i \in DOMAIN events : IsTerminal(events[i]) /\ \A j \in 1..(i - 1) : ~IsTerminal(events[j])
    BY <1>1, <1>2, FirstOrNone DEF FirstAt
  <2>2. PICK n : n = CHOOSE i \in DOMAIN events :
                        IsTerminal(events[i]) /\ \A j \in 1..(i - 1) : ~IsTerminal(events[j])
    OBVIOUS
  <2>3. n \in DOMAIN events /\ IsTerminal(events[n])
    BY <2>1, <2>2
  <2>4. HandedOut(body, events) = SubSeq(events, 1, n)
    BY <1>2, <2>1, <2>2 DEF HandedOut
  <2>5. PICK handed : handed = SubSeq(events, 1, n)
    OBVIOUS
  <2>6. handed \in Seq(ToSet(events)) /\ Len(handed) = n /\ handed[n] = events[n] /\ n \in 1..n
    BY <1>1, <2>3, <2>5
  <2>7. IsArray(handed) /\ ~Unfinished(handed)
    BY <2>3, <2>6, SequencesAreArrays DEF Unfinished
  <2>8. QED
    BY <2>4, <2>5, <2>7
<1>3. CASE ~(body.use = "complete" /\ ~Unfinished(events))
  BY <1>1, <1>3 DEF HandedOut, Unfinished
<1>4. QED
  BY <1>2, <1>3

\* The fields of the state of a stream.
IsRun(r) ==
    r = [phase |-> r.phase, at |-> r.at, buffer |-> r.buffer, lines |-> r.lines, sse |-> r.sse,
         state |-> r.state, out |-> r.out, log |-> r.log, aborted |-> r.aborted, end |-> r.end]

\* Before a stream is over its log tells what was handed out; then there is a
\* record in any case.
LogFits(r) ==
    IF r.phase = "closed"
    THEN \/ ~Unfinished(r.out) /\ Told(r.out, r.log)
         \/ /\ Unfinished(r.out)
            /\ r.log = <<IF r.end = "left" \/ r.aborted THEN "cancelled" ELSE "failed">>
    ELSE Told(r.out, r.log)

RunOK(r) ==
    /\ IsRun(r) /\ IsState(r.state) /\ IsArray(r.out)
    /\ r.phase \in {"idle", "reading", "ending", "closed"}
    /\ r.phase = "idle" => r.out = <<>>
    /\ r.phase \in {"idle", "closed"} => r.lines = <<>>
    /\ LogFits(r)

\* What was collected before anything.
LEMMA NothingCollected == IsState(Collected) /\ IsArray(<<>>) /\ IsRun(Idle)
<1>1. IsArray(<<>>)
  BY ShortArrays
<1>2. QED
  BY <1>1, Zenon DEF IsState, Collected, IsRun, Idle

\* The end of a stream.
LEMMA EndedIs ==
    ASSUME NEW r, NEW how, NEW log
    PROVE  LET e == Ended(r, how, log)
           IN  /\ IsRun(e) /\ IsState(e.state) /\ e.phase = "closed" /\ e.end = how /\ e.log = log
               /\ e.lines = <<>> /\ e.out = r.out /\ e.at = r.at /\ e.aborted = r.aborted
<1>1. PICK idle : idle = Idle
  OBVIOUS
<1>2. IsRun(idle) /\ IsState(idle.state) /\ idle.lines = <<>>
  BY <1>1, NothingCollected, Zenon DEF Idle
<1>3. PICK e : e = [idle EXCEPT !.phase = "closed", !.end = how, !.log = log,
                               !.at = r.at, !.out = r.out, !.aborted = r.aborted]
  OBVIOUS
<1>4. e = Ended(r, how, log)
  BY <1>1, <1>3 DEF Ended
<1>5. e.state = idle.state
  BY <1>2, <1>3 DEF IsRun
<1>6. /\ IsRun(e) /\ e.phase = "closed" /\ e.end = how /\ e.log = log
      /\ e.lines = <<>> /\ e.out = r.out /\ e.at = r.at /\ e.aborted = r.aborted
  BY <1>2, <1>3 DEF IsRun
<1>7. IsState(e.state)
  BY <1>2, <1>5
<1>8. QED
  BY <1>4, <1>6, <1>7

\* What it is to yield events: what is handed out, the stream that goes on, and
\* whether it does.
Yields(body, r, events, over, handed, next) ==
    /\ handed = HandedOut(body, events)
    /\ next = [r EXCEPT !.out = r.out \o handed, !.log = OverEvents!Fold(r.log, handed)]
    /\ Yielded(body, r, events, over) =
          IF over \/ (body.use = "complete" /\ ~Unfinished(handed))
          THEN Ended(next, "done", next.log) ELSE next

\* Yielding events: the caller is handed what HandedOut says, the log follows.
LEMMA YieldedIs ==
    ASSUME NEW body, NEW r, NEW events, NEW over \in BOOLEAN, IsArray(events), IsRun(r),
           IsArray(r.out)
    PROVE  \E handed, next : Yields(body, r, events, over, handed, next)
<1> DEFINE handed == HandedOut(body, events)
           log == OverEvents!Fold(r.log, handed)
           next == [r EXCEPT !.out = r.out \o handed, !.log = log]
           left == body.use = "complete" /\ \E i \in DOMAIN handed : IsTerminal(handed[i])
<1>1. Yielded(body, r, events, over) = IF over \/ left THEN Ended(next, "done", log) ELSE next
  BY Zenon DEF Yielded, OverEvents!Fold, OverEvents!FoldLeft, FoldLeft,
     OverEvents!MapThenFoldSet, MapThenFoldSet, OverEvents!Max, Max
<1>2. IsArray(handed)
  BY HandedOutEnds
<1>3. left <=> body.use = "complete" /\ ~Unfinished(handed)
  <2> HIDE DEF handed
  <2>1. DOMAIN handed = 1..Len(handed)
    BY <1>2, ArrayShape
  <2>2. QED
    BY <2>1 DEF Unfinished
<1>4. next.log = log
  <2> HIDE DEF log, handed
  <2>1. QED
    BY DEF IsRun
<1> HIDE DEF handed, next, left, log
<1>5. Yielded(body, r, events, over) =
        IF over \/ (body.use = "complete" /\ ~Unfinished(handed))
        THEN Ended(next, "done", next.log) ELSE next
  BY <1>1, <1>3, <1>4
<1>6. next = [r EXCEPT !.out = r.out \o handed, !.log = OverEvents!Fold(r.log, handed)]
  BY DEF next, log
<1>7. Yields(body, r, events, over, handed, next)
  BY <1>5, <1>6, Zenon DEF handed, Yields
<1>8. QED
  BY <1>7

\* ... and the stream is in order afterwards.
LEMMA YieldedOK ==
    ASSUME NEW body, NEW r, NEW events, NEW over \in BOOLEAN, RunOK(r),
           r.phase \in {"reading", "ending"}, IsArray(events), over => ~Unfinished(events)
    PROVE  RunOK(Yielded(body, r, events, over))
<1>1. IsRun(r) /\ IsState(r.state) /\ IsArray(r.out) /\ Told(r.out, r.log)
  BY DEF RunOK, LogFits
<1>0. PICK handed, next : Yields(body, r, events, over, handed, next)
  BY <1>1, YieldedIs
<1>2. /\ handed = HandedOut(body, events)
      /\ next = [r EXCEPT !.out = r.out \o handed, !.log = OverEvents!Fold(r.log, handed)]
      /\ Yielded(body, r, events, over) =
            IF over \/ (body.use = "complete" /\ ~Unfinished(handed))
            THEN Ended(next, "done", next.log) ELSE next
  BY <1>0, Zenon DEF Yields
<1>3. IsArray(handed) /\ (over => ~Unfinished(handed))
  BY <1>2, HandedOutEnds
<1>4. Told(r.out \o handed, OverEvents!Fold(r.log, handed)) /\ IsArray(r.out \o handed)
  BY <1>1, <1>3, LogFollows, ArraysJoin
<1>5. ~Unfinished(handed) => ~Unfinished(r.out \o handed)
  <2>1. /\ Len(r.out) \in Nat /\ Len(handed) \in Nat
        /\ Len(r.out \o handed) = Len(r.out) + Len(handed)
        /\ \A j \in 1..Len(handed) : (r.out \o handed)[Len(r.out) + j] = handed[j]
    BY <1>1, <1>3, ArraysJoin, ArrayShape
  <2>2. PICK all : all = r.out \o handed
    OBVIOUS
  <2>3. \A j \in 1..Len(handed) : Len(r.out) + j \in 1..Len(all) /\ all[Len(r.out) + j] = handed[j]
    BY <2>1, <2>2
  <2>4. QED
    BY <2>2, <2>3 DEF Unfinished
<1>6. PICK out, log : out = r.out \o handed /\ log = OverEvents!Fold(r.log, handed)
  OBVIOUS
<1>7. /\ IsRun(next) /\ next.phase = r.phase /\ next.state = r.state
      /\ next.out = out /\ next.log = log
  BY <1>1, <1>2, <1>6 DEF IsRun
<1>8. RunOK(next)
  BY <1>1, <1>4, <1>6, <1>7 DEF RunOK, LogFits
<1>9. ~Unfinished(handed) => RunOK(Ended(next, "done", next.log))
  <2>1. PICK e : e = Ended(next, "done", next.log)
    OBVIOUS
  <2>2. /\ IsRun(e) /\ IsState(e.state) /\ e.phase = "closed" /\ e.log = log /\ e.out = out
        /\ e.lines = <<>>
    BY <2>1, <1>7, EndedIs
  <2>3. Told(out, log) /\ IsArray(out) /\ (~Unfinished(handed) => ~Unfinished(out))
    BY <1>4, <1>5, <1>6
  <2>4. ~Unfinished(handed) => RunOK(e)
    BY <2>2, <2>3 DEF RunOK, LogFits
  <2>5. QED
    BY <2>1, <2>4
<1>10. QED
  BY <1>2, <1>3, <1>8, <1>9

\* While a stream is open, nothing but what it handed out and its log matters.
LEMMA RunChanges ==
    ASSUME NEW r, RunOK(r), r.phase \in {"reading", "ending"},
           NEW q, IsRun(q), IsState(q.state), q.phase \in {"reading", "ending"},
           q.out = r.out, q.log = r.log
    PROVE  RunOK(q)
BY DEF RunOK, LogFits

\* One line leaves the stream in order.
LEMMA LinedOK ==
    ASSUME NEW body, body.dialect \in Dialects, NEW r, RunOK(r), r.phase \in {"reading", "ending"},
           NEW line
    PROVE  RunOK(Lined(body, r, line))
<1> DEFINE parsed == ProcessLine(r.sse, line)
           read == [r EXCEPT !.lines = Tail(r.lines), !.sse = parsed.sse]
           step == Handle(body.dialect, r.state, parsed.events[1])
           kept == [read EXCEPT !.state = step.state]
           broken == [kept EXCEPT !.phase = "ending", !.lines = <<>>]
           yielded == Yielded(body, kept, step.out, step.next = "return")
<1>1. Lined(body, r, line) = IF parsed.events = <<>> THEN read
                             ELSE IF step.next = "break" THEN broken ELSE yielded
  BY Zenon DEF Lined
<1>2. IsRun(r) /\ IsState(r.state)
  BY DEF RunOK
<1>3. IsStep(step)
  <2> HIDE DEF parsed
  <2>1. QED
    BY <1>2, HandleIsStep
<1>4. /\ IsRun(read) /\ read.phase = r.phase /\ read.state = r.state /\ read.out = r.out
      /\ read.log = r.log
  <2>1. PICK lines, sse : lines = Tail(r.lines) /\ sse = parsed.sse
    OBVIOUS
  <2>2. PICK q : q = [r EXCEPT !.lines = lines, !.sse = sse]
    OBVIOUS
  <2>3. /\ IsRun(q) /\ q.phase = r.phase /\ q.state = r.state /\ q.out = r.out
        /\ q.log = r.log
    BY <1>2, <2>2 DEF IsRun
  <2>4. q = read
    BY <2>1, <2>2, Zenon
  <2> HIDE DEF read
  <2>5. QED
    BY <2>3, <2>4
<1> HIDE DEF parsed, read, step
<1>5. RunOK(read)
  BY <1>2, <1>4, RunChanges
<1>6. /\ IsRun(kept) /\ kept.phase = read.phase /\ kept.state = step.state /\ kept.out = read.out
      /\ kept.log = read.log
  BY <1>4 DEF IsRun
<1> HIDE DEF kept
<1>7. RunOK(kept)
  BY <1>3, <1>4, <1>5, <1>6, RunChanges DEF IsStep
<1>8. /\ IsRun(broken) /\ broken.phase = "ending" /\ broken.state = kept.state
      /\ broken.out = kept.out /\ broken.log = kept.log
  <2>1. PICK lines : lines = <<>>
    OBVIOUS
  <2>2. PICK q : q = [kept EXCEPT !.phase = "ending", !.lines = lines]
    OBVIOUS
  <2>3. /\ IsRun(q) /\ q.phase = "ending" /\ q.state = kept.state /\ q.out = kept.out
        /\ q.log = kept.log
    BY <1>6, <2>2 DEF IsRun
  <2>4. q = broken
    BY <2>1, <2>2, Zenon
  <2> HIDE DEF broken
  <2>5. QED
    BY <2>3, <2>4
<1> HIDE DEF broken
<1>9. RunOK(broken)
  BY <1>3, <1>4, <1>6, <1>7, <1>8, RunChanges DEF IsStep
<1>10. RunOK(yielded)
  <2>1. IsArray(step.out) /\ (step.next = "return" => ~Unfinished(step.out))
    BY <1>3 DEF IsStep
  <2>2. PICK over \in BOOLEAN : over = (step.next = "return")
    OBVIOUS
  <2>3. RunOK(Yielded(body, kept, step.out, over))
    BY <1>4, <1>6, <1>7, <2>1, <2>2, YieldedOK
  <2>4. QED
    BY <2>2, <2>3
<1> HIDE DEF yielded
<1>11. QED
  BY <1>1, <1>5, <1>9, <1>10

\* A stream that is ended from outside, with its record or with the one that
\* says how.
LEMMA GivenUpOK ==
    ASSUME NEW r, RunOK(r), r.phase # "closed", NEW how \in {"left", "threw"}
    PROVE  LET record == IF how = "left" \/ r.aborted THEN "cancelled" ELSE "failed"
           IN  RunOK(Ended(r, how, IF r.log # <<>> THEN r.log ELSE <<record>>))
<1> DEFINE record == IF how = "left" \/ r.aborted THEN "cancelled" ELSE "failed"
<1>1. PICK log : log = IF r.log # <<>> THEN r.log ELSE <<record>>
  OBVIOUS
<1>2. PICK e : e = Ended(r, how, log)
  OBVIOUS
<1>3. /\ IsRun(e) /\ IsState(e.state) /\ e.phase = "closed" /\ e.end = how /\ e.log = log
      /\ e.lines = <<>> /\ e.out = r.out /\ e.aborted = r.aborted
  BY <1>2, EndedIs
<1>4. IsArray(r.out) /\ Told(r.out, r.log)
  BY DEF RunOK, LogFits
<1>5. r.log = <<>> <=> Unfinished(r.out)
  <2>1. \A x : <<x>> # <<>>
    OBVIOUS
  <2>2. ASSUME NEW i \in 1..Len(r.out), FirstAt(r.out, i) PROVE ~Unfinished(r.out)
    BY <2>2 DEF FirstAt, Unfinished
  <2>3. QED
    BY <1>4, <2>1, <2>2, Zenon DEF Told
<1>6. LogFits(e)
  BY <1>1, <1>3, <1>4, <1>5 DEF LogFits
<1>7. RunOK(e)
  BY <1>3, <1>4, <1>6 DEF RunOK
<1>8. QED
  BY <1>1, <1>2, <1>7

\* A stream that was not read yet, and its start.
LEMMA StartsOK ==
    /\ RunOK(Idle)
    /\ \A r : RunOK(r) /\ r.phase = "idle" =>
          RunOK([r EXCEPT !.phase = "reading", !.out = <<[type |-> "response.started"]>>])
<1>1. Told(<<>>, <<>>)
  <2>1. Unfinished(<<>>)
    BY ShortArrays DEF Unfinished
  <2>2. QED
    BY <2>1, Zenon DEF Told
<1>2. RunOK(Idle)
  <2>1. PICK idle : idle = Idle
    OBVIOUS
  <2>2. /\ idle.phase = "idle" /\ idle.lines = <<>> /\ idle.out = <<>> /\ idle.log = <<>>
        /\ idle.state = Collected
    BY <2>1 DEF Idle
  <2>3. IsRun(idle) /\ IsState(idle.state) /\ IsArray(idle.out)
    BY <2>1, <2>2, NothingCollected, Zenon
  <2>4. RunOK(idle)
    BY <1>1, <2>2, <2>3 DEF RunOK, LogFits
  <2>5. QED
    BY <2>1, <2>4
<1>3. ASSUME NEW r, RunOK(r), r.phase = "idle"
      PROVE  RunOK([r EXCEPT !.phase = "reading", !.out = <<[type |-> "response.started"]>>])
  <2>1. PICK started : started = [type |-> "response.started"]
    OBVIOUS
  <2>2. ~IsTerminal(started)
    BY <2>1 DEF IsTerminal
  <2>3. PICK out : out = <<started>>
    OBVIOUS
  <2>4. IsArray(out) /\ Unfinished(out)
    BY <2>2, <2>3, ShortArrays DEF Unfinished
  <2>5. IsRun(r) /\ IsState(r.state) /\ r.out = <<>> /\ Told(r.out, r.log)
    BY <1>3 DEF RunOK, LogFits
  <2>6. r.log = <<>>
    BY <2>5, ShortArrays DEF Told, FirstAt
  <2>7. PICK q : q = [r EXCEPT !.phase = "reading", !.out = out]
    OBVIOUS
  <2>8. /\ IsRun(q) /\ q.phase = "reading" /\ q.out = out /\ q.log = r.log /\ q.state = r.state
    BY <2>5, <2>7 DEF IsRun
  <2>9. RunOK(q)
    BY <2>4, <2>5, <2>6, <2>8 DEF RunOK, LogFits, Told
  <2>10. QED
    BY <2>1, <2>3, <2>7, <2>9
<1>4. QED
  BY <1>2, <1>3

-----------------------------------------------------------------------------
\* Every stream is in order, and has a body that somebody can collect.
StreamsInv ==
    /\ script \in Scenes
    /\ DOMAIN run = Streams /\ run = [s \in DOMAIN run |-> run[s]]
    /\ \A s \in Streams : RunOK(run[s])

\* The body of a stream is of a known dialect.
LEMMA DialectsKnown ==
    ASSUME script \in Scenes, NEW s \in Streams
    PROVE  Body(s).dialect \in Dialects
<1>1. script \in [Streams -> DOMAIN Bodies]
  BY ScenesAssumption
<1>2. script[s] \in DOMAIN Bodies
  BY <1>1
<1>3. QED
  BY <1>2, BodiesAssumption DEF Body, Dialects

\* A step that puts a stream in order into the place of one leaves all in order.
LEMMA UpdateOK ==
    ASSUME StreamsInv, NEW s \in Streams, NEW q, RunOK(q), Update(s, q), UNCHANGED script
    PROVE  StreamsInv'
BY DEF StreamsInv, Update

\* At first.
LEMMA StreamsInit == ASSUME Init PROVE StreamsInv
BY StartsOK DEF Init, StreamsInv

\* Every step.
LEMMA StreamsNext ==
    ASSUME StreamsInv, [Next]_vars
    PROVE  StreamsInv'
<1>1. ASSUME NEW s \in Streams, Open(s) PROVE StreamsInv'
  <2>1. RunOK(run[s]) /\ run[s].phase = "idle"
    BY <1>1 DEF StreamsInv, Open
  <2>2. QED
    BY <1>1, <2>1, StartsOK, UpdateOK DEF Open
<1>2. ASSUME NEW s \in Streams, NEW n \in 1..Len(Wire(s)), Read(s, n) PROVE StreamsInv'
  <2> DEFINE r == run[s]
             decoded == Decode(s, decoder, SubSeq(Wire(s), r.at + 1, r.at + n))
             cut == Split(r.buffer \o decoded.text)
             q == [r EXCEPT !.at = r.at + n, !.buffer = cut.rest, !.lines = cut.lines]
  <2>1. Update(s, q) /\ r.phase = "reading" /\ UNCHANGED script
    BY <1>2, Zenon DEF Read
  <2>2. RunOK(r) /\ IsRun(r) /\ IsState(r.state)
    BY DEF StreamsInv, RunOK
  <2>3. PICK at, buffer, lines : at = r.at + n /\ buffer = cut.rest /\ lines = cut.lines
    OBVIOUS
  <2>4. PICK p : p = [r EXCEPT !.at = at, !.buffer = buffer, !.lines = lines]
    OBVIOUS
  <2>5. p = q
    BY <2>3, <2>4, Zenon
  <2> HIDE DEF r, q
  <2>6. /\ IsRun(p) /\ p.phase = r.phase /\ p.state = r.state /\ p.out = r.out
        /\ p.log = r.log
    BY <2>2, <2>4 DEF IsRun
  <2>7. RunOK(p)
    BY <2>1, <2>2, <2>6, RunChanges
  <2>8. QED
    BY <2>1, <2>5, <2>7, UpdateOK
<1>3. ASSUME NEW s \in Streams, Line(s) PROVE StreamsInv'
  <2>1. /\ RunOK(run[s]) /\ run[s].phase \in {"reading", "ending"}
        /\ Body(s).dialect \in Dialects
    BY <1>3, DialectsKnown DEF StreamsInv, RunOK, Line
  <2>2. PICK q : q = Lined(Body(s), run[s], Head(run[s].lines))
    OBVIOUS
  <2>3. RunOK(q)
    BY <2>1, <2>2, LinedOK
  <2>4. Update(s, q) /\ UNCHANGED script
    BY <1>3, <2>2 DEF Line
  <2>5. QED
    BY <2>3, <2>4, UpdateOK
<1>4. ASSUME NEW s \in Streams, BodyEnds(s) PROVE StreamsInv'
  <2> DEFINE r == run[s]
             rest == r.buffer \o Flushed(decoder)
             last == (IF rest = <<>> THEN <<>> ELSE <<rest>>) \o <<<<>>>>
             q == [r EXCEPT !.phase = "ending", !.buffer = <<>>, !.lines = last]
  <2>1. Update(s, q) /\ r.phase = "reading" /\ UNCHANGED script
    BY <1>4, Zenon DEF BodyEnds
  <2>2. RunOK(r) /\ IsRun(r) /\ IsState(r.state)
    BY DEF StreamsInv, RunOK
  <2>3. PICK buffer, lines : buffer = <<>> /\ lines = last
    OBVIOUS
  <2>4. PICK p : p = [r EXCEPT !.phase = "ending", !.buffer = buffer, !.lines = lines]
    OBVIOUS
  <2>5. p = q
    BY <2>3, <2>4, Zenon
  <2> HIDE DEF r, q
  <2>6. /\ IsRun(p) /\ p.phase = "ending" /\ p.state = r.state /\ p.out = r.out
        /\ p.log = r.log
    BY <2>2, <2>4 DEF IsRun
  <2>7. RunOK(p)
    BY <2>1, <2>2, <2>6, RunChanges
  <2>8. QED
    BY <2>1, <2>5, <2>7, UpdateOK
<1>5. ASSUME NEW s \in Streams, Finish(s) PROVE StreamsInv'
  <2>1. /\ RunOK(run[s]) /\ run[s].phase = "ending" /\ IsState(run[s].state)
        /\ Body(s).dialect \in Dialects
    BY <1>5, DialectsKnown DEF StreamsInv, RunOK, Finish
  <2>2. PICK events : events = AfterLoop(Body(s).dialect, run[s].state)
    OBVIOUS
  <2>3. IsArray(events) /\ ~Unfinished(events)
    BY <2>1, <2>2, AfterLoopEnds
  <2>4. RunOK(Yielded(Body(s), run[s], events, TRUE))
    BY <2>1, <2>3, YieldedOK
  <2>5. Update(s, Yielded(Body(s), run[s], events, TRUE)) /\ UNCHANGED script
    BY <1>5, <2>2 DEF Finish
  <2>6. QED
    BY <2>4, <2>5, UpdateOK
<1>6. ASSUME NEW s \in Streams, TransportFails(s) PROVE StreamsInv'
  <2> DEFINE r == run[s]
             record == IF "threw" = "left" \/ r.aborted THEN "cancelled" ELSE "failed"
             q == Ended(r, "threw", IF r.log # <<>> THEN r.log ELSE <<record>>)
  <2>1. Update(s, q) /\ r.phase = "reading" /\ UNCHANGED script
    BY <1>6 DEF TransportFails
  <2>2. RunOK(r)
    BY DEF StreamsInv
  <2>3. RunOK(q)
    BY <2>1, <2>2, GivenUpOK
  <2> HIDE DEF q
  <2>4. QED
    BY <2>1, <2>3, UpdateOK
<1>7. ASSUME NEW s \in Streams, Abort(s) PROVE StreamsInv'
  <2>1. RunOK(run[s]) /\ run[s].phase = "reading" /\ IsRun(run[s]) /\ IsState(run[s].state)
    BY <1>7 DEF StreamsInv, RunOK, Abort
  <2>2. PICK r : r = run[s]
    OBVIOUS
  <2>3. PICK q : q = [r EXCEPT !.aborted = TRUE]
    OBVIOUS
  <2>4. /\ IsRun(q) /\ q.phase = r.phase /\ q.state = r.state /\ q.out = r.out
        /\ q.log = r.log
    BY <2>1, <2>2, <2>3 DEF IsRun
  <2>5. RunOK(q)
    BY <2>1, <2>2, <2>4, RunChanges
  <2>6. QED
    BY <1>7, <2>2, <2>3, <2>5, UpdateOK DEF Abort
<1>8. ASSUME NEW s \in Streams, Leave(s) PROVE StreamsInv'
  <2> DEFINE r == run[s]
             record == IF "left" = "left" \/ r.aborted THEN "cancelled" ELSE "failed"
             q == Ended(r, "left", IF r.log # <<>> THEN r.log ELSE <<record>>)
  <2>1. Update(s, q) /\ r.phase # "closed" /\ UNCHANGED script
    BY <1>8 DEF Leave
  <2>2. RunOK(r)
    BY DEF StreamsInv
  <2>3. RunOK(q)
    BY <2>1, <2>2, GivenUpOK
  <2> HIDE DEF q
  <2>4. QED
    BY <2>1, <2>3, UpdateOK
<1>9. CASE UNCHANGED vars
  BY <1>9 DEF vars, StreamsInv
<1>10. QED
  BY <1>1, <1>2, <1>3, <1>4, <1>5, <1>6, <1>7, <1>8, <1>9 DEF Next

\* The first terminal event is the one the log is about.
LEMMA FirstIs ==
    ASSUME NEW out, IsArray(out)
    PROVE  /\ Unfinished(out) => FirstTerminal(out) = <<>>
           /\ \A i \in 1..Len(out) : FirstAt(out, i) => FirstTerminal(out) = <<out[i]>>
<1> DEFINE terminals == {i \in DOMAIN out : IsTerminal(out[i])}
<1>1. DOMAIN out = 1..Len(out) /\ Len(out) \in Nat
  BY ArrayShape
<1>2. Unfinished(out) => terminals = {}
  BY <1>1 DEF Unfinished
<1>3. ASSUME NEW i \in 1..Len(out), FirstAt(out, i) PROVE terminals # {} /\ Min(terminals) = i
  <2>1. i \in terminals /\ \A j \in terminals : i <= j
    BY <1>1, <1>3 DEF FirstAt
  <2> HIDE DEF terminals
  <2>2. \A x \in terminals : (\A y \in terminals : x <= y) => x = i
    <3>1. terminals \subseteq Nat
      BY <1>1 DEF terminals
    <3>2. QED
      BY <2>1, <3>1
  <2>3. QED
    BY <2>1, <2>2 DEF Min
<1>4. FirstTerminal(out) = IF terminals = {} THEN <<>> ELSE <<out[Min(terminals)]>>
  BY Zenon DEF FirstTerminal
<1> HIDE DEF terminals
<1>5. QED
  BY <1>2, <1>3, <1>4, Zenon

\* However a stream in order ends, its log tells what the caller saw first.
LEMMA InOrderTells == ASSUME StreamsInv PROVE LogTellsOutcome
<1> SUFFICES ASSUME NEW s \in Streams
             PROVE  LET r == run[s]
                        first == FirstTerminal(r.out)
                    IN  /\ first # <<>> \/ r.phase = "closed" => Len(r.log) = 1
                        /\ r.log # <<>> =>
                             CASE first # <<>> /\ first[1].type = "error" -> r.log[1] = "failed"
                               [] first # <<>> /\ first[1].type = "response.finished" ->
                                    r.log[1] = TerminalFromFinish(first[1].finish)
                               [] OTHER -> /\ r.phase = "closed"
                                           /\ r.log[1] = IF r.end = "left" \/ r.aborted
                                                         THEN "cancelled" ELSE "failed"
  BY Zenon DEF LogTellsOutcome
<1>1. PICK r : r = run[s]
  OBVIOUS
<1>2. RunOK(r)
  BY <1>1 DEF StreamsInv
<1>3. PICK first : first = FirstTerminal(r.out)
  OBVIOUS
<1>4. IsArray(r.out) /\ LogFits(r)
  BY <1>2 DEF RunOK
<1>5. CASE Told(r.out, r.log) /\ ~Unfinished(r.out)
  <2>1. PICK i \in 1..Len(r.out) : FirstAt(r.out, i) /\ r.log = <<Outcome(r.out[i])>>
    BY <1>5 DEF Told
  <2>2. first = <<r.out[i]>>
    BY <1>3, <1>4, <2>1, FirstIs
  <2>3. PICK e, how : e = r.out[i] /\ how = Outcome(e)
    OBVIOUS
  <2>4. IsTerminal(e) /\ first = <<e>> /\ r.log = <<how>>
    BY <2>1, <2>2, <2>3 DEF FirstAt
  <2>5. first # <<>> /\ first[1] = e /\ r.log # <<>> /\ r.log[1] = how /\ Len(r.log) = 1
    BY <2>4
  <2>6. e.type = "error" => how = "failed"
    BY <2>3 DEF Outcome
  <2>7. e.type = "response.finished" => how = TerminalFromFinish(e.finish)
    BY <2>3 DEF Outcome
  <2>8. e.type = "error" \/ e.type = "response.finished"
    BY <2>4 DEF IsTerminal
  <2>9. QED
    BY <1>1, <1>3, <2>5, <2>6, <2>7, <2>8
<1>6. CASE Unfinished(r.out) /\ r.phase = "closed"
  <2>1. first = <<>>
    BY <1>3, <1>4, <1>6, FirstIs
  <2>2. PICK how : how = IF r.end = "left" \/ r.aborted THEN "cancelled" ELSE "failed"
    OBVIOUS
  <2>3. r.log = <<how>>
    BY <1>4, <1>6, <2>2 DEF LogFits
  <2>4. r.log[1] = how /\ Len(r.log) = 1
    BY <2>3
  <2>5. QED
    BY <1>1, <1>3, <1>6, <2>1, <2>2, <2>4
<1>7. CASE Unfinished(r.out) /\ r.phase # "closed"
  <2>1. first = <<>>
    BY <1>3, <1>4, <1>7, FirstIs
  <2>2. r.log = <<>>
    BY <1>4, <1>7 DEF LogFits, Told, FirstAt, Unfinished
  <2>3. QED
    BY <1>1, <1>3, <1>7, <2>1, <2>2
<1>8. QED
  BY <1>4, <1>5, <1>6, <1>7 DEF LogFits

\* Every stream stays in order: its log tells what it handed out.
THEOREM StreamsInvariant == Spec => []StreamsInv
<1>1. Init => StreamsInv
  BY StreamsInit
<1>2. StreamsInv /\ [Next]_vars => StreamsInv'
  BY StreamsNext
<1>3. QED
  BY <1>1, <1>2, PTL DEF Spec

\* However a stream ends, its log has exactly one final record, and the record
\* says what the caller saw first (logging.ts loggedStream).
THEOREM LogTells == Spec => []LogTellsOutcome
<1>1. StreamsInv => LogTellsOutcome
  BY InOrderTells
<1>2. QED
  BY <1>1, StreamsInvariant, PTL

-----------------------------------------------------------------------------
(* What a stream hands out.  Decoding, cutting into lines and reading lines *)
(* are folds, so that a wire may be taken in parts: what was heard so far   *)
(* and what is to come add up to what one chunk gives, at every step.       *)

\* Arrays of one length with the same elements are one array.
LEMMA ArraysAlike ==
    ASSUME NEW a, NEW b, IsArray(a), IsArray(b), Len(a) = Len(b), \A i \in 1..Len(a) : a[i] = b[i]
    PROVE  a = b
<1>1. a = [i \in 1..Len(a) |-> a[i]] /\ b = [i \in 1..Len(b) |-> b[i]]
  BY ArrayShape
<1>2. QED
  BY <1>1

\* Joining nothing.
LEMMA ArraysNil ==
    ASSUME NEW a, IsArray(a)
    PROVE  a \o <<>> = a /\ <<>> \o a = a
<1>1. a \in Seq(ToSet(a))
  BY ArrayShape
<1>2. QED
  BY <1>1

\* Arrays may be joined in any grouping.
LEMMA ArraysGroup ==
    ASSUME NEW a, NEW b, NEW c, IsArray(a), IsArray(b), IsArray(c)
    PROVE  (a \o b) \o c = a \o (b \o c)
<1>1. PICK ab, bc : ab = a \o b /\ bc = b \o c
  OBVIOUS
<1>2. PICK l, r : l = ab \o c /\ r = a \o bc
  OBVIOUS
<1>3. /\ Len(a) \in Nat /\ Len(b) \in Nat /\ Len(c) \in Nat
      /\ IsArray(ab) /\ Len(ab) = Len(a) + Len(b)
      /\ \A p \in 1..Len(a) : ab[p] = a[p]
      /\ \A j \in 1..Len(b) : ab[Len(a) + j] = b[j]
      /\ IsArray(bc) /\ Len(bc) = Len(b) + Len(c)
      /\ \A p \in 1..Len(b) : bc[p] = b[p]
      /\ \A j \in 1..Len(c) : bc[Len(b) + j] = c[j]
  BY <1>1, ArrayShape, ArraysJoin
<1>4. /\ IsArray(l) /\ Len(l) = Len(ab) + Len(c)
      /\ \A p \in 1..Len(ab) : l[p] = ab[p]
      /\ \A j \in 1..Len(c) : l[Len(ab) + j] = c[j]
  <2>1. IsArray(ab) /\ IsArray(c) /\ l = ab \o c
    BY <1>2, <1>3
  <2>2. QED
    BY <2>1, ArraysJoin
<1>10. /\ IsArray(r) /\ Len(r) = Len(a) + Len(bc)
       /\ \A p \in 1..Len(a) : r[p] = a[p]
       /\ \A j \in 1..Len(bc) : r[Len(a) + j] = bc[j]
  <2>1. IsArray(a) /\ IsArray(bc) /\ r = a \o bc
    BY <1>2, <1>3
  <2>2. QED
    BY <2>1, ArraysJoin
<1>5. PICK na \in Nat, nb \in Nat, nc \in Nat : na = Len(a) /\ nb = Len(b) /\ nc = Len(c)
  BY <1>3
<1>6. Len(l) = Len(r) /\ Len(l) = na + nb + nc
  BY <1>3, <1>4, <1>10, <1>5
<1>11. /\ \A p \in 1..(na + nb) : l[p] = ab[p]
       /\ \A q \in 1..nc : l[(na + nb) + q] = c[q]
  <2>1. Len(ab) = na + nb /\ Len(c) = nc
    BY <1>3, <1>5
  <2>2. QED
    BY <2>1, <1>4
<1>12. /\ \A p \in 1..na : r[p] = a[p]
       /\ \A q \in 1..(nb + nc) : r[na + q] = bc[q]
  <2>1. Len(bc) = nb + nc /\ Len(a) = na
    BY <1>3, <1>5
  <2>2. \A p \in 1..na : r[p] = a[p]
    BY <2>1, <1>10
  <2>3. \A q \in 1..(nb + nc) : r[na + q] = bc[q]
    BY <2>1, <1>10
  <2>4. QED
    BY <2>2, <2>3
<1>7. \A i \in 1..(na + nb + nc) : l[i] = r[i]
  <2> TAKE i \in 1..(na + nb + nc)
  <2>1. CASE i <= na
    <3>1. i \in 1..na /\ i \in 1..(na + nb)
      BY <2>1
    <3>2. l[i] = a[i] /\ r[i] = a[i]
      BY <3>1, <1>3, <1>4, <1>10, <1>5
    <3>3. QED
      BY <3>2
  <2>2. CASE na < i /\ i <= na + nb
    <3>1. PICK j \in 1..nb : i = na + j
      <4>1. i - na \in 1..nb /\ i = na + (i - na)
        BY <2>2
      <4>2. QED
        BY <4>1
    <3>2. i \in 1..(na + nb) /\ j \in 1..(nb + nc)
      BY <2>2, <3>1
    <3>3. l[i] = ab[na + j] /\ ab[na + j] = b[j]
      BY <3>1, <3>2, <1>3, <1>5, <1>11
    <3>5. r[i] = bc[j] /\ bc[j] = b[j]
      BY <3>1, <3>2, <1>3, <1>5, <1>12
    <3>4. QED
      BY <3>3, <3>5
  <2>3. CASE na + nb < i
    <3>1. PICK j \in 1..nc : i = na + nb + j
      <4>1. i - (na + nb) \in 1..nc /\ i = na + nb + (i - (na + nb))
        BY <2>3
      <4>2. QED
        BY <4>1
    <3>2. nb + j \in 1..(nb + nc) /\ i = na + (nb + j)
      BY <3>1
    <3>3. l[i] = c[j]
      BY <3>1, <1>11
    <3>5. r[i] = bc[nb + j] /\ bc[nb + j] = c[j]
      BY <3>2, <1>3, <1>5, <1>12
    <3>4. QED
      BY <3>3, <3>5
  <2>4. QED
    BY <2>1, <2>2, <2>3
<1>8. l = r
  BY <1>4, <1>10, <1>5, <1>6, <1>7, ArraysAlike
<1>9. QED
  BY <1>1, <1>2, <1>8

\* An array grows at its end.
LEMMA ArraysAppend ==
    ASSUME NEW a, NEW b, NEW x, IsArray(a), IsArray(b)
    PROVE  /\ Append(b, x) = b \o <<x>>
           /\ a \o Append(b, x) = Append(a \o b, x)
<1>1. \A v : IsArray(v) => Append(v, x) = v \o <<x>>
  <2> TAKE v
  <2> HAVE IsArray(v)
  <2>1. v \in Seq(ToSet(v) \cup {x})
    BY ArrayShape
  <2>2. QED
    BY <2>1
<1>2. IsArray(a \o b)
  BY ArraysJoin
<1>3. PICK one : one = <<x>>
  OBVIOUS
<1>4. IsArray(one)
  BY <1>3, ShortArrays
<1>5. a \o (b \o one) = (a \o b) \o one
  BY <1>4, ArraysGroup
<1>6. QED
  BY <1>1, <1>2, <1>3, <1>5

\* Two stretches of an array that meet are one.
LEMMA StretchesMeet ==
    ASSUME NEW w, IsArray(w), NEW i \in Nat, NEW j \in Nat, NEW k \in Nat,
           i <= j, j <= k, k <= Len(w)
    PROVE  /\ IsArray(SubSeq(w, i + 1, j)) /\ Len(SubSeq(w, i + 1, j)) = j - i
           /\ IsArray(SubSeq(w, j + 1, k))
           /\ SubSeq(w, i + 1, j) \o SubSeq(w, j + 1, k) = SubSeq(w, i + 1, k)
<1>1. PICK S : w \in Seq(S)
  BY ArrayShape
<1>2. PICK a, b, c : a = SubSeq(w, i + 1, j) /\ b = SubSeq(w, j + 1, k) /\ c = SubSeq(w, i + 1, k)
  OBVIOUS
<1>3. /\ a \in Seq(S) /\ Len(a) = j - i /\ \A p \in 1..(j - i) : a[p] = w[i + p]
      /\ b \in Seq(S) /\ Len(b) = k - j /\ \A p \in 1..(k - j) : b[p] = w[j + p]
      /\ c \in Seq(S) /\ Len(c) = k - i /\ \A p \in 1..(k - i) : c[p] = w[i + p]
  <2>1. /\ a \in Seq(S) /\ Len(a) = j - i /\ \A p \in 1..(j - i) : a[p] = w[i + p]
    BY <1>1, <1>2
  <2>2. /\ b \in Seq(S) /\ Len(b) = k - j /\ \A p \in 1..(k - j) : b[p] = w[j + p]
    BY <1>1, <1>2
  <2>3. /\ c \in Seq(S) /\ Len(c) = k - i /\ \A p \in 1..(k - i) : c[p] = w[i + p]
    BY <1>1, <1>2
  <2>4. QED
    BY <2>1, <2>2, <2>3
<1>4. IsArray(a) /\ IsArray(b) /\ IsArray(c)
  BY <1>3, SequencesAreArrays
<1>5. PICK ab : ab = a \o b
  OBVIOUS
<1>6. /\ IsArray(ab) /\ Len(ab) = Len(a) + Len(b)
      /\ \A p \in 1..Len(a) : ab[p] = a[p]
      /\ \A p \in 1..Len(b) : ab[Len(a) + p] = b[p]
  BY <1>4, <1>5, ArraysJoin
<1>7. Len(ab) = k - i /\ \A p \in 1..(k - i) : ab[p] = c[p]
  <2>1. Len(ab) = k - i
    BY <1>3, <1>6
  <2>2. ASSUME NEW p \in 1..(k - i) PROVE ab[p] = c[p]
    <3>1. CASE p <= j - i
      BY <3>1, <1>3, <1>6
    <3>2. CASE p > j - i
      <4>1. p - (j - i) \in 1..(k - j) /\ p = (j - i) + (p - (j - i)) /\ j + (p - (j - i)) = i + p
        BY <3>2
      <4>2. ab[(j - i) + (p - (j - i))] = b[p - (j - i)]
        BY <4>1, <1>3, <1>6
      <4>3. QED
        BY <4>1, <4>2, <1>3
    <3>3. QED
      BY <3>1, <3>2
  <2>3. QED
    BY <2>1, <2>2
<1>8. ab = c
  BY <1>3, <1>4, <1>6, <1>7, ArraysAlike
<1>9. QED
  BY <1>2, <1>3, <1>4, <1>5, <1>8

\* What one array begins with.
Begins(a, b) == Len(a) <= Len(b) /\ \A i \in 1..Len(a) : a[i] = b[i]

LEMMA BeginsGoesOn ==
    /\ \A a : IsArray(a) => Begins(a, a)
    /\ \A a, b, c : IsArray(a) /\ IsArray(b) /\ IsArray(c) /\ Begins(a, b) /\ Begins(b, c) => Begins(a, c)
    /\ \A a, b : IsArray(a) /\ IsArray(b) => Begins(a, a \o b)
    /\ \A a, b : IsArray(a) /\ IsArray(b) /\ Begins(a, b) => IsPrefix(a, b)
<1>1. \A a : IsArray(a) => Begins(a, a)
  BY ArrayShape DEF Begins
<1>2. ASSUME NEW a, NEW b, NEW c, IsArray(a), IsArray(b), IsArray(c), Begins(a, b), Begins(b, c)
      PROVE  Begins(a, c)
  <2>1. Len(a) \in Nat /\ Len(b) \in Nat /\ Len(c) \in Nat
    BY <1>2, ArrayShape
  <2>2. QED
    BY <1>2, <2>1 DEF Begins
<1>3. ASSUME NEW a, NEW b, IsArray(a), IsArray(b) PROVE Begins(a, a \o b)
  BY <1>3, ArraysJoin, ArrayShape DEF Begins
<1>4. ASSUME NEW a, NEW b, IsArray(a), IsArray(b), Begins(a, b) PROVE IsPrefix(a, b)
  <2>1. PICK n \in Nat, m \in Nat : n = Len(a) /\ m = Len(b)
    BY <1>4, ArrayShape
  <2>2. PICK S, T : a \in Seq(S) /\ b \in Seq(T)
    BY <1>4, ArrayShape
  <2>3. PICK p, q : p = SubSeq(a, 1, n) /\ q = SubSeq(b, 1, n)
    OBVIOUS
  <2>4. n <= m /\ \A i \in 1..n : a[i] = b[i]
    BY <1>4, <2>1 DEF Begins
  <2>5. p \in Seq(S) /\ Len(p) = n /\ \A i \in 1..n : p[i] = a[i]
    BY <2>1, <2>2, <2>3
  <2>6. q \in Seq(T) /\ Len(q) = n /\ \A i \in 1..n : q[i] = b[i]
    BY <2>1, <2>2, <2>3, <2>4
  <2>7. IsArray(p) /\ IsArray(q)
    BY <2>5, <2>6, SequencesAreArrays
  <2>8. p = q
    BY <2>4, <2>5, <2>6, <2>7, ArraysAlike
  <2>9. QED
    BY <2>1, <2>3, <2>4, <2>8 DEF IsPrefix
<1>5. QED
  BY <1>1, <1>2, <1>3, <1>4

-----------------------------------------------------------------------------
\* Decoding, splitting and reading lines go from one chunk to the next.
OverPieces == INSTANCE FoldLemmas WITH Op <- DecodePiece
OverText == INSTANCE FoldLemmas WITH Op <- SplitPiece
OverLines == INSTANCE FoldLemmas WITH Op <- OneLine

Before(o, byte, text) == [owner |-> o, byte |-> byte, text |-> text]
Cut(lines, rest) == [lines |-> lines, rest |-> rest]

LEMMA Folded ==
    /\ \A o, byte, chunk : Decode(o, byte, chunk) = OverPieces!Fold(Before(o, byte, <<>>), chunk)
    /\ \A text : Split(text) = OverText!Fold(Cut(<<>>, <<>>), text)
    /\ \A body, lines :
          AllLines(body, lines) = OverLines!Fold([body |-> body, run |-> Opened], lines)
<1>1. \A o, byte, chunk : Decode(o, byte, chunk) = OverPieces!Fold(Before(o, byte, <<>>), chunk)
  BY Zenon DEF Decode, Before, OverPieces!Fold, OverPieces!FoldLeft, FoldLeft,
     OverPieces!MapThenFoldSet, MapThenFoldSet, OverPieces!Max, Max
<1>2. \A text : Split(text) = OverText!Fold(Cut(<<>>, <<>>), text)
  BY Zenon DEF Split, Cut, OverText!Fold, OverText!FoldLeft, FoldLeft,
     OverText!MapThenFoldSet, MapThenFoldSet, OverText!Max, Max
<1>3. \A body, lines :
         AllLines(body, lines) = OverLines!Fold([body |-> body, run |-> Opened], lines)
  BY Zenon DEF AllLines, OverLines!Fold, OverLines!FoldLeft, FoldLeft,
     OverLines!MapThenFoldSet, MapThenFoldSet, OverLines!Max, Max
<1>4. QED
  BY <1>1, <1>2, <1>3

\* What a decoder is; the text and the byte that come of one piece.
IsDecoder(d, o) == d = Before(o, d.byte, d.text) /\ IsArray(d.text)
PieceText(o, byte, b) ==
    IF b.piece = "closing" THEN <<IF byte = Byte(o, b.value) THEN Good ELSE Bad, b>>
    ELSE (IF byte # NoByte THEN <<Bad>> ELSE <<>>) \o <<b>>
PieceByte(o, b) == IF b.piece = "opening" THEN Byte(o, b.value) ELSE NoByte

LEMMA PieceGoes ==
    ASSUME NEW d, NEW o, NEW b, IsDecoder(d, o)
    PROVE  /\ IsDecoder(DecodePiece(d, b), o)
           /\ DecodePiece(d, b) = Before(o, PieceByte(o, b), d.text \o PieceText(o, d.byte, b))
           /\ IsArray(PieceText(o, d.byte, b))
<1>1. IsArray(PieceText(o, d.byte, b))
  <2>1. PICK junk, one : junk = (IF d.byte # NoByte THEN <<Bad>> ELSE <<>>) /\ one = <<b>>
    OBVIOUS
  <2>2. IsArray(junk) /\ IsArray(one)
    BY <2>1, ShortArrays
  <2>3. \A c : IsArray(<<c, b>>)
    <3> TAKE c
    <3>1. <<c, b>> \in Seq({c, b})
      OBVIOUS
    <3>2. QED
      BY <3>1, SequencesAreArrays
  <2>4. IsArray(junk \o one)
    BY <2>2, ArraysJoin
  <2>5. QED
    BY <2>1, <2>3, <2>4, Zenon DEF PieceText
<1>2. PICK more, byte : more = PieceText(o, d.byte, b) /\ byte = PieceByte(o, b)
  OBVIOUS
<1>3. d.owner = o
  BY DEF IsDecoder, Before
<1>4. DecodePiece(d, b) = [d EXCEPT !.byte = byte, !.text = d.text \o more]
  BY <1>2, <1>3, Zenon DEF DecodePiece, PieceText, PieceByte
<1>5. PICK text : text = d.text \o more
  OBVIOUS
<1>6. IsArray(text)
  BY <1>1, <1>2, <1>5, ArraysJoin DEF IsDecoder
<1>7. [d EXCEPT !.byte = byte, !.text = text] = Before(o, byte, text)
  <2>1. PICK was, had : was = d.byte /\ had = d.text
    OBVIOUS
  <2>2. d = [owner |-> o, byte |-> was, text |-> had]
    BY <2>1, Zenon DEF IsDecoder, Before
  <2>3. PICK e : e = [d EXCEPT !.byte = byte, !.text = text]
    OBVIOUS
  <2>4. e = [owner |-> e.owner, byte |-> e.byte, text |-> e.text]
    BY <2>2, <2>3
  <2>5. e.owner = o /\ e.byte = byte /\ e.text = text
    BY <2>2, <2>3
  <2>6. QED
    BY <2>3, <2>4, <2>5, Zenon DEF Before
<1>8. PICK e : e = DecodePiece(d, b)
  OBVIOUS
<1>9. e = Before(o, byte, text)
  BY <1>4, <1>5, <1>7, <1>8
<1>10. e.byte = byte /\ e.text = text
  BY <1>9 DEF Before
<1>11. QED
  BY <1>1, <1>2, <1>5, <1>6, <1>8, <1>9, <1>10 DEF IsDecoder

\* A decoder stays one.
LEMMA DecoderGoes ==
    ASSUME NEW d, NEW o, IsDecoder(d, o), NEW chunk, IsArray(chunk)
    PROVE  \E h : /\ OverPieces!Steps(h, d, chunk, Len(chunk))
                  /\ \A k \in 0..Len(chunk) : IsDecoder(h[k], o)
<1>1. PICK n \in Nat : n = Len(chunk) /\ DOMAIN chunk = 1..n
  BY ArrayShape
<1>2. PICK h : OverPieces!Steps(h, d, chunk, n)
  BY <1>1, OverPieces!FoldGoes
<1> DEFINE I == {k \in 0..n : IsDecoder(h[k], o)}
<1>3. 0 \in I
  BY <1>2 DEF OverPieces!Steps
<1>4. \A k \in 0..(n - 1) : k \in I => k + 1 \in I
  <2> SUFFICES ASSUME NEW k \in 0..(n - 1), IsDecoder(h[k], o) PROVE IsDecoder(h[k + 1], o)
    <3>1. \A k \in 0..(n - 1) : k + 1 \in 0..n
      OBVIOUS
    <3>2. QED
      BY <3>1, Zenon
  <2>1. k + 1 \in 1..n /\ (k + 1) - 1 = k
    OBVIOUS
  <2>2. h[k + 1] = DecodePiece(h[k], chunk[k + 1])
    BY <2>1, <1>2 DEF OverPieces!Steps
  <2>3. QED
    BY <2>2, PieceGoes
<1> HIDE DEF I
<1>5. \A k \in 0..n : k \in I
  BY <1>3, <1>4, Upwards
<1>6. \A k \in 0..n : IsDecoder(h[k], o)
  BY <1>5 DEF I
<1>7. QED
  BY <1>1, <1>2, <1>6

\* What a decoder has returned before does not matter to what it returns.
LEMMA DecodeShift ==
    ASSUME NEW o, NEW byte, NEW before, IsArray(before), NEW chunk, IsArray(chunk)
    PROVE  /\ IsDecoder(Decode(o, byte, chunk), o)
           /\ OverPieces!Fold(Before(o, byte, before), chunk)
                = Before(o, Decode(o, byte, chunk).byte, before \o Decode(o, byte, chunk).text)
<1>0. \A u, v : IsArray(u) /\ IsArray(v) => (before \o u) \o v = before \o (u \o v)
  BY ArraysGroup
<1>1. PICK d, e : d = Before(o, byte, <<>>) /\ e = Before(o, byte, before)
  OBVIOUS
<1>2. /\ d.byte = byte /\ d.text = <<>> /\ e.byte = byte /\ e.text = before
      /\ IsDecoder(d, o) /\ IsDecoder(e, o)
  BY <1>1, ShortArrays DEF Before, IsDecoder
<1>3. PICK n \in Nat : n = Len(chunk)
  BY ArrayShape
<1>4. PICK g : OverPieces!Steps(g, d, chunk, n) /\ \A k \in 0..n : IsDecoder(g[k], o)
  BY <1>2, <1>3, DecoderGoes
<1>5. PICK h : OverPieces!Steps(h, e, chunk, n) /\ \A k \in 0..n : IsDecoder(h[k], o)
  BY <1>2, <1>3, DecoderGoes
<1> DEFINE Same(k) == h[k].byte = g[k].byte /\ h[k].text = before \o g[k].text
           I == {k \in 0..n : Same(k)}
<1>6. 0 \in I
  <2>1. g[0] = d /\ h[0] = e
    BY <1>4, <1>5 DEF OverPieces!Steps
  <2>2. before \o <<>> = before
    BY ArraysNil
  <2>3. Same(0)
    BY <1>2, <2>1, <2>2, Zenon
  <2> HIDE DEF Same
  <2>4. QED
    BY <2>3
<1>7. \A k \in 0..(n - 1) : k \in I => k + 1 \in I
  <2> SUFFICES ASSUME NEW k \in 0..(n - 1), Same(k) PROVE Same(k + 1)
    <3>1. \A k \in 0..(n - 1) : k + 1 \in 0..n
      OBVIOUS
    <3> HIDE DEF Same
    <3>2. QED
      BY <3>1, Zenon
  <2>1. k + 1 \in 1..n /\ (k + 1) - 1 = k /\ k \in 0..n
    OBVIOUS
  <2>2. g[k + 1] = DecodePiece(g[k], chunk[k + 1]) /\ h[k + 1] = DecodePiece(h[k], chunk[k + 1])
    BY <2>1, <1>4, <1>5 DEF OverPieces!Steps
  <2>3. PICK u, v, b, more : /\ u = g[k] /\ v = h[k] /\ b = chunk[k + 1]
                             /\ more = PieceText(o, u.byte, b)
    OBVIOUS
  <2>4. IsDecoder(u, o) /\ IsDecoder(v, o) /\ v.byte = u.byte /\ v.text = before \o u.text
    BY <1>4, <1>5, <2>1, <2>3
  <2>5. /\ g[k + 1] = Before(o, PieceByte(o, b), u.text \o more)
        /\ h[k + 1] = Before(o, PieceByte(o, b), v.text \o more)
        /\ IsArray(more)
    <3>1. /\ DecodePiece(u, b) = Before(o, PieceByte(o, b), u.text \o PieceText(o, u.byte, b))
          /\ IsArray(PieceText(o, u.byte, b))
      BY <2>4, PieceGoes
    <3>2. DecodePiece(v, b) = Before(o, PieceByte(o, b), v.text \o PieceText(o, v.byte, b))
      BY <2>4, PieceGoes
    <3>3. PieceText(o, v.byte, b) = more
      BY <2>3, <2>4
    <3>4. QED
      BY <2>2, <2>3, <3>1, <3>2, <3>3
  <2>6. IsArray(u.text)
    BY <2>4 DEF IsDecoder
  <2>7. (before \o u.text) \o more = before \o (u.text \o more)
    <3>1. PICK had : had = u.text
      OBVIOUS
    <3>2. IsArray(before) /\ IsArray(had) /\ IsArray(more)
      BY <2>5, <2>6, <3>1
    <3>3. (before \o had) \o more = before \o (had \o more)
      BY <3>2, <1>0
    <3>4. QED
      BY <3>1, <3>3
  <2>8. \A t : Before(o, PieceByte(o, b), t).byte = PieceByte(o, b)
               /\ Before(o, PieceByte(o, b), t).text = t
    BY DEF Before
  <2>9. QED
    BY <2>4, <2>5, <2>7, <2>8, ZenonT(30)
<1> HIDE DEF I
<1>8. \A k \in 0..n : k \in I
  BY <1>6, <1>7, Upwards
<1>9. n \in 0..n
  OBVIOUS
<1>10. Same(n) /\ IsDecoder(g[n], o) /\ IsDecoder(h[n], o)
  BY <1>4, <1>5, <1>8, <1>9 DEF I
<1>11. Decode(o, byte, chunk) = g[n] /\ OverPieces!Fold(Before(o, byte, before), chunk) = h[n]
  BY <1>1, <1>3, <1>4, <1>5, Folded DEF OverPieces!Steps
<1>12. h[n] = Before(o, h[n].byte, h[n].text)
  BY <1>10 DEF IsDecoder
<1>13. QED
  BY <1>10, <1>11, <1>12

\* Two chunks decode like one.
LEMMA DecodeJoins ==
    ASSUME NEW o, NEW byte, NEW a, NEW b, IsArray(a), IsArray(b)
    PROVE  LET first == Decode(o, byte, a)
               second == Decode(o, first.byte, b)
           IN  Decode(o, byte, a \o b) = Before(o, second.byte, first.text \o second.text)
<1>1. PICK first : first = Decode(o, byte, a)
  OBVIOUS
<1>2. IsDecoder(first, o)
  <2>1. IsArray(<<>>)
    BY ShortArrays
  <2>2. QED
    BY <1>1, <2>1, DecodeShift
<1>3. first = Before(o, first.byte, first.text) /\ IsArray(first.text)
  BY <1>2 DEF IsDecoder
<1>4. Decode(o, byte, a \o b) = OverPieces!Fold(first, b)
  <2>1. PICK S, T : a \in Seq(S) /\ b \in Seq(T)
    BY ArrayShape
  <2>2. QED
    BY <1>1, <2>1, Folded, OverPieces!FoldConcat
<1>5. PICK second : second = Decode(o, first.byte, b)
  OBVIOUS
<1>6. OverPieces!Fold(Before(o, first.byte, first.text), b)
        = Before(o, second.byte, first.text \o second.text)
  BY <1>3, <1>5, DecodeShift
<1>7. QED
  BY <1>1, <1>3, <1>4, <1>5, <1>6

\* The byte that is held after a chunk is its owner's.
LEMMA DecodeOwner ==
    ASSUME NEW o, NEW byte, NEW chunk, IsArray(chunk), Len(chunk) >= 1
    PROVE  \/ Decode(o, byte, chunk).byte = NoByte
           \/ Decode(o, byte, chunk).byte.owner = o
<1>1. PICK d : d = Before(o, byte, <<>>)
  OBVIOUS
<1>2. IsDecoder(d, o)
  BY <1>1, ShortArrays DEF Before, IsDecoder
<1>3. PICK n \in Nat : n = Len(chunk)
  BY ArrayShape
<1>4. PICK g : OverPieces!Steps(g, d, chunk, n) /\ \A k \in 0..n : IsDecoder(g[k], o)
  BY <1>2, <1>3, DecoderGoes
<1>5. n \in 1..n /\ n - 1 \in 0..n
  BY <1>3
<1>6. Decode(o, byte, chunk) = DecodePiece(g[n - 1], chunk[n])
  BY <1>1, <1>3, <1>4, <1>5, Folded DEF OverPieces!Steps
<1>7. PICK u, b : u = g[n - 1] /\ b = chunk[n]
  OBVIOUS
<1>8. DecodePiece(u, b) = Before(o, PieceByte(o, b), u.text \o PieceText(o, u.byte, b))
  BY <1>4, <1>5, <1>7, PieceGoes
<1>9. Decode(o, byte, chunk).byte = PieceByte(o, b)
  BY <1>6, <1>7, <1>8 DEF Before
<1>10. QED
  BY <1>9 DEF PieceByte, Byte

\* Whose bytes they are does not matter to what they say.
LEMMA OwnersAlike ==
    ASSUME NEW o, NEW p, o # NoByte.owner, p # NoByte.owner, NEW chunk, IsArray(chunk)
    PROVE  /\ Decode(o, NoByte, chunk).text = Decode(p, NoByte, chunk).text
           /\ Decode(o, NoByte, chunk).byte = NoByte <=> Decode(p, NoByte, chunk).byte = NoByte
<1> DEFINE Alike(x, y) ==
              \/ x = NoByte /\ y = NoByte
              \/ \E v : x = Byte(o, v) /\ y = Byte(p, v)
<1>1. \A v, w : /\ Byte(o, v) # NoByte /\ Byte(p, v) # NoByte
                /\ (Byte(o, v) = Byte(o, w) <=> v = w) /\ (Byte(p, v) = Byte(p, w) <=> v = w)
  <2> TAKE v, w
  <2>1. \A q : Byte(q, v).owner = q /\ Byte(q, v).value = v /\ Byte(q, w).value = w
    BY DEF Byte
  <2>2. QED
    BY <2>1
<1>2. PICK d, e : d = Before(o, NoByte, <<>>) /\ e = Before(p, NoByte, <<>>)
  OBVIOUS
<1>3. /\ d.byte = NoByte /\ d.text = <<>> /\ e.byte = NoByte /\ e.text = <<>>
      /\ IsDecoder(d, o) /\ IsDecoder(e, p)
  BY <1>2, ShortArrays DEF Before, IsDecoder
<1>4. PICK n \in Nat : n = Len(chunk)
  BY ArrayShape
<1>5. PICK g : OverPieces!Steps(g, d, chunk, n) /\ \A k \in 0..n : IsDecoder(g[k], o)
  BY <1>3, <1>4, DecoderGoes
<1>6. PICK h : OverPieces!Steps(h, e, chunk, n) /\ \A k \in 0..n : IsDecoder(h[k], p)
  BY <1>3, <1>4, DecoderGoes
<1> DEFINE Same(k) == h[k].text = g[k].text /\ Alike(g[k].byte, h[k].byte)
           I == {k \in 0..n : Same(k)}
<1>7. 0 \in I
  <2>1. g[0] = d /\ h[0] = e
    BY <1>5, <1>6 DEF OverPieces!Steps
  <2>2. Same(0)
    BY <1>3, <2>1
  <2> HIDE DEF Same
  <2>3. QED
    BY <2>2
<1>8. \A k \in 0..(n - 1) : k \in I => k + 1 \in I
  <2> SUFFICES ASSUME NEW k \in 0..(n - 1), Same(k) PROVE Same(k + 1)
    <3>1. \A k \in 0..(n - 1) : k + 1 \in 0..n
      OBVIOUS
    <3> HIDE DEF Same
    <3>2. QED
      BY <3>1, Zenon
  <2>1. k + 1 \in 1..n /\ (k + 1) - 1 = k /\ k \in 0..n
    OBVIOUS
  <2>2. g[k + 1] = DecodePiece(g[k], chunk[k + 1]) /\ h[k + 1] = DecodePiece(h[k], chunk[k + 1])
    BY <2>1, <1>5, <1>6 DEF OverPieces!Steps
  <2>3. PICK u, v, b : u = g[k] /\ v = h[k] /\ b = chunk[k + 1]
    OBVIOUS
  <2>4. IsDecoder(u, o) /\ IsDecoder(v, p) /\ v.text = u.text /\ Alike(u.byte, v.byte)
    BY <1>5, <1>6, <2>1, <2>3
  <2>5. g[k + 1] = Before(o, PieceByte(o, b), u.text \o PieceText(o, u.byte, b))
    BY <2>2, <2>3, <2>4, PieceGoes
  <2>6. h[k + 1] = Before(p, PieceByte(p, b), v.text \o PieceText(p, v.byte, b))
    BY <2>2, <2>3, <2>4, PieceGoes
  <2>7. PieceText(o, u.byte, b) = PieceText(p, v.byte, b)
    <3>1. u.byte = NoByte <=> v.byte = NoByte
      BY <2>4, <1>1
    <3>2. u.byte = Byte(o, b.value) <=> v.byte = Byte(p, b.value)
      <4> HIDE DEF Same
      <4>1. QED
        BY <2>4, <1>1
    <3> HIDE DEF Alike
    <3>3. QED
      BY <3>1, <3>2 DEF PieceText
  <2>8. Alike(PieceByte(o, b), PieceByte(p, b))
    BY DEF PieceByte
  <2> HIDE DEF Alike
  <2>9. QED
    <3>1. PICK t, i, j : /\ t = u.text \o PieceText(o, u.byte, b)
                         /\ i = PieceByte(o, b) /\ j = PieceByte(p, b)
      OBVIOUS
    <3>2. v.text \o PieceText(p, v.byte, b) = t
      BY <2>4, <2>7, <3>1
    <3>3. g[k + 1] = Before(o, i, t) /\ h[k + 1] = Before(p, j, t)
      BY <2>5, <2>6, <3>1, <3>2
    <3>4. g[k + 1].text = t /\ g[k + 1].byte = i /\ h[k + 1].text = t /\ h[k + 1].byte = j
      BY <3>3 DEF Before
    <3>5. QED
      BY <2>8, <3>1, <3>4
<1> HIDE DEF I
<1>9. \A k \in 0..n : k \in I
  BY <1>7, <1>8, Upwards
<1>10. Same(n)
  BY <1>9 DEF I
<1>11. Decode(o, NoByte, chunk) = g[n] /\ Decode(p, NoByte, chunk) = h[n]
  BY <1>2, <1>4, <1>5, <1>6, Folded DEF OverPieces!Steps
<1>12. g[n].byte = NoByte <=> h[n].byte = NoByte
  BY <1>1, <1>10
<1>13. QED
  BY <1>10, <1>11, <1>12

\* What a cut of a text is.
IsCut(c) == c = Cut(c.lines, c.rest) /\ IsArray(c.lines) /\ IsArray(c.rest)
LineOf(rest) == IF rest # <<>> /\ Last(rest) = CR THEN Front(rest) ELSE rest

LEMMA CutGoes ==
    ASSUME NEW c, IsCut(c), NEW a
    PROVE  /\ IsCut(SplitPiece(c, a))
           /\ SplitPiece(c, a) = IF a # LF THEN Cut(c.lines, Append(c.rest, a))
                                 ELSE Cut(Append(c.lines, LineOf(c.rest)), <<>>)
<1>1. \A x, y : Cut(x, y).lines = x /\ Cut(x, y).rest = y
  BY DEF Cut
<1>2. PICK lines, rest : lines = c.lines /\ rest = c.rest
  OBVIOUS
<1>3. c = [lines |-> lines, rest |-> rest] /\ IsArray(lines) /\ IsArray(rest)
  BY <1>2 DEF IsCut, Cut
<1>4. PICK more, line : more = Append(rest, a) /\ line = Append(lines, LineOf(rest))
  OBVIOUS
<1>5. IsArray(more) /\ IsArray(line) /\ IsArray(<<>>)
  BY <1>3, <1>4, ArraysGrow, ShortArrays
<1>6. CASE a # LF
  <2>1. PICK e : e = [c EXCEPT !.rest = more]
    OBVIOUS
  <2>2. e = [lines |-> e.lines, rest |-> e.rest] /\ e.lines = lines /\ e.rest = more
    BY <1>3, <2>1
  <2>3. SplitPiece(c, a) = e
    BY <1>2, <1>4, <1>6, <2>1, Zenon DEF SplitPiece
  <2>4. e = Cut(lines, more)
    BY <2>2, Zenon DEF Cut
  <2>5. IsCut(e)
    BY <1>3, <1>5, <2>2, <2>4 DEF IsCut
  <2>6. QED
    BY <1>2, <1>4, <1>6, <2>3, <2>4, <2>5
<1>7. CASE a = LF
  <2>1. PICK e : e = Cut(line, <<>>)
    OBVIOUS
  <2>2. SplitPiece(c, a) = e
    BY <1>2, <1>4, <1>7, <2>1, Zenon DEF SplitPiece, Cut, LineOf
  <2>3. e.lines = line /\ e.rest = <<>>
    BY <1>1, <2>1
  <2>4. IsCut(e)
    BY <1>5, <2>1, <2>3 DEF IsCut
  <2>5. QED
    BY <1>2, <1>4, <1>7, <2>1, <2>2, <2>4
<1>8. QED
  BY <1>6, <1>7

\* A text may be split in two parts.
LEMMA SplitConcat ==
    ASSUME NEW a, NEW b, IsArray(a), IsArray(b)
    PROVE  Split(a \o b) = OverText!Fold(Split(a), b)
<1>1. PICK none : none = Cut(<<>>, <<>>)
  OBVIOUS
<1>2. PICK S, T : a \in Seq(S) /\ b \in Seq(T)
  BY ArrayShape
<1>3. OverText!Fold(none, a \o b) = OverText!Fold(OverText!Fold(none, a), b)
  BY <1>2, OverText!FoldConcat
<1>4. \A text : Split(text) = OverText!Fold(none, text)
  BY <1>1, Folded
<1>5. QED
  BY <1>3, <1>4

\* A rest that holds no line.
Unbroken(rest) == IsArray(rest) /\ Split(rest) = Cut(<<>>, rest)

LEMMA UnbrokenGrows ==
    /\ Unbroken(<<>>)
    /\ \A rest, a : Unbroken(rest) /\ a # LF => Unbroken(Append(rest, a))
<1>1. Unbroken(<<>>)
  BY ShortArrays, Folded, OverText!FoldNothing DEF Unbroken
<1>2. ASSUME NEW rest, NEW a, Unbroken(rest), a # LF PROVE Unbroken(Append(rest, a))
  <2>1. IsArray(rest) /\ Split(rest) = Cut(<<>>, rest)
    BY <1>2 DEF Unbroken
  <2>2. PICK one, more : one = <<a>> /\ more = rest \o one
    OBVIOUS
  <2>3. IsArray(one) /\ IsArray(more) /\ Append(rest, a) = more
    BY <2>1, <2>2, ShortArrays, ArraysJoin, ArraysAppend
  <2>4. Split(more) = OverText!Fold(Split(rest), one)
    BY <2>1, <2>2, <2>3, SplitConcat
  <2>5. OverText!Fold(Split(rest), one) = SplitPiece(Split(rest), a)
    BY <2>2, OverText!FoldOne
  <2>6. PICK c : c = Split(rest)
    OBVIOUS
  <2>7. c.lines = <<>> /\ c.rest = rest
    BY <2>1, <2>6 DEF Cut
  <2>8. IsCut(c)
    BY <2>1, <2>6, <2>7, ShortArrays DEF IsCut
  <2>9. SplitPiece(c, a) = Cut(<<>>, more)
    <3>1. SplitPiece(c, a) = Cut(c.lines, Append(c.rest, a))
      BY <1>2, <2>8, CutGoes
    <3>2. QED
      BY <2>3, <2>7, <3>1, Zenon
  <2>10. Split(more) = Cut(<<>>, more)
    BY <2>4, <2>5, <2>6, <2>9
  <2>11. QED
    BY <2>3, <2>10 DEF Unbroken
<1>3. QED
  BY <1>1, <1>2

\* What was cut off before does not matter to what is cut off.
LEMMA SplitShift ==
    ASSUME NEW before, IsArray(before), NEW rest, Unbroken(rest), NEW text, IsArray(text)
    PROVE  LET c == Split(rest \o text)
           IN  /\ IsCut(c) /\ Unbroken(c.rest)
               /\ OverText!Fold(Cut(before, rest), text) = Cut(before \o c.lines, c.rest)
<1>0. /\ IsArray(rest) /\ Split(rest) = Cut(<<>>, rest) /\ IsArray(<<>>)
      /\ before \o <<>> = before
  BY ShortArrays, ArraysNil DEF Unbroken
<1>1. \A v, x : IsArray(v) => before \o Append(v, x) = Append(before \o v, x)
  BY ArraysAppend
<1>2. PICK d, e : d = Cut(<<>>, rest) /\ e = Cut(before, rest)
  OBVIOUS
<1>3. /\ d.lines = <<>> /\ d.rest = rest /\ e.lines = before /\ e.rest = rest
      /\ IsCut(d) /\ IsCut(e)
  BY <1>0, <1>2 DEF Cut, IsCut
<1>4. PICK n \in Nat : n = Len(text) /\ DOMAIN text = 1..n
  BY ArrayShape
<1>5. PICK g : OverText!Steps(g, d, text, n)
  BY <1>4, OverText!FoldGoes
<1>6. PICK h : OverText!Steps(h, e, text, n)
  BY <1>4, OverText!FoldGoes
<1> DEFINE Same(k) == /\ IsCut(g[k]) /\ IsCut(h[k]) /\ Unbroken(g[k].rest)
                      /\ h[k].lines = before \o g[k].lines /\ h[k].rest = g[k].rest
           I == {k \in 0..n : Same(k)}
<1>7. 0 \in I
  <2>1. g[0] = d /\ h[0] = e
    BY <1>5, <1>6 DEF OverText!Steps
  <2>2. Same(0)
    BY <1>0, <1>3, <2>1, Zenon
  <2> HIDE DEF Same
  <2>3. QED
    BY <2>2
<1>8. \A k \in 0..(n - 1) : k \in I => k + 1 \in I
  <2> SUFFICES ASSUME NEW k \in 0..(n - 1), Same(k) PROVE Same(k + 1)
    <3>1. \A k \in 0..(n - 1) : k + 1 \in 0..n
      OBVIOUS
    <3> HIDE DEF Same
    <3>2. QED
      BY <3>1, Zenon
  <2>1. k + 1 \in 1..n /\ (k + 1) - 1 = k
    OBVIOUS
  <2>2. g[k + 1] = SplitPiece(g[k], text[k + 1]) /\ h[k + 1] = SplitPiece(h[k], text[k + 1])
    BY <2>1, <1>5, <1>6 DEF OverText!Steps
  <2>3. PICK u, v, a : u = g[k] /\ v = h[k] /\ a = text[k + 1]
    OBVIOUS
  <2>4. /\ IsCut(u) /\ IsCut(v) /\ Unbroken(u.rest)
        /\ v.lines = before \o u.lines /\ v.rest = u.rest
    BY <2>3
  <2>5. PICK x, y : x = SplitPiece(u, a) /\ y = SplitPiece(v, a)
    OBVIOUS
  <2>6. IsCut(x) /\ x = IF a # LF THEN Cut(u.lines, Append(u.rest, a))
                        ELSE Cut(Append(u.lines, LineOf(u.rest)), <<>>)
    BY <2>4, <2>5, CutGoes
  <2>7. IsCut(y) /\ y = IF a # LF THEN Cut(v.lines, Append(v.rest, a))
                        ELSE Cut(Append(v.lines, LineOf(v.rest)), <<>>)
    BY <2>4, <2>5, CutGoes
  <2>8. \A p, q : Cut(p, q).lines = p /\ Cut(p, q).rest = q
    BY DEF Cut
  <2>9. IsArray(u.lines)
    BY <2>4 DEF IsCut
  <2>10. CASE a # LF
    <3>1. x.lines = u.lines /\ x.rest = Append(u.rest, a) /\ y.lines = v.lines /\ y.rest = x.rest
      <4>1. x = Cut(u.lines, Append(u.rest, a)) /\ y = Cut(v.lines, Append(v.rest, a))
        BY <2>6, <2>7, <2>10, Zenon
      <4>2. x.lines = u.lines /\ x.rest = Append(u.rest, a)
        BY <2>8, <4>1, Zenon
      <4>3. y.lines = v.lines /\ y.rest = Append(v.rest, a)
        BY <2>8, <4>1, Zenon
      <4>4. QED
        BY <2>4, <4>2, <4>3
    <3>2. Unbroken(x.rest)
      BY <2>4, <2>10, <3>1, UnbrokenGrows
    <3>3. QED
      BY <2>2, <2>3, <2>4, <2>5, <2>6, <2>7, <3>1, <3>2, Zenon
  <2>11. CASE a = LF
    <3>1. PICK line : line = LineOf(u.rest)
      OBVIOUS
    <3>2. /\ x.lines = Append(u.lines, line) /\ x.rest = <<>>
          /\ y.lines = Append(v.lines, line) /\ y.rest = <<>>
      <4>1. x = Cut(Append(u.lines, line), <<>>) /\ y = Cut(Append(v.lines, line), <<>>)
        BY <2>4, <2>6, <2>7, <2>11, <3>1, Zenon
      <4>2. QED
        BY <2>8, <4>1, Zenon
    <3>3. y.lines = before \o x.lines
      BY <1>1, <2>4, <2>9, <3>2
    <3>4. Unbroken(x.rest)
      BY <3>2, UnbrokenGrows
    <3>5. QED
      BY <2>2, <2>3, <2>5, <2>6, <2>7, <3>2, <3>3, <3>4, Zenon
  <2>12. QED
    BY <2>10, <2>11
<1> HIDE DEF I
<1>9. \A k \in 0..n : k \in I
  BY <1>7, <1>8, Upwards
<1>10. Same(n)
  BY <1>9 DEF I
<1>11. Split(rest \o text) = g[n]
  <2>1. Split(rest \o text) = OverText!Fold(Split(rest), text)
    BY <1>0, SplitConcat
  <2>2. QED
    BY <2>1, <1>0, <1>2, <1>5 DEF OverText!Steps
<1>12. OverText!Fold(Cut(before, rest), text) = h[n]
  BY <1>2, <1>6 DEF OverText!Steps
<1>13. h[n] = Cut(h[n].lines, h[n].rest)
  BY <1>10 DEF IsCut
<1>14. QED
  BY <1>10, <1>11, <1>12, <1>13

\* Two texts split like one.
LEMMA SplitJoins ==
    ASSUME NEW rest, Unbroken(rest), NEW a, NEW b, IsArray(a), IsArray(b)
    PROVE  LET first == Split(rest \o a)
               second == Split(first.rest \o b)
           IN  /\ Split(rest \o (a \o b)) = Cut(first.lines \o second.lines, second.rest)
               /\ IsCut(first) /\ Unbroken(first.rest) /\ IsCut(second)
<1>1. PICK first : first = Split(rest \o a)
  OBVIOUS
<1>2. IsArray(rest) /\ IsArray(<<>>) /\ IsArray(rest \o a) /\ (rest \o a) \o b = rest \o (a \o b)
  BY ShortArrays, ArraysJoin, ArraysGroup DEF Unbroken
<1>3. IsCut(first) /\ Unbroken(first.rest)
  BY <1>1, <1>2, SplitShift
<1>4. PICK second : second = Split(first.rest \o b)
  OBVIOUS
<1>5. first = Cut(first.lines, first.rest) /\ IsArray(first.lines)
  BY <1>3 DEF IsCut
<1>6. /\ IsCut(second)
      /\ OverText!Fold(Cut(first.lines, first.rest), b)
           = Cut(first.lines \o second.lines, second.rest)
  BY <1>3, <1>4, <1>5, SplitShift
<1>7. Split((rest \o a) \o b) = OverText!Fold(first, b)
  BY <1>1, <1>2, SplitConcat
<1>8. QED
  BY <1>1, <1>2, <1>3, <1>4, <1>5, <1>6, <1>7

-----------------------------------------------------------------------------
\* What a line does to an open stream depends on what was heard and collected
\* only: what the provider makes of it, what is handed out, and whether the
\* loop goes on.
Stepped(body, r, line) ==
    LET parsed == ProcessLine(r.sse, line)
    IN  IF parsed.events = <<>> THEN Yield(r.state, <<>>)
        ELSE Handle(body.dialect, r.state, parsed.events[1])
More(body, r, line) ==
    IF Stepped(body, r, line).next = "break" THEN <<>>
    ELSE HandedOut(body, Stepped(body, r, line).out)
Kind(body, r, line) ==
    CASE Stepped(body, r, line).next = "break" -> "breaks"
      [] Stepped(body, r, line).next # "break" ->
           IF \/ Stepped(body, r, line).next = "return"
              \/ body.use = "complete" /\ ~Unfinished(More(body, r, line))
           THEN "ends" ELSE "goes"

\* A stream, as far as its lines matter.
Orderly(r) == IsRun(r) /\ IsState(r.state) /\ IsArray(r.out)

\* What becomes of a stream with a line.
Went(body, r, line, x) ==
    /\ Orderly(x) /\ x.at = r.at /\ x.aborted = r.aborted
    /\ x.out = r.out \o More(body, r, line)
    /\ Kind(body, r, line) = "ends" => x.phase = "closed" /\ x.end = "done"
    /\ Kind(body, r, line) # "ends" =>
          /\ x.buffer = r.buffer /\ x.end = r.end
          /\ x.sse = ProcessLine(r.sse, line).sse /\ x.state = Stepped(body, r, line).state
          /\ x.log = OverEvents!Fold(r.log, More(body, r, line))
    /\ Kind(body, r, line) = "goes" => x.phase = r.phase /\ x.lines = Tail(r.lines)
    /\ Kind(body, r, line) = "breaks" => x.phase = "ending" /\ x.lines = <<>>

LEMMA HandedNothing ==
    \A body : HandedOut(body, <<>>) = <<>>
<1> TAKE body
<1>1. PICK none : none = <<>>
  OBVIOUS
<1>2. ~\E i \in DOMAIN none : IsTerminal(none[i])
  BY <1>1
<1>3. HandedOut(body, none) = none
  BY <1>2, Zenon DEF HandedOut
<1>4. QED
  BY <1>1, <1>3

\* What is handed out, and the step behind it.
LEMMA MoreIs ==
    ASSUME NEW body, body.dialect \in Dialects, NEW r, Orderly(r), NEW line
    PROVE  /\ IsStep(Stepped(body, r, line)) /\ IsArray(More(body, r, line))
           /\ Kind(body, r, line) \in {"goes", "breaks", "ends"}
<1>1. IsState(r.state)
  BY DEF Orderly
<1>2. IsStep(Yield(r.state, <<>>)) /\ IsArray(<<>>)
  BY <1>1, ShortArrays, YieldIsStep
<1>3. PICK e : e = ProcessLine(r.sse, line).events[1]
  OBVIOUS
<1>4. IsStep(Handle(body.dialect, r.state, e))
  BY <1>1, HandleIsStep
<1>5. IsStep(Stepped(body, r, line))
  BY <1>2, <1>3, <1>4, Zenon DEF Stepped
<1>6. IsArray(HandedOut(body, Stepped(body, r, line).out))
  BY <1>5, HandedOutEnds DEF IsStep
<1>7. IsArray(More(body, r, line))
  BY <1>2, <1>6, Zenon DEF More
<1>8. Kind(body, r, line) \in {"goes", "breaks", "ends"}
  BY DEF Kind
<1>9. QED
  BY <1>5, <1>7, <1>8

LEMMA LinedIs ==
    ASSUME NEW body, body.dialect \in Dialects, NEW r, Orderly(r), NEW line
    PROVE  Went(body, r, line, Lined(body, r, line))
<1> DEFINE parsed == ProcessLine(r.sse, line)
           read == [r EXCEPT !.lines = Tail(r.lines), !.sse = parsed.sse]
           step == Handle(body.dialect, r.state, parsed.events[1])
           kept == [read EXCEPT !.state = step.state]
           broken == [kept EXCEPT !.phase = "ending", !.lines = <<>>]
           yielded == Yielded(body, kept, step.out, step.next = "return")
<1>1. Lined(body, r, line) = IF parsed.events = <<>> THEN read
                             ELSE IF step.next = "break" THEN broken ELSE yielded
  BY Zenon DEF Lined
<1>2. IsRun(r) /\ IsState(r.state) /\ IsArray(r.out)
  BY DEF Orderly
<1>3. Stepped(body, r, line) = IF parsed.events = <<>> THEN Yield(r.state, <<>>) ELSE step
  BY Zenon DEF Stepped
<1>4. PICK more, kind, did : /\ more = More(body, r, line) /\ kind = Kind(body, r, line)
                             /\ did = Stepped(body, r, line)
  OBVIOUS
<1>5. IsStep(did) /\ IsArray(more) /\ kind \in {"goes", "breaks", "ends"}
  BY <1>4, MoreIs
<1>6. PICK sse, lines : sse = parsed.sse /\ lines = Tail(r.lines)
  OBVIOUS
<1>7. PICK q : q = [r EXCEPT !.lines = lines, !.sse = sse]
  OBVIOUS
<1>8. q = read
  BY <1>6, <1>7, Zenon
<1> HIDE DEF parsed
<1>9. /\ IsRun(q) /\ q.phase = r.phase /\ q.at = r.at /\ q.buffer = r.buffer /\ q.lines = lines
      /\ q.sse = sse /\ q.state = r.state /\ q.out = r.out /\ q.log = r.log
      /\ q.aborted = r.aborted /\ q.end = r.end
  BY <1>2, <1>7 DEF IsRun
<1> HIDE DEF read
<1>10. PICK p : p = [q EXCEPT !.state = step.state]
  OBVIOUS
<1>11. p = kept
  BY <1>8, <1>10
<1>12. /\ IsRun(p) /\ p.phase = r.phase /\ p.at = r.at /\ p.buffer = r.buffer /\ p.lines = lines
       /\ p.sse = sse /\ p.state = step.state /\ p.out = r.out /\ p.log = r.log
       /\ p.aborted = r.aborted /\ p.end = r.end
  BY <1>9, <1>10 DEF IsRun
<1>13. \A v : IsArray(v) => v \o <<>> = v
  BY ArraysNil
<1>14. \A log : OverEvents!Fold(log, <<>>) = log
  BY OverEvents!FoldNothing
<1> HIDE DEF step, kept
<1>15. CASE parsed.events = <<>>
  <2>1. did = Yield(r.state, <<>>) /\ Lined(body, r, line) = q
    BY <1>1, <1>3, <1>4, <1>8, <1>15
  <2>2. did.state = r.state /\ did.out = <<>> /\ did.next = "loop"
    BY <2>1, Zenon DEF Yield
  <2>3. more = <<>>
    <3>1. did.next # "break"
      BY <2>2
    <3>2. more = HandedOut(body, did.out)
      BY <1>4, <3>1, Zenon DEF More
    <3>3. QED
      BY <2>2, <3>2, HandedNothing, Zenon
  <2>4. Unfinished(more)
    BY <2>3, ShortArrays DEF Unfinished
  <2>5. kind = "goes"
    BY <1>4, <2>2, <2>4 DEF Kind
  <2>6. q.out = r.out \o more /\ q.log = OverEvents!Fold(r.log, more)
    BY <1>2, <1>9, <1>13, <1>14, <2>3, Zenon
  <2>7. Orderly(q)
    BY <1>2, <1>9 DEF Orderly
  <2>8. Went(body, r, line, q)
    BY <1>4, <1>6, <1>9, <2>2, <2>5, <2>6, <2>7 DEF Went, parsed
  <2>9. QED
    BY <2>1, <2>8
<1>16. CASE parsed.events # <<>> /\ step.next = "break"
  <2>1. did = step /\ Lined(body, r, line) = broken
    BY <1>1, <1>3, <1>4, <1>16, Zenon
  <2>2. PICK none : none = <<>>
    OBVIOUS
  <2>3. PICK b : b = [p EXCEPT !.phase = "ending", !.lines = none]
    OBVIOUS
  <2>4. b = broken
    BY <1>11, <2>2, <2>3, Zenon
  <2>5. /\ IsRun(b) /\ b.phase = "ending" /\ b.at = r.at /\ b.buffer = r.buffer /\ b.lines = none
        /\ b.sse = sse /\ b.state = step.state /\ b.out = r.out /\ b.log = r.log
        /\ b.aborted = r.aborted /\ b.end = r.end
    BY <1>12, <2>3 DEF IsRun
  <2>6. more = <<>> /\ kind = "breaks"
    <3>1. did.next = "break"
      BY <1>16, <2>1
    <3>2. more = <<>>
      BY <1>4, <3>1, Zenon DEF More
    <3>3. kind = "breaks"
      BY <1>4, <3>1 DEF Kind
    <3>4. QED
      BY <3>2, <3>3
  <2>7. b.out = r.out \o more /\ b.log = OverEvents!Fold(r.log, more)
    BY <1>2, <2>5, <1>13, <1>14, <2>6, Zenon
  <2>8. Orderly(b)
    BY <1>2, <1>5, <2>1, <2>5 DEF Orderly, IsStep
  <2>9. Went(body, r, line, b)
    BY <1>4, <1>6, <2>1, <2>2, <2>5, <2>6, <2>7, <2>8 DEF Went, parsed
  <2>10. QED
    BY <2>1, <2>4, <2>9
<1>17. CASE parsed.events # <<>> /\ step.next # "break"
  <2>1. did = step /\ Lined(body, r, line) = yielded
    BY <1>1, <1>3, <1>4, <1>17, Zenon
  <2>2. PICK over \in BOOLEAN : over = (step.next = "return")
    OBVIOUS
  <2>3. IsArray(step.out) /\ IsState(step.state)
    BY <1>5, <2>1 DEF IsStep
  <2>4. PICK handed, next : Yields(body, p, step.out, over, handed, next)
    BY <1>2, <1>12, <2>3, YieldedIs
  <2>5. handed = more
    BY <1>4, <1>17, <2>1, <2>4, Zenon DEF More, Yields
  <2>6. /\ next = [p EXCEPT !.out = p.out \o more, !.log = OverEvents!Fold(p.log, more)]
        /\ Yielded(body, p, step.out, over) =
             IF over \/ (body.use = "complete" /\ ~Unfinished(more))
             THEN Ended(next, "done", next.log) ELSE next
    BY <2>4, <2>5 DEF Yields
  <2>7. PICK out, log : out = r.out \o more /\ log = OverEvents!Fold(r.log, more)
    OBVIOUS
  <2>8. next = [p EXCEPT !.out = out, !.log = log] /\ IsArray(out)
    BY <1>2, <1>5, <1>12, <2>6, <2>7, ArraysJoin
  <2>9. /\ IsRun(next) /\ next.phase = r.phase /\ next.at = r.at /\ next.buffer = r.buffer
        /\ next.lines = lines /\ next.sse = sse /\ next.state = step.state /\ next.out = out
        /\ next.log = log /\ next.aborted = r.aborted /\ next.end = r.end
    BY <1>12, <2>8 DEF IsRun
  <2>10. yielded = IF over \/ (body.use = "complete" /\ ~Unfinished(more))
                   THEN Ended(next, "done", next.log) ELSE next
    BY <1>11, <2>2, <2>6
  <2> HIDE DEF yielded
  <2>11. CASE over \/ (body.use = "complete" /\ ~Unfinished(more))
    <3>1. kind = "ends"
      BY <1>4, <1>17, <2>1, <2>2, <2>11 DEF Kind
    <3>2. PICK e : e = Ended(next, "done", next.log)
      OBVIOUS
    <3>3. /\ IsRun(e) /\ IsState(e.state) /\ e.phase = "closed" /\ e.end = "done"
          /\ e.out = out /\ e.at = r.at /\ e.aborted = r.aborted
      BY <2>9, <3>2, EndedIs
    <3>4. Went(body, r, line, e)
      BY <1>4, <2>7, <2>8, <3>1, <3>3 DEF Went, Orderly
    <3>5. QED
      BY <2>1, <2>10, <2>11, <3>2, <3>4
  <2>12. CASE ~(over \/ (body.use = "complete" /\ ~Unfinished(more)))
    <3>1. kind = "goes"
      BY <1>4, <1>17, <2>1, <2>2, <2>12 DEF Kind
    <3>2. Orderly(next)
      BY <2>3, <2>8, <2>9 DEF Orderly
    <3>3. Went(body, r, line, next)
      BY <1>4, <1>6, <2>1, <2>7, <2>9, <3>1, <3>2 DEF Went, parsed
    <3>4. QED
      BY <2>1, <2>10, <2>12, <3>3
  <2>13. QED
    BY <2>11, <2>12
<1>18. QED
  BY <1>15, <1>16, <1>17

\* Two streams that heard and collected the same hear the same in a line.
Same(r, q) == q.sse = r.sse /\ q.state = r.state /\ q.out = r.out /\ q.log = r.log

LEMMA SameLines ==
    ASSUME NEW body, NEW r, NEW q, Same(r, q), NEW line
    PROVE  /\ Stepped(body, q, line) = Stepped(body, r, line)
           /\ More(body, q, line) = More(body, r, line)
           /\ Kind(body, q, line) = Kind(body, r, line)
<1>1. Stepped(body, q, line) = Stepped(body, r, line)
  BY DEF Same, Stepped
<1>2. More(body, q, line) = More(body, r, line)
  BY <1>1 DEF More
<1>3. Kind(body, q, line) = Kind(body, r, line)
  BY <1>1, <1>2 DEF Kind
<1>4. QED
  BY <1>1, <1>2, <1>3

\* A stream between two lines without its chunks, and what is handed out in the
\* end when the given lines follow.
Core(r) == [Opened EXCEPT !.sse = r.sse, !.state = r.state, !.out = r.out, !.log = r.log]
From(body, q) == [body |-> body, run |-> q]
Final(body, r, lines) == Closed(body, OverLines!Fold(From(body, Core(r)), lines).run)

LEMMA FromIs == \A body, q : From(body, q).body = body /\ From(body, q).run = q
BY DEF From

LEMMA CoreIs ==
    ASSUME NEW r, Orderly(r)
    PROVE  /\ Orderly(Core(r)) /\ Same(r, Core(r)) /\ Core(r).phase = "reading"
           /\ Core(r).lines = <<>> /\ Core(r).at = 0 /\ Core(r).buffer = <<>>
           /\ Core(r).aborted = FALSE /\ Core(r).end = "none"
<1>1. PICK o : o = Opened
  OBVIOUS
<1>2. /\ IsRun(o) /\ o.phase = "reading" /\ o.lines = <<>> /\ o.at = 0 /\ o.buffer = <<>>
      /\ o.aborted = FALSE /\ o.end = "none"
  <2>1. PICK idle, out : idle = Idle /\ out = <<[type |-> "response.started"]>>
    OBVIOUS
  <2>2. IsRun(idle) /\ idle.lines = <<>> /\ idle.at = 0 /\ idle.buffer = <<>>
        /\ idle.aborted = FALSE /\ idle.end = "none"
    BY <2>1, NothingCollected, Zenon DEF Idle
  <2>3. o = [idle EXCEPT !.phase = "reading", !.out = out]
    BY <1>1, <2>1 DEF Opened
  <2>4. QED
    BY <2>2, <2>3 DEF IsRun
<1>3. PICK c : c = [o EXCEPT !.sse = r.sse, !.state = r.state, !.out = r.out, !.log = r.log]
  OBVIOUS
<1>4. /\ IsRun(c) /\ c.phase = "reading" /\ c.lines = <<>> /\ c.at = 0 /\ c.buffer = <<>>
      /\ c.aborted = FALSE /\ c.end = "none"
      /\ c.sse = r.sse /\ c.state = r.state /\ c.out = r.out /\ c.log = r.log
  BY <1>2, <1>3 DEF IsRun
<1>5. c = Core(r)
  BY <1>1, <1>3 DEF Core
<1>6. Orderly(c) /\ Same(r, c)
  BY <1>4 DEF Orderly, Same
<1>7. QED
  BY <1>4, <1>5, <1>6

\* Streams with the same core.
LEMMA CoresAlike ==
    ASSUME NEW r, NEW q, Same(r, q)
    PROVE  Core(q) = Core(r)
BY DEF Same, Core

\* A stream that is what a core is, is the core.
LEMMA CoreOf ==
    ASSUME NEW r, NEW q, Orderly(r), IsRun(q), Same(r, q), q.phase = "reading", q.lines = <<>>,
           q.at = 0, q.buffer = <<>>, q.aborted = FALSE, q.end = "none"
    PROVE  q = Core(r)
<1>1. PICK c : c = Core(r)
  OBVIOUS
<1>2. /\ IsRun(c) /\ Same(r, c) /\ c.phase = "reading" /\ c.lines = <<>> /\ c.at = 0
      /\ c.buffer = <<>> /\ c.aborted = FALSE /\ c.end = "none"
  BY <1>1, CoreIs DEF Orderly
<1>3. c = q
  BY <1>2, Zenon DEF IsRun, Same
<1>4. QED
  BY <1>1, <1>3

\* What is handed out when nothing follows.
LEMMA ClosedIs ==
    ASSUME NEW body, body.dialect \in Dialects, NEW r, Orderly(r), NEW how \in BOOLEAN, how
    PROVE  LET last == HandedOut(body, AfterLoop(body.dialect, r.state))
               x == Yielded(body, r, AfterLoop(body.dialect, r.state), how)
           IN  /\ IsArray(last) /\ IsArray(x.out) /\ x.out = r.out \o last
               /\ x.phase = "closed" /\ x.end = "done" /\ x.at = r.at /\ x.aborted = r.aborted
               /\ r.phase # "closed" => Closed(body, r) = r.out \o last
               /\ r.phase = "closed" => Closed(body, r) = r.out
<1>1. PICK events : events = AfterLoop(body.dialect, r.state)
  OBVIOUS
<1>2. IsRun(r) /\ IsState(r.state) /\ IsArray(r.out)
  BY DEF Orderly
<1>3. IsArray(events)
  BY <1>1, <1>2, AfterLoopEnds
<1>4. PICK last : last = HandedOut(body, events)
  OBVIOUS
<1>5. IsArray(last)
  BY <1>3, <1>4, HandedOutEnds
<1>6. PICK handed, next : Yields(body, r, events, TRUE, handed, next)
  BY <1>2, <1>3, YieldedIs
<1>7. PICK x : x = Yielded(body, r, events, TRUE)
  OBVIOUS
<1>8. /\ next = [r EXCEPT !.out = r.out \o last, !.log = OverEvents!Fold(r.log, last)]
      /\ x = Ended(next, "done", next.log)
  BY <1>4, <1>6, <1>7 DEF Yields
<1>9. PICK out, log : out = r.out \o last /\ log = OverEvents!Fold(r.log, last)
  OBVIOUS
<1>10. next = [r EXCEPT !.out = out, !.log = log] /\ IsArray(out)
  BY <1>2, <1>5, <1>8, <1>9, ArraysJoin
<1>11. next.out = out /\ next.at = r.at /\ next.aborted = r.aborted
  BY <1>2, <1>10 DEF IsRun
<1>12. x.out = out /\ x.phase = "closed" /\ x.end = "done" /\ x.at = r.at /\ x.aborted = r.aborted
  <2>1. PICK told : told = next.log
    OBVIOUS
  <2>2. x = Ended(next, "done", told)
    BY <1>8, <2>1, Zenon
  <2>3. /\ x.phase = "closed" /\ x.end = "done" /\ x.out = next.out /\ x.at = next.at
        /\ x.aborted = next.aborted
    BY <2>2, EndedIs
  <2>4. QED
    BY <1>11, <2>3
<1>13. /\ r.phase # "closed" => Closed(body, r) = out
       /\ r.phase = "closed" => Closed(body, r) = r.out
  <2>1. Closed(body, r) = IF r.phase = "closed" THEN r.out ELSE x.out
    BY <1>1, <1>7, Zenon DEF Closed
  <2>2. QED
    BY <1>12, <2>1
<1>14. QED
  BY <1>1, <1>4, <1>5, <1>7, <1>9, <1>10, <1>12, <1>13

\* One line of a fold.
LEMMA OneLineIs ==
    ASSUME NEW body, NEW q, NEW line
    PROVE  /\ q.phase # "reading" => OneLine(From(body, q), line) = From(body, q)
           /\ q.phase = "reading" =>
                 OneLine(From(body, q), line) = From(body, Lined(body, [q EXCEPT !.lines = <<line>>], line))
<1>1. PICK p : p = From(body, q)
  OBVIOUS
<1>2. p = [body |-> body, run |-> q] /\ p.body = body /\ p.run = q
  BY <1>1, FromIs DEF From
<1>3. PICK x : x = Lined(body, [q EXCEPT !.lines = <<line>>], line)
  OBVIOUS
<1>4. q.phase # "reading" => OneLine(p, line) = p
  BY <1>2, Zenon DEF OneLine
<1>5. q.phase = "reading" => OneLine(p, line) = [p EXCEPT !.run = x]
  BY <1>2, <1>3, Zenon DEF OneLine
<1>6. [p EXCEPT !.run = x] = From(body, x)
  BY <1>2 DEF From
<1>7. QED
  BY <1>1, <1>3, <1>4, <1>5, <1>6

\* A sound stream before a line, and after it.
LEMMA LineLeft ==
    ASSUME NEW body, body.dialect \in Dialects, NEW q, Orderly(q), NEW line
    PROVE  \E p : /\ Orderly(p) /\ p.lines = <<line>> /\ Same(q, p) /\ p.phase = q.phase
                  /\ p.at = q.at /\ p.buffer = q.buffer /\ p.aborted = q.aborted /\ p.end = q.end
                  /\ [q EXCEPT !.lines = <<line>>] = p
                  /\ Went(body, p, line, Lined(body, p, line))
<1>1. PICK lines : lines = <<line>>
  OBVIOUS
<1>2. PICK p : p = [q EXCEPT !.lines = lines]
  OBVIOUS
<1>3. IsRun(q) /\ IsState(q.state) /\ IsArray(q.out)
  BY DEF Orderly
<1>4. /\ IsRun(p) /\ p.phase = q.phase /\ p.at = q.at /\ p.buffer = q.buffer /\ p.lines = lines
      /\ p.sse = q.sse /\ p.state = q.state /\ p.out = q.out /\ p.log = q.log
      /\ p.aborted = q.aborted /\ p.end = q.end
  BY <1>2, <1>3 DEF IsRun
<1>5. Orderly(p) /\ Same(q, p)
  BY <1>3, <1>4 DEF Orderly, Same
<1>6. Went(body, p, line, Lined(body, p, line))
  BY <1>5, LinedIs
<1>7. QED
  BY <1>1, <1>2, <1>4, <1>5, <1>6

\* A stream that is over, or whose loop was left, ignores further lines.
LEMMA FoldKeeps ==
    ASSUME NEW body, NEW q, q.phase # "reading", NEW t, IsArray(t)
    PROVE  OverLines!Fold(From(body, q), t) = From(body, q)
<1>1. PICK n \in Nat : n = Len(t) /\ DOMAIN t = 1..n
  BY ArrayShape
<1>2. PICK b : b = From(body, q)
  OBVIOUS
<1>3. PICK h : OverLines!Steps(h, b, t, n)
  BY <1>1, OverLines!FoldGoes
<1> DEFINE I == {k \in 0..n : h[k] = b}
<1>4. 0 \in I
  BY <1>3 DEF OverLines!Steps
<1>5. \A k \in 0..(n - 1) : k \in I => k + 1 \in I
  <2> SUFFICES ASSUME NEW k \in 0..(n - 1), h[k] = b PROVE h[k + 1] = b
    <3>1. \A k \in 0..(n - 1) : k + 1 \in 0..n
      OBVIOUS
    <3>2. QED
      BY <3>1, Zenon
  <2>1. k + 1 \in 1..n /\ (k + 1) - 1 = k
    OBVIOUS
  <2>2. h[k + 1] = OneLine(h[k], t[k + 1])
    BY <2>1, <1>3 DEF OverLines!Steps
  <2>3. QED
    BY <2>2, <1>2, OneLineIs
<1> HIDE DEF I
<1>6. \A k \in 0..n : k \in I
  BY <1>4, <1>5, Upwards
<1>7. h[n] = b
  BY <1>6 DEF I
<1>8. QED
  BY <1>2, <1>3, <1>7 DEF OverLines!Steps

\* What is handed out in the end depends on what was heard and collected.
LEMMA FinalAlike ==
    ASSUME NEW body, NEW r, NEW q, Same(r, q), NEW lines
    PROVE  Final(body, q, lines) = Final(body, r, lines)
BY CoresAlike DEF Final

\* Nothing follows.
LEMMA FinalNothing ==
    ASSUME NEW body, body.dialect \in Dialects, NEW r, Orderly(r)
    PROVE  /\ Final(body, r, <<>>) = Yielded(body, r, AfterLoop(body.dialect, r.state), TRUE).out
           /\ Final(body, r, <<>>) = r.out \o HandedOut(body, AfterLoop(body.dialect, r.state))
<1>1. PICK q : q = Core(r)
  OBVIOUS
<1>2. Orderly(q) /\ Same(r, q) /\ q.phase = "reading"
  BY <1>1, CoreIs
<1>3. OverLines!Fold(From(body, q), <<>>) = From(body, q)
  BY OverLines!FoldNothing
<1>4. Final(body, r, <<>>) = Closed(body, q)
  BY <1>1, <1>3, FromIs DEF Final
<1>5. PICK last : last = HandedOut(body, AfterLoop(body.dialect, r.state))
  OBVIOUS
<1>6. q.state = r.state /\ q.out = r.out
  BY <1>2 DEF Same
<1>7. Closed(body, q) = q.out \o last
  <2>1. q.phase # "closed"
    BY <1>2
  <2>2. Closed(body, q) = q.out \o HandedOut(body, AfterLoop(body.dialect, q.state))
    BY <1>2, <2>1, ClosedIs
  <2>3. QED
    BY <1>5, <1>6, <2>2
<1>8. Yielded(body, r, AfterLoop(body.dialect, r.state), TRUE).out = r.out \o last
  BY <1>5, ClosedIs
<1>9. QED
  BY <1>4, <1>5, <1>6, <1>7, <1>8

\* One line, and then others.
LEMMA FinalLine ==
    ASSUME NEW body, body.dialect \in Dialects, NEW r, Orderly(r), NEW line, NEW t, IsArray(t),
           NEW x, Went(body, r, line, x)
    PROVE  /\ Kind(body, r, line) = "goes" => Final(body, r, <<line>> \o t) = Final(body, x, t)
           /\ Kind(body, r, line) = "breaks" => Final(body, r, <<line>> \o t) = Final(body, x, <<>>)
           /\ Kind(body, r, line) = "ends" => Final(body, r, <<line>> \o t) = x.out
<1>1. PICK q : q = Core(r)
  OBVIOUS
<1>2. /\ Orderly(q) /\ Same(r, q) /\ q.phase = "reading" /\ q.lines = <<>> /\ q.at = 0
      /\ q.buffer = <<>> /\ q.aborted = FALSE /\ q.end = "none"
  BY <1>1, CoreIs
<1>3. PICK p : /\ Orderly(p) /\ p.lines = <<line>> /\ Same(q, p) /\ p.phase = q.phase
               /\ p.at = q.at /\ p.buffer = q.buffer /\ p.aborted = q.aborted /\ p.end = q.end
               /\ [q EXCEPT !.lines = <<line>>] = p
               /\ Went(body, p, line, Lined(body, p, line))
  BY <1>2, LineLeft
<1>4. PICK y : y = Lined(body, p, line)
  OBVIOUS
<1>5. OneLine(From(body, q), line) = From(body, y)
  BY <1>2, <1>3, <1>4, OneLineIs
<1>6. Went(body, p, line, y)
  BY <1>3, <1>4
<1>7. Same(r, p)
  BY <1>2, <1>3 DEF Same
<1>8. PICK kind, more, did : /\ kind = Kind(body, r, line) /\ more = More(body, r, line)
                             /\ did = Stepped(body, r, line)
  OBVIOUS
<1>9. kind = Kind(body, p, line) /\ more = More(body, p, line) /\ did = Stepped(body, p, line)
  BY <1>7, <1>8, SameLines
<1>10. x.out = y.out
  BY <1>6, <1>7, <1>8, <1>9 DEF Went, Same
<1>11. kind # "ends" => Same(x, y)
  BY <1>6, <1>7, <1>8, <1>9, <1>10 DEF Went, Same
<1>12. PICK one : one = <<line>>
  OBVIOUS
<1>13. OverLines!Fold(From(body, q), one \o t) = OverLines!Fold(From(body, y), t)
  <2>1. IsArray(one)
    BY <1>12, ShortArrays
  <2>2. PICK S, T : one \in Seq(S) /\ t \in Seq(T)
    BY <2>1, ArrayShape
  <2>3. OverLines!Fold(From(body, q), one) = From(body, y)
    BY <1>5, <1>12, OverLines!FoldOne
  <2>4. QED
    BY <2>2, <2>3, OverLines!FoldConcat
<1>14. Final(body, r, one \o t) = Closed(body, OverLines!Fold(From(body, y), t).run)
  BY <1>1, <1>13 DEF Final
<1>15. Orderly(x) /\ Orderly(y)
  BY <1>6 DEF Went
<1>16. y.phase # "reading" => Final(body, r, one \o t) = Closed(body, y)
  BY <1>14, FoldKeeps, FromIs
<1>17. CASE kind = "goes"
  <2>1. /\ y.phase = "reading" /\ y.lines = Tail(p.lines) /\ y.at = 0 /\ y.buffer = <<>>
        /\ y.aborted = FALSE /\ y.end = "none"
    BY <1>2, <1>3, <1>6, <1>9, <1>17, Zenon DEF Went
  <2>2. y.lines = <<>>
    BY <1>3, <2>1
  <2>3. y = Core(x)
    BY <1>11, <1>15, <1>17, <2>1, <2>2, CoreOf DEF Orderly
  <2>4. QED
    BY <1>8, <1>12, <1>14, <1>17, <2>3 DEF Final
<1>18. CASE kind = "breaks"
  <2>1. y.phase = "ending" /\ y.state = x.state
    BY <1>6, <1>9, <1>11, <1>18 DEF Went, Same
  <2>2. Final(body, r, one \o t) = Closed(body, y)
    BY <1>16, <2>1
  <2>3. Closed(body, y) = y.out \o HandedOut(body, AfterLoop(body.dialect, y.state))
    <3>1. y.phase # "closed"
      BY <2>1
    <3>2. QED
      BY <1>15, <3>1, ClosedIs
  <2>4. Final(body, x, <<>>) = x.out \o HandedOut(body, AfterLoop(body.dialect, x.state))
    BY <1>15, FinalNothing
  <2>5. QED
    BY <1>8, <1>10, <1>12, <1>18, <2>1, <2>2, <2>3, <2>4
<1>19. CASE kind = "ends"
  <2>1. y.phase = "closed"
    BY <1>6, <1>9, <1>19 DEF Went
  <2>2. Final(body, r, one \o t) = Closed(body, y)
    BY <1>16, <2>1
  <2>3. Closed(body, y) = y.out
    BY <1>15, <2>1, ClosedIs
  <2>4. QED
    BY <1>8, <1>10, <1>12, <1>19, <2>2, <2>3
<1>20. QED
  <2>1. kind \in {"goes", "breaks", "ends"}
    BY <1>8, MoreIs
  <2>2. QED
    BY <1>8, <1>17, <1>18, <1>19, <2>1

\* A blank line where nothing was heard changes nothing.
LEMMA BlankIs ==
    ASSUME NEW body, body.dialect \in Dialects, NEW r, Orderly(r), r.sse = NoEvent
    PROVE  Final(body, r, <<<<>>>>) = Final(body, r, <<>>)
<1>1. PICK blank : blank = <<>>
  OBVIOUS
<1>2. PICK x : x = Lined(body, r, blank)
  OBVIOUS
<1>3. Went(body, r, blank, x)
  BY <1>2, LinedIs
<1>4. PICK parsed : parsed = ProcessLine(r.sse, blank)
  OBVIOUS
<1>5. parsed.sse = NoEvent /\ parsed.events = <<>>
  <2>1. parsed = [sse |-> NoEvent, events |-> Emitted(r.sse)]
    BY <1>1, <1>4, Zenon DEF ProcessLine
  <2>2. Emitted(r.sse) = <<>>
    BY Zenon DEF Emitted
  <2>3. QED
    BY <2>1, <2>2
<1>6. PICK did : did = Stepped(body, r, blank)
  OBVIOUS
<1>7. did = Yield(r.state, <<>>)
  BY <1>4, <1>5, <1>6, Zenon DEF Stepped
<1>8. did.next = "loop" /\ did.out = <<>> /\ did.state = r.state
  BY <1>7, Zenon DEF Yield
<1>9. More(body, r, blank) = <<>>
  <2>1. did.next # "break"
    BY <1>8
  <2>2. More(body, r, blank) = HandedOut(body, did.out)
    BY <1>6, <2>1, Zenon DEF More
  <2>3. QED
    BY <1>8, <2>2, HandedNothing, Zenon
<1>10. Kind(body, r, blank) = "goes"
  <2>1. Unfinished(More(body, r, blank))
    BY <1>9, ShortArrays DEF Unfinished
  <2>2. QED
    BY <1>6, <1>8, <2>1 DEF Kind
<1>11. Same(r, x)
  <2>1. \A log : OverEvents!Fold(log, <<>>) = log
    BY OverEvents!FoldNothing
  <2>2. r.out \o <<>> = r.out
    BY ArraysNil DEF Orderly
  <2>3. x.out = r.out \o <<>> /\ x.log = OverEvents!Fold(r.log, <<>>)
    BY <1>3, <1>9, <1>10 DEF Went
  <2>4. x.sse = r.sse /\ x.state = r.state
    BY <1>3, <1>4, <1>5, <1>6, <1>8, <1>10 DEF Went
  <2>5. QED
    BY <2>1, <2>2, <2>3, <2>4, Zenon DEF Same
<1>12. PICK one, none : one = <<blank>> /\ none = <<>>
  OBVIOUS
<1>13. IsArray(none) /\ one \o none = one
  BY <1>12, ShortArrays, ArraysNil
<1>14. Final(body, r, one \o none) = Final(body, x, none)
  <2>1. Final(body, r, <<blank>> \o none) = Final(body, x, none)
    BY <1>3, <1>10, <1>13, FinalLine
  <2>2. QED
    BY <1>12, <2>1
<1>15. QED
  BY <1>1, <1>11, <1>12, <1>13, <1>14, FinalAlike

\* Nor does one behind a blank line.
LEMMA BlanksAre ==
    ASSUME NEW body, body.dialect \in Dialects, NEW r, Orderly(r)
    PROVE  Final(body, r, <<<<>>, <<>>>>) = Final(body, r, <<<<>>>>)
<1>1. PICK blank : blank = <<>>
  OBVIOUS
<1>2. PICK x : x = Lined(body, r, blank)
  OBVIOUS
<1>3. Went(body, r, blank, x)
  BY <1>2, LinedIs
<1>4. PICK one, none : one = <<blank>> /\ none = <<>>
  OBVIOUS
<1>5. IsArray(one) /\ IsArray(none) /\ one \o none = one /\ one \o one = <<blank, blank>>
  <2>1. IsArray(one) /\ IsArray(none)
    BY <1>4, ShortArrays
  <2>2. one \o none = one
    BY <1>4, <2>1, ArraysNil
  <2>3. one \o one = <<blank, blank>>
    <3>1. PICK S, two, both : S = {blank} /\ two = one \o one /\ both = <<blank, blank>>
      OBVIOUS
    <3>2. both \in Seq(S) /\ Len(both) = 2 /\ both[1] = blank /\ both[2] = blank
      BY <3>1
    <3>3. Len(one) = 1 /\ one[1] = blank
      BY <1>4, ShortArrays
    <3>4. IsArray(two) /\ Len(two) = 2 /\ two[1] = blank /\ two[2] = blank
      <4>1. /\ IsArray(two) /\ Len(two) = Len(one) + Len(one)
            /\ \A p \in 1..Len(one) : two[p] = one[p]
            /\ \A p \in 1..Len(one) : two[Len(one) + p] = one[p]
        BY <2>1, <3>1, ArraysJoin
      <4>2. two[1] = one[1] /\ two[1 + 1] = one[1] /\ Len(two) = 1 + 1
        BY <3>3, <4>1
      <4>3. QED
        BY <3>3, <4>1, <4>2
    <3>5. IsArray(both)
      BY <3>2, SequencesAreArrays
    <3>6. \A i \in 1..2 : two[i] = both[i]
      BY <3>2, <3>4
    <3>7. two = both
      BY <3>2, <3>4, <3>5, <3>6, ArraysAlike
    <3>8. QED
      BY <3>1, <3>7
  <2>4. QED
    BY <2>1, <2>2, <2>3
<1>6. PICK kind : kind = Kind(body, r, blank)
  OBVIOUS
<1>12. ASSUME NEW t, IsArray(t)
       PROVE  /\ kind = "goes" => Final(body, r, one \o t) = Final(body, x, t)
              /\ kind = "breaks" => Final(body, r, one \o t) = Final(body, x, <<>>)
              /\ kind = "ends" => Final(body, r, one \o t) = x.out
  <2>1. /\ kind = "goes" => Final(body, r, <<blank>> \o t) = Final(body, x, t)
        /\ kind = "breaks" => Final(body, r, <<blank>> \o t) = Final(body, x, <<>>)
        /\ kind = "ends" => Final(body, r, <<blank>> \o t) = x.out
    BY <1>3, <1>6, <1>12, FinalLine
  <2>2. QED
    BY <1>4, <2>1
<1>7. /\ kind = "goes" => Final(body, r, one \o none) = Final(body, x, none)
      /\ kind = "breaks" => Final(body, r, one \o none) = Final(body, x, <<>>)
      /\ kind = "ends" => Final(body, r, one \o none) = x.out
  BY <1>5, <1>12
<1>8. /\ kind = "goes" => Final(body, r, one \o one) = Final(body, x, one)
      /\ kind = "breaks" => Final(body, r, one \o one) = Final(body, x, <<>>)
      /\ kind = "ends" => Final(body, r, one \o one) = x.out
  BY <1>5, <1>12
<1>9. kind = "goes" => Final(body, x, one) = Final(body, x, none)
  <2>1. ProcessLine(r.sse, blank).sse = NoEvent
    <3>1. ProcessLine(r.sse, blank) = [sse |-> NoEvent, events |-> Emitted(r.sse)]
      BY <1>1, Zenon DEF ProcessLine
    <3>2. QED
      BY <3>1
  <2>2. Orderly(x) /\ (kind = "goes" => x.sse = NoEvent)
    BY <1>3, <1>6, <2>1 DEF Went
  <2>3. QED
    BY <1>1, <1>4, <2>2, BlankIs
<1>10. kind \in {"goes", "breaks", "ends"}
  BY <1>6, MoreIs
<1>11. QED
  BY <1>1, <1>4, <1>5, <1>7, <1>8, <1>9, <1>10

\* What was handed out stays, whatever lines follow.
LEMMA FinalBegins ==
    ASSUME NEW body, body.dialect \in Dialects, NEW r, Orderly(r), NEW lines, IsArray(lines)
    PROVE  IsArray(Final(body, r, lines)) /\ Begins(r.out, Final(body, r, lines))
<1>0. IsArray(r.out)
  BY DEF Orderly
<1>1. PICK n \in Nat : n = Len(lines) /\ DOMAIN lines = 1..n
  BY ArrayShape
<1>2. PICK c : c = Core(r)
  OBVIOUS
<1>3. Orderly(c) /\ c.out = r.out
  BY <1>2, CoreIs DEF Same
<1>4. PICK h : OverLines!Steps(h, From(body, c), lines, n)
  BY <1>1, OverLines!FoldGoes
<1> DEFINE Grown(q) == Orderly(q) /\ Begins(r.out, q.out)
           Right(p) == p = From(body, p.run) /\ Grown(p.run)
           I == {k \in 0..n : Right(h[k])}
<1>5. 0 \in I
  <2>1. h[0] = From(body, c)
    BY <1>4 DEF OverLines!Steps
  <2>2. Begins(r.out, r.out)
    BY <1>0, BeginsGoesOn
  <2>3. Grown(c)
    BY <1>3, <2>2
  <2> HIDE DEF Grown
  <2>4. Right(h[0])
    BY <2>1, <2>3, FromIs
  <2> HIDE DEF Right
  <2>5. QED
    BY <2>4
<1>6. ASSUME NEW q, Grown(q), NEW line PROVE Grown(Lined(body, q, line))
  <2>1. PICK x : x = Lined(body, q, line)
    OBVIOUS
  <2>2. Went(body, q, line, x)
    BY <1>6, <2>1, LinedIs
  <2>3. PICK more : more = More(body, q, line)
    OBVIOUS
  <2>4. IsArray(more) /\ IsArray(q.out) /\ Orderly(x) /\ x.out = q.out \o more
    BY <1>6, <2>2, <2>3, MoreIs DEF Went, Orderly
  <2>5. Begins(q.out, x.out) /\ IsArray(x.out)
    BY <2>4, BeginsGoesOn DEF Orderly
  <2>6. Begins(r.out, x.out)
    BY <1>0, <1>6, <2>4, <2>5, BeginsGoesOn
  <2>7. QED
    BY <2>1, <2>4, <2>6
<1>7. \A k \in 0..(n - 1) : k \in I => k + 1 \in I
  <2> SUFFICES ASSUME NEW k \in 0..(n - 1), Right(h[k]) PROVE Right(h[k + 1])
    <3>1. \A k \in 0..(n - 1) : k + 1 \in 0..n
      OBVIOUS
    <3> HIDE DEF Right
    <3>2. QED
      BY <3>1, Zenon
  <2>1. k + 1 \in 1..n /\ (k + 1) - 1 = k
    OBVIOUS
  <2>2. h[k + 1] = OneLine(h[k], lines[k + 1])
    BY <2>1, <1>4 DEF OverLines!Steps
  <2>3. PICK q, line : q = h[k].run /\ line = lines[k + 1]
    OBVIOUS
  <2>4. Grown(q) /\ h[k] = From(body, q)
    BY <2>3
  <2>5. CASE q.phase # "reading"
    <3> HIDE DEF Grown
    <3>1. h[k + 1] = OneLine(From(body, q), line)
      BY <2>2, <2>3, <2>4
    <3>2. h[k + 1] = From(body, q)
      BY <2>5, <3>1, OneLineIs
    <3>3. QED
      BY <2>4, <3>2, FromIs
  <2>6. CASE q.phase = "reading"
    <3>1. PICK p : /\ Orderly(p) /\ p.lines = <<line>> /\ Same(q, p) /\ p.phase = q.phase
                   /\ p.at = q.at /\ p.buffer = q.buffer /\ p.aborted = q.aborted /\ p.end = q.end
                   /\ [q EXCEPT !.lines = <<line>>] = p
                   /\ Went(body, p, line, Lined(body, p, line))
      BY <2>4, LineLeft
    <3>2. Grown(p)
      BY <2>4, <3>1 DEF Same
    <3>3. PICK x : x = Lined(body, p, line)
      OBVIOUS
    <3>4. Grown(x)
      BY <1>6, <3>2, <3>3
    <3>5. h[k + 1] = From(body, x)
      BY <2>2, <2>3, <2>4, <2>6, <3>1, <3>3, OneLineIs
    <3> HIDE DEF Grown
    <3>6. QED
      BY <3>4, <3>5, FromIs
  <2>7. QED
    BY <2>5, <2>6
<1> HIDE DEF I
<1>8. \A k \in 0..n : k \in I
  BY <1>5, <1>7, Upwards
<1>9. Right(h[n])
  BY <1>8 DEF I
<1>10. PICK q : q = h[n].run
  OBVIOUS
<1>11. Orderly(q) /\ Begins(r.out, q.out)
  BY <1>9, <1>10
<1>12. Final(body, r, lines) = Closed(body, q)
  BY <1>2, <1>4, <1>10 DEF Final, OverLines!Steps
<1>13. PICK last, all : /\ last = HandedOut(body, AfterLoop(body.dialect, q.state))
                        /\ all = q.out \o last
  OBVIOUS
<1>14. /\ IsArray(last)
       /\ q.phase # "closed" => Closed(body, q) = all
       /\ q.phase = "closed" => Closed(body, q) = q.out
  BY <1>11, <1>13, ClosedIs
<1>15. IsArray(q.out) /\ IsArray(all) /\ Begins(q.out, all)
  BY <1>11, <1>13, <1>14, ArraysJoin, BeginsGoesOn DEF Orderly
<1>16. Begins(r.out, all)
  BY <1>0, <1>11, <1>15, BeginsGoesOn
<1>17. QED
  BY <1>11, <1>12, <1>14, <1>15, <1>16

-----------------------------------------------------------------------------
\* The first of an array and the others.
LEMMA HeadAndTail ==
    ASSUME NEW v, IsArray(v), v # <<>>
    PROVE  IsArray(Tail(v)) /\ v = <<Head(v)>> \o Tail(v)
<1>1. PICK S : v \in Seq(S)
  BY ArrayShape
<1>2. PICK n \in Nat : n = Len(v) /\ n >= 1
  BY <1>1
<1>3. PICK h, t, one : h = Head(v) /\ t = Tail(v) /\ one = <<h>>
  OBVIOUS
<1>4. t \in Seq(S) /\ Len(t) = n - 1 /\ h = v[1] /\ \A i \in 1..(n - 1) : t[i] = v[i + 1]
  BY <1>1, <1>2, <1>3
<1>5. IsArray(t) /\ IsArray(one) /\ Len(one) = 1 /\ one[1] = h
  BY <1>3, <1>4, SequencesAreArrays, ShortArrays
<1>6. PICK all : all = one \o t
  OBVIOUS
<1>7. /\ IsArray(all) /\ Len(all) = Len(one) + Len(t)
      /\ \A p \in 1..Len(one) : all[p] = one[p]
      /\ \A p \in 1..Len(t) : all[Len(one) + p] = t[p]
  <2>1. IsArray(one) /\ IsArray(t)
    BY <1>5
  <2>2. QED
    BY <1>6, <2>1, ArraysJoin
<1>8. Len(all) = n /\ all[1] = h /\ \A p \in 1..(n - 1) : all[1 + p] = t[p]
  BY <1>2, <1>4, <1>5, <1>7
<1>9. \A i \in 1..n : all[i] = v[i]
  <2> TAKE i \in 1..n
  <2>1. i = 1 \/ (i - 1 \in 1..(n - 1) /\ 1 + (i - 1) = i /\ (i - 1) + 1 = i)
    OBVIOUS
  <2>2. QED
    BY <1>4, <1>8, <2>1
<1>10. all = v
  BY <1>2, <1>7, <1>8, <1>9, ArraysAlike
<1>11. QED
  BY <1>3, <1>5, <1>6, <1>10

\* The lines a stream is still to hear when its body ends after k pieces.
Stretch(body, r, k) == SubSeq(body.wire, r.at + 1, k)
LastTwo(rest) == <<rest, <<>>>>
Heard(cut, byte) == cut.lines \o LastTwo(cut.rest \o Flushed(byte))
ToCome(body, s, r, held, k) ==
    LET d == Decode(s, held, Stretch(body, r, k)) IN Heard(Split(r.buffer \o d.text), d.byte)

LEMMA HeardIsArray ==
    /\ \A x : IsArray(LastTwo(x))
    /\ \A c, byte : IsCut(c) => IsArray(Heard(c, byte))
    /\ \A byte : IsArray(Flushed(byte))
<1>1. ASSUME NEW x PROVE IsArray(LastTwo(x))
  <2>1. LastTwo(x) \in Seq({x, <<>>})
    BY DEF LastTwo
  <2>2. QED
    BY <2>1, SequencesAreArrays
<1>2. ASSUME NEW c, NEW byte, IsCut(c) PROVE IsArray(Heard(c, byte))
  <2>1. PICK x : x = c.rest \o Flushed(byte)
    OBVIOUS
  <2>2. IsArray(c.lines \o LastTwo(x))
    BY <1>1, <1>2, ArraysJoin DEF IsCut
  <2>3. QED
    BY <2>1, <2>2 DEF Heard
<1>3. ASSUME NEW byte PROVE IsArray(Flushed(byte))
  <2>1. PICK none, one : none = <<>> /\ one = <<Bad>>
    OBVIOUS
  <2>2. IsArray(none) /\ IsArray(one)
    BY <2>1, ShortArrays
  <2>3. Flushed(byte) = none \/ Flushed(byte) = one
    BY <2>1, Zenon DEF Flushed
  <2>4. QED
    BY <2>2, <2>3
<1>4. QED
  BY <1>1, <1>2, <1>3

\* Whatever comes, the stream hands out what one chunk gives.
Agrees(body, s, r, held) ==
    \A k \in r.at..Len(body.wire) :
       Final(body, r, r.lines \o ToCome(body, s, r, held, k)) = InOneChunk(body, k)

\* A stream no stranger's byte came near to: it hands out what the same pieces
\* in one chunk give.
Clear(body, s, r, held) ==
    /\ r.at \in 0..Len(body.wire)
    /\ r.phase = "idle" => r = Idle /\ held = NoByte
    /\ r.phase = "reading" => /\ Unbroken(r.buffer) /\ IsArray(r.lines) /\ r.end = "none"
                              /\ Agrees(body, s, r, held)
    /\ r.phase = "ending" => /\ IsArray(r.lines) /\ r.end = "none"
                             /\ Final(body, r, r.lines) = InOneChunk(body, r.at)
    /\ r.phase = "closed" => \/ r.end = "done" /\ r.out = InOneChunk(body, r.at)
                             \/ /\ r.end \in {"left", "threw"}
                                /\ IsArray(InOneChunk(body, r.at))
                                /\ Begins(r.out, InOneChunk(body, r.at))

\* What a body has to be.
Readable(body) == body.dialect \in Dialects /\ IsArray(body.wire)

\* The pieces up to some k, and what is made of them.
LEMMA ToComeIs ==
    ASSUME NEW body, Readable(body), NEW s, NEW r, r.at \in 0..Len(body.wire), Unbroken(r.buffer),
           NEW held, NEW k \in r.at..Len(body.wire)
    PROVE  LET d == Decode(s, held, Stretch(body, r, k))
               c == Split(r.buffer \o d.text)
           IN  /\ IsArray(Stretch(body, r, k)) /\ IsDecoder(d, s) /\ IsArray(d.text)
               /\ IsCut(c) /\ Unbroken(c.rest)
               /\ ToCome(body, s, r, held, k) = Heard(c, d.byte)
               /\ IsArray(ToCome(body, s, r, held, k))
<1>1. PICK w, n, at : w = body.wire /\ n = Len(w) /\ at = r.at
  OBVIOUS
<1>2. IsArray(w) /\ n \in Nat
  BY <1>1, ArrayShape DEF Readable
<1>3. at \in Nat /\ k \in Nat /\ at <= k /\ k <= n
  BY <1>1, <1>2
<1>4. IsArray(SubSeq(w, at + 1, k))
  BY <1>1, <1>2, <1>3, StretchesMeet
<1>5. PICK chunk : chunk = Stretch(body, r, k)
  OBVIOUS
<1>6. IsArray(chunk)
  BY <1>1, <1>4, <1>5 DEF Stretch
<1>7. PICK d : d = Decode(s, held, chunk)
  OBVIOUS
<1>8. IsDecoder(d, s)
  BY <1>6, <1>7, ShortArrays, DecodeShift
<1>9. IsArray(d.text)
  BY <1>8 DEF IsDecoder
<1>10. PICK c : c = Split(r.buffer \o d.text)
  OBVIOUS
<1>11. IsCut(c) /\ Unbroken(c.rest)
  BY <1>9, <1>10, ShortArrays, SplitShift
<1>12. ToCome(body, s, r, held, k) = Heard(c, d.byte)
  BY <1>5, <1>7, <1>10 DEF ToCome
<1>13. IsArray(Heard(c, d.byte))
  BY <1>11, HeardIsArray
<1>14. QED
  BY <1>5, <1>6, <1>7, <1>8, <1>9, <1>10, <1>11, <1>12, <1>13

\* One chunk.
LEMMA ChunkIs ==
    ASSUME NEW body, NEW k
    PROVE  LET d == Decode("self", NoByte, SubSeq(body.wire, 1, k))
           IN  InOneChunk(body, k)
                 = Closed(body, OverLines!Fold(From(body, Opened), Heard(Split(d.text), d.byte)).run)
<1>1. PICK d : d = Decode("self", NoByte, SubSeq(body.wire, 1, k))
  OBVIOUS
<1>2. PICK cut, lines : cut = Split(d.text) /\ lines = Heard(cut, d.byte)
  OBVIOUS
<1>3. lines = cut.lines \o <<cut.rest \o Flushed(d.byte), <<>>>>
  BY <1>2 DEF Heard, LastTwo
<1>4. InOneChunk(body, k) = Closed(body, AllLines(body, lines).run)
  BY <1>1, <1>2, <1>3, Zenon DEF InOneChunk
<1>5. AllLines(body, lines) = OverLines!Fold(From(body, Opened), lines)
  BY Folded DEF From
<1>6. QED
  BY <1>1, <1>2, <1>4, <1>5

\* A stream that starts.
LEMMA ClearOpens ==
    ASSUME NEW body, Readable(body), NEW s, s # NoByte.owner
    PROVE  Clear(body, s, Opened, NoByte)
<1>1. PICK r : r = Opened
  OBVIOUS
<1>2. /\ Orderly(r) /\ r.phase = "reading" /\ r.at = 0 /\ r.buffer = <<>> /\ r.lines = <<>>
      /\ r.end = "none" /\ r.aborted = FALSE
  <2>1. PICK idle, started, out : /\ idle = Idle /\ started = [type |-> "response.started"]
                                  /\ out = <<started>>
    OBVIOUS
  <2>2. /\ IsRun(idle) /\ IsState(idle.state) /\ idle.at = 0 /\ idle.buffer = <<>>
        /\ idle.lines = <<>> /\ idle.end = "none" /\ idle.aborted = FALSE
    BY <2>1, NothingCollected, Zenon DEF Idle
  <2>3. r = [idle EXCEPT !.phase = "reading", !.out = out]
    BY <1>1, <2>1 DEF Opened
  <2>4. IsArray(out)
    BY <2>1, ShortArrays
  <2>5. QED
    BY <2>2, <2>3, <2>4 DEF IsRun, Orderly
<1>3. Core(r) = r
  BY <1>2, CoreOf DEF Same, Orderly
<1>4. Len(body.wire) \in Nat
  BY ArrayShape DEF Readable
<1>5. Unbroken(r.buffer) /\ IsArray(r.lines)
  BY <1>2, UnbrokenGrows, ShortArrays
<1>6. ASSUME NEW k \in r.at..Len(body.wire)
      PROVE  Final(body, r, r.lines \o ToCome(body, s, r, NoByte, k)) = InOneChunk(body, k)
  <2>1. PICK chunk : chunk = SubSeq(body.wire, 1, k)
    OBVIOUS
  <2>2. Stretch(body, r, k) = chunk
    BY <1>2, <2>1 DEF Stretch
  <2>3. PICK d, c, lines : /\ d = Decode(s, NoByte, chunk) /\ c = Split(r.buffer \o d.text)
                           /\ lines = ToCome(body, s, r, NoByte, k)
    OBVIOUS
  <2>4. /\ IsArray(chunk) /\ IsArray(d.text) /\ lines = Heard(c, d.byte) /\ IsArray(lines)
    <3>1. r.at \in 0..Len(body.wire)
      BY <1>2, <1>4
    <3>2. LET f == Decode(s, NoByte, Stretch(body, r, k))
              b == Split(r.buffer \o f.text)
          IN  /\ IsArray(Stretch(body, r, k)) /\ IsArray(f.text)
              /\ ToCome(body, s, r, NoByte, k) = Heard(b, f.byte)
              /\ IsArray(ToCome(body, s, r, NoByte, k))
      BY <1>5, <3>1, ToComeIs
    <3>3. QED
      BY <2>2, <2>3, <3>2
  <2>5. PICK e : e = Decode("self", NoByte, chunk)
    OBVIOUS
  <2>6. e.text = d.text /\ (e.byte = NoByte <=> d.byte = NoByte)
    <3>1. "self" # NoByte.owner
      BY DEF NoByte
    <3>2. QED
      BY <2>3, <2>4, <2>5, <3>1, OwnersAlike
  <2>7. Flushed(e.byte) = Flushed(d.byte)
    BY <2>6, Zenon DEF Flushed
  <2>8. <<>> \o d.text = d.text /\ <<>> \o lines = lines
    BY <2>4, ArraysNil
  <2>9. c = Split(e.text)
    BY <1>2, <2>3, <2>6, <2>8
  <2>10. lines = Heard(Split(e.text), e.byte)
    BY <2>4, <2>7, <2>9 DEF Heard
  <2>11. InOneChunk(body, k) = Closed(body, OverLines!Fold(From(body, r), lines).run)
    BY <1>1, <2>1, <2>5, <2>10, ChunkIs
  <2>12. Final(body, r, lines) = InOneChunk(body, k)
    BY <1>3, <2>11 DEF Final
  <2>13. QED
    BY <1>2, <2>3, <2>8, <2>12
<1>7. Agrees(body, s, r, NoByte)
  BY <1>6 DEF Agrees
<1>8. QED
  BY <1>1, <1>2, <1>4, <1>5, <1>7 DEF Clear

\* One chunk: the stream hears with the pieces of the chunk and the others what
\* it would hear with all of them.
LEMMA ClearReads ==
    ASSUME NEW body, Readable(body), NEW s, NEW r, Orderly(r), r.phase = "reading", r.lines = <<>>,
           NEW held, Clear(body, s, r, held), NEW n \in 1..(Len(body.wire) - r.at),
           NEW d, d = Decode(s, held, SubSeq(body.wire, r.at + 1, r.at + n)),
           NEW c, c = Split(r.buffer \o d.text)
    PROVE  /\ Clear(body, s, [r EXCEPT !.at = r.at + n, !.buffer = c.rest, !.lines = c.lines], d.byte)
           /\ d.byte = NoByte \/ d.byte.owner = s
<1>17. \A u, v : IsArray(u) /\ IsArray(v) =>
          Decode(s, held, u \o v)
            = Before(s, Decode(s, Decode(s, held, u).byte, v).byte,
                     Decode(s, held, u).text \o Decode(s, Decode(s, held, u).byte, v).text)
  BY DecodeJoins
<1>1. PICK w, at, to : w = body.wire /\ at = r.at /\ to = at + n
  OBVIOUS
<1>2. /\ IsArray(w) /\ Len(w) \in Nat /\ at \in Nat /\ to \in Nat /\ at <= to /\ at + 1 <= to
      /\ to <= Len(w) /\ n >= 1
  BY <1>1, ArrayShape DEF Readable, Clear
<1>3. IsRun(r) /\ Unbroken(r.buffer) /\ r.end = "none" /\ Agrees(body, s, r, held)
  BY DEF Clear, Orderly
<1>4. PICK lines, rest : lines = c.lines /\ rest = c.rest
  OBVIOUS
<1>5. PICK q : q = [r EXCEPT !.at = to, !.buffer = rest, !.lines = lines]
  OBVIOUS
<1>6. /\ IsRun(q) /\ q.phase = "reading" /\ q.at = to /\ q.buffer = rest /\ q.lines = lines
      /\ q.end = "none" /\ q.sse = r.sse /\ q.state = r.state /\ q.out = r.out /\ q.log = r.log
  BY <1>3, <1>5 DEF IsRun
<1>7. Same(r, q)
  BY <1>6 DEF Same
<1>8. PICK chunk : chunk = SubSeq(w, at + 1, to)
  OBVIOUS
<1>9. IsArray(chunk) /\ Len(chunk) = to - at /\ d = Decode(s, held, chunk)
  BY <1>1, <1>2, <1>8, StretchesMeet, SMTT(20)
<1>10. IsDecoder(d, s) /\ IsArray(d.text)
  <2>1. IsDecoder(Decode(s, held, chunk), s)
    BY <1>9, ShortArrays, DecodeShift
  <2>2. QED
    BY <1>9, <2>1 DEF IsDecoder
<1>11. d.byte = NoByte \/ d.byte.owner = s
  <2>1. Len(chunk) >= 1
    BY <1>1, <1>2, <1>9
  <2>2. QED
    BY <1>9, <2>1, DecodeOwner
<1>12. IsCut(c) /\ Unbroken(rest) /\ IsArray(lines)
  BY <1>3, <1>4, <1>10, ShortArrays, SplitShift DEF IsCut
<1>18. \A v, z : IsArray(v) /\ IsArray(z) => (lines \o v) \o z = lines \o (v \o z)
  BY <1>12, ArraysGroup
<1>19. ASSUME NEW v, IsArray(v)
       PROVE  /\ Split(r.buffer \o (d.text \o v)) = Cut(c.lines \o Split(c.rest \o v).lines,
                                                       Split(c.rest \o v).rest)
              /\ IsCut(Split(c.rest \o v))
  <2>1. PICK buffer, text : buffer = r.buffer /\ text = d.text
    OBVIOUS
  <2>2. c = Split(buffer \o text) /\ Unbroken(buffer) /\ IsArray(text)
    BY <1>3, <1>10, <2>1
  <2>3. /\ Split(buffer \o (text \o v)) = Cut(c.lines \o Split(c.rest \o v).lines,
                                               Split(c.rest \o v).rest)
        /\ IsCut(Split(c.rest \o v))
    BY <1>19, <2>2, SplitJoins
  <2>4. QED
    BY <2>1, <2>3
<1>13. ASSUME NEW k \in to..Len(w)
       PROVE  Final(body, q, lines \o ToCome(body, s, q, d.byte, k)) = InOneChunk(body, k)
  <2>1. PICK b, e : b = SubSeq(w, to + 1, k) /\ e = Decode(s, d.byte, b)
    OBVIOUS
  <2>2. IsArray(b) /\ chunk \o b = SubSeq(w, at + 1, k)
    BY <1>2, <1>8, <2>1, StretchesMeet
  <2>3. PICK g : g = Split(rest \o e.text)
    OBVIOUS
  <2>4. IsDecoder(e, s) /\ IsArray(e.text)
    <3>1. IsDecoder(Decode(s, d.byte, b), s)
      BY <2>2, ShortArrays, DecodeShift
    <3>2. QED
      BY <2>1, <3>1 DEF IsDecoder
  <2>5. ToCome(body, s, q, d.byte, k) = Heard(g, e.byte)
    <3>1. Stretch(body, q, k) = b /\ q.buffer = rest
      BY <1>1, <1>6, <2>1 DEF Stretch
    <3>2. QED
      BY <2>1, <2>3, <3>1 DEF ToCome
  <2>6. PICK all : all = Decode(s, held, chunk \o b)
    OBVIOUS
  <2>7. all = Before(s, e.byte, d.text \o e.text)
    <3>1. Decode(s, held, chunk \o b)
            = Before(s, Decode(s, Decode(s, held, chunk).byte, b).byte,
                     Decode(s, held, chunk).text \o Decode(s, Decode(s, held, chunk).byte, b).text)
      BY <1>9, <1>17, <2>2
    <3>2. QED
      BY <1>9, <2>1, <2>6, <3>1
  <2>8. all.byte = e.byte /\ all.text = d.text \o e.text
    BY <2>7 DEF Before
  <2>9. PICK h : h = Split(r.buffer \o all.text)
    OBVIOUS
  <2>10. h = Cut(lines \o g.lines, g.rest) /\ IsCut(g)
    <3>1. h = Split(r.buffer \o (d.text \o e.text))
      BY <2>8, <2>9
    <3>2. /\ Split(r.buffer \o (d.text \o e.text)) = Cut(c.lines \o Split(c.rest \o e.text).lines,
                                                        Split(c.rest \o e.text).rest)
          /\ IsCut(Split(c.rest \o e.text))
      BY <1>10, <1>19, <2>4
    <3>3. QED
      BY <1>4, <2>3, <3>1, <3>2
  <2>11. h.lines = lines \o g.lines /\ h.rest = g.rest
    BY <2>10 DEF Cut
  <2>12. ToCome(body, s, r, held, k) = Heard(h, e.byte)
    <3>1. Stretch(body, r, k) = chunk \o b
      BY <1>1, <2>2 DEF Stretch
    <3>2. QED
      BY <2>6, <2>8, <2>9, <3>1 DEF ToCome
  <2>13. PICK two : two = LastTwo(g.rest \o Flushed(e.byte))
    OBVIOUS
  <2>14. IsArray(two)
    BY <2>13, HeardIsArray
  <2>15. Heard(g, e.byte) = g.lines \o two /\ Heard(h, e.byte) = (lines \o g.lines) \o two
    BY <2>11, <2>13 DEF Heard
  <2>16. (lines \o g.lines) \o two = lines \o (g.lines \o two)
    <3>1. IsArray(lines) /\ IsArray(g.lines) /\ IsArray(two)
      BY <1>12, <2>10, <2>14 DEF IsCut
    <3>2. PICK more : more = g.lines
      OBVIOUS
    <3>3. (lines \o more) \o two = lines \o (more \o two)
      BY <1>18, <3>1, <3>2
    <3>4. QED
      BY <3>2, <3>3
  <2>17. PICK others : others = Heard(h, e.byte)
    OBVIOUS
  <2>18. lines \o ToCome(body, s, q, d.byte, k) = others
    BY <2>5, <2>15, <2>16, <2>17
  <2>19. k \in r.at..Len(body.wire)
    BY <1>1, <1>2
  <2>20. Final(body, r, r.lines \o ToCome(body, s, r, held, k)) = InOneChunk(body, k)
    BY <1>3, <2>19 DEF Agrees
  <2>21. r.lines \o ToCome(body, s, r, held, k) = others
    <3>1. IsArray(others)
      BY <1>1, <1>3, <2>12, <2>17, <2>19, ToComeIs DEF Clear
    <3>2. <<>> \o others = others
      BY <3>1, ArraysNil
    <3>3. QED
      BY <2>12, <2>17, <3>2
  <2>22. Final(body, q, others) = Final(body, r, others)
    BY <1>7, FinalAlike
  <2>23. QED
    BY <2>18, <2>20, <2>21, <2>22
<1>14. Agrees(body, s, q, d.byte)
  BY <1>1, <1>6, <1>13 DEF Agrees
<1>15. Clear(body, s, q, d.byte)
  BY <1>1, <1>2, <1>6, <1>12, <1>14 DEF Clear
<1>16. QED
  BY <1>1, <1>4, <1>5, <1>11, <1>15

\* One line.
LEMMA ClearLine ==
    ASSUME NEW body, Readable(body), NEW s, NEW r, Orderly(r), r.phase \in {"reading", "ending"},
           r.lines # <<>>, NEW held, Clear(body, s, r, held)
    PROVE  Clear(body, s, Lined(body, r, Head(r.lines)), held)
<1>1. IsArray(r.lines) /\ r.end = "none" /\ r.at \in 0..Len(body.wire)
  BY DEF Clear
<1>2. PICK line, t, one : line = Head(r.lines) /\ t = Tail(r.lines) /\ one = <<line>>
  OBVIOUS
<1>3. IsArray(t) /\ r.lines = one \o t /\ IsArray(one)
  BY <1>1, <1>2, HeadAndTail, ShortArrays
<1>4. PICK x, kind : x = Lined(body, r, line) /\ kind = Kind(body, r, line)
  OBVIOUS
<1>5. Went(body, r, line, x)
  BY <1>4, LinedIs DEF Readable
<1>6. x.at = r.at /\ Orderly(x) /\ kind \in {"goes", "breaks", "ends"}
  BY <1>4, <1>5, MoreIs DEF Went, Readable
<1>7. ASSUME NEW u, IsArray(u)
      PROVE  /\ kind = "goes" => Final(body, r, one \o u) = Final(body, x, u)
             /\ kind = "breaks" => Final(body, r, one \o u) = Final(body, x, <<>>)
             /\ kind = "ends" => Final(body, r, one \o u) = x.out
  <2>1. /\ kind = "goes" => Final(body, r, <<line>> \o u) = Final(body, x, u)
        /\ kind = "breaks" => Final(body, r, <<line>> \o u) = Final(body, x, <<>>)
        /\ kind = "ends" => Final(body, r, <<line>> \o u) = x.out
    BY <1>4, <1>5, <1>7, FinalLine DEF Readable
  <2>2. QED
    BY <1>2, <2>1
<1>8. r.at \in r.at..Len(body.wire)
  BY <1>1, ArrayShape DEF Readable
<1>9. PICK meant : meant = InOneChunk(body, r.at)
  OBVIOUS
<1>10. /\ kind = "breaks" => Final(body, x, <<>>) = meant
       /\ kind = "ends" => x.out = meant
  <2>1. CASE r.phase = "reading"
    <3>1. PICK to : to = ToCome(body, s, r, held, r.at)
      OBVIOUS
    <3>2. Final(body, r, r.lines \o to) = meant
      BY <1>8, <1>9, <2>1, <3>1 DEF Clear, Agrees
    <3>3. IsArray(to)
      BY <1>1, <1>8, <2>1, <3>1, ToComeIs DEF Clear
    <3>4. (one \o t) \o to = one \o (t \o to) /\ IsArray(t \o to)
      BY <1>3, <3>3, ArraysGroup, ArraysJoin
    <3>5. QED
      BY <1>3, <1>7, <3>2, <3>4
  <2>2. CASE r.phase = "ending"
    <3>1. Final(body, r, one \o t) = meant
      BY <1>3, <1>9, <2>2 DEF Clear
    <3>2. QED
      BY <1>3, <1>7, <3>1
  <2>3. QED
    BY <2>1, <2>2
<1>11. CASE kind = "goes" /\ r.phase = "reading"
  <2>1. /\ x.phase = "reading" /\ x.lines = t /\ x.buffer = r.buffer /\ x.end = "none"
    BY <1>1, <1>2, <1>4, <1>5, <1>11 DEF Went
  <2>2. Unbroken(r.buffer) /\ Agrees(body, s, r, held)
    BY <1>11 DEF Clear
  <2>3. ASSUME NEW k \in r.at..Len(body.wire)
        PROVE  Final(body, x, t \o ToCome(body, s, x, held, k)) = InOneChunk(body, k)
    <3>1. PICK to : to = ToCome(body, s, r, held, k)
      OBVIOUS
    <3>2. ToCome(body, s, x, held, k) = to
      BY <1>6, <2>1, <3>1 DEF ToCome, Stretch
    <3>3. Final(body, r, r.lines \o to) = InOneChunk(body, k)
      BY <2>2, <2>3, <3>1 DEF Agrees
    <3>4. IsArray(to)
      BY <1>1, <2>2, <2>3, <3>1, ToComeIs
    <3>5. (one \o t) \o to = one \o (t \o to) /\ IsArray(t \o to)
      BY <1>3, <3>4, ArraysGroup, ArraysJoin
    <3>6. QED
      BY <1>3, <1>7, <1>11, <3>2, <3>3, <3>5
  <2>4. Agrees(body, s, x, held)
    BY <1>6, <2>1, <2>3 DEF Agrees
  <2>5. Clear(body, s, x, held)
    BY <1>1, <1>3, <1>6, <2>1, <2>2, <2>4 DEF Clear
  <2>6. QED
    BY <1>2, <1>4, <2>5
<1>12. CASE kind = "goes" /\ r.phase = "ending"
  <2>1. x.phase = "ending" /\ x.lines = t /\ x.end = "none"
    BY <1>1, <1>2, <1>4, <1>5, <1>12 DEF Went
  <2>2. Final(body, r, one \o t) = meant
    BY <1>3, <1>9, <1>12 DEF Clear
  <2>3. Final(body, x, t) = meant
    BY <1>3, <1>7, <1>12, <2>2
  <2>4. Clear(body, s, x, held)
    BY <1>1, <1>3, <1>6, <1>9, <2>1, <2>3 DEF Clear
  <2>5. QED
    BY <1>2, <1>4, <2>4
<1>13. CASE kind = "breaks"
  <2>1. x.phase = "ending" /\ x.lines = <<>> /\ x.end = "none"
    BY <1>1, <1>4, <1>5, <1>13 DEF Went
  <2>2. IsArray(x.lines) /\ Final(body, x, x.lines) = meant
    BY <1>10, <1>13, <2>1, ShortArrays
  <2>3. Clear(body, s, x, held)
    BY <1>1, <1>6, <1>9, <2>1, <2>2 DEF Clear
  <2>4. QED
    BY <1>2, <1>4, <2>3
<1>14. CASE kind = "ends"
  <2>1. x.phase = "closed" /\ x.end = "done"
    BY <1>4, <1>5, <1>14 DEF Went
  <2>2. Clear(body, s, x, held)
    BY <1>1, <1>6, <1>9, <1>10, <1>14, <2>1 DEF Clear
  <2>3. QED
    BY <1>2, <1>4, <2>2
<1>15. QED
  BY <1>6, <1>11, <1>12, <1>13, <1>14

\* The body ends: what is in the buffer and in the decoder is the last line.
LEMMA ClearEnds ==
    ASSUME NEW body, Readable(body), NEW s, NEW r, Orderly(r), r.phase = "reading", r.lines = <<>>,
           NEW held, Clear(body, s, r, held), NEW rest, rest = r.buffer \o Flushed(held)
    PROVE  \A h : Clear(body, s, [r EXCEPT !.phase = "ending", !.buffer = <<>>,
                      !.lines = (IF rest = <<>> THEN <<>> ELSE <<rest>>) \o <<<<>>>>], h)
<1>1. PICK blank, one : blank = <<>> /\ one = <<blank>>
  OBVIOUS
<1>2. PICK lines : lines = (IF rest = <<>> THEN <<>> ELSE <<rest>>) \o one
  OBVIOUS
<1>3. /\ r.at \in 0..Len(body.wire) /\ Unbroken(r.buffer) /\ r.end = "none" /\ IsRun(r)
      /\ Agrees(body, s, r, held)
  BY DEF Clear, Orderly
<1>4. IsArray(body.wire) /\ Len(body.wire) \in Nat /\ r.at \in Nat /\ r.at \in r.at..Len(body.wire)
  BY <1>3, ArrayShape DEF Readable
<1>5. PICK q : q = [r EXCEPT !.phase = "ending", !.buffer = blank, !.lines = lines]
  OBVIOUS
<1>6. /\ IsRun(q) /\ q.phase = "ending" /\ q.at = r.at /\ q.lines = lines /\ q.end = "none"
      /\ q.sse = r.sse /\ q.state = r.state /\ q.out = r.out /\ q.log = r.log
  BY <1>3, <1>5 DEF IsRun
<1>7. Same(r, q)
  BY <1>6 DEF Same
<1>8. IsArray(one) /\ IsArray(blank) /\ \A v : IsArray(<<v>>)
  BY <1>1, ShortArrays
<1>9. PICK first : first = IF rest = <<>> THEN blank ELSE <<rest>>
  OBVIOUS
<1>10. IsArray(first) /\ lines = first \o one
  BY <1>1, <1>2, <1>8, <1>9
<1>11. IsArray(lines)
  BY <1>8, <1>10, ArraysJoin
<1>12. ToCome(body, s, r, held, r.at) = LastTwo(rest)
  <2>1. PICK chunk : chunk = Stretch(body, r, r.at)
    OBVIOUS
  <2>2. chunk = <<>>
    <3>1. PICK S : body.wire \in Seq(S)
      BY <1>4, ArrayShape
    <3>2. PICK w, at : w = body.wire /\ at = r.at
      OBVIOUS
    <3>3. SubSeq(w, at + 1, at) = <<>>
      BY <1>4, <3>1, <3>2
    <3>4. QED
      BY <2>1, <3>2, <3>3 DEF Stretch
  <2>3. PICK d : d = Decode(s, held, chunk)
    OBVIOUS
  <2>4. d = Before(s, held, <<>>)
    BY <2>2, <2>3, Folded, OverPieces!FoldNothing
  <2>5. d.text = <<>> /\ d.byte = held
    BY <2>4 DEF Before
  <2>6. r.buffer \o <<>> = r.buffer /\ Split(r.buffer) = Cut(<<>>, r.buffer)
    BY <1>3, ArraysNil DEF Unbroken
  <2>7. PICK c : c = Split(r.buffer \o d.text)
    OBVIOUS
  <2>8. c.lines = <<>> /\ c.rest = r.buffer
    <3>1. c = Cut(<<>>, r.buffer)
      BY <2>5, <2>6, <2>7
    <3>2. QED
      BY <3>1, Zenon DEF Cut
  <2>9. Heard(c, d.byte) = <<>> \o LastTwo(rest)
    BY <2>5, <2>8, Zenon DEF Heard
  <2>10. <<>> \o LastTwo(rest) = LastTwo(rest)
    BY HeardIsArray, ArraysNil
  <2>11. QED
    BY <2>1, <2>3, <2>7, <2>9, <2>10 DEF ToCome
<1>13. Final(body, r, LastTwo(rest)) = InOneChunk(body, r.at)
  <2>1. Final(body, r, r.lines \o ToCome(body, s, r, held, r.at)) = InOneChunk(body, r.at)
    BY <1>3, <1>4 DEF Agrees
  <2>2. <<>> \o LastTwo(rest) = LastTwo(rest)
    BY HeardIsArray, ArraysNil
  <2>3. QED
    BY <1>12, <2>1, <2>2
<1>14. Final(body, r, lines) = Final(body, r, LastTwo(rest))
  <2>1. CASE rest = <<>>
    <3>1. lines = one
      <4>1. first = <<>>
        BY <1>1, <1>9, <2>1, Zenon
      <4>2. <<>> \o one = one
        BY <1>8, ArraysNil
      <4>3. QED
        BY <1>10, <4>1, <4>2
    <3>2. Final(body, r, <<<<>>, <<>>>>) = Final(body, r, <<<<>>>>)
      BY BlanksAre DEF Readable
    <3>3. LastTwo(rest) = <<<<>>, <<>>>>
      BY <2>1, Zenon DEF LastTwo
    <3>4. QED
      BY <1>1, <3>1, <3>2, <3>3
  <2>2. CASE rest # <<>>
    <3>1. PICK S, both : S = {rest, blank} /\ both = LastTwo(rest)
      OBVIOUS
    <3>2. /\ both \in Seq(S) /\ Len(both) = 2 /\ both[1] = rest /\ both[2] = blank
      BY <1>1, <3>1 DEF LastTwo
    <3>3. /\ Len(first) = 1 /\ first[1] = rest /\ Len(one) = 1 /\ one[1] = blank
      BY <1>1, <1>9, <2>2, ShortArrays
    <3>4. /\ Len(lines) = Len(first) + Len(one)
          /\ \A p \in 1..Len(first) : lines[p] = first[p]
          /\ \A p \in 1..Len(one) : lines[Len(first) + p] = one[p]
      BY <1>8, <1>10, ArraysJoin
    <3>5. Len(lines) = 2 /\ lines[1] = rest /\ lines[1 + 1] = blank
      BY <3>3, <3>4
    <3>6. IsArray(both)
      BY <3>2, SequencesAreArrays
    <3>7. \A i \in 1..2 : lines[i] = both[i]
      <4>1. lines[2] = blank /\ \A i \in 1..2 : i = 1 \/ i = 2
        BY <3>5
      <4>2. QED
        BY <3>2, <3>5, <4>1
    <3>8. lines = both
      BY <1>11, <3>2, <3>5, <3>6, <3>7, ArraysAlike
    <3>9. QED
      BY <3>1, <3>8
  <2>3. QED
    BY <2>1, <2>2
<1>15. Final(body, q, q.lines) = InOneChunk(body, q.at)
  BY <1>6, <1>7, <1>13, <1>14, FinalAlike
<1>16. \A h : Clear(body, s, q, h)
  BY <1>3, <1>6, <1>11, <1>15 DEF Clear
<1>17. q = [r EXCEPT !.phase = "ending", !.buffer = <<>>,
                     !.lines = (IF rest = <<>> THEN <<>> ELSE <<rest>>) \o <<<<>>>>]
  BY <1>1, <1>2, <1>5, Zenon
<1>18. QED
  BY <1>16, <1>17

\* After the loop.
LEMMA ClearFinishes ==
    ASSUME NEW body, Readable(body), NEW s, NEW r, Orderly(r), r.phase = "ending", r.lines = <<>>,
           NEW held, Clear(body, s, r, held)
    PROVE  \A h : Clear(body, s, Yielded(body, r, AfterLoop(body.dialect, r.state), TRUE), h)
<1>1. PICK x : x = Yielded(body, r, AfterLoop(body.dialect, r.state), TRUE)
  OBVIOUS
<1>2. x.phase = "closed" /\ x.end = "done" /\ x.at = r.at
  BY <1>1, ClosedIs DEF Readable
<1>3. Final(body, r, <<>>) = x.out
  BY <1>1, FinalNothing DEF Readable
<1>4. r.at \in 0..Len(body.wire) /\ Final(body, r, <<>>) = InOneChunk(body, r.at)
  BY DEF Clear
<1>5. \A h : Clear(body, s, x, h)
  BY <1>2, <1>3, <1>4 DEF Clear
<1>6. QED
  BY <1>1, <1>5

\* A stream that is open has handed out a prefix of what one chunk gives.
LEMMA ClearBegins ==
    ASSUME NEW body, Readable(body), NEW s, NEW r, Orderly(r), NEW held, Clear(body, s, r, held)
    PROVE  /\ r.phase = "reading" => \A k \in r.at..Len(body.wire) :
                 IsArray(InOneChunk(body, k)) /\ Begins(r.out, InOneChunk(body, k))
           /\ r.phase = "ending" =>
                 IsArray(InOneChunk(body, r.at)) /\ Begins(r.out, InOneChunk(body, r.at))
<1>1. ASSUME r.phase = "reading", NEW k \in r.at..Len(body.wire)
      PROVE  IsArray(InOneChunk(body, k)) /\ Begins(r.out, InOneChunk(body, k))
  <2>1. /\ r.at \in 0..Len(body.wire) /\ Unbroken(r.buffer) /\ IsArray(r.lines)
        /\ Agrees(body, s, r, held)
    BY <1>1 DEF Clear
  <2>2. PICK to : to = ToCome(body, s, r, held, k)
    OBVIOUS
  <2>3. IsArray(to)
    BY <1>1, <2>1, <2>2, ToComeIs
  <2>4. PICK all : all = r.lines \o to
    OBVIOUS
  <2>5. IsArray(all)
    BY <2>1, <2>3, <2>4, ArraysJoin
  <2>6. IsArray(Final(body, r, all)) /\ Begins(r.out, Final(body, r, all))
    BY <2>5, FinalBegins DEF Readable
  <2>7. Final(body, r, all) = InOneChunk(body, k)
    BY <1>1, <2>1, <2>2, <2>4 DEF Agrees
  <2>8. QED
    BY <2>6, <2>7
<1>2. ASSUME r.phase = "ending"
      PROVE  IsArray(InOneChunk(body, r.at)) /\ Begins(r.out, InOneChunk(body, r.at))
  <2>1. IsArray(r.lines) /\ Final(body, r, r.lines) = InOneChunk(body, r.at)
    BY <1>2 DEF Clear
  <2>2. IsArray(Final(body, r, r.lines)) /\ Begins(r.out, Final(body, r, r.lines))
    BY <2>1, FinalBegins DEF Readable
  <2>3. QED
    BY <2>1, <2>2
<1>3. QED
  BY <1>1, <1>2

\* A stream that is given up.
LEMMA ClearGivenUp ==
    ASSUME NEW body, Readable(body), NEW s, NEW r, Orderly(r), r.phase \in {"reading", "ending"},
           NEW held, Clear(body, s, r, held), NEW how \in {"left", "threw"}, NEW log
    PROVE  \A h : Clear(body, s, Ended(r, how, log), h)
<1>1. PICK e : e = Ended(r, how, log)
  OBVIOUS
<1>2. e.phase = "closed" /\ e.end = how /\ e.out = r.out /\ e.at = r.at
  BY <1>1, EndedIs
<1>3. r.at \in 0..Len(body.wire) /\ Len(body.wire) \in Nat
  BY ArrayShape DEF Clear, Readable
<1>4. r.at \in r.at..Len(body.wire)
  BY <1>3
<1>5. IsArray(InOneChunk(body, r.at)) /\ Begins(r.out, InOneChunk(body, r.at))
  BY <1>4, ClearBegins
<1>6. \A h : Clear(body, s, e, h)
  BY <1>2, <1>3, <1>5 DEF Clear
<1>7. QED
  BY <1>1, <1>6

\* A stream whose caller aborts.
LEMMA ClearAborts ==
    ASSUME NEW body, NEW s, NEW r, Orderly(r), r.phase = "reading", NEW held, Clear(body, s, r, held)
    PROVE  Clear(body, s, [r EXCEPT !.aborted = TRUE], held)
<1>1. PICK q : q = [r EXCEPT !.aborted = TRUE]
  OBVIOUS
<1>2. /\ q.phase = "reading" /\ q.at = r.at /\ q.buffer = r.buffer /\ q.lines = r.lines
      /\ q.end = r.end /\ q.sse = r.sse /\ q.state = r.state /\ q.out = r.out /\ q.log = r.log
  BY <1>1 DEF Orderly, IsRun
<1>3. Same(r, q)
  BY <1>2 DEF Same
<1>4. \A k : ToCome(body, s, q, held, k) = ToCome(body, s, r, held, k)
  BY <1>2 DEF ToCome, Stretch
<1>5. \A lines : Final(body, q, lines) = Final(body, r, lines)
  BY <1>3, FinalAlike
<1>6. /\ r.at \in 0..Len(body.wire) /\ Unbroken(r.buffer) /\ IsArray(r.lines) /\ r.end = "none"
      /\ Agrees(body, s, r, held)
  BY DEF Clear
<1>7. Agrees(body, s, q, held)
  BY <1>2, <1>4, <1>5, <1>6 DEF Agrees
<1>8. Clear(body, s, q, held)
  BY <1>2, <1>6, <1>7 DEF Clear
<1>9. QED
  BY <1>1, <1>8

-----------------------------------------------------------------------------
\* The byte of a stream in the decoder.
Held(byte, s) == IF byte # NoByte /\ byte.owner = s THEN byte ELSE NoByte

\* No stream reads past its body, and every stream whose bytes met nobody else's
\* hands out what its body says.
ClearInv ==
    /\ \A s \in Streams : run[s].at \in 0..Len(Body(s).wire)
    /\ \A s \in Streams \ tangled : Clear(Body(s), s, run[s], Held(decoder, s))

\* A body can be read.
LEMMA BodiesReadable ==
    ASSUME StreamsInv, NEW s \in Streams
    PROVE  /\ script[s] \in DOMAIN Bodies /\ Readable(Body(s)) /\ Orderly(run[s])
           /\ s # NoByte.owner
<1>1. script \in [Streams -> DOMAIN Bodies]
  BY ScenesAssumption DEF StreamsInv
<1>2. script[s] \in DOMAIN Bodies
  BY <1>1
<1>3. Readable(Body(s))
  BY <1>2, BodiesAssumption DEF Body, Readable, Dialects
<1>4. Orderly(run[s])
  BY DEF StreamsInv, RunOK, Orderly
<1>5. s # NoByte.owner
  BY BodiesAssumption
<1>6. QED
  BY <1>2, <1>3, <1>4, <1>5

\* A step of one stream that leaves it clear, and the bytes of the others alone.
LEMMA ClearUpdate ==
    ASSUME StreamsInv, ClearInv, NEW s \in Streams, NEW q, Update(s, q), UNCHANGED script,
           tangled \subseteq tangled', q.at \in 0..Len(Body(s).wire),
           s \notin tangled' => Clear(Body(s), s, q, Held(decoder', s)),
           \A t \in Streams \ tangled' : t # s => Held(decoder', t) = Held(decoder, t)
    PROVE  ClearInv'
<1>1. SUFFICES ASSUME NEW t \in Streams, t \notin tangled'
               PROVE  Clear(Body(t)', t, run'[t], Held(decoder', t))
  <2>1. \A t \in Streams : Body(t)' = Body(t) /\ run'[t] = IF t = s THEN q ELSE run[t]
    BY DEF Body, StreamsInv, Update
  <2>2. \A t \in Streams : run'[t].at \in 0..Len(Body(t)'.wire)
    BY <2>1 DEF ClearInv
  <2>3. QED
    BY <2>2 DEF ClearInv
<1>2. Body(t)' = Body(t)
  BY DEF Body
<1>3. run'[t] = IF t = s THEN q ELSE run[t]
  BY DEF StreamsInv, Update
<1>4. CASE t = s
  BY <1>1, <1>2, <1>3, <1>4
<1>5. CASE t # s
  <2>1. Held(decoder', t) = Held(decoder, t)
    BY <1>1, <1>5
  <2>2. Clear(Body(t), t, run[t], Held(decoder, t))
    BY <1>1 DEF ClearInv
  <2>3. QED
    BY <1>2, <1>3, <1>5, <2>1, <2>2
<1>6. QED
  BY <1>4, <1>5

\* Where the decoder is used the bytes of the streams that do not meet there are
\* not in it.
LEMMA NobodyMeets ==
    ASSUME NEW s \in Streams, NEW byte, byte = NoByte \/ byte.owner = s,
           tangled' = tangled \cup Meeting(s)
    PROVE  /\ tangled \subseteq tangled'
           /\ s \notin tangled' => s \notin tangled /\ Held(decoder, s) = decoder
           /\ Held(byte, s) = byte
           /\ \A t \in Streams \ tangled' : t # s => Held(byte, t) = Held(decoder, t)
<1>1. tangled \subseteq tangled'
  OBVIOUS
<1>2. ASSUME s \notin tangled' PROVE s \notin tangled /\ Held(decoder, s) = decoder
  <2>1. decoder = NoByte \/ decoder.owner = s
    BY <1>2 DEF Meeting
  <2>2. QED
    BY <1>2, <2>1 DEF Held
<1>3. Held(byte, s) = byte
  BY DEF Held
<1>4. ASSUME NEW t \in Streams, t \notin tangled', t # s
      PROVE  Held(byte, t) = Held(decoder, t)
  <2>1. Held(byte, t) = NoByte
    BY <1>4 DEF Held
  <2>2. decoder # NoByte => decoder.owner # t
    <3>1. ASSUME decoder # NoByte, decoder.owner = t PROVE FALSE
      <4>1. Meeting(s) = {s, t}
        BY <1>4, <3>1 DEF Meeting
      <4>2. QED
        BY <1>4, <4>1
    <3>2. QED
      BY <3>1
  <2>3. Held(decoder, t) = NoByte
    BY <2>2 DEF Held
  <2>4. QED
    BY <2>1, <2>3
<1>5. QED
  BY <1>1, <1>2, <1>3, <1>4

\* At first.
LEMMA ClearInit == ASSUME Init PROVE ClearInv
<1>1. SUFFICES ASSUME NEW s \in Streams
               PROVE  /\ run[s].at \in 0..Len(Body(s).wire)
                      /\ Clear(Body(s), s, run[s], Held(decoder, s))
  BY DEF ClearInv
<1>2. PICK r : r = Idle
  OBVIOUS
<1>3. r.phase = "idle" /\ r.at = 0
  BY <1>2 DEF Idle
<1>4. run[s] = r /\ Held(decoder, s) = NoByte
  BY <1>2 DEF Init, Held
<1>5. Len(Body(s).wire) \in Nat
  BY StreamsInit, BodiesReadable, ArrayShape DEF Readable
<1>6. Clear(Body(s), s, r, NoByte)
  BY <1>2, <1>3, <1>5 DEF Clear
<1>7. QED
  BY <1>3, <1>4, <1>5, <1>6

\* Every step.
LEMMA ClearNext ==
    ASSUME StreamsInv, ClearInv, [Next]_vars
    PROVE  ClearInv'
<1>1. ASSUME NEW s \in Streams
      PROVE  /\ Readable(Body(s)) /\ Orderly(run[s]) /\ s # NoByte.owner
             /\ run[s].at \in 0..Len(Body(s).wire) /\ Len(Body(s).wire) \in Nat
             /\ s \notin tangled => Clear(Body(s), s, run[s], Held(decoder, s))
  BY BodiesReadable, ArrayShape DEF ClearInv, Readable
<1>2. ASSUME NEW s \in Streams, Open(s) PROVE ClearInv'
  <2>1. PICK q : q = [run[s] EXCEPT !.phase = "reading", !.out = <<[type |-> "response.started"]>>]
    OBVIOUS
  <2>2. Update(s, q) /\ run[s].phase = "idle" /\ UNCHANGED <<script, decoder, tangled>>
    BY <1>2, <2>1 DEF Open
  <2>3. q.at \in 0..Len(Body(s).wire)
    <3>1. PICK r, out : r = run[s] /\ out = <<[type |-> "response.started"]>>
      OBVIOUS
    <3>2. q = [r EXCEPT !.phase = "reading", !.out = out]
      BY <2>1, <3>1
    <3>3. q.at = r.at
      BY <1>1, <3>1, <3>2 DEF Orderly, IsRun
    <3>4. QED
      BY <1>1, <3>1, <3>3
  <2>4. ASSUME s \notin tangled' PROVE Clear(Body(s), s, q, Held(decoder', s))
    <3>1. Clear(Body(s), s, run[s], Held(decoder, s))
      BY <1>1, <2>2, <2>4
    <3>2. run[s] = Idle /\ Held(decoder, s) = NoByte
      BY <2>2, <3>1 DEF Clear
    <3>3. q = Opened
      BY <2>1, <3>2 DEF Opened
    <3>4. Clear(Body(s), s, Opened, NoByte)
      BY <1>1, ClearOpens
    <3>5. QED
      BY <2>2, <3>2, <3>3, <3>4
  <2>5. QED
    BY <2>2, <2>3, <2>4, ClearUpdate
<1>3. ASSUME NEW s \in Streams, NEW n \in 1..Len(Wire(s)), Read(s, n) PROVE ClearInv'
  <2>1. PICK r, body : r = run[s] /\ body = Body(s)
    OBVIOUS
  <2>2. PICK d : d = Decode(s, decoder, SubSeq(body.wire, r.at + 1, r.at + n))
    OBVIOUS
  <2>3. PICK c : c = Split(r.buffer \o d.text)
    OBVIOUS
  <2>4. PICK q : q = [r EXCEPT !.at = r.at + n, !.buffer = c.rest, !.lines = c.lines]
    OBVIOUS
  <2>5. Wire(s) = body.wire
    BY <2>1 DEF Wire
  <2>6. /\ r.phase = "reading" /\ r.lines = <<>> /\ n \in 1..(Len(body.wire) - r.at)
        /\ Update(s, q) /\ decoder' = d.byte /\ tangled' = tangled \cup Meeting(s)
        /\ UNCHANGED script
    BY <1>3, <2>1, <2>2, <2>3, <2>4, <2>5, Zenon DEF Read
  <2>7. /\ Readable(body) /\ Orderly(r) /\ r.at \in 0..Len(body.wire) /\ Len(body.wire) \in Nat
        /\ s \notin tangled => Clear(body, s, r, Held(decoder, s))
    BY <1>1, <2>1
  <2>8. d.byte = NoByte \/ d.byte.owner = s
    <3>1. PICK w, at, to, chunk : /\ w = body.wire /\ at = r.at /\ to = at + n
                                  /\ chunk = SubSeq(w, at + 1, to)
      OBVIOUS
    <3>2. IsArray(w) /\ at \in Nat /\ to \in Nat /\ at <= to /\ to <= Len(w) /\ to - at >= 1
      <4>1. PICK len : len = Len(body.wire)
        OBVIOUS
      <4>2. len \in Nat /\ at \in 0..len /\ n \in 1..(len - at) /\ to = at + n
        BY <2>6, <2>7, <3>1, <4>1
      <4>3. at \in Nat /\ to \in Nat /\ at <= to /\ to <= len /\ to - at >= 1
        BY <4>2
      <4>4. QED
        BY <2>7, <3>1, <4>1, <4>3 DEF Readable
    <3>3. IsArray(chunk) /\ Len(chunk) >= 1
      <4>1. IsArray(SubSeq(w, at + 1, to)) /\ Len(SubSeq(w, at + 1, to)) = to - at
        BY <3>2, StretchesMeet
      <4>2. QED
        BY <3>1, <3>2, <4>1
    <3>4. d = Decode(s, decoder, chunk)
      BY <2>2, <3>1
    <3>5. QED
      BY <3>3, <3>4, DecodeOwner
  <2>9. q.at \in 0..Len(body.wire)
    <3>1. q.at = r.at + n
      BY <2>4, <2>7 DEF Orderly, IsRun
    <3>2. QED
      BY <2>6, <2>7, <3>1
  <2>10. /\ tangled \subseteq tangled'
         /\ s \notin tangled' => s \notin tangled /\ Held(decoder, s) = decoder
         /\ Held(d.byte, s) = d.byte
         /\ \A t \in Streams \ tangled' : t # s => Held(d.byte, t) = Held(decoder, t)
    BY <2>6, <2>8, NobodyMeets
  <2>11. ASSUME s \notin tangled' PROVE Clear(Body(s), s, q, Held(decoder', s))
    <3>1. Clear(body, s, r, decoder)
      BY <2>7, <2>10, <2>11
    <3>2. Clear(body, s, q, d.byte)
      BY <2>2, <2>3, <2>4, <2>6, <2>7, <3>1, ClearReads
    <3>3. QED
      BY <2>1, <2>6, <2>10, <3>2
  <2>12. QED
    BY <2>1, <2>6, <2>9, <2>10, <2>11, ClearUpdate
<1>4. ASSUME NEW s \in Streams, Line(s) PROVE ClearInv'
  <2>1. PICK r, body : r = run[s] /\ body = Body(s)
    OBVIOUS
  <2>2. PICK line, q : line = Head(r.lines) /\ q = Lined(body, r, line)
    OBVIOUS
  <2>3. Update(s, q) /\ r.lines # <<>> /\ UNCHANGED <<script, decoder, tangled>>
    BY <1>4, <2>1, <2>2 DEF Line
  <2>4. /\ Readable(body) /\ Orderly(r) /\ r.at \in 0..Len(body.wire)
        /\ s \notin tangled => Clear(body, s, r, Held(decoder, s))
    BY <1>1, <2>1
  <2>5. r.phase \in {"reading", "ending"}
    BY <2>1, <2>3 DEF StreamsInv, RunOK
  <2>6. q.at = r.at
    <3>1. Went(body, r, line, q)
      BY <2>2, <2>4, LinedIs DEF Readable
    <3>2. QED
      BY <3>1 DEF Went
  <2>7. ASSUME s \notin tangled' PROVE Clear(Body(s), s, q, Held(decoder', s))
    <3>1. PICK held : held = Held(decoder, s)
      OBVIOUS
    <3>2. Clear(body, s, q, held)
      BY <2>2, <2>3, <2>4, <2>5, <2>7, <3>1, ClearLine
    <3>3. QED
      BY <2>1, <2>3, <3>1, <3>2
  <2>8. QED
    BY <2>1, <2>3, <2>4, <2>6, <2>7, ClearUpdate
<1>5. ASSUME NEW s \in Streams, BodyEnds(s) PROVE ClearInv'
  <2>1. PICK r, body : r = run[s] /\ body = Body(s)
    OBVIOUS
  <2>2. PICK rest : rest = r.buffer \o Flushed(decoder)
    OBVIOUS
  <2>3. PICK q : q = [r EXCEPT !.phase = "ending", !.buffer = <<>>,
                               !.lines = (IF rest = <<>> THEN <<>> ELSE <<rest>>) \o <<<<>>>>]
    OBVIOUS
  <2>4. /\ r.phase = "reading" /\ r.lines = <<>> /\ Update(s, q) /\ decoder' = NoByte
        /\ tangled' = tangled \cup Meeting(s) /\ UNCHANGED script
    BY <1>5, <2>1, <2>2, <2>3, Zenon DEF BodyEnds
  <2>5. /\ Readable(body) /\ Orderly(r) /\ r.at \in 0..Len(body.wire)
        /\ s \notin tangled => Clear(body, s, r, Held(decoder, s))
    BY <1>1, <2>1
  <2>6. q.at = r.at
    <3>1. PICK blank, lines : /\ blank = <<>>
                              /\ lines = (IF rest = <<>> THEN <<>> ELSE <<rest>>) \o <<<<>>>>
      OBVIOUS
    <3>2. q = [r EXCEPT !.phase = "ending", !.buffer = blank, !.lines = lines]
      BY <2>3, <3>1, Zenon
    <3>3. QED
      BY <2>5, <3>2 DEF Orderly, IsRun
  <2>7. /\ tangled \subseteq tangled'
        /\ s \notin tangled' => s \notin tangled /\ Held(decoder, s) = decoder
        /\ Held(NoByte, s) = NoByte
        /\ \A t \in Streams \ tangled' : t # s => Held(NoByte, t) = Held(decoder, t)
    BY <2>4, NobodyMeets
  <2>8. ASSUME s \notin tangled' PROVE Clear(Body(s), s, q, Held(decoder', s))
    <3>1. Clear(body, s, r, decoder)
      BY <2>5, <2>7, <2>8
    <3>2. \A h : Clear(body, s, [r EXCEPT !.phase = "ending", !.buffer = <<>>,
                                  !.lines = (IF rest = <<>> THEN <<>> ELSE <<rest>>) \o <<<<>>>>], h)
      BY <2>2, <2>4, <2>5, <3>1, ClearEnds
    <3>3. \A h : Clear(body, s, q, h)
      BY <2>3, <3>2, Zenon
    <3>4. QED
      BY <2>1, <3>3
  <2>9. QED
    BY <2>1, <2>4, <2>5, <2>6, <2>7, <2>8, ClearUpdate
<1>6. ASSUME NEW s \in Streams, Finish(s) PROVE ClearInv'
  <2>1. PICK r, body : r = run[s] /\ body = Body(s)
    OBVIOUS
  <2>2. PICK q : q = Yielded(body, r, AfterLoop(body.dialect, r.state), TRUE)
    OBVIOUS
  <2>3. /\ r.phase = "ending" /\ r.lines = <<>> /\ Update(s, q)
        /\ UNCHANGED <<script, decoder, tangled>>
    BY <1>6, <2>1, <2>2 DEF Finish
  <2>4. /\ Readable(body) /\ Orderly(r) /\ r.at \in 0..Len(body.wire)
        /\ s \notin tangled => Clear(body, s, r, Held(decoder, s))
    BY <1>1, <2>1
  <2>5. q.at = r.at
    BY <2>2, <2>4, ClosedIs DEF Readable
  <2>6. s \notin tangled' => Clear(Body(s), s, q, Held(decoder', s))
    BY <2>1, <2>2, <2>3, <2>4, ClearFinishes
  <2>7. QED
    BY <2>1, <2>3, <2>4, <2>5, <2>6, ClearUpdate
<1>7. ASSUME NEW s \in Streams, TransportFails(s) PROVE ClearInv'
  <2>1. PICK r, body : r = run[s] /\ body = Body(s)
    OBVIOUS
  <2>2. PICK log : log = IF r.log # <<>> THEN r.log
                         ELSE <<IF r.aborted THEN "cancelled" ELSE "failed">>
    OBVIOUS
  <2>3. PICK q : q = Ended(r, "threw", log)
    OBVIOUS
  <2>4. r.phase = "reading" /\ Update(s, q) /\ UNCHANGED <<script, decoder, tangled>>
    BY <1>7, <2>1, <2>2, <2>3, Zenon DEF TransportFails
  <2>5. /\ Readable(body) /\ Orderly(r) /\ r.at \in 0..Len(body.wire)
        /\ s \notin tangled => Clear(body, s, r, Held(decoder, s))
    BY <1>1, <2>1
  <2>6. q.at = r.at
    BY <2>3, EndedIs
  <2>7. s \notin tangled' => Clear(Body(s), s, q, Held(decoder', s))
    BY <2>1, <2>3, <2>4, <2>5, ClearGivenUp
  <2>8. QED
    BY <2>1, <2>4, <2>5, <2>6, <2>7, ClearUpdate
<1>8. ASSUME NEW s \in Streams, Abort(s) PROVE ClearInv'
  <2>1. PICK r, body : r = run[s] /\ body = Body(s)
    OBVIOUS
  <2>2. PICK q : q = [r EXCEPT !.aborted = TRUE]
    OBVIOUS
  <2>3. r.phase = "reading" /\ Update(s, q) /\ UNCHANGED <<script, decoder, tangled>>
    BY <1>8, <2>1, <2>2 DEF Abort
  <2>4. /\ Readable(body) /\ Orderly(r) /\ r.at \in 0..Len(body.wire)
        /\ s \notin tangled => Clear(body, s, r, Held(decoder, s))
    BY <1>1, <2>1
  <2>5. q.at = r.at
    BY <2>2, <2>4 DEF Orderly, IsRun
  <2>6. s \notin tangled' => Clear(Body(s), s, q, Held(decoder', s))
    BY <2>1, <2>2, <2>3, <2>4, ClearAborts
  <2>7. QED
    BY <2>1, <2>3, <2>4, <2>5, <2>6, ClearUpdate
<1>9. ASSUME NEW s \in Streams, Leave(s) PROVE ClearInv'
  <2>1. PICK r, body : r = run[s] /\ body = Body(s)
    OBVIOUS
  <2>2. PICK log : log = IF r.log # <<>> THEN r.log ELSE <<"cancelled">>
    OBVIOUS
  <2>3. PICK q : q = Ended(r, "left", log)
    OBVIOUS
  <2>4. /\ r.phase \in {"reading", "ending"} /\ Update(s, q)
        /\ UNCHANGED <<script, decoder, tangled>>
    BY <1>9, <2>1, <2>2, <2>3, Zenon DEF Leave
  <2>5. /\ Readable(body) /\ Orderly(r) /\ r.at \in 0..Len(body.wire)
        /\ s \notin tangled => Clear(body, s, r, Held(decoder, s))
    BY <1>1, <2>1
  <2>6. q.at = r.at
    BY <2>3, EndedIs
  <2>7. s \notin tangled' => Clear(Body(s), s, q, Held(decoder', s))
    BY <2>1, <2>3, <2>4, <2>5, ClearGivenUp
  <2>8. QED
    BY <2>1, <2>4, <2>5, <2>6, <2>7, ClearUpdate
<1>10. CASE UNCHANGED vars
  BY <1>10 DEF vars, ClearInv, Body
<1>11. QED
  BY <1>2, <1>3, <1>4, <1>5, <1>6, <1>7, <1>8, <1>9, <1>10 DEF Next

\* The invariant says what the property says.
LEMMA ClearTells == ASSUME StreamsInv, ClearInv PROVE CutsDoNotMatter
<1>1. SUFFICES ASSUME NEW s \in Streams, s \notin tangled
               PROVE  LET r == run[s] IN
                      /\ r.phase = "reading" => IsPrefix(r.out, MeantBy[script[s]])
                      /\ r.end \in {"left", "threw"} => IsPrefix(r.out, OneChunk[script[s]][r.at])
                      /\ r.end = "done" => r.out = OneChunk[script[s]][r.at]
                      /\ r.end = "done" /\ r.at = Len(Wire(s)) => r.out = MeantBy[script[s]]
  BY DEF CutsDoNotMatter
<1>2. PICK r, body, held, name : /\ r = run[s] /\ body = Body(s) /\ held = Held(decoder, s)
                                 /\ name = script[s]
  OBVIOUS
<1>3. /\ name \in DOMAIN Bodies /\ Readable(body) /\ Orderly(r) /\ Clear(body, s, r, held)
      /\ body = Bodies[name] /\ IsArray(r.out)
  BY <1>1, <1>2, BodiesReadable DEF ClearInv, Body, Orderly
<1>4. Wire(s) = body.wire /\ Len(body.wire) \in Nat /\ r.at \in 0..Len(body.wire)
  BY <1>2, <1>3, ArrayShape DEF Wire, Readable, Clear
<1>5. OneChunk[name][r.at] = InOneChunk(body, r.at)
  BY <1>3, <1>4 DEF OneChunk
<1>6. MeantBy[name] = InOneChunk(body, Len(body.wire))
  BY <1>3, BodiesAreRendered DEF MeantBy
<1>7. ASSUME r.phase = "reading" PROVE IsPrefix(r.out, MeantBy[name])
  <2>1. Len(body.wire) \in r.at..Len(body.wire)
    BY <1>4
  <2>2. PICK all : all = InOneChunk(body, Len(body.wire))
    OBVIOUS
  <2>3. IsArray(all) /\ Begins(r.out, all)
    BY <1>3, <1>7, <2>1, <2>2, ClearBegins
  <2>4. IsPrefix(r.out, all)
    BY <1>3, <2>3, BeginsGoesOn
  <2>5. QED
    BY <1>6, <2>2, <2>4
<1>8. r.end \in {"left", "threw", "done"} => r.phase = "closed"
  <2>1. r.phase \in {"idle", "reading", "ending", "closed"}
    BY <1>2 DEF StreamsInv, RunOK
  <2>2. Idle.end = "none"
    BY DEF Idle
  <2>3. r.phase # "closed" => r.end = "none"
    BY <1>3, <2>1, <2>2 DEF Clear
  <2>4. QED
    BY <2>3
<1>9. ASSUME r.end \in {"left", "threw"} PROVE IsPrefix(r.out, OneChunk[name][r.at])
  <2>1. IsArray(InOneChunk(body, r.at)) /\ Begins(r.out, InOneChunk(body, r.at))
    BY <1>3, <1>8, <1>9 DEF Clear
  <2>2. IsPrefix(r.out, InOneChunk(body, r.at))
    BY <1>3, <2>1, BeginsGoesOn
  <2>3. QED
    BY <1>5, <2>2
<1>10. ASSUME r.end = "done" PROVE r.out = InOneChunk(body, r.at)
  BY <1>3, <1>8, <1>10 DEF Clear
<1>11. QED
  BY <1>2, <1>4, <1>5, <1>6, <1>7, <1>9, <1>10

\* Wherever the chunks of a body are cut, a stream nobody's bytes met hands out
\* what the server meant (sse.ts parseSseEvents).
THEOREM CutsInvariant == Spec => []CutsDoNotMatter
<1>1. Init => StreamsInv /\ ClearInv
  BY StreamsInit, ClearInit
<1>2. (StreamsInv /\ ClearInv) /\ [Next]_vars => (StreamsInv /\ ClearInv)'
  BY StreamsNext, ClearNext
<1>3. StreamsInv /\ ClearInv => CutsDoNotMatter
  BY ClearTells
<1>4. QED
  BY <1>1, <1>2, <1>3, PTL DEF Spec

=============================================================================
