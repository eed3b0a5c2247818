------------------------------- MODULE Sse -------------------------------
(***************************************************************************)
(* packages/llms utils/sse.ts: bytes to server-sent events.                *)
(*                                                                         *)
(* A wire is a sequence of pieces of bytes; a chunk ends between any two   *)
(* of them.  The pieces that matter to the parser are the line ends, the   *)
(* field names and the values; a value is one piece when it is ASCII, or   *)
(* two when it holds a two-byte character: the first ends with the         *)
(* character's first byte, the second starts with its second byte.  The    *)
(* decoder turns pieces into text: the character is "char" when both       *)
(* bytes met in the decoder and "bad" (U+FFFD, or the character of two     *)
(* strangers' bytes) otherwise.                                            *)
(***************************************************************************)
EXTENDS SequencesExt

LF == [piece |-> "lf"]
CR == [piece |-> "cr"]
EventField == [piece |-> "event"]
DataField == [piece |-> "data"]
Comment == [piece |-> "comment"]
Ascii(v) == [piece |-> "ascii", value |-> v]
Opening(v) == [piece |-> "opening", value |-> v]
Closing(v) == [piece |-> "closing", value |-> v]
Good == [piece |-> "char"]
Bad == [piece |-> "bad"]

\* The decoder between two calls: nothing, or the first byte of a character
\* of somebody's value.
NoByte == [owner |-> "none"]
Byte(owner, v) == [owner |-> owner, value |-> v]

\* decoder.decode(chunk, { stream: true }) for one piece: d.byte is the decoder,
\* d.text what it has returned so far, d.owner whose chunk it is.
DecodePiece(d, b) ==
    LET junk == IF d.byte # NoByte THEN <<Bad>> ELSE <<>>
        char == IF d.byte = Byte(d.owner, b.value) THEN Good ELSE Bad
    IN  [d EXCEPT !.byte = IF b.piece = "opening" THEN Byte(d.owner, b.value) ELSE NoByte,
                  !.text = @ \o (IF b.piece = "closing" THEN <<char, b>> ELSE junk \o <<b>>)]

Decode_Bug(owner, byte, chunk) ==
    \* Bug: without { stream: true } the first half of a character is not kept.
    LET d == FoldLeft(DecodePiece, [owner |-> owner, byte |-> byte, text |-> <<>>], chunk)
    IN  [d EXCEPT !.byte = NoByte, !.text = @ \o (IF d.byte = NoByte THEN <<>> ELSE <<Bad>>)]
Decode(owner, byte, chunk) ==
    FoldLeft(DecodePiece, [owner |-> owner, byte |-> byte, text |-> <<>>], chunk)

\* decoder.decode() at the end of a stream.
Flushed(byte) == IF byte = NoByte THEN <<>> ELSE <<Bad>>

\* buffer.split(/\r?\n/): the complete lines, and the rest, which stays in
\* the buffer.
SplitPiece(cut, a) ==
    IF a # LF THEN [cut EXCEPT !.rest = Append(@, a)]
    ELSE [lines |-> Append(cut.lines, IF cut.rest # <<>> /\ Last(cut.rest) = CR
                                      THEN Front(cut.rest) ELSE cut.rest),
          rest |-> <<>>]

Split(text) == FoldLeft(SplitPiece, [lines |-> <<>>, rest |-> <<>>], text)

\* The parser between two lines: the event's name and its data lines.
NoName == <<[piece |-> "undefined"]>>
NoEvent == [event |-> NoName, data |-> <<>>]

\* emit: data.join('\n').
Emitted(sse) ==
    IF sse = NoEvent THEN <<>>
    ELSE <<[event |-> sse.event,
            data |-> FlattenSeq([i \in DOMAIN sse.data |->
                                   IF i = 1 THEN sse.data[i] ELSE <<LF>> \o sse.data[i]])]>>

\* processLine: the parser after the line and the event it emits, if any.  A
\* line that starts with anything else than a known field changes nothing.
ProcessLine(sse, line) ==
    CASE line = <<>> -> [sse |-> NoEvent, events |-> Emitted(sse)]
      [] line # <<>> /\ line[1] = EventField ->
           [sse |-> [sse EXCEPT !.event = Tail(line)], events |-> <<>>]
      [] line # <<>> /\ line[1] = DataField ->
           [sse |-> [sse EXCEPT !.data = Append(@, Tail(line))], events |-> <<>>]
      [] OTHER -> [sse |-> sse, events |-> <<>>]

\* JSON.parse of the data: the value, the value with a wrong character in its
\* text, or nothing.  The two-byte character is inside a string of the value.
Malformed == [malformed |-> TRUE]
Json(data, Garbled(_)) ==
    CASE Len(data) = 1 /\ data[1].piece = "ascii" -> data[1].value
      [] Len(data) = 3 /\ data[1].piece = "opening" /\ data[3] = Closing(data[1].value) ->
           IF data[2] = Good THEN data[1].value ELSE Garbled(data[1].value)
      [] OTHER -> Malformed
=============================================================================
