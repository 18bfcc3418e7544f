----------------------------- MODULE CursorWire -----------------------------
(***************************************************************************)
(* The bytes the Cursor bridge exchanges with the vendor: the hand-written *)
(* protobuf codec, the chat request with its envelope, the answers it      *)
(* decodes, and the scrambled clock of the checksum.  Bytes are 0..255 and *)
(* strings sequences of them; gzip only appears as the flag that asks for  *)
(* it.  Varints have at most two bytes here (64 bits in the code).         *)
(***************************************************************************)
EXTENDS Integers, Sequences, SequencesExt, Bitwise

----------------------------------------------------------------------------
(* Encoding. *)

appendVarint(v) == IF v < 128 THEN <<v>> ELSE <<128 + (v % 128), v \div 128>>
appendTag(field, wire) == appendVarint(field * 8 + wire)

\* An empty string and a zero are not written; an empty message is.
appendBytesField(field, b) == appendTag(field, 2) \o appendVarint(Len(b)) \o b
appendMessage(field, m) == appendBytesField(field, m)
appendString(field, s) == IF s = <<>> THEN <<>> ELSE appendBytesField(field, s)
appendInt32(field, v) == IF v = 0 THEN <<>> ELSE appendTag(field, 0) \o appendVarint(v)

ChatMessageEncode(m) ==
    appendString(1, m.Content) \o appendInt32(2, m.Role) \o appendString(13, m.MessageID)
    \o appendInt32(47, m.ChatModeEnum)

MessageIDRefEncode(m) == appendString(1, m.MessageID) \o appendInt32(3, m.Role)

\* Five fixed strings in the code, of which the last is the time.
RequestMetadataEncode(timestamp) == appendString(1, <<119>>) \o appendString(5, timestamp)

cursorSetting ==
    appendString(1, <<99>>) \o appendBytesField(3, <<>>)
    \o appendMessage(6, appendBytesField(1, <<>>) \o appendBytesField(2, <<>>))
    \o appendInt32(8, 1) \o appendInt32(9, 1)

ChatRequestEncode(r) ==
    FlattenSeq([i \in DOMAIN r.Messages |-> appendMessage(1, ChatMessageEncode(r.Messages[i]))])
    \o appendInt32(2, 1)
    \o (IF r.Instruction = <<>> THEN <<>> ELSE appendMessage(3, appendString(1, r.Instruction)))
    \o appendInt32(4, 1)
    \o appendMessage(5, appendString(1, r.ModelName) \o appendBytesField(4, <<>>))
    \o appendInt32(13, 1) \o appendMessage(15, cursorSetting) \o appendInt32(19, 1)
    \o appendString(23, r.ConversationID) \o appendMessage(26, RequestMetadataEncode(<<48>>))
    \o FlattenSeq([i \in DOMAIN r.Messages |-> appendMessage(30, MessageIDRefEncode(r.Messages[i]))])
    \o appendInt32(46, 1) \o appendInt32(53, 1) \o appendString(54, <<65>>)

EncodeStreamUnifiedChatRequest(r) == appendMessage(1, ChatRequestEncode(r))

----------------------------------------------------------------------------
(* Decoding. *)

\* binary.Uvarint: n = 0 where the bytes end inside the number.
Uvarint(data) ==
    IF data = <<>> THEN [v |-> 0, n |-> 0]
    ELSE IF data[1] < 128 THEN [v |-> data[1], n |-> 1]
    ELSE IF Len(data) < 2 THEN [v |-> 0, n |-> 0]
    ELSE [v |-> data[1] - 128 + 128 * data[2], n |-> 2]

From(data, n) == SubSeq(data, n + 1, Len(data))

\* The fields of a message; this one where it is cut off or malformed.
BadMessage == <<[num |-> 0, wire |-> 0, uvar |-> 0, raw |-> <<>>]>>
RECURSIVE parseFields(_)
parseFields(data) ==
    IF data = <<>> THEN <<>>
    ELSE LET tag == Uvarint(data)
             rest == From(data, tag.n)
             f == [num |-> tag.v \div 8, wire |-> tag.v % 8, uvar |-> 0, raw |-> <<>>]
             x == Uvarint(rest)
             fixed == IF f.wire = 1 THEN 8 ELSE 4
             Then(field, n) == LET more == parseFields(From(rest, n))
                               IN  IF more = BadMessage THEN BadMessage ELSE <<field>> \o more
         IN  IF tag.n = 0 THEN BadMessage
             ELSE CASE f.wire = 0 /\ x.n > 0 -> Then([f EXCEPT !.uvar = x.v], x.n)
                    [] f.wire \in {1, 5} /\ Len(rest) >= fixed -> Then(f, fixed)
                    [] f.wire = 2 /\ x.n > 0 /\ Len(rest) - x.n >= x.v ->
                          Then([f EXCEPT !.raw = SubSeq(rest, x.n + 1, x.n + x.v)], x.n + x.v)
                    [] OTHER -> BadMessage

Raws(fields, num) == SelectSeq(fields, LAMBDA f : f.num = num /\ f.wire = 2)

\* The last one counts.
LastRaw(fields, num) ==
    IF Raws(fields, num) = <<>> THEN <<>> ELSE Last(Raws(fields, num)).raw

NoChunk == [ok |-> FALSE, Content |-> <<>>, Thinking |-> <<>>]

\* Mutant: every part that parses is taken for the message.
DecodeAnyMessage(data) ==
    LET parts == SelectSeq(parseFields(data), LAMBDA f : f.wire = 2 /\ parseFields(f.raw) # BadMessage)
        all == FlattenSeq([i \in DOMAIN parts |-> parseFields(parts[i].raw)])
    IN  [ok |-> TRUE, Content |-> LastRaw(all, 1),
         Thinking |-> LastRaw(parseFields(LastRaw(all, 25)), 1)]

\* message = 2 { content = 1, thinking = 25 { text = 1 } }; a thinking part that
\* does not parse is passed over.
DecodeStreamUnifiedChatResponse(data) ==
    LET outer == parseFields(data)
        message == Raws(outer, 2)
        inner == [i \in DOMAIN message |-> parseFields(message[i].raw)]
        all == FlattenSeq(inner)
        texts == [i \in DOMAIN Raws(all, 25) |-> parseFields(Raws(all, 25)[i].raw)]
    IN  IF outer = BadMessage \/ \E i \in DOMAIN inner : inner[i] = BadMessage THEN NoChunk
        ELSE [ok |-> TRUE, Content |-> LastRaw(all, 1),
              Thinking |-> LastRaw(FlattenSeq(texts), 1)]

----------------------------------------------------------------------------
(* The chat request. *)

JoinLines(texts) ==
    FoldLeft(LAMBDA s, t : IF s = <<>> THEN t ELSE s \o <<10>> \o t, <<>>, texts)

\* UnmarshalJSON: a string, or parts of which those without text are dropped.
MessageText(content) ==
    IF content.shape = "string" THEN content.text
    ELSE JoinLines(SelectSeq(content.parts, LAMBDA p : p # <<>>))

\* System messages make up the instruction; from three others on the payload is
\* compressed.  The envelope is the flag and the length in four bytes.
GenerateChatBody(messages, model) ==
    LET texts == [i \in DOMAIN messages |-> MessageText(messages[i].content)]
        system == SelectSeq([i \in DOMAIN messages |-> i], LAMBDA i : messages[i].role = "system")
        others == SelectSeq([i \in DOMAIN messages |-> i], LAMBDA i : messages[i].role # "system")
        request == [Instruction |-> JoinLines([i \in DOMAIN system |-> texts[system[i]]]),
                    ModelName |-> model, ConversationID |-> <<1>>,
                    Messages |-> [i \in DOMAIN others |->
                        [Content |-> texts[others[i]], MessageID |-> <<100 + others[i]>>,
                         Role |-> IF messages[others[i]].role = "user" THEN 1 ELSE 2,
                         ChatModeEnum |-> IF messages[others[i]].role = "user" THEN 1 ELSE 0]]]
        payload == EncodeStreamUnifiedChatRequest(request)
    IN  <<IF Len(others) >= 3 THEN 1 ELSE 0, 0, 0, Len(payload) \div 256, Len(payload) % 256>>
        \o payload

----------------------------------------------------------------------------
(* The checksum's clock. *)

\* Each byte is combined with the one before it, as written, and its place.
obfuscateBytes(b) ==
    LET Step(done, x) ==
            Append(done, ((x ^^ (IF done = <<>> THEN 165 ELSE Last(done))) + Len(done)) % 256)
    IN  FoldLeft(Step, <<>>, b)

\* ts is the four bytes of the tick, most significant first.
Checksum(ts) == obfuscateBytes(<<ts[3], ts[4], ts[1], ts[2], ts[3], ts[4]>>)

=============================================================================
