---------------------------- MODULE CursorStream ----------------------------
(***************************************************************************)
(* One chat request in the Cursor bridge: it is checked and sent on, and   *)
(* the vendor's frames are turned into an OpenAI answer while they come,   *)
(* as server-sent events or collected into one message.  The vendor may    *)
(* refuse the request in its last frame, send frames that cannot be read,  *)
(* cut the connection anywhere or fall silent; after five minutes, or when *)
(* the client goes away, the read fails.                                   *)
(*                                                                         *)
(* The pieces of text are told apart by the frame they came in; the tags   *)
(* come from no frame.  Bytes are in CursorWire.                           *)
(***************************************************************************)
EXTENDS Integers, Sequences, SequencesExt

CONSTANTS
    Code,       \* Connect codes an end frame may carry; "" is no code
    MaxFrames   \* bound: frames the vendor sends

ASSUME StreamAssumption == MaxFrames \in Nat

VARIABLES
    pc,         \* "new", "read", "ended"
    stream,     \* reqBody.Stream
    wire,       \* frames sent and not yet read
    frames,     \* number of frames sent
    open,       \* thinkingTagger.open
    buffer,     \* collectResponse: content
    status,     \* status of the answer; 0 before WriteHeader
    out,        \* events written to the client
    got,        \* history: pieces decoded so far
    verdict     \* history: how the vendor's stream ended

streamVars ==
    <<pc, stream, wire, frames, open, buffer, status, out, got, verdict>>

OpenTag == <<0, "<thinking>">>
CloseTag == <<0, "</thinking>">>
Tags == {OpenTag, CloseTag}
Piece == (1..MaxFrames) \X {"thinking", "text"}
Chunk(n, parts) == [kind |-> "chunk", n |-> n, parts |-> parts]
End(error, code) == [kind |-> "end", error |-> error, code |-> code]
Other(kind) == [kind |-> kind]

StreamInit ==
    /\ pc = "new" /\ stream \in BOOLEAN /\ wire = <<>> /\ frames = 0
    /\ open = FALSE /\ buffer = <<>> /\ status = 0 /\ out = <<>>
    /\ got = <<>> /\ verdict = "none"

----------------------------------------------------------------------------
(* handleChatCompletions, up to the vendor's answer. *)

Refuse(code) ==
    /\ pc' = "ended" /\ status' = code /\ out' = <<[e |-> "error"]>>
    /\ UNCHANGED <<stream, wire, frames, open, buffer, got, verdict>>

\* 400: body, messages or token; 500: a proxy that cannot be used; 502: no
\* connection; anything but 200 from the vendor is passed on.
Reject == pc = "new" /\ \E code \in {400, 500, 502, 401, 429} : Refuse(code)

Accept ==
    /\ pc = "new" /\ pc' = "read"
    /\ UNCHANGED <<stream, wire, frames, open, buffer, status, out, got, verdict>>

----------------------------------------------------------------------------
(* The vendor. *)

Ended == \E i \in DOMAIN wire : wire[i].kind \in {"end", "eof", "short"}

VendorSends ==
    /\ pc = "read" /\ frames < MaxFrames /\ ~Ended /\ frames' = frames + 1
    /\ \E f \in {Chunk(frames + 1, parts) : parts \in SUBSET {"thinking", "text"}}
             \cup {Other(k) : k \in {"undecodable", "badgzip", "toobig"}} :
          wire' = Append(wire, f)
    /\ UNCHANGED <<pc, stream, open, buffer, status, out, got, verdict>>

\* The stream ends with its frame, between two frames or inside one.
VendorEnds ==
    /\ pc = "read" /\ ~Ended
    /\ \E f \in {End(TRUE, c) : c \in Code} \cup {End(FALSE, ""), Other("eof"), Other("short")} :
          wire' = Append(wire, f)
    /\ UNCHANGED <<pc, stream, frames, open, buffer, status, out, got, verdict>>

----------------------------------------------------------------------------
(* The tagger: pieces to write, with the tags around runs of thinking. *)

close == IF open THEN <<CloseTag>> ELSE <<>>

next(n, parts) ==
    (IF "thinking" \in parts
     THEN (IF open THEN <<>> ELSE <<OpenTag>>) \o <<<<n, "thinking">>>> ELSE <<>>)
    \o (IF "text" \in parts
        THEN (IF open \/ "thinking" \in parts THEN <<CloseTag>> ELSE <<>>) \o <<<<n, "text">>>>
        ELSE <<>>)

\* What a chunk has brought.
Decoded(n, parts) ==
    (IF "thinking" \in parts THEN <<<<n, "thinking">>>> ELSE <<>>)
    \o (IF "text" \in parts THEN <<<<n, "text">>>> ELSE <<>>)

\* emit: nothing for nothing; the role goes out before the first content.
Emitted(events, pieces) ==
    IF pieces = <<>> THEN events
    ELSE events \o (IF events = <<>> THEN <<[e |-> "role"]>> ELSE <<>>)
         \o <<[e |-> "content", c |-> pieces]>>

----------------------------------------------------------------------------
(* readFrames. *)

\* What the vendor said with a frame, whatever the bridge makes of it.
Said(f) ==
    CASE f.kind = "end" -> IF f.error THEN "failed" ELSE "clean"
      [] f.kind = "eof" -> "clean"
      [] f.kind \in {"short", "badgzip", "toobig"} -> "failed"
      [] OTHER -> verdict

Take == wire' = Tail(wire) /\ verdict' = Said(Head(wire)) /\ UNCHANGED <<stream, frames>>
Reads(kinds) == pc = "read" /\ wire # <<>> /\ Head(wire).kind \in kinds

ReadChunk ==
    /\ Reads({"chunk"}) /\ Take
    /\ LET f == Head(wire)
           pieces == next(f.n, f.parts)
       IN  /\ got' = got \o Decoded(f.n, f.parts)
           /\ open' = IF "text" \in f.parts THEN FALSE ELSE open \/ "thinking" \in f.parts
           /\ IF stream
              THEN /\ out' = Emitted(out, pieces)
                   /\ status' = IF pieces = <<>> THEN status ELSE 200
                   /\ UNCHANGED buffer
              ELSE buffer' = buffer \o pieces /\ UNCHANGED <<out, status>>
    /\ UNCHANGED pc

\* A payload that does not decode is skipped.
SkipFrame == Reads({"undecodable"}) /\ Take /\ UNCHANGED <<pc, open, buffer, status, out, got>>

errorStatus(code) ==
    CASE code = "unauthenticated" -> 401 [] code = "permission_denied" -> 403
      [] code = "resource_exhausted" -> 429 [] code = "invalid_argument" -> 400
      [] code = "unavailable" -> 503 [] OTHER -> 502

\* Before the first event an error has a status of its own, and collectResponse
\* has written nothing yet; later it is an event, and the stream is ended as
\* always.
Fail(code) ==
    /\ pc' = "ended" /\ open' = FALSE
    /\ IF stream /\ out # <<>>
       THEN /\ out' = Emitted(out \o <<[e |-> "error"]>>, close) \o <<[e |-> "stop"], [e |-> "DONE"]>>
            /\ UNCHANGED status
       ELSE status' = errorStatus(code) /\ out' = <<[e |-> "error"]>>
    /\ UNCHANGED <<buffer, got>>

\* Mutant: a thinking block is left open.
FinishOpen ==
    /\ pc' = "ended" /\ open' = FALSE /\ status' = 200
    /\ out' = (IF stream THEN out \o <<[e |-> "stop"], [e |-> "DONE"]>>
               ELSE <<[e |-> "message", c |-> buffer]>>)
    /\ UNCHANGED <<buffer, got>>

Finish ==
    /\ pc' = "ended" /\ open' = FALSE /\ status' = 200
    /\ out' = (IF stream THEN Emitted(out, close) \o <<[e |-> "stop"], [e |-> "DONE"]>>
               ELSE <<[e |-> "message", c |-> buffer \o close]>>)
    /\ UNCHANGED <<buffer, got>>

\* Mutant: the end frame only ends.
ReadEndQuiet == Reads({"end"}) /\ Take /\ Finish

\* parseEndStream: the last frame may carry an error, in JSON or not.
ReadEnd ==
    /\ Reads({"end"}) /\ Take
    /\ IF Head(wire).error THEN Fail(Head(wire).code) ELSE Finish

\* A connection that ends in front of a frame or in its header ends normally.
ReadEOF == Reads({"eof"}) /\ Take /\ Finish

\* A frame that is cut off, does not unpack or claims more than the maximum.
ReadBroken == Reads({"short", "badgzip", "toobig"}) /\ Take /\ Fail("")

\* Mutant: the request has no deadline of its own.
NeverDeadline == FALSE /\ UNCHANGED streamVars

\* The context of the request is done: five minutes, or the client is gone.
Deadline ==
    /\ pc = "read" /\ Fail("") /\ verdict' = "failed"
    /\ UNCHANGED <<stream, wire, frames>>

Reader == ReadChunk \/ SkipFrame \/ ReadEnd \/ ReadEOF \/ ReadBroken

StreamNext == Accept \/ Reject \/ VendorSends \/ VendorEnds \/ Reader \/ Deadline

StreamSpec == StreamInit /\ [][StreamNext]_streamVars

\* The handler's goroutine runs on, and its context's timer fires.
FairStream ==
    /\ StreamSpec
    /\ WF_streamVars(Accept \/ Reject) /\ WF_streamVars(Reader) /\ WF_streamVars(Deadline)

----------------------------------------------------------------------------
StreamTypes ==
    /\ pc \in {"new", "read", "ended"} /\ stream \in BOOLEAN /\ open \in BOOLEAN
    /\ frames \in 0..MaxFrames /\ Len(wire) <= frames + 1 /\ got \in Seq(Piece)
    /\ buffer \in Seq(Piece \cup Tags) /\ status \in {0, 200, 400, 401, 403, 429, 500, 502, 503}
    /\ verdict \in {"none", "clean", "failed"}

\* What the client has been given: the contents of all events.
ContentOf(event) == IF event.e \in {"content", "message"} THEN event.c ELSE <<>>
Written == FlattenSeq([i \in DOMAIN out |-> ContentOf(out[i])])
Forwarded == IF stream \/ status = 200 THEN Written ELSE buffer
Events == [i \in DOMAIN out |-> out[i].e]

\* A text without its tags.
Untagged(text) ==
    FlattenSeq([i \in DOMAIN text |-> IF text[i] \in Tags THEN <<>> ELSE <<text[i]>>])

\* After its first k pieces a text is inside a thinking block.
Inside(text, k) ==
    \E j \in 1..k : text[j] = OpenTag /\ \A i \in j..k : text[i] # CloseTag

\* Every piece of text that was decoded is passed on, in the order it came and
\* once, in both kinds of answer and also when the stream then fails
\* (thinkingTagger, streamResponse, collectResponse).
NothingLost == Untagged(Forwarded) = got

\* Thinking is between its tags, other text never is, and tags do not nest.
Tagged(text) ==
    \A k \in 1..Len(text) :
        /\ text[k] = OpenTag => ~Inside(text, k - 1)
        /\ text[k] = CloseTag => Inside(text, k - 1)
        /\ text[k] \notin Tags => (text[k][2] = "thinking" <=> Inside(text, k))

\* What is forwarded is tagged, and a stream that has ended has no block open,
\* failed or not (thinkingTagger).
ThinkingIsTagged ==
    /\ Tagged(Forwarded)
    /\ pc = "ended" /\ status = 200 => ~Inside(Forwarded, Len(Forwarded))

\* The client reads the vendor's text and nothing else: all of it, in order,
\* with the thinking marked (thinkingTagger, streamResponse, collectResponse).
TextIsFaithful == StreamTypes /\ NothingLost /\ ThinkingIsTagged

\* A request that failed is never answered like one that succeeded: if nothing
\* was streamed its status is an error, otherwise there is an error among its
\* events, and a collected answer is not given at all; and the other way round
\* (streamResponse, parseEndStream, errorStatus).
FailureIsVisible ==
    pc = "ended" =>
        LET error == status # 200 \/ "error" \in Range(Events)
        IN  /\ verdict = "clean" => ~error
            /\ verdict = "failed" => error /\ (got = <<>> \/ ~stream => status # 200)

\* Every request is answered, though the vendor falls silent
\* (handleChatCompletions).
RequestIsAnswered == <>(pc = "ended" /\ status # 0)

=============================================================================
