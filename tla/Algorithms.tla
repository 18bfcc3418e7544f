------------------------------ MODULE Algorithms ------------------------------
(***************************************************************************)
(* The computations of ModelCatalog, VendorQuota, PanelReads and           *)
(* CursorWire over bounded inputs: every step chooses one input for one of *)
(* them, and the invariants compare what the code computes from it with    *)
(* what it is for.  Those of the first three are in Computations.          *)
(***************************************************************************)
EXTENDS Computations, CursorWire

CONSTANT MaxEntries     \* bound: usage entries

Init == input = [kind |-> "none"]

----------------------------------------------------------------------------
(* Inputs. *)

Names == {<<"gpt">>, <<"low">>, <<"gpt", "high">>, <<"gpt", "4">>, <<"", "low">>}

ChooseModel ==
    /\ input.kind = "none"
    /\ \E m \in Names, method \in {"GET", "POST"}, body \in {"model", "other"}, slashes \in 0..3 :
       \E route \in {"/v1/chat/completions", "/v1beta/messages", "/v1/models"} :
          input' = [kind |-> "model", id |-> m, method |-> method, body |-> body,
                    path |-> [route |-> route, slashes |-> slashes]]

Restrictions ==
    {Restriction("literal", pre, cap, t) : pre, cap \in BOOLEAN, t \in {<<>>, <<"gpt">>, <<"gpt", "4">>}}
    \cup {Restriction("star", FALSE, FALSE, <<"gpt">>), Restriction("bad", FALSE, FALSE, <<"[">>)}

ChooseRestrictions ==
    /\ input.kind = "none"
    /\ \E n \in 0..2 : \E vs \in [1..n -> Restrictions] :
       \E pre, cap \in BOOLEAN, t \in {<<>>, <<"gpt">>, <<"gpt", "4">>, <<"kimi">>} :
          input' = [kind |-> "names", values |-> vs,
                    value |-> Restriction("literal", pre, cap, t)]

ChooseType ==
    /\ input.kind = "none"
    /\ \E n \in 0..2 : \E rows \in [1..n ->
          [id : {1, 2}, type : LoginType \cup {"CURSOR"},
           disabled : BOOLEAN, credentials : BOOLEAN, useProxy : BOOLEAN, proxy : {"", "warp"}]] :
          input' = [kind |-> "type", rows |-> rows]

Items == <<[id |-> <<"gpt">>, owner |-> "openai"], [id |-> <<"gpt", "4">>, owner |-> "openai"],
           [id |-> <<"opus">>, owner |-> "anthropic"], [id |-> <<"glm">>, owner |-> "opencode-zen"]>>
Rows == {[id |-> 1, type |-> "OPENAI"], [id |-> 2, type |-> "ANTHROPIC"],
         [id |-> 3, type |-> "OPENAI"], [id |-> 4, type |-> "CUSTOM"],
         [id |-> 5, type |-> "OPENCODE_ZEN"]}

ChooseList ==
    /\ input.kind = "none"
    /\ \E presets, fail \in BOOLEAN, scheme \in {"Bearer", "Basic"},
          who \in {"admin", "key", "nobody"}, status \in {200, 500},
          body \in {"list", "other", "unreadable"}, rows \in SUBSET Rows,
          models \in {<<>>, <<Literal(<<"gpt">>)>>, <<Literal(<<"opus">>), Literal(<<"gpt", "4">>)>>,
                      <<Restriction("literal", FALSE, TRUE, <<"gpt">>)>>,
                      <<Literal(<<"gpt">>), Literal(<<"gpt", "high">>)>>,
                      <<Restriction("star", FALSE, FALSE, <<"gpt">>)>>,
                      <<Restriction("bad", FALSE, FALSE, <<"[">>)>>},
          ps \in SUBSET {1, 2}, types \in {{}, {"openai"}, {"zen", "cline"}} :
          input' = [kind |-> "list", presets |-> presets, rowsFail |-> fail,
                    auth |-> [scheme |-> scheme, who |-> who], status |-> status, body |-> body,
                    rows |-> SetToSeq(rows), data |-> Items,
                    key |-> [models |-> models, providers |-> ps, types |-> types]]

\* Percentages, amounts and limits a vendor may send.
Percent == {-1, 0, 1, 50, 101}
MaybeP == Percent \cup {None}
XAI == [percent : MaybeP, limit : MaybeP, used : MaybeP, from : {None, 0, 5}, to : {None, 5, MaxInt32 + 1}]
Details == {None} \cup [used : MaybeP, limit : MaybeP]
Windows == [duration : {-1, 0, 1, 2, 100, 300}, unit : {"MINUTE", "DAY", "WEEK", "YEAR"}]
Codexes == {None} \cup [percent : {-1, 101}, minutes : {-5, 0, 5}, seconds : {0, 59, 300}]

Bodies(vendor) ==
    {Garbage} \cup
    CASE vendor = "xai" -> {None} \cup XAI
      [] vendor = "anthropic" -> [five : {None} \cup [utilization : MaybeP],
                                  seven : {None} \cup [utilization : MaybeP]]
      [] vendor = "codex" -> {[primary |-> <<a, b>>, secondary |-> <<c>>] : a, b, c \in Codexes}
      [] vendor = "kimi" -> {[limits |-> l, usage |-> u] : u \in Details,
                               l \in {<<>>} \cup {<<[detail |-> d, window |-> w]>> : d \in Details, w \in Windows}}
      [] vendor = "antigravity" -> [buckets : {<<>>} \cup {<<p>> : p \in Percent} \cup {<<p, q>> : p, q \in Percent}]

ChooseQuota ==
    /\ input.kind = "none"
    /\ \E vendor \in Vendor :
       \E token, valid \in BOOLEAN, b \in Bodies(vendor), status \in {200, 204, 429},
          first \in {"ok", "send"}, client \in {"ok", "proxy", "send", "read"} :
          /\ vendor # "xai" => valid /\ first = "ok"
          /\ (~token \/ ~valid \/ status # 200 \/ first # "ok" \/ client # "ok") => b = Garbage
          /\ input' = [kind |-> "quota", vendor |-> vendor, token |-> token,
                       user |-> [client |-> first, status |-> 200, body |-> "id", valid |-> valid],
                       http |-> [client |-> client, status |-> status, body |-> b]]

ChoosePages ==
    /\ input.kind = "none"
    /\ \E n \in 0..MaxEntries : \E owner \in [1..n -> {"a", "b"}], limit \in 0..(maxUsageLimit + 1),
          secret \in {"password", "a"} :
          input' = [kind |-> "pages", limit |-> limit,
                    who |-> AuthInterceptor(FALSE, [scheme |-> "Bearer", secret |-> secret]).who,
                    entries |-> {[key |-> owner[i], time |-> i, tokens |-> i] : i \in 1..n}]

ChooseHealth ==
    /\ input.kind = "none"
    /\ \E scheme \in {"Bearer", "Password", "Basic"}, secret \in {"password", "admin", "a", "unknown"},
          isAdmin, query, alive, again \in BOOLEAN, unhealthy, restricted \in SUBSET {1, 2}, n \in 0..2 :
       \E rows \in [1..n -> [disabled : BOOLEAN, secret : {"", "oauth:pending", "oauth:database"}]] :
          input' = [kind |-> "health", header |-> [scheme |-> scheme, secret |-> secret],
                    isAdmin |-> isAdmin, query |-> query, alive |-> alive, again |-> again,
                    unhealthy |-> unhealthy, restricted |-> restricted,
                    rows |-> [i \in 1..n |-> [id |-> i, disabled |-> rows[i].disabled,
                                             secret |-> rows[i].secret]]]

Pair(name, cap, value) == [kind |-> "pair", name |-> name, capitals |-> cap, value |-> value]
Words == [kind |-> "text", value |-> "hello"]
Blank == [kind |-> "blank"]
HeaderLines == {Pair(n, cap, "secret") : n \in {"authorization", "cookie"}, cap \in BOOLEAN}
               \cup {Pair("accept", FALSE, "json"), Words}
BodyLines == {<<>>, <<Words>>, <<Words, Blank, Words>>, <<Blank, Words>>,
              <<Pair("status", FALSE, "teapot")>>, <<Words, Mark("RESPONSE"), Words>>,
              <<Words, Mark("HEADERS"), Pair("cookie", TRUE, "other")>>}

ChooseLog ==
    /\ input.kind = "none"
    /\ \E h1, h2 \in HeaderLines, body, response \in BodyLines, admin \in BOOLEAN, n \in 0..3,
          sent \in {<<>>, <<Pair("set-cookie", FALSE, "secret")>>} :
          input' = [kind |-> "log", admin |-> admin, files |-> n,
                    log |-> [url |-> "/v1", status |-> "500", headers |-> <<h1, h2>>,
                             body |-> body, sent |-> sent, response |-> response]]

ChooseStrategy ==
    /\ input.kind = "none"
    /\ \E s \in Range(Strategies) \cup {"UNSPECIFIED"} : input' = [kind |-> "strategy", strategy |-> s]

String(t) == [shape |-> "string", text |-> t]
Contents == {String(<<>>), String(<<7>>), [shape |-> "parts", parts |-> <<<<8>>, <<>>, <<9, 9>>>>]}
Messages == [role : {"system", "user", "assistant"}, content : Contents]

ChooseChat ==
    /\ input.kind = "none"
    /\ \E n \in 0..3 : \E ms \in [1..n -> Messages] : input' = [kind |-> "chat", messages |-> ms]

\* Fields a newer server may add, one of each wire type.
Unknown == {<<>>, appendInt32(3, 200), <<9 * 8 + 1>> \o [i \in 1..8 |-> 255], <<9 * 8 + 5, 1, 2, 3, 4>>,
            appendString(20, <<10, 1, 66>>)}

ChooseChunk ==
    /\ input.kind = "none"
    /\ \E text, thinking \in {<<>>, <<65>>, <<18, 2>>}, u, v \in Unknown :
       LET inner == u \o appendString(1, text) \o appendMessage(25, appendString(1, thinking))
           data == v \o appendMessage(2, inner) \o u
       IN  \E k \in 0..Len(data) :
              input' = [kind |-> "chunk", text |-> text, thinking |-> thinking, u |-> u, v |-> v,
                        data |-> SubSeq(data, 1, k), whole |-> k = Len(data)]

ChooseTick ==
    /\ input.kind = "none"
    /\ \E ts \in [1..4 -> {0, 1, 90, 165, 255}] : input' = [kind |-> "tick", ts |-> ts]

Next ==
    \/ ChooseChat \/ ChooseChunk \/ ChooseTick
    \/ ChooseModel \/ ChooseRestrictions \/ ChooseType \/ ChooseList
    \/ ChooseQuota \/ ChooseHealth \/ ChoosePages \/ ChooseLog \/ ChooseStrategy

Spec == Init /\ [][Next]_input

----------------------------------------------------------------------------
(* CursorWire. *)

\* The vendor reads from a chat request what the client asked: the messages but
\* the system's in their order, with their texts and roles, a reference to each
\* of them, the system's texts as the instruction, and an envelope that says how
\* long the payload is and whether it is compressed (GenerateChatBody, encode).
RequestReadsBack ==
    input.kind = "chat" =>
        LET body == GenerateChatBody(input.messages, <<109>>)
            payload == From(body, 5)
            request == parseFields(LastRaw(parseFields(payload), 1))
            others == SelectSeq(input.messages, LAMBDA m : m.role # "system")
            system == SelectSeq(input.messages, LAMBDA m : m.role = "system")
            sent == [i \in DOMAIN Raws(request, 1) |-> parseFields(Raws(request, 1)[i].raw)]
            refs == [i \in DOMAIN Raws(request, 30) |-> parseFields(Raws(request, 30)[i].raw)]
            Number(fs, n) == (CHOOSE f \in Range(fs) : f.num = n).uvar
        IN  /\ body[4] * 256 + body[5] = Len(payload) /\ (body[1] = 1 <=> Len(others) >= 3)
            /\ Len(sent) = Len(others) /\ Len(refs) = Len(others)
            /\ \A i \in DOMAIN others :
                  /\ LastRaw(sent[i], 1) = MessageText(others[i].content)
                  /\ Number(sent[i], 2) = (IF others[i].role = "user" THEN 1 ELSE 2)
                  /\ LastRaw(sent[i], 13) = LastRaw(refs[i], 1) /\ Number(refs[i], 3) = Number(sent[i], 2)
            /\ LastRaw(parseFields(LastRaw(request, 3)), 1) =
                  JoinLines([i \in DOMAIN system |-> MessageText(system[i].content)])

\* A chunk of the answer is decoded as it was sent, whatever fields of whatever
\* type surround its text, and from a part of one the bridge never forwards
\* text that was not sent (parseFields, DecodeStreamUnifiedChatResponse).
ChunksAreNotInvented ==
    input.kind = "chunk" =>
        LET c == DecodeStreamUnifiedChatResponse(input.data)
        IN  /\ input.whole => c = [ok |-> TRUE, Content |-> input.text, Thinking |-> input.thinking]
            /\ c.Content \in {<<>>, input.text} /\ c.Thinking \in {<<>>, input.thinking}

\* The checksum tells every two ticks apart: a reader that undoes it, knowing
\* only the bytes before, finds the tick (obfuscateBytes, Checksum).
ChecksumTellsTicks ==
    input.kind = "tick" =>
        LET c == Checksum(input.ts)
            back == [i \in 1..6 |-> ((c[i] - (i - 1)) % 256) ^^ (IF i = 1 THEN 165 ELSE c[i - 1])]
        IN  back = <<input.ts[3], input.ts[4], input.ts[1], input.ts[2], input.ts[3], input.ts[4]>>

\* The bridge and the cursor vendor read from each other's messages what was
\* written into them (pkg/cursor body.go, proto.go).
WireIsFaithful == RequestReadsBack /\ ChunksAreNotInvented /\ ChecksumTellsTicks
=============================================================================
