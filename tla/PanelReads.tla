----------------------------- MODULE PanelReads -----------------------------
(***************************************************************************)
(* What the panel reads: usage entries in pages, the error logs the proxy  *)
(* leaves in auth/logs, and who may read which of them.                    *)
(*                                                                         *)
(* A log is a sequence of lines: a mark "=== NAME ===", a pair             *)
(* "Name: value", a blank line or text.  The names of pairs are compared   *)
(* without regard to capitals only where the code lowers them.             *)
(***************************************************************************)
EXTENDS Lists, FiniteSets

CONSTANTS
    defaultUsageLimit,  \* 100 in the code
    maxUsageLimit,      \* 1000 in the code
    maxErrorFiles       \* 10 in the code

ASSUME LimitAssumption ==
    /\ defaultUsageLimit \in Nat \ {0} /\ maxUsageLimit \in Nat
    /\ defaultUsageLimit <= maxUsageLimit /\ maxErrorFiles \in Nat

----------------------------------------------------------------------------
(* Callers. *)

\* AuthInterceptor: a header with a scheme and a secret becomes a key, the
\* panel's password one that is an admin's; or a status that ends the request.
AuthInterceptor(isAdmin, header) ==
    IF header.scheme \notin {"Password", "Bearer"} \/ header.secret = "unknown"
    THEN [status |-> 401]
    ELSE IF isAdmin /\ header.secret \notin {"password", "admin"} THEN [status |-> 403]
    ELSE [status |-> 200, who |-> [admin |-> header.secret \in {"password", "admin"},
                                   key |-> header.secret]]

----------------------------------------------------------------------------
(* Usage entries: [key, time], all times different. *)

clampLimit(limit) ==
    IF limit = 0 THEN defaultUsageLimit
    ELSE IF limit > maxUsageLimit THEN maxUsageLimit ELSE limit

\* The k-th entry of S, the newest being the first.
Newest(S, k) == CHOOSE e \in S : Cardinality({f \in S : f.time > e.time}) = k - 1

\* Newest first, from the offset, at most the limit; owner "all" filters nothing.
queryUsageEntries(entries, owner, limit, offset) ==
    LET own == {e \in entries : owner = "all" \/ e.key = owner}
        rest == Cardinality(own) - offset
    IN  [i \in 1..(IF rest < clampLimit(limit) THEN rest ELSE clampLimit(limit)) |->
            Newest(own, offset + i)]

\* The password of the panel, or an admin's key, sees every entry.
GetUsageLogs(entries, who, limit, offset) ==
    queryUsageEntries(entries, IF who.admin THEN "all" ELSE who.key, limit, offset)

\* One key's own page of the default size, or another's for an admin.
GetProviderLogsByKeyID(entries, who, id) ==
    IF ~who.admin /\ id # who.key THEN <<>>
    ELSE queryUsageEntries(entries, id, 0, 0)

SumOf(numbers) ==
    LET sum[k \in 0..Len(numbers)] == IF k = 0 THEN 0 ELSE sum[k - 1] + numbers[k]
    IN  sum[Len(numbers)]

\* The SUM over no rows is NULL, which cannot be scanned.
SumUsageEntries(entries, id) ==
    LET own == {e \in entries : e.key = id}
    IN  IF own = {} THEN "error"
        ELSE SumOf([k \in 1..Cardinality(own) |-> Newest(own, k).tokens])

----------------------------------------------------------------------------
(* Error logs. *)

sensitiveHeaders ==
    {"authorization", "proxy-authorization", "x-api-key", "api-key",
     "cookie", "set-cookie", "x-cursor-checksum"}

redactHeader(line) ==
    IF line.kind = "pair" /\ line.name \in sensitiveHeaders
    THEN [line EXCEPT !.value = "[REDACTED]"] ELSE line

\* Mutant: a section ends at the first blank line.
splitAtBlank(content, name) ==
    LET Ends(i) == {j \in DOMAIN content : j > i /\ content[j].kind \in {"mark", "blank"}}
        Named == {i \in DOMAIN content : content[i].kind = "mark" /\ content[i].name = name}
    IN  IF Named = {} THEN <<>>
        ELSE LET i == CHOOSE i \in Named : TRUE
             IN  IF Ends(i) = {} THEN SubSeq(content, i + 1, Len(content))
                 ELSE SubSeq(content, i + 1, (CHOOSE j \in Ends(i) : \A k \in Ends(i) : j <= k) - 1)

\* The lines after the last mark of that name, up to the next mark.
splitSections(content, name) ==
    LET Named == {i \in DOMAIN content : content[i].kind = "mark" /\ content[i].name = name}
        After(i) == SubSeq(content, i + 1, Len(content))
        Marks(s) == {i \in DOMAIN s : s[i].kind = "mark"}
        Least(S) == CHOOSE i \in S : \A j \in S : i <= j
        Most(S) == CHOOSE i \in S : \A j \in S : i >= j
    IN  IF Named = {} THEN <<>>
        ELSE LET s == After(Most(Named))
             IN  IF Marks(s) = {} THEN s ELSE SubSeq(s, 1, Least(Marks(s)) - 1)

\* The last pair of a name counts, in the very spelling; "" where there is none.
parseKeyValue(lines, name) ==
    LET pairs == {i \in DOMAIN lines :
                    lines[i].kind = "pair" /\ lines[i].name = name /\ ~lines[i].capitals}
    IN  IF pairs = {} THEN "" ELSE lines[CHOOSE i \in pairs : \A j \in pairs : i >= j].value

Trimmed(lines) ==
    LET full == {i \in DOMAIN lines : lines[i].kind # "blank"}
    IN  IF full = {} THEN <<>>
        ELSE SubSeq(lines, CHOOSE i \in full : \A j \in full : i <= j,
                           CHOOSE i \in full : \A j \in full : i >= j)

\* What follows the first blank line: the status and the headers come before.
extractResponseBody(lines) ==
    LET blanks == {i \in DOMAIN lines : lines[i].kind = "blank"}
    IN  IF blanks = {} THEN <<>>
        ELSE Trimmed(SubSeq(lines, (CHOOSE i \in blanks : \A j \in blanks : i <= j) + 1, Len(lines)))

parseErrorLog(content) ==
    LET lines == splitSections(content, "HEADERS")
        headers == At(lines, {i \in DOMAIN lines : lines[i].kind # "blank"})
    IN  [url |-> parseKeyValue(splitSections(content, "REQUEST INFO"), "url"),
         headers |-> [i \in DOMAIN headers |-> redactHeader(headers[i])],
         body |-> Trimmed(splitSections(content, "REQUEST BODY")),
         response |-> extractResponseBody(splitSections(content, "RESPONSE")),
         status |-> parseKeyValue(splitSections(content, "RESPONSE"), "status")]

\* The first files of the directory, by name; the password or an admin only.
GetErrors(files, who) ==
    IF ~who.admin THEN <<>>
    ELSE [i \in 1..(IF Len(files) < maxErrorFiles THEN Len(files) ELSE maxErrorFiles) |->
             parseErrorLog(files[i])]

\* The layout in which CLIProxyAPI writes a log.
Mark(name) == [kind |-> "mark", name |-> name]
WrittenLog(r) ==
    <<Mark("REQUEST INFO"), [kind |-> "pair", name |-> "url", capitals |-> FALSE, value |-> r.url],
      [kind |-> "blank"], Mark("HEADERS")>> \o r.headers \o
    <<[kind |-> "blank"], Mark("REQUEST BODY")>> \o r.body \o
    <<[kind |-> "blank"], Mark("RESPONSE"),
      [kind |-> "pair", name |-> "status", capitals |-> FALSE, value |-> r.status]>> \o
    r.sent \o <<[kind |-> "blank"]>> \o r.response

----------------------------------------------------------------------------
(* Providers and health. *)

\* The ids of the providers a caller is shown.
GetProvidersList(rows, who, restricted) ==
    LET shown == At(rows, {i \in DOMAIN rows : who.admin \/ rows[i].id \notin restricted})
    IN  [i \in DOMAIN shown |-> shown[i].id]

\* HealthCheck: the providers are looked at only if the proxy answers and their
\* second query succeeds.
HealthCheck(in) ==
    LET pending == {in.rows[i].id : i \in {j \in DOMAIN in.rows :
                       ~in.rows[j].disabled /\ in.rows[j].secret = "oauth:pending"}}
        issues == (IF in.query THEN {} ELSE {<<"database", 0>>})
                  \cup {<<"proxy", x>> : x \in in.unhealthy}
                  \cup (IF ~in.alive THEN {<<"cliproxyapi", 0>>}
                        ELSE IF in.again THEN {<<"provider", p>> : p \in pending} ELSE {})
    IN  [status |-> IF issues = {} THEN "ok" ELSE "unhealthy", issues |-> issues]

----------------------------------------------------------------------------
(* Strategies of the panel and periods of the table. *)

Strategies == <<"MINUTES", "HOURLY", "DAILY", "WEEKLY", "MONTHLY", "FOREVER">>
PeriodNames == <<"minute", "hour", "day", "week", "month", "forever">>

quotaPeriod(strategy) ==
    IF strategy \in Range(Strategies)
    THEN PeriodNames[CHOOSE i \in 1..6 : Strategies[i] = strategy]
    ELSE "invalid argument"

quotaResetStrategy(period) ==
    IF \E i \in 1..5 : PeriodNames[i] = period
    THEN Strategies[CHOOSE i \in 1..5 : PeriodNames[i] = period] ELSE "FOREVER"

=============================================================================
