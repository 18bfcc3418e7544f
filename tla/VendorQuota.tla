----------------------------- MODULE VendorQuota -----------------------------
(***************************************************************************)
(* LoadQuota of the vendors: how the answer of a vendor's usage endpoint,  *)
(* or its absence, becomes the quota that is shown, cached and watched.    *)
(* Percentages are integers here; nil is None; an HTTP answer is the       *)
(* client's verdict ("proxy", "send", "read" failing), a status and a      *)
(* body, which is Garbage or a record of what the vendor sends.            *)
(***************************************************************************)
EXTENDS Lists

CONSTANTS
    None,       \* nil
    Garbage,    \* a body that is not what the vendor documents
    MaxInt32,   \* bound of window_minutes, 2^31 - 1 in the code
    MaxInt64,   \* bound of a product of integers, 2^63 - 1 in the code
    MaxDuration \* bound of a time.Duration, in minutes: 153722867 in the code

\* A month of minutes fits the field, and nil is no window.
ASSUME VendorAssumption ==
    /\ MaxInt32 \in Nat /\ MaxInt64 \in Nat /\ MaxDuration \in Nat
    /\ MaxInt32 >= 30 * 24 * 60 /\ MaxInt64 >= MaxInt32
    /\ None \notin [UsedPercent : Int, WindowMinutes : Int]

Window(percent, minutes) == [UsedPercent |-> percent, WindowMinutes |-> minutes]
\* A call returns an error or windows, or it dereferences nil: nothing recovers,
\* and in quota_loader that ends the process.
Error(e) == [Error |-> e, Quotas |-> <<>>, Panics |-> FALSE]
Quota(ws) == [Error |-> "", Quotas |-> ws, Panics |-> FALSE]
Panic == [Error |-> "", Quotas |-> <<>>, Panics |-> TRUE]

Clamp(x) == IF x < 0 THEN 0 ELSE IF x > 100 THEN 100 ELSE x
NonNil(ws) == At(ws, {i \in DOMAIN ws : ws[i] # None})

\* The primary window first; with none at all there is no quota.
Primary(primary, secondary) ==
    IF primary # None THEN Quota(<<primary, secondary>>)
    ELSE IF secondary # None THEN Quota(<<secondary, None>>)
    ELSE Error("quota unavailable")

\* A proxy URL must parse, have a host and a known scheme.
proxyHTTPClient(useProxy, url) == ~useProxy \/ url \in {"http", "https", "socks", "socks5", "socks5h"}

Succeeded(status) == status \in 200..299

----------------------------------------------------------------------------
(* xAI: two requests, the user's id and its billing. *)

loadXAIQuotaJSON(a) ==
    IF a.client = "send" THEN "quota request failed"
    ELSE IF ~Succeeded(a.status) THEN "status"
    ELSE IF a.client = "read" THEN "quota request failed"
    ELSE IF a.body = Garbage THEN "invalid quota response"
    ELSE ""

\* From and to are None where they do not parse as times; Sub stops at the
\* longest Duration there is.
xaiQuotaWindowMinutes(from, to, fallback) ==
    IF from = None \/ to = None THEN fallback
    ELSE LET minutes == IF to - from > MaxDuration THEN MaxDuration ELSE to - from
         IN  IF minutes \in 1..MaxInt32 THEN minutes ELSE fallback

xaiWeeklyQuotaWindow(config) ==
    IF config.percent = None THEN None
    ELSE Window(Clamp(config.percent),
                xaiQuotaWindowMinutes(config.from, config.to, 7 * 24 * 60))

xaiMonthlyQuotaWindow(config) ==
    IF config.limit = None \/ config.used = None THEN None
    ELSE IF config.limit <= 0 \/ config.used < 0 THEN None
    ELSE Window(Clamp((config.used * 100) \div config.limit),
                xaiQuotaWindowMinutes(config.from, config.to, 30 * 24 * 60))

LoadXAI(in) ==
    IF ~in.token THEN Error("credentials are incomplete")
    ELSE IF in.http.client = "proxy" THEN Error("quota request failed")
    ELSE IF loadXAIQuotaJSON(in.user) # "" THEN Error(loadXAIQuotaJSON(in.user))
    ELSE IF ~in.user.valid THEN Error("invalid quota response")
    ELSE IF loadXAIQuotaJSON(in.http) # "" THEN Error(loadXAIQuotaJSON(in.http))
    ELSE IF in.http.body = None THEN Error("quota unavailable")
    ELSE Primary(xaiWeeklyQuotaWindow(in.http.body), xaiMonthlyQuotaWindow(in.http.body))

----------------------------------------------------------------------------
(* Anthropic: five hours and seven days. *)

anthropicQuotaWindow(window, minutes) ==
    IF window.utilization = None THEN None ELSE Window(Clamp(window.utilization), minutes)

\* The names of both windows are set before either is looked at, so that an
\* answer that lacks one is a nil dereference.
LoadAnthropic(in) ==
    IF ~in.token THEN Error("credentials are incomplete")
    ELSE IF in.http.client \in {"proxy", "send"} THEN Error("quota request failed")
    ELSE IF ~Succeeded(in.http.status) THEN Error("status")
    ELSE IF in.http.client = "read" \/ in.http.body = Garbage THEN Error("invalid quota response")
    ELSE IF in.http.body.five = None \/ in.http.body.seven = None THEN Panic
    ELSE Primary(anthropicQuotaWindow(in.http.body.five, 5 * 60),
                 anthropicQuotaWindow(in.http.body.seven, 7 * 24 * 60))

----------------------------------------------------------------------------
(* Codex: windows at the top or under rate_limit, in one of two spellings. *)

quotaWindowToProto(w) ==
    IF w = None THEN None
    ELSE Window(w.percent, IF w.minutes = 0 /\ w.seconds > 0 THEN w.seconds \div 60 ELSE w.minutes)

FirstOf(ws) == IF NonNil(ws) = <<>> THEN None ELSE Head(NonNil(ws))

\* Neither window need be there.
LoadCodex(in) ==
    IF ~in.token THEN Error("credentials are incomplete")
    ELSE IF in.http.client \in {"proxy", "send"} THEN Error("quota request failed")
    ELSE IF in.http.status # 200 THEN Error("status")
    ELSE IF in.http.client = "read" \/ in.http.body = Garbage THEN Error("invalid quota response")
    ELSE Quota(<<quotaWindowToProto(FirstOf(in.http.body.primary)),
                 quotaWindowToProto(FirstOf(in.http.body.secondary))>>)

----------------------------------------------------------------------------
(* Kimi: any number of limits, or one overall usage. *)

Factor(unit) ==
    CASE unit = "MINUTE" -> 1 [] unit = "HOUR" -> 60 [] unit = "DAY" -> 24 * 60
      [] unit = "WEEK" -> 7 * 24 * 60 [] OTHER -> 0

\* A number in the width whose largest is max.
Wrapped(x, max) == ((x + max + 1) % (2 * max + 2)) - max - 1

\* Mutant: the product is not compared with the width of the field.
kimiWindowWraps(window) ==
    IF window.duration <= 0 THEN 0 ELSE Wrapped(window.duration * Factor(window.unit), MaxInt32)

\* The product is taken in 64 bits, compared and then cut to 32.
kimiWindowMinutes(window) ==
    IF window.duration <= 0 THEN 0
    ELSE LET minutes == Wrapped(window.duration * Factor(window.unit), MaxInt64)
         IN  IF minutes > MaxInt32 THEN 0 ELSE Wrapped(minutes, MaxInt32)

\* Numbers that do not parse are None, and count as zero beside one that does.
kimiQuotaWindowToProto(detail, window) ==
    IF detail = None THEN None
    ELSE IF detail.used = None /\ detail.limit = None THEN None
    ELSE LET used == IF detail.used = None THEN 0 ELSE detail.used
             limit == IF detail.limit = None THEN 0 ELSE detail.limit
         IN  Window(IF limit > 0 THEN (used * 100) \div limit ELSE 0, kimiWindowMinutes(window))

\* The first detail that says something decides, then the message.
kimiQuotaError(body) == IF body = Garbage THEN "status" ELSE "message"

KimiWindows(body) ==
    LET limits == NonNil([i \in DOMAIN body.limits |->
                    kimiQuotaWindowToProto(body.limits[i].detail, body.limits[i].window)])
    IN  IF limits # <<>> THEN limits
        ELSE NonNil(<<kimiQuotaWindowToProto(body.usage, [duration |-> 1, unit |-> "WEEK"])>>)

\* The body is read before the status is looked at.
LoadKimi(in) ==
    IF ~in.token THEN Error("credentials are incomplete")
    ELSE IF in.http.client # "ok" THEN Error("quota request failed")
    ELSE IF ~Succeeded(in.http.status) THEN Error(kimiQuotaError(in.http.body))
    ELSE IF in.http.body = Garbage THEN Error("invalid quota response")
    ELSE IF KimiWindows(in.http.body) = <<>> THEN Error("quota unavailable")
    ELSE Quota(KimiWindows(in.http.body))

----------------------------------------------------------------------------
(* Antigravity: one bucket per model, with the fraction that remains. *)

\* In percent; there is no window length.
antigravityQuotaWindow(remaining) == Window(100 - Clamp(remaining), 0)

LoadAntigravity(in) ==
    IF ~in.token THEN Error("credentials are incomplete")
    ELSE IF in.http.client # "ok" THEN Error("quota request failed")
    ELSE IF ~Succeeded(in.http.status) THEN Error("status")
    ELSE IF in.http.body = Garbage THEN Error("invalid quota response")
    ELSE IF in.http.body.buckets = <<>> THEN Error("quota unavailable")
    ELSE Quota([i \in DOMAIN in.http.body.buckets |->
                  antigravityQuotaWindow(in.http.body.buckets[i])])

LoadQuota(in) ==
    CASE in.vendor = "xai" -> LoadXAI(in)
      [] in.vendor = "anthropic" -> LoadAnthropic(in)
      [] in.vendor = "codex" -> LoadCodex(in)
      [] in.vendor = "kimi" -> LoadKimi(in)
      [] in.vendor = "antigravity" -> LoadAntigravity(in)

=============================================================================
