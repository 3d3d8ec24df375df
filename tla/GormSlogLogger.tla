--------------------------- MODULE GormSlogLogger ---------------------------
(* db/gorm_slog_logger.go: GORM reports a finished query to Trace, which    *)
(* decides whether it is logged and, if so, scans the rendered statement    *)
(* token by token: literals become ?, white space collapses, and the        *)
(* preview is cut at a byte limit.  A statement is built here from tokens,  *)
(* so that what the preview has to show is known without scanning.          *)
EXTENDS SequenceOps

CONSTANTS
  Literals,   \* the values that occur inside literals, as sequences of runes
  MaxTokens,  \* bound: tokens of a statement
  Limits      \* the values of maxSQLPreviewBytes that are tried

(* The limit has room for the truncation marker.                            *)
ASSUME LogAssumption ==
  Literals \subseteq Seq(STRING) /\ MaxTokens \in Nat /\ Limits \subseteq Nat /\ \A l \in Limits : l >= 3

Space == " "
Wide == "W"    \* a rune of three bytes; every other one has one byte
Marker == "M"  \* the truncation marker, three bytes as well
Letters == {"a", "e", "_"}

VARIABLES
  stmt,          \* the statement as tokens, see Token
  query,         \* the same as GORM renders it: a sequence of runes
  limit,         \* maxBytes
  call,          \* what else Trace is given, and the logger's configuration
  scan,          \* "called", "scanning", then "logged" or "dropped"
  pos,           \* i of redactSQLValues, counted in runes from 1
  out,           \* the strings.Builder
  lastWasSpace,
  record         \* what is logged: its level, Preview and Truncated

logVars == <<stmt, query, limit, call, scan, pos, out, lastWasSpace, record>>
----------------------------------------------------------------------------
(* Statements.  Text stands for itself; the other kinds are literals, which *)
(* SQL writes in five ways.                                                 *)

Token ==
  [kind : {"text"}, body : {<<c>> : c \in {"a", "e", "=", "$", Space, Wide}}]
    \cup [kind : {"number"}, body : {<<"1">>, <<"1", ".", "1">>}]
    \cup [kind : {"quoted", "escape", "dollar", "tagged"}, body : Literals]

Delimiter(t) == IF t.kind = "dollar" THEN <<"$", "$">> ELSE <<"$", "a", "$">>

Replaced(s, by) ==
  Concatenated([i \in DOMAIN s |-> IF s[i] \in DOMAIN by THEN by[s[i]] ELSE <<s[i]>>])

(* ExplainSQL doubles the quotes of a value and writes a number as it is;   *)
(* true, false and NULL it writes as bare words, which are text.  In SQL of *)
(* the caller an escape string protects quotes and backslashes with a       *)
(* backslash, and a dollar quote takes them as they are.                    *)
Render(t) ==
  CASE t.kind \in {"text", "number"} -> t.body
    [] t.kind = "quoted" -> <<"'">> \o Replaced(t.body, [c \in {"'"} |-> <<c, c>>]) \o <<"'">>
    [] t.kind = "escape" ->
         <<"e", "'">> \o Replaced(t.body, [c \in {"'", "\\"} |-> <<"\\", c>>]) \o <<"'">>
    [] OTHER -> Delimiter(t) \o t.body \o Delimiter(t)

Occurs(s, d) == {i \in 1..(Len(s) - Len(d) + 1) : SubSeq(s, i, i + Len(d) - 1) = d}

(* A dollar-quoted body ends at the first delimiter; a literal is set off   *)
(* from what precedes it, and so is what follows a bare $.                  *)
Statement(s) ==
  /\ \A i \in DOMAIN s : s[i].kind \in {"dollar", "tagged"} =>
        Min(Occurs(s[i].body \o Delimiter(s[i]), Delimiter(s[i]))) = Len(s[i].body) + 1
  /\ \A i \in 2..Len(s) :
        \/ s[i - 1].body \in {<<Space>>, <<"=">>} /\ s[i - 1].kind = "text"
        \/ s[i].kind = "text" /\ s[i - 1].body # <<"$">>
        \/ s[i].body \in {<<Space>>, <<"=">>} /\ s[i].kind = "text"

(* What a preview may show of a statement: the text, with one ? for each    *)
(* literal, runs of spaces as one, none at the ends.                        *)
Shown(s) == [i \in DOMAIN s |-> IF s[i].kind = "text" THEN s[i].body[1] ELSE "?"]
Kept(t) == {i \in DOMAIN t : t[i] = Space => /\ i > 1 /\ t[i - 1] # Space
                                             /\ \E j \in i..Len(t) : t[j] # Space}
----------------------------------------------------------------------------
(* The helpers of the scanner.                                              *)

Bytes(s) == Len(s) + 2 * Cardinality({i \in DOMAIN s : s[i] \in {Wide, Marker}})

isEscapeStringStart(q, i) == i + 1 <= Len(q) /\ q[i] = "e" /\ q[i + 1] = "'"

FirstOr(S, otherwise) == IF S = {} THEN otherwise ELSE Min(S)

(* Fault: a doubled quote ends the literal. *)
skipQuotedLiteralAtQuote(q, start) == FirstOr({i \in start..Len(q) : q[i] = "'"}, Len(q)) + 1

(* A pair of quotes continues the literal, a single one ends it.            *)
skipQuotedLiteral(q, start) ==
  LET skip[i \in Nat] ==
        IF i > Len(q) THEN i
        ELSE IF q[i] # "'" THEN skip[i + 1]
        ELSE IF i < Len(q) /\ q[i + 1] = "'" THEN skip[i + 2] ELSE i + 1
  IN skip[start]

skipEscapeQuotedLiteral(q, start) ==
  LET skip[i \in Nat] ==
        IF i > Len(q) THEN i
        ELSE IF q[i] = "\\" THEN skip[IF i < Len(q) THEN i + 2 ELSE i + 1]
        ELSE IF q[i] # "'" THEN skip[i + 1]
        ELSE IF i < Len(q) /\ q[i + 1] = "'" THEN skip[i + 2] ELSE i + 1
  IN skip[start]

validDollarQuoteTag(tag) ==
  \A i \in DOMAIN tag : tag[i] \in Letters \/ (tag[i] = "1" /\ i > 1)

(* The delimiter that starts at i, or the empty sequence.                   *)
dollarQuoteDelimiter(q, i) ==
  LET end == FirstOr({j \in (i + 1)..Len(q) : q[j] = "$"}, 0)
  IN IF q[i] = "$" /\ end > 0 /\ validDollarQuoteTag(SubSeq(q, i + 1, end - 1))
     THEN SubSeq(q, i, end) ELSE <<>>

skipDollarQuotedLiteral(q, i, d) ==
  LET ends == {j \in Occurs(q, d) : j >= i}
  IN IF ends = {} THEN Len(q) + 1 ELSE Min(ends) + Len(d)

skipNumericLiteral(q, start) ==
  FirstOr({i \in start..Len(q) : q[i] \notin {"1", "."}}, Len(q) + 1)

TrimSpace(s) ==
  LET solid == {i \in DOMAIN s : s[i] # Space}
  IN IF solid = {} THEN <<>> ELSE SubSeq(s, Min(solid), Max(solid))

(* The longest run of whole runes that leaves room for the marker.          *)
truncateUTF8(s, maxBytes) ==
  IF Bytes(s) <= maxBytes THEN s
  ELSE LET end == Max({k \in 0..Len(s) : Bytes(SubSeq(s, 1, k)) <= maxBytes - 3})
       IN Append(SubSeq(s, 1, end), Marker)
----------------------------------------------------------------------------
(* Trace.  LogLevel counts from Silent = 1 to Info = 4; a handler lets      *)
(* levels from "min" upwards pass.                                          *)

Severity == [debug |-> 0, info |-> 1, warn |-> 2, error |-> 3]

TraceCall == [logLevel : 1..4, ignoreNotFound : BOOLEAN, slow : BOOLEAN,
         err : {"nil", "notfound", "other"}, min : DOMAIN Severity]

isLoggedError(c) == c.err # "nil" /\ (c.ignoreNotFound => c.err # "notfound")

traceSlogLevel(c) ==
  IF isLoggedError(c) /\ c.logLevel >= 2 THEN "error"
  ELSE IF c.slow /\ c.logLevel >= 3 THEN "warn"
  ELSE IF c.logLevel >= 4 THEN "debug" ELSE "none"

NoRecord == [level |-> "none", preview |-> <<>>, truncated |-> FALSE]

Verbose(c) == c.logLevel = 4 /\ c.min = "debug" /\ c.err = "nil" /\ c.slow /\ c.ignoreNotFound

(* Any statement is traced by a logger that logs everything, and one short  *)
(* statement by every logger.                                               *)
LogInit ==
  /\ \E n \in 0..MaxTokens : stmt \in [1..n -> Token]
  /\ Statement(stmt) /\ query = Concatenated([i \in DOMAIN stmt |-> Render(stmt[i])])
  /\ limit \in Limits
  /\ call \in TraceCall /\ (stmt = <<[kind |-> "text", body |-> <<"a">>]>> \/ Verbose(call))
  /\ scan = "called" /\ pos = 1 /\ out = <<>> /\ lastWasSpace = FALSE /\ record = NoRecord

LogIdle ==
  /\ stmt = <<>> /\ query = <<>> /\ limit = Min(Limits)
  /\ call = [logLevel |-> 1, ignoreNotFound |-> TRUE, slow |-> FALSE, err |-> "nil", min |-> "debug"]
  /\ scan = "dropped" /\ pos = 1 /\ out = <<>> /\ lastWasSpace = FALSE /\ record = NoRecord

Trace ==
  /\ scan = "called"
  /\ LET level == traceSlogLevel(call)
         silent == call.logLevel <= 1 \/ level = "none"
     IN scan' = IF silent THEN "dropped"
                ELSE IF Severity[level] < Severity[call.min] THEN "dropped" ELSE "scanning"
  /\ UNCHANGED <<stmt, query, limit, call, pos, out, lastWasSpace, record>>

LogPreview(preview, truncated) ==
  /\ record' = [level |-> traceSlogLevel(call), preview |-> preview, truncated |-> truncated]
  /\ scan' = "logged"

(* The end of an iteration: cut when the limit is reached before the end.   *)
Emit(written, next) ==
  /\ out' = out \o written /\ pos' = next
  /\ IF Bytes(out') >= limit /\ next <= Len(query)
     THEN LogPreview(truncateUTF8(TrimSpace(out'), limit), TRUE)
     ELSE UNCHANGED <<scan, record>>
  /\ UNCHANGED <<stmt, query, limit, call>>

TokenAt == IF isEscapeStringStart(query, pos) THEN "escape"
      ELSE IF dollarQuoteDelimiter(query, pos) # <<>> THEN "dollar"
      ELSE query[pos]

Scanning == scan = "scanning" /\ pos <= Len(query)

ScanEscapeString ==
  /\ Scanning /\ TokenAt = "escape"
  /\ Emit(<<"?">>, skipEscapeQuotedLiteral(query, pos + 2)) /\ lastWasSpace' = FALSE

ScanDollarQuoted ==
  /\ Scanning /\ TokenAt = "dollar"
  /\ LET d == dollarQuoteDelimiter(query, pos)
     IN Emit(<<"?">>, skipDollarQuotedLiteral(query, pos + Len(d), d))
  /\ lastWasSpace' = FALSE

ScanQuoted ==
  /\ Scanning /\ TokenAt = "'"
  /\ Emit(<<"?">>, skipQuotedLiteral(query, pos + 1)) /\ lastWasSpace' = FALSE

ScanSpace ==
  /\ Scanning /\ TokenAt = Space
  /\ Emit(IF lastWasSpace \/ out = <<>> THEN <<>> ELSE <<Space>>, pos + 1) /\ lastWasSpace' = TRUE

ScanNumber ==
  /\ Scanning /\ TokenAt = "1"
  /\ Emit(<<"?">>, skipNumericLiteral(query, pos + 1)) /\ lastWasSpace' = FALSE

ScanRune ==
  /\ Scanning /\ TokenAt \notin {"escape", "dollar", "'", Space, "1"}
  /\ Emit(<<query[pos]>>, pos + 1) /\ lastWasSpace' = FALSE

ScanEnd ==
  /\ scan = "scanning" /\ pos > Len(query)
  /\ LogPreview(TrimSpace(out), FALSE)
  /\ UNCHANGED <<stmt, query, limit, call, pos, out, lastWasSpace>>

LogNext ==
  \/ Trace \/ ScanEscapeString \/ ScanDollarQuoted \/ ScanQuoted
  \/ ScanSpace \/ ScanNumber \/ ScanRune \/ ScanEnd

LogFairness == WF_logVars(LogNext)

LogSpec == LogInit /\ [][LogNext]_logVars /\ LogFairness
----------------------------------------------------------------------------
(* Types of the call, the scanner and the record.                           *)
LogTypeOK ==
  /\ scan \in {"called", "scanning", "logged", "dropped"}
  /\ limit \in Limits /\ call \in TraceCall
  /\ pos \in 1..(Len(query) + 1) /\ lastWasSpace \in BOOLEAN
  /\ record.level \in DOMAIN Severity \cup {"none"} /\ record.truncated \in BOOLEAN

(* redactSQLValues: a preview, cut or not, is the beginning of what the     *)
(* statement shows with every literal as one ?.  No literal closes early,   *)
(* whatever its value, and none swallows the text after it.                 *)
PreviewHidesValues ==
  scan = "logged" =>
    LET p == record.preview
        body == IF p # <<>> /\ p[Len(p)] = Marker THEN SubSeq(p, 1, Len(p) - 1) ELSE p
    IN ListsStart(body, Shown(stmt), Kept(Shown(stmt)))

(* Truncated is the only sign that a preview is incomplete: without it the  *)
(* preview shows the statement to its end, with it the limit is kept.       *)
CutIsReported ==
  scan = "logged" =>
    IF record.truncated THEN Bytes(record.preview) <= limit
    ELSE Lists(record.preview, Shown(stmt), Kept(Shown(stmt)))

(* Trace: a failed query is dropped only if GORM logging is silent or the   *)
(* handler drops errors, which none here does, and a missing record that is *)
(* to be ignored is never logged as an error.                               *)
FailuresAreLogged ==
  /\ scan = "dropped" /\ call.err = "other" => call.logLevel = 1
  /\ record.level = "error" =>
        call.err = "other" \/ (call.err = "notfound" /\ ~call.ignoreNotFound)

(* Trace: what has to be logged is, and its preview shows the statement but *)
(* no value in it, to the end or with Truncated set.                        *)
TraceIsFaithful == FailuresAreLogged /\ PreviewHidesValues /\ CutIsReported

(* db/gorm_slog_logger_test.go:74 and the changelog of v0.3.3: a preview    *)
(* never exceeds the byte limit.                                            *)
PreviewWithinLimit == scan = "logged" => Bytes(record.preview) <= limit

(* The query reported to Trace is logged or dropped.                        *)
TraceOver == scan \in {"logged", "dropped"}
=============================================================================
