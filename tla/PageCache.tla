----------------------------- MODULE PageCache -----------------------------
(***************************************************************************)
(* The web page parser: a Durable Object for each page address, which      *)
(* keeps what it fetched from the page for a day (apps/worker/src/         *)
(* features/web-page-parser/handlers.ts), and the calls that the GraphQL   *)
(* resolvers and the Library make to it through WebPageParserClient.       *)
(*                                                                         *)
(* One object is modelled.  Several spellings of an address have the same  *)
(* normal form and share it, so that a call first tells the object its own *)
(* spelling (init) and then asks (getMetadata, getReaderContent).  The     *)
(* object runs a handler without interruption but for its fetch: other     *)
(* calls are handled while the page is on its way.                         *)
(*                                                                         *)
(* Of a page's contents only its version matters.  Times are seconds, as   *)
(* created_at has them.                                                    *)
(***************************************************************************)
EXTENDS Naturals, Sequences, FiniteSets, SequencesExt

CONSTANTS
  Callers,       \* GraphQL requests, each for one call at a time
  Urls,          \* spellings of the address
  Documents,     \* what the page may be: [readerable, parsed, regions]
  FetchErrors,   \* messages of the errors of a fetch
  NoContent,     \* the message of a page that is not an article
  Empty,         \* the empty title
  Null,
  Day,           \* seconds for which a result is recent
  MaxTime,       \* bound: seconds that pass
  MaxVersions,   \* bound: versions of the page
  MaxCalls       \* bound: calls made

ASSUME PageCacheAssumption ==
  /\ Day \in Nat \ {0} /\ MaxTime \in Nat /\ MaxVersions \in Nat /\ MaxCalls \in Nat
  /\ Null \notin Urls \cup FetchErrors \cup {NoContent, Empty} \cup Nat \cup (Nat \X Nat)
  /\ Empty \notin Nat
  /\ NoContent \notin FetchErrors
  /\ Documents \subseteq [readerable : BOOLEAN, parsed : BOOLEAN, regions : Seq({"short", "long"})]

VARIABLES
  url,      \* the spelling in the object's storage, Null before any init
  log,      \* the tables: "metadata" is fetchlog, "reader" reader_content
  calls,    \* the call of each caller
  page,     \* the page on the web
  now,
  made      \* calls made

cacheVars == <<url, log, calls, page, now, made>>

Kinds == {"metadata", "reader"}

-----------------------------------------------------------------------------
(***************************************************************************)
(* What a fetch makes of the page.                                         *)
(***************************************************************************)

\* Readability first, then the first selector whose element is long enough.
ExtractContent(p) ==
  LET long == SelectInSeq(p.doc.regions, LAMBDA r : r = "long")
  IN IF p.doc.readerable /\ p.doc.parsed
       THEN [content |-> <<p.version, 0>>, strategy |-> "readability"]
     ELSE IF long > 0 THEN [content |-> <<p.version, long>>, strategy |-> "selector"]
     ELSE [content |-> Null, strategy |-> Null]

FreshResult(p) ==
  LET x == ExtractContent(p)
  IN [readable |-> x.content # Null, metadata |-> p.version, content |-> x.content,
      strategy |-> x.strategy,
      error |-> IF x.content # Null THEN Null ELSE NoContent]

ErrorResult(e) ==
  [readable |-> FALSE, metadata |-> Null, content |-> Null, strategy |-> Null,
   error |-> e]

ToRowNoReason(result) ==
  LET ok == result.readable /\ result.content # Null
  IN [readable |-> IF ok THEN 1 ELSE 0, metaTitle |-> result.metadata,
      strategy |-> result.strategy,
      content |-> IF ok THEN result.content ELSE Null, error |-> Null]

\* The row of a result, and the result of a row.
ToRow(result) ==
  LET ok == result.readable /\ result.content # Null
  IN [readable |-> IF ok THEN 1 ELSE 0, metaTitle |-> result.metadata,
      strategy |-> result.strategy,
      content |-> IF ok THEN result.content ELSE Null,
      error |-> IF ok THEN Null ELSE result.error]

FromRow(row) ==
  IF row.readable = 0
    THEN [readable |-> FALSE, metadata |-> row.metaTitle, content |-> Null,
          strategy |-> row.strategy, error |-> row.error]
    ELSE [readable |-> TRUE, metadata |-> row.metaTitle, content |-> row.content,
          strategy |-> row.strategy, error |-> Null]

FetchedSilent(kind, got) ==
  LET failed == got \in FetchErrors
  IN IF kind = "metadata" THEN IF failed THEN Empty ELSE got.version
     ELSE IF failed THEN ErrorResult(Null) ELSE FreshResult(got)

\* What a call answers, and what is stored, for what the fetch came to: a page
\* or the message of an error.
Fetched(kind, got) ==
  LET failed == got \in FetchErrors
  IN IF kind = "metadata" THEN IF failed THEN Empty ELSE got.version
     ELSE IF failed THEN ErrorResult(got) ELSE FreshResult(got)

Stored(kind, answer) == IF kind = "metadata" THEN answer ELSE ToRow(answer)
Read(kind, body) == IF kind = "metadata" THEN body ELSE FromRow(body)

\* What the client in the worker hands to the resolver: an empty title is none,
\* and the reader has no metadata.
ClientAnswer(kind, answer) ==
  IF kind = "metadata"
    THEN [title |-> IF answer = Empty THEN Null ELSE answer, error |-> Null]
    ELSE [readable |-> answer.readable, content |-> answer.content,
          error |-> answer.error]

-----------------------------------------------------------------------------
(***************************************************************************)
(* A row remembers, besides its columns: the answer it was made from, the  *)
(* version read (Null for a failure), and how many rows were there when    *)
(* its fetch began.  A call remembers the version, the time and the number *)
(* of rows when it was handled.                                            *)
(***************************************************************************)
Idle == [pc |-> "idle"]

IsRecent(at) == at + Day > now

Newest(kind) ==
  {j \in DOMAIN log[kind] : \A i \in DOMAIN log[kind] : log[kind][i].at <= log[kind][j].at}

Oldest(kind) ==
  {j \in DOMAIN log[kind] : \A i \in DOMAIN log[kind] : log[kind][i].at >= log[kind][j].at}

Handled(c) ==
  [pc |-> "fetching", kind |-> calls[c].kind, force |-> calls[c].force,
   version |-> page.version, saw |-> Len(log[calls[c].kind]), at |-> now,
   got |-> Null, row |-> 0, answer |-> Null]

Answered(call, row, answer) ==
  [call EXCEPT !.pc = "answered", !.row = row, !.answer = ClientAnswer(call.kind, answer)]

CacheInit ==
  /\ url = Null
  /\ log = [k \in Kinds |-> <<>>]
  /\ calls = [c \in Callers |-> Idle]
  /\ page \in [version : {0}, doc : Documents]
  /\ now = 0
  /\ made = 0

\* A resolver makes a client for the address, which sends init.  Only the
\* reader's resolver can force a fetch.
Ask(c, kind, u, force) ==
  /\ made < MaxCalls
  /\ calls[c] = Idle
  /\ kind = "metadata" => ~force
  /\ calls' = [calls EXCEPT ![c] = [pc |-> "init", kind |-> kind, url |-> u, force |-> force]]
  /\ made' = made + 1
  /\ UNCHANGED <<url, log, page, now>>

\* The object's init.
InitUrl(c) ==
  /\ calls[c].pc = "init"
  /\ url' = calls[c].url
  /\ calls' = [calls EXCEPT ![c].pc = "get"]
  /\ UNCHANGED <<log, page, now, made>>

AnswerCachedAnyway(c) ==
  LET kind == calls[c].kind
  IN /\ calls[c].pc = "get"
     /\ url # Null
     /\ \E j \in Newest(kind) :
          /\ IsRecent(log[kind][j].at)
          /\ calls' = [calls EXCEPT ![c] =
                         Answered(Handled(c), j, Read(kind, log[kind][j].body))]
     /\ UNCHANGED <<url, log, page, now, made>>

AnswerOldest(c) ==
  LET kind == calls[c].kind
  IN /\ calls[c].pc = "get"
     /\ url # Null
     /\ ~calls[c].force
     /\ \E j \in Oldest(kind) :
          /\ IsRecent(log[kind][j].at)
          /\ calls' = [calls EXCEPT ![c] =
                         Answered(Handled(c), j, Read(kind, log[kind][j].body))]
     /\ UNCHANGED <<url, log, page, now, made>>

\* getMetadata and getReaderContent: of the newest rows, which have the same
\* second, the query returns one.  It is answered when it is recent ...
AnswerCached(c) ==
  LET kind == calls[c].kind
  IN /\ calls[c].pc = "get"
     /\ url # Null
     /\ ~calls[c].force
     /\ \E j \in Newest(kind) :
          /\ IsRecent(log[kind][j].at)
          /\ calls' = [calls EXCEPT ![c] =
                         Answered(Handled(c), j, Read(kind, log[kind][j].body))]
     /\ UNCHANGED <<url, log, page, now, made>>

\* ... and the page is fetched when it is not, or the caller forces it.
StartFetch(c) ==
  /\ calls[c].pc = "get"
  /\ url # Null
  /\ calls[c].force \/ \A j \in Newest(calls[c].kind) : ~IsRecent(log[calls[c].kind][j].at)
  /\ calls' = [calls EXCEPT ![c] = Handled(c)]
  /\ UNCHANGED <<url, log, page, now, made>>

\* The web server answers with the page as it is.
Respond(c) ==
  /\ calls[c].pc = "fetching"
  /\ calls' = [calls EXCEPT ![c].pc = "reading", ![c].got = page]
  /\ UNCHANGED <<url, log, page, now, made>>

\* The fetch ends: with the page, or with a timeout, a refusal, a status that is
\* not ok, a body that breaks off or that cannot be parsed.  Both are stored.
EndFetch(c) ==
  LET call == calls[c]
  IN /\ call.pc \in {"fetching", "reading"}
     /\ \E got \in FetchErrors \cup (IF call.pc = "reading" THEN {call.got} ELSE {}) :
          LET answer == Fetched(call.kind, got)
          IN /\ log' = [log EXCEPT ![call.kind] = Append(@,
                          [at |-> now, body |-> Stored(call.kind, answer),
                           answer |-> answer, saw |-> call.saw,
                           version |-> IF got \in FetchErrors THEN Null ELSE got.version])]
             /\ calls' = [calls EXCEPT ![c] =
                            Answered([call EXCEPT !.got = got], 0, answer)]
     /\ UNCHANGED <<url, page, now, made>>

\* The object is evicted or restarted: the calls it was handling die.
Restart ==
  LET dead(c) == calls[c].pc \in {"fetching", "reading"}
  IN /\ \E c \in Callers : dead(c)
     /\ calls' = [c \in Callers |->
                    IF dead(c) THEN [pc |-> "died", kind |-> calls[c].kind] ELSE calls[c]]
     /\ UNCHANGED <<url, log, page, now, made>>

\* The answer, or the failure, is back at the caller.
Return(c) ==
  /\ calls[c].pc \in {"answered", "died"}
  /\ calls' = [calls EXCEPT ![c] = Idle]
  /\ UNCHANGED <<url, log, page, now, made>>

Publish ==
  /\ page.version < MaxVersions
  /\ page' \in [version : {page.version + 1}, doc : Documents]
  /\ UNCHANGED <<url, log, calls, now, made>>

Tick ==
  /\ now < MaxTime
  /\ now' = now + 1
  /\ UNCHANGED <<url, log, calls, page, made>>

ObjectSteps(c) ==
  InitUrl(c) \/ AnswerCached(c) \/ StartFetch(c) \/ Respond(c) \/ EndFetch(c)
-----------------------------------------------------------------------------
Served(c) == calls[c].pc = "answered"

\* A result of the reader says what it is (FR-1.2 to FR-1.4 of the reader's
\* requirements): it is readable when it has content and then without error,
\* and tells why it is not otherwise; whether fetched or read from the table.
AnswersExplain ==
  \A c \in Callers : Served(c) /\ calls[c].kind = "reader" =>
    LET a == calls[c].answer
    IN /\ a.readable <=> a.content # Null
       /\ a.readable <=> a.error = Null

\* A call answered from a table gets what the fetch that made the row answered:
\* the columns lose nothing a client sees.
CachedAsFetched ==
  \A c \in Callers : Served(c) /\ calls[c].row > 0 =>
    calls[c].answer =
      ClientAnswer(calls[c].kind, log[calls[c].kind][calls[c].row].answer)

\* A row that answers a call is less than a day old, and shows the page no
\* older than any other row that the object had when it handled the call, but
\* one of the same second or one stored while the row's own fetch was under way.
CacheMovesForward ==
  \A c \in Callers : Served(c) /\ calls[c].row > 0 =>
    LET rows == log[calls[c].kind]
        j    == calls[c].row
    IN /\ calls[c].at < rows[j].at + Day
       /\ \A i \in 1 .. calls[c].saw :
            \/ rows[i].at = rows[j].at
            \/ rows[j].saw < i /\ i < j
            \/ Null \in {rows[i].version, rows[j].version}
            \/ rows[i].version <= rows[j].version

\* A caller that forces a fetch gets the page as it was since it called, or the
\* failure of a fetch of its own; and so does every caller when no row is recent.
ForcedIsFresh ==
  \A c \in Callers : Served(c) =>
    /\ calls[c].force => calls[c].row = 0
    /\ calls[c].row = 0 => \/ calls[c].got \in FetchErrors
                           \/ calls[c].got.version >= calls[c].version

\* The documented behaviour of fetchUrlMetadata, which the code does not have:
\* "Query returns error message for invalid URLs, unreachable sites, or
\* timeouts" (specs/fetch-title-from-url/requirements.md).
FailureReported ==
  \A c \in Callers : Served(c) /\ calls[c].kind = "metadata" =>
    (calls[c].got \in FetchErrors => calls[c].answer.error # Null)
=============================================================================
