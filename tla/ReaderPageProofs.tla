-------------------------- MODULE ReaderPageProofs --------------------------
(***************************************************************************)
(* Proofs about the page cache and the windows that read from it, for any  *)
(* callers, spellings, pages, errors, length of a day and any number of    *)
(* calls.                                                                  *)
(***************************************************************************)
EXTENDS ReaderPage, WellFoundedInduction, TLAPS

(***************************************************************************)
(* What the object stores and answers.                                     *)
(***************************************************************************)
Titles == Versions \cup {Empty}
Strategies == {"readability", "selector", Null}
Messages == FetchErrors \cup {NoContent, Null}
Results == [readable : BOOLEAN, metadata : Versions \cup {Null}, content : Contents \cup {Null},
            strategy : Strategies, error : Messages]
ReaderRows == [readable : {0, 1}, metaTitle : Versions \cup {Null}, strategy : Strategies,
               content : Contents \cup {Null}, error : Messages]

\* A result of the reader says what it is.
Explains(a) == (a.readable <=> a.content # Null) /\ (a.readable <=> a.error = Null)

\* The answers that the object makes of a fetch of this kind.
Proper(kind, answer) ==
  IF kind = "metadata" THEN answer \in Titles ELSE answer \in Results /\ Explains(answer)

Pages == [version : Versions, doc : Documents]
Rows(kind) ==
  [at : Nat, body : IF kind = "metadata" THEN Titles ELSE ReaderRows,
   answer : IF kind = "metadata" THEN Titles ELSE Results,
   saw : Nat, version : Versions \cup {Null}]

LEMMA NullApart ==
  /\ Null \notin Versions \cup Contents \cup FetchErrors \cup {NoContent} /\ Null # Empty
  /\ Null \notin Urls /\ Empty \notin Versions /\ Versions \subseteq Nat
  /\ MaxVersions \in Nat /\ 0 \in Versions
BY PageCacheAssumption DEF Versions, Contents

LEMMA VersionsCount ==
  /\ \A v \in Versions : v \in Nat
  /\ \A p \in Pages : p.version \in Versions /\ p.version \in Nat /\ p.version <= p.version
BY PageCacheAssumption DEF Versions, Pages

LEMMA LeastElement ==
  ASSUME NEW S \in SUBSET Nat, S # {}
  PROVE  Min(S) \in S
<1>1. PICK n \in S : \A k \in S : <<k, n>> \notin OpToRel(<, Nat)
  BY NatLessThanWellFounded, WFMin
<1>2. \A k \in S : ~ (k < n)
  BY <1>1 DEF OpToRel
<1>3. \A k \in S : n \in Nat /\ k \in Nat
  OBVIOUS
<1>4. \A k \in S : n <= k
  BY <1>2, <1>3
<1> QED BY <1>4 DEF Min

\* What is extracted from a page is some of its contents, with how it was
\* found, or nothing.
LEMMA Extracted ==
  ASSUME NEW p \in Pages
  PROVE  /\ ExtractContent(p).content \in Contents \cup {Null}
         /\ ExtractContent(p).strategy \in Strategies
<1> DEFINE regions == p.doc.regions
           found == {i \in 1 .. Len(regions) : regions[i] = "long"}
           long == SelectInSeq(regions, LAMBDA r : r = "long")
<1>1. p.version \in Versions /\ regions \in Seq({"short", "long"})
  BY PageCacheAssumption DEF Pages
<1>2. long = IF found # {} THEN Min(found) ELSE 0
  BY DEF SelectInSeq
<1>3. long \in Nat
  <2>1. found \in SUBSET Nat
    OBVIOUS
  <2> HIDE DEF long, found
  <2>2. found # {} => Min(found) \in found
    BY <2>1, LeastElement
  <2> QED BY <1>2, <2>1, <2>2
<1>4. ExtractContent(p) =
        IF p.doc.readerable /\ p.doc.parsed
          THEN [content |-> <<p.version, 0>>, strategy |-> "readability"]
        ELSE IF long > 0 THEN [content |-> <<p.version, long>>, strategy |-> "selector"]
        ELSE [content |-> Null, strategy |-> Null]
  BY DEF ExtractContent
<1> HIDE DEF long, found, regions
<1> QED BY <1>1, <1>3, <1>4 DEF Contents, Strategies

\* Whatever a fetch comes to makes a proper answer.
LEMMA FetchedProper ==
  ASSUME NEW kind \in Kinds, NEW got, got \in FetchErrors \/ got \in Pages
  PROVE  Proper(kind, Fetched(kind, got))
<1>1. CASE kind = "metadata"
  BY <1>1 DEF Proper, Fetched, Titles, Pages
<1>2. CASE kind = "reader"
  <2>1. CASE got \in FetchErrors
    <3>1. Fetched(kind, got) = ErrorResult(got)
      BY <1>2, <2>1 DEF Fetched
    <3>2. ErrorResult(got) \in Results
      BY <2>1 DEF ErrorResult, Results, Strategies, Messages
    <3>3. /\ ~ ErrorResult(got).readable
          /\ ErrorResult(got).content = Null /\ ErrorResult(got).error = got
      BY DEF ErrorResult
    <3>4. Explains(ErrorResult(got))
      BY <2>1, <3>3, NullApart DEF Explains
    <3> QED BY <1>2, <3>1, <3>2, <3>4 DEF Proper
  <2>2. CASE got \notin FetchErrors
    <3>1. Fetched(kind, got) = FreshResult(got) /\ got \in Pages /\ got.version \in Versions
      BY <1>2, <2>2 DEF Fetched, Pages
    <3> DEFINE x == ExtractContent(got)
    <3>2. x.content \in Contents \cup {Null} /\ x.strategy \in Strategies
      BY <3>1, Extracted
    <3>3. FreshResult(got) =
            [readable |-> x.content # Null, metadata |-> got.version, content |-> x.content,
             strategy |-> x.strategy, error |-> IF x.content # Null THEN Null ELSE NoContent]
      BY DEF FreshResult
    <3> HIDE DEF x
    <3>4. FreshResult(got) \in Results
      BY <3>1, <3>2, <3>3 DEF Results, Messages
    <3> DEFINE ok == x.content # Null
    <3>5. FreshResult(got) =
            [readable |-> ok, metadata |-> got.version, content |-> x.content,
             strategy |-> x.strategy, error |-> IF ok THEN Null ELSE NoContent]
      BY <3>3
    <3>6. (x.content # Null <=> ok) /\ ok \in BOOLEAN
      OBVIOUS
    <3> HIDE DEF ok
    <3>7. Explains(FreshResult(got))
      BY <3>5, <3>6, NullApart DEF Explains
    <3> QED BY <1>2, <3>1, <3>4, <3>7 DEF Proper
  <2> QED BY <2>1, <2>2
<1> QED BY <1>1, <1>2 DEF Kinds

\* A proper answer is stored in columns, from which clients are answered as
\* they were by the fetch itself.
LEMMA StoredAgrees ==
  ASSUME NEW kind \in Kinds, NEW answer, Proper(kind, answer)
  PROVE  /\ Stored(kind, answer) \in IF kind = "metadata" THEN Titles ELSE ReaderRows
         /\ ClientAnswer(kind, Read(kind, Stored(kind, answer))) = ClientAnswer(kind, answer)
<1>1. CASE kind = "metadata"
  BY <1>1 DEF Proper, Stored, Read
<1>2. CASE kind = "reader"
  <2>1. answer \in Results /\ Explains(answer)
    BY <1>2 DEF Proper
  <2>2. /\ Stored(kind, answer) = ToRow(answer)
        /\ ClientAnswer(kind, Read(kind, ToRow(answer))) =
             [readable |-> FromRow(ToRow(answer)).readable, content |-> FromRow(ToRow(answer)).content,
              error |-> FromRow(ToRow(answer)).error]
        /\ ClientAnswer(kind, answer) =
             [readable |-> answer.readable, content |-> answer.content, error |-> answer.error]
    BY <1>2 DEF Stored, Read, ClientAnswer
  <2>3. CASE answer.readable
    <3>1. ToRow(answer) = [readable |-> 1, metaTitle |-> answer.metadata, strategy |-> answer.strategy,
                           content |-> answer.content, error |-> Null]
      BY <2>1, <2>3 DEF ToRow, Explains
    <3>2. answer.error = Null /\ answer.readable = TRUE
      BY <2>1, <2>3 DEF Explains, Results
    <3>3. ToRow(answer) \in ReaderRows
      BY <2>1, <3>1 DEF ReaderRows, Results, Messages
    <3>4. /\ FromRow(ToRow(answer)).readable = TRUE
          /\ FromRow(ToRow(answer)).content = answer.content
          /\ FromRow(ToRow(answer)).error = Null
      BY <3>1 DEF FromRow
    <3> QED BY <1>2, <2>2, <3>2, <3>3, <3>4
  <2>4. CASE ~ answer.readable
    <3>1. ToRow(answer) = [readable |-> 0, metaTitle |-> answer.metadata, strategy |-> answer.strategy,
                           content |-> Null, error |-> answer.error]
      BY <2>1, <2>4 DEF ToRow, Explains
    <3>2. answer.content = Null /\ answer.readable = FALSE
      BY <2>1, <2>4 DEF Explains, Results
    <3>3. ToRow(answer) \in ReaderRows
      BY <2>1, <3>1 DEF ReaderRows, Results
    <3>4. /\ FromRow(ToRow(answer)).readable = FALSE
          /\ FromRow(ToRow(answer)).content = Null
          /\ FromRow(ToRow(answer)).error = answer.error
      BY <3>1 DEF FromRow
    <3> QED BY <1>2, <2>2, <3>2, <3>3, <3>4
  <2> QED BY <2>3, <2>4
<1> QED BY <1>1, <1>2 DEF Kinds

\* What a client is told of a proper answer.
LEMMA ClientTold ==
  ASSUME NEW kind \in Kinds, NEW answer, Proper(kind, answer)
  PROVE  /\ ClientAnswer(kind, answer) \in Answers
         /\ kind = "reader" => /\ ClientAnswer(kind, answer) \in ReaderAnswers
                               /\ Explains(ClientAnswer(kind, answer))
<1>1. CASE kind = "metadata"
  BY <1>1, NullApart DEF Proper, ClientAnswer, Answers, Titles
<1>2. CASE kind = "reader"
  BY <1>2 DEF Proper, ClientAnswer, Answers, ReaderAnswers, Results, Explains, Messages
<1> QED BY <1>1, <1>2 DEF Kinds
-----------------------------------------------------------------------------
(***************************************************************************)
(* The text of a window's article is that of its story, after the effect.  *)
(***************************************************************************)

\* A highlighting under way is of the text the effect ran for last, and so is
\* one that is done, unless there was no text.
OfEffect(r) ==
  /\ r.jobs \subseteq {r.effectOf} \ {Null}
  /\ r.effectOf # Null => r.highlighted \in {Null, r.effectOf}

ReaderFields == {"mounted", "story", "effectOf", "highlighted", "jobs"}

ReaderInv ==
  /\ DOMAIN reader = Windows
  /\ \A w \in Windows : DOMAIN reader[w] = ReaderFields /\ OfEffect(reader[w])

\* The effect leaves no highlighting of another text.
LEMMA EffectKeeps ==
  ASSUME NEW r, DOMAIN r = ReaderFields
  PROVE  /\ DOMAIN Restarted(r) = ReaderFields
         /\ Restarted(r).story = r.story
         /\ OfEffect(Restarted(r))
<1> DEFINE content == Content(r.story)
<1>1. CASE content = Null
  BY <1>1 DEF Restarted, ReaderFields, OfEffect
<1>2. CASE content # Null
  BY <1>2 DEF Restarted, ReaderFields, OfEffect
<1> QED BY <1>1, <1>2

LEMMA ReaderInit == Init => ReaderInv
BY DEF Init, ReaderInv, ReaderFields, OfEffect, Unmounted

\* The component of one window changes and keeps the invariant.
LEMMA ReaderStep ==
  ASSUME ReaderInv, NEW w \in Windows,
         DOMAIN reader' = Windows, \A v \in Windows \ {w} : reader'[v] = reader[v],
         DOMAIN reader'[w] = ReaderFields, OfEffect(reader'[w])
  PROVE  ReaderInv'
<1>1. \A v \in Windows : DOMAIN reader'[v] = ReaderFields /\ OfEffect(reader'[v])
  BY DEF ReaderInv
<1> QED BY <1>1 DEF ReaderInv, OfEffect

LEMMA ReaderNext == ReaderInv /\ [Next]_vars => ReaderInv'
<1> SUFFICES ASSUME ReaderInv, [Next]_vars  PROVE ReaderInv'
  OBVIOUS
<1>1. CASE UNCHANGED reader
  BY <1>1 DEF ReaderInv, OfEffect
<1>2. ASSUME NEW w \in Windows, NEW u, Visit(w, u)  PROVE ReaderInv'
  <2>1. /\ DOMAIN reader' = Windows
        /\ \A v \in Windows \ {w} : reader'[v] = reader[v]
        /\ DOMAIN reader'[w] = ReaderFields
        /\ reader'[w].jobs = reader[w].jobs /\ reader'[w].effectOf = reader[w].effectOf
        /\ reader'[w].highlighted = reader[w].highlighted
    BY <1>2 DEF Visit, ReaderInv, ReaderFields
  <2>2. OfEffect(reader'[w])
    BY <2>1 DEF ReaderInv, OfEffect
  <2> QED BY <2>1, <2>2, ReaderStep
<1>3. ASSUME NEW w \in Windows, AnswerVisit(w)  PROVE ReaderInv'
  <2>1. /\ DOMAIN reader' = Windows
        /\ \A v \in Windows \ {w} : reader'[v] = reader[v]
        /\ DOMAIN reader'[w] = ReaderFields
        /\ reader'[w].jobs = reader[w].jobs /\ reader'[w].effectOf = reader[w].effectOf
        /\ reader'[w].highlighted = reader[w].highlighted
    BY <1>3 DEF AnswerVisit, ReaderInv, ReaderFields
  <2>2. OfEffect(reader'[w])
    BY <2>1 DEF ReaderInv, OfEffect
  <2> QED BY <2>1, <2>2, ReaderStep
<1>4. ASSUME NEW w \in Windows, RunEffect(w)  PROVE ReaderInv'
  <2>1. /\ DOMAIN reader' = Windows /\ reader'[w] = Restarted(reader[w])
        /\ \A v \in Windows \ {w} : reader'[v] = reader[v]
    BY <1>4 DEF RunEffect, ReaderInv
  <2>2. DOMAIN Restarted(reader[w]) = ReaderFields /\ OfEffect(Restarted(reader[w]))
    BY EffectKeeps DEF ReaderInv
  <2> QED BY <2>1, <2>2, ReaderStep
<1>5. ASSUME NEW w \in Windows, Highlight(w)  PROVE ReaderInv'
  <2>1. PICK content \in reader[w].jobs :
          /\ DOMAIN reader' = Windows
          /\ \A v \in Windows \ {w} : reader'[v] = reader[v]
          /\ DOMAIN reader'[w] = ReaderFields
          /\ reader'[w].jobs = reader[w].jobs \ {content}
          /\ reader'[w].effectOf = reader[w].effectOf
          /\ reader'[w].highlighted = content
    BY <1>5 DEF Highlight, ReaderInv, ReaderFields
  <2>2. OfEffect(reader'[w])
    BY <2>1 DEF ReaderInv, OfEffect
  <2> QED BY <2>1, <2>2, ReaderStep
<1>6. ASSUME NEW w \in Windows, Leave(w)  PROVE ReaderInv'
  <2>1. /\ DOMAIN reader' = Windows /\ reader'[w] = Unmounted
        /\ \A v \in Windows \ {w} : reader'[v] = reader[v]
    BY <1>6 DEF Leave, ReaderInv
  <2>2. DOMAIN Unmounted = ReaderFields /\ OfEffect(Unmounted)
    BY DEF Unmounted, ReaderFields, OfEffect
  <2> QED BY <2>1, <2>2, ReaderStep
<1> QED BY <1>1, <1>2, <1>3, <1>4, <1>5, <1>6 DEF Next, vars

\* A window shows the text of its story once the effect has run for it, whenever
\* highlightings end (ReaderPage.tsx, the effect on the content).
THEOREM SpecArticleIsTheStorys == Spec => []ArticleIsTheStorys
<1>1. ReaderInv => ArticleIsTheStorys
  BY DEF ReaderInv, OfEffect, EffectDue, ArticleIsTheStorys, Article, Content
<1> QED BY <1>1, ReaderInit, ReaderNext, PTL DEF Spec
-----------------------------------------------------------------------------
(***************************************************************************)
(* The inductive invariant of the cache.                                   *)
(***************************************************************************)
Asked == [pc : {"init", "get"}, kind : Kinds, url : Urls, force : BOOLEAN]
InObject == [pc : {"fetching", "reading", "answered"}, kind : Kinds, force : BOOLEAN,
             version : Versions, saw : Nat, at : Nat, got : Pages \cup FetchErrors \cup {Null},
             row : Nat, answer : Answers \cup {Null}]
Dead == [pc : {"died"}, kind : Kinds]

NotNewer(v, w) == v = Null \/ v <= w

\* A row was made from the answer it remembers, by a fetch that began before.
RowOK(kind, j) ==
  LET r == log[kind][j]
  IN /\ r.at <= now /\ NotNewer(r.version, page.version) /\ r.saw < j
     /\ Proper(kind, r.answer) /\ r.body = Stored(kind, r.answer)

\* Of two rows the later is no older, and shows no older a page than those that
\* were there when its fetch began.
InOrder(kind, i, j) ==
  LET rows == log[kind]
  IN i < j => /\ rows[i].at <= rows[j].at
              /\ \/ rows[j].saw < i
                 \/ Null \in {rows[i].version, rows[j].version}
                 \/ rows[i].version <= rows[j].version

LogOK ==
  /\ DOMAIN log = Kinds /\ \A kind \in Kinds : log[kind] \in Seq(Rows(kind))
  /\ \A kind \in Kinds : \A j \in 1 .. Len(log[kind]) : RowOK(kind, j)
  /\ \A kind \in Kinds : \A i, j \in 1 .. Len(log[kind]) : InOrder(kind, i, j)

\* A fetch is of a page no older than the rows that were there when it began.
FetchOK(call) ==
  /\ call.version <= page.version /\ call.saw <= Len(log[call.kind])
  /\ \A i \in 1 .. call.saw : NotNewer(log[call.kind][i].version, call.version)
  /\ call.pc = "reading" => /\ call.got \in Pages
                            /\ call.version <= call.got.version
                            /\ call.got.version <= page.version

\* What CacheMovesForward says of one call.
MovesForward(call) ==
  LET rows == log[call.kind]
      j    == call.row
  IN /\ call.at < rows[j].at + Day
     /\ \A i \in 1 .. call.saw :
          \/ rows[i].at = rows[j].at
          \/ rows[j].saw < i /\ i < j
          \/ Null \in {rows[i].version, rows[j].version}
          \/ rows[i].version <= rows[j].version

AnswerOK(call) ==
  /\ call.answer \in Answers /\ call.row <= Len(log[call.kind]) /\ call.saw <= Len(log[call.kind])
  /\ call.kind = "reader" => call.answer \in ReaderAnswers /\ Explains(call.answer)
  /\ call.row > 0 => /\ ~ call.force
                     /\ call.answer = ClientAnswer(call.kind, log[call.kind][call.row].answer)
                     /\ MovesForward(call)
  /\ call.row = 0 => call.got \in FetchErrors \/ call.got.version >= call.version

\* A window asks for the reader's result only.
CallOK(c) ==
  /\ calls[c] \in {Idle} \cup Asked \cup InObject \cup Dead
  /\ calls[c].pc \in {"get", "fetching", "reading", "answered"} => url # Null
  /\ c \in Windows /\ calls[c] # Idle => calls[c].kind = "reader"
  /\ calls[c].pc \in {"fetching", "reading"} => FetchOK(calls[c])
  /\ calls[c].pc = "answered" => AnswerOK(calls[c])

CallsOK == DOMAIN calls = Callers /\ \A c \in Callers : CallOK(c)

StateOK ==
  url \in Urls \cup {Null} /\ page \in Pages /\ now \in Nat /\ made \in 0 .. MaxCalls

CacheInv == StateOK /\ LogOK /\ CallsOK

StoriesOK == \A w \in Windows : reader[w].story \in ReaderAnswers \cup {Null}

IInv == ReaderInv /\ StoriesOK /\ CacheInv

\* The forms of a call, by what it waits for.
LEMMA CallForms ==
  ASSUME NEW c, CallOK(c)
  PROVE  /\ calls[c] = Idle <=> calls[c].pc = "idle"
         /\ calls[c].pc \in {"init", "get"} => calls[c] \in Asked
         /\ calls[c].pc \in {"fetching", "reading", "answered"} => calls[c] \in InObject
         /\ calls[c].pc = "died" => calls[c] \in Dead
         /\ calls[c] # Idle => calls[c].kind \in Kinds
         /\ calls[c].pc \in {"init", "get", "fetching", "reading", "answered", "died", "idle"}
BY DEF CallOK, Idle, Asked, InObject, Dead

LEMMA InvariantImplies ==
  IInv => TypeOK /\ CachedAsFetched /\ AnswersExplain /\ CacheMovesForward /\ ForcedIsFresh
<1> SUFFICES ASSUME IInv
             PROVE  TypeOK /\ CachedAsFetched /\ AnswersExplain /\ CacheMovesForward /\ ForcedIsFresh
  OBVIOUS
<1>1. ASSUME NEW c \in Callers, Served(c)
      PROVE  calls[c] \in InObject /\ AnswerOK(calls[c])
  BY <1>1, CallForms DEF IInv, CacheInv, CallsOK, CallOK, Served
<1>2. CachedAsFetched
  BY <1>1 DEF CachedAsFetched, AnswerOK
<1>3. AnswersExplain
  BY <1>1 DEF AnswersExplain, AnswerOK, Explains
<1>4. CacheMovesForward
  BY <1>1 DEF CacheMovesForward, AnswerOK, MovesForward
<1>5. ForcedIsFresh
  <2>1. ASSUME NEW c \in Callers, Served(c)
        PROVE  calls[c].row \in Nat
    BY <1>1, <2>1 DEF InObject
  <2> QED BY <1>1, <2>1 DEF ForcedIsFresh, AnswerOK
<1>6. TypeOK
  <2>1. ASSUME NEW c \in Callers
        PROVE  /\ calls[c].pc \in {"init", "get", "fetching", "reading", "answered", "died", "idle"}
               /\ calls[c].pc \in {"get", "fetching", "reading", "answered"} => url # Null
    BY CallForms DEF IInv, CacheInv, CallsOK, CallOK
  <2>2. ASSUME NEW c \in Callers, Served(c)
        PROVE  calls[c].answer \in Answers /\ calls[c].row \in 0 .. Len(log[calls[c].kind])
    <3>1. calls[c].kind \in Kinds /\ calls[c].row \in Nat
      BY <1>1, <2>2 DEF InObject
    <3>2. Len(log[calls[c].kind]) \in Nat
      BY <3>1 DEF IInv, CacheInv, LogOK
    <3> QED BY <1>1, <2>2, <3>1, <3>2 DEF AnswerOK
  <2>3. ASSUME NEW k \in Kinds, NEW j \in DOMAIN log[k]
        PROVE  log[k][j].at \in 0 .. now
    <3>1. log[k] \in Seq(Rows(k)) /\ j \in 1 .. Len(log[k])
      BY <2>3 DEF IInv, CacheInv, LogOK
    <3>2. log[k][j] \in Rows(k)
      BY <3>1
    <3> QED BY <3>1, <3>2 DEF IInv, CacheInv, LogOK, RowOK, Rows, StateOK
  <2> QED BY <2>1, <2>2, <2>3 DEF TypeOK, IInv, CacheInv, StateOK, StoriesOK, Pages
<1> QED BY <1>2, <1>3, <1>4, <1>5, <1>6
-----------------------------------------------------------------------------
(***************************************************************************)
(* Every step keeps it.                                                    *)
(***************************************************************************)

\* What no step undoes.
Grows ==
  /\ url # Null => url' # Null
  /\ page \in Pages /\ page' \in Pages /\ page.version <= page'.version
  /\ \A kind \in Kinds :
       /\ Len(log[kind]) \in Nat /\ Len(log'[kind]) \in Nat
       /\ Len(log[kind]) <= Len(log'[kind])
       /\ \A i \in 1 .. Len(log[kind]) : log'[kind][i] = log[kind][i]

\* A call that is not touched is as good as it was.
LEMMA CallKept ==
  ASSUME NEW c, CallOK(c), Grows, calls'[c] = calls[c]
  PROVE  CallOK(c)'
<1> DEFINE call == calls[c]
           rows == log[call.kind]
<1>1. CASE call.pc \in {"fetching", "reading", "answered"}
  <2>1. call \in InObject
    BY <1>1, CallForms
  <2>2. /\ call.kind \in Kinds /\ call.saw \in Nat /\ call.row \in Nat /\ call.version \in Nat
    BY <2>1, VersionsCount, NullApart DEF InObject
  <2>3. /\ Len(rows) \in Nat /\ Len(log'[call.kind]) \in Nat /\ Len(rows) <= Len(log'[call.kind])
        /\ \A i \in 1 .. Len(rows) : log'[call.kind][i] = rows[i]
    BY <2>2 DEF Grows
  <2>4. page.version \in Nat /\ page'.version \in Nat /\ page.version <= page'.version
    BY VersionsCount, NullApart DEF Grows, Pages
  <2>5. ASSUME FetchOK(call)  PROVE FetchOK(call)'
    <3>1. call.saw <= Len(log'[call.kind]) /\ call.version <= page'.version
      BY <2>2, <2>3, <2>4, <2>5 DEF FetchOK
    <3>2. ASSUME NEW i \in 1 .. call.saw
          PROVE  NotNewer(log'[call.kind][i].version, call.version)
      <4>1. i \in 1 .. Len(rows) /\ NotNewer(rows[i].version, call.version)
        BY <2>2, <2>3, <2>5 DEF FetchOK
      <4> QED BY <2>3, <4>1
    <3>3. call.pc = "reading" => /\ call.got \in Pages
                                 /\ call.version <= call.got.version
                                 /\ call.got.version <= page'.version
      BY <2>4, <2>5, VersionsCount, NullApart DEF FetchOK, Pages
    <3> QED BY <3>1, <3>2, <3>3 DEF FetchOK
  <2>6. ASSUME AnswerOK(call)  PROVE AnswerOK(call)'
    <3>1. call.row <= Len(log'[call.kind]) /\ call.saw <= Len(log'[call.kind])
      BY <2>2, <2>3, <2>6 DEF AnswerOK
    <3>2. \A i \in 1 .. call.saw : log'[call.kind][i] = rows[i]
      BY <2>2, <2>3, <2>6 DEF AnswerOK
    <3>3. call.row > 0 => log'[call.kind][call.row] = rows[call.row]
      BY <2>2, <2>3, <2>6 DEF AnswerOK
    <3>4. call.row > 0 => MovesForward(call)'
      BY <2>6, <3>2, <3>3 DEF AnswerOK, MovesForward
    <3> QED BY <2>6, <3>1, <3>3, <3>4 DEF AnswerOK
  <2> QED BY <2>5, <2>6 DEF CallOK, Grows
<1>2. CASE call.pc \notin {"fetching", "reading", "answered"}
  BY <1>2 DEF CallOK, Grows
<1> QED BY <1>1, <1>2

\* The step of one call.
LEMMA CallStep ==
  ASSUME CallsOK, Grows, NEW c \in Callers, NEW call,
         calls' = [calls EXCEPT ![c] = call], CallOK(c)'
  PROVE  CallsOK'
<1>1. DOMAIN calls' = Callers /\ \A d \in Callers \ {c} : calls'[d] = calls[d]
  BY DEF CallsOK
<1>2. \A d \in Callers \ {c} : CallOK(d)'
  BY <1>1, CallKept DEF CallsOK
<1> QED BY <1>1, <1>2 DEF CallsOK

\* The log stays in order while it is not written.
LEMMA LogKept ==
  ASSUME LogOK, StateOK, log' = log, now' \in Nat, now <= now',
         page' \in Pages, page.version <= page'.version
  PROVE  LogOK'
<1>1. ASSUME NEW kind \in Kinds, NEW j \in 1 .. Len(log[kind])  PROVE RowOK(kind, j)'
  <2>1. log[kind][j] \in Rows(kind)
    <3>1. log[kind] \in Seq(Rows(kind))
      BY DEF LogOK
    <3> QED BY <3>1
  <2>2. /\ log[kind][j].at \in Nat /\ log[kind][j].version \in Versions \cup {Null}
    BY <2>1 DEF Rows
  <2>3. page.version \in Nat /\ page'.version \in Nat /\ now \in Nat
    BY VersionsCount, NullApart DEF StateOK, Pages
  <2>4. RowOK(kind, j)
    BY DEF LogOK
  <2>5. log[kind][j].at <= now'
    BY <2>2, <2>3, <2>4 DEF RowOK
  <2>6. NotNewer(log[kind][j].version, page'.version)
    <3>1. CASE log[kind][j].version = Null
      BY <3>1 DEF NotNewer
    <3>2. CASE log[kind][j].version # Null
      <4>1. log[kind][j].version \in Nat /\ log[kind][j].version <= page.version
        BY <2>2, <2>4, <3>2, VersionsCount DEF RowOK, NotNewer
      <4> QED BY <2>3, <4>1 DEF NotNewer
    <3> QED BY <3>1, <3>2
  <2> QED BY <2>4, <2>5, <2>6 DEF RowOK
<1>2. ASSUME NEW kind \in Kinds, NEW i \in 1 .. Len(log[kind]), NEW j \in 1 .. Len(log[kind])
      PROVE  InOrder(kind, i, j)'
  BY DEF LogOK, InOrder
<1> QED BY <1>1, <1>2 DEF LogOK

\* Nothing but calls change.
LEMMA QuietGrows ==
  ASSUME LogOK, StateOK, log' = log, page' = page, url # Null => url' # Null
  PROVE  Grows
<1>1. \A kind \in Kinds : Len(log[kind]) \in Nat
  BY DEF LogOK
<1>2. page \in Pages /\ page.version <= page.version
  BY VersionsCount, NullApart DEF StateOK, Pages
<1> QED BY <1>1, <1>2 DEF Grows

LEMMA AskKeeps ==
  ASSUME CacheInv, NEW c \in Callers, NEW kind \in Kinds, NEW u \in Urls, NEW force \in BOOLEAN,
         Ask(c, kind, u, force), c \in Windows => kind = "reader"
  PROVE  CacheInv'
<1> DEFINE call == [pc |-> "init", kind |-> kind, url |-> u, force |-> force]
<1>1. /\ calls' = [calls EXCEPT ![c] = call]
      /\ made' = made + 1 /\ made < MaxCalls /\ url' = url /\ log' = log /\ page' = page /\ now' = now
  BY DEF Ask
<1>2. call \in Asked /\ call.pc = "init" /\ call.kind = kind
  BY DEF Asked
<1> HIDE DEF call
<1>3. CallOK(c)'
  BY <1>1, <1>2 DEF CallOK, CacheInv, CallsOK
<1>4. CallsOK'
  BY <1>1, <1>3, QuietGrows, CallStep DEF CacheInv
<1>5. LogOK'
  BY <1>1, LogKept, VersionsCount DEF CacheInv, StateOK
<1>6. StateOK'
  BY <1>1, PageCacheAssumption DEF CacheInv, StateOK
<1> QED BY <1>4, <1>5, <1>6 DEF CacheInv

LEMMA InitUrlKeeps ==
  ASSUME CacheInv, NEW c \in Callers, InitUrl(c)
  PROVE  CacheInv'
<1> DEFINE call == [calls[c] EXCEPT !.pc = "get"]
<1>1. /\ calls' = [calls EXCEPT ![c] = call] /\ calls[c].pc = "init"
      /\ url' = calls[c].url /\ made' = made /\ log' = log /\ page' = page /\ now' = now
  BY DEF InitUrl
<1>2. CallOK(c) /\ calls[c] \in Asked
  BY <1>1, CallForms DEF CacheInv, CallsOK
<1>3. call \in Asked /\ call.pc = "get" /\ call.kind = calls[c].kind
  BY <1>2 DEF Asked
<1>4. url' \in Urls /\ url' # Null
  BY <1>1, <1>2, NullApart DEF Asked
<1> HIDE DEF call
<1>5. CallOK(c)'
  <2>1. c \in Windows => calls[c].kind = "reader"
    BY <1>1, <1>2, CallForms DEF CallOK, Idle
  <2> QED BY <1>1, <1>3, <1>4, <2>1 DEF CallOK, CacheInv, CallsOK
<1>6. CallsOK'
  BY <1>1, <1>4, <1>5, QuietGrows, CallStep DEF CacheInv
<1>7. LogOK'
  BY <1>1, LogKept, VersionsCount DEF CacheInv, StateOK
<1> QED BY <1>1, <1>4, <1>6, <1>7 DEF CacheInv, StateOK

\* What a call has of the object when it is handled.
LEMMA HandledOK ==
  ASSUME CacheInv, NEW c \in Callers, calls[c].pc = "get"
  PROVE  /\ Handled(c) \in InObject /\ Handled(c).pc = "fetching"
         /\ Handled(c).kind = calls[c].kind /\ Handled(c).force = calls[c].force
         /\ Handled(c).version = page.version /\ Handled(c).at = now
         /\ Handled(c).saw = Len(log[calls[c].kind])
         /\ calls[c].kind \in Kinds
         /\ c \in Windows => calls[c].kind = "reader"
<1>1. CallOK(c) /\ calls[c] \in Asked
  BY CallForms DEF CacheInv, CallsOK
<1>2. calls[c].kind \in Kinds /\ calls[c].force \in BOOLEAN
  BY <1>1 DEF Asked
<1>3. Len(log[calls[c].kind]) \in Nat
  BY <1>2 DEF CacheInv, LogOK
<1>4. Handled(c) \in InObject
  BY <1>2, <1>3, VersionsCount DEF Handled, InObject, CacheInv, StateOK
<1>5. c \in Windows => calls[c].kind = "reader"
  BY <1>1 DEF CallOK, Idle
<1> QED BY <1>2, <1>4, <1>5 DEF Handled

LEMMA StartFetchKeeps ==
  ASSUME CacheInv, NEW c \in Callers, StartFetch(c)
  PROVE  CacheInv'
<1> DEFINE call == Handled(c)
<1>1. /\ calls' = [calls EXCEPT ![c] = call] /\ calls[c].pc = "get" /\ url # Null
      /\ url' = url /\ made' = made /\ log' = log /\ page' = page /\ now' = now
  BY DEF StartFetch
<1>2. /\ call \in InObject /\ call.pc = "fetching" /\ call.kind = calls[c].kind
      /\ call.version = page.version /\ call.saw = Len(log[call.kind])
      /\ call.kind \in Kinds /\ (c \in Windows => call.kind = "reader")
  BY <1>1, HandledOK
<1> HIDE DEF call
<1>3. FetchOK(call)
  <2>1. page.version <= page.version
    BY VersionsCount DEF CacheInv, StateOK
  <2>2. Len(log[call.kind]) \in Nat
    BY <1>2 DEF CacheInv, LogOK
  <2>3. \A i \in 1 .. Len(log[call.kind]) : NotNewer(log[call.kind][i].version, page.version)
    BY <1>2 DEF CacheInv, LogOK, RowOK
  <2>4. call.version <= page.version /\ call.saw <= Len(log[call.kind])
    BY <1>2, <2>1, <2>2
  <2>5. \A i \in 1 .. call.saw : NotNewer(log[call.kind][i].version, call.version)
    BY <1>2, <2>3 DEF NotNewer
  <2>6. call.pc # "reading"
    BY <1>2
  <2> QED BY <2>4, <2>5, <2>6 DEF FetchOK
<1>4. CallOK(c)'
  <2>1. calls'[c] = call
    BY <1>1 DEF CacheInv, CallsOK
  <2>2. FetchOK(calls[c])'
    BY <1>1, <1>3, <2>1 DEF FetchOK
  <2> QED BY <1>1, <1>2, <2>1, <2>2 DEF CallOK, CacheInv, CallsOK
<1>5. CallsOK'
  BY <1>1, <1>4, QuietGrows, CallStep DEF CacheInv
<1>6. LogOK'
  BY <1>1, LogKept, VersionsCount DEF CacheInv, StateOK
<1> QED BY <1>1, <1>5, <1>6 DEF CacheInv, StateOK

LEMMA RespondKeeps ==
  ASSUME CacheInv, NEW c \in Callers, Respond(c)
  PROVE  CacheInv'
<1> DEFINE call == [calls[c] EXCEPT !.pc = "reading", !.got = page]
<1>1. /\ calls' = [calls EXCEPT ![c] = call] /\ calls[c].pc = "fetching"
      /\ url' = url /\ made' = made /\ log' = log /\ page' = page /\ now' = now
  BY DEF Respond
<1>2. CallOK(c) /\ calls[c] \in InObject
  BY <1>1, CallForms DEF CacheInv, CallsOK
<1>3. page \in Pages /\ page.version <= page.version /\ url # Null
  BY <1>1, <1>2, VersionsCount DEF CacheInv, StateOK, CallOK
<1>4. /\ call \in InObject /\ call.pc = "reading" /\ call.kind = calls[c].kind
      /\ call.version = calls[c].version /\ call.saw = calls[c].saw /\ call.got = page
  BY <1>2, <1>3 DEF InObject
<1>5. c \in Windows => calls[c].kind = "reader"
  BY <1>1, <1>2 DEF CallOK, Idle
<1> HIDE DEF call
<1>6. calls'[c] = call
  BY <1>1 DEF CacheInv, CallsOK
<1>7. FetchOK(calls[c])'
  BY <1>1, <1>2, <1>3, <1>4, <1>6 DEF FetchOK, CallOK
<1>8. CallOK(c)'
  BY <1>1, <1>3, <1>4, <1>5, <1>6, <1>7 DEF CallOK
<1>9. CallsOK'
  BY <1>1, <1>8, QuietGrows, CallStep DEF CacheInv
<1>10. LogOK'
  BY <1>1, LogKept, VersionsCount DEF CacheInv, StateOK
<1> QED BY <1>1, <1>9, <1>10 DEF CacheInv, StateOK

LEMMA AnswerCachedKeeps ==
  ASSUME CacheInv, NEW c \in Callers, AnswerCached(c)
  PROVE  CacheInv'
<1> DEFINE kind == calls[c].kind
           rows == log[kind]
<1>1. PICK j \in Newest(kind) :
        /\ IsRecent(rows[j].at)
        /\ calls' = [calls EXCEPT ![c] = Answered(Handled(c), j, Read(kind, rows[j].body))]
  BY DEF AnswerCached
<1>2. /\ calls[c].pc = "get" /\ url # Null /\ ~ calls[c].force
      /\ url' = url /\ made' = made /\ log' = log /\ page' = page /\ now' = now
  BY DEF AnswerCached
<1>3. /\ Handled(c) \in InObject /\ Handled(c).kind = kind /\ Handled(c).force = calls[c].force
      /\ Handled(c).version = page.version /\ Handled(c).at = now /\ Handled(c).saw = Len(rows)
      /\ kind \in Kinds /\ (c \in Windows => kind = "reader")
  BY <1>2, HandledOK
<1>4. /\ rows \in Seq(Rows(kind)) /\ Len(rows) \in Nat
  BY <1>3 DEF CacheInv, LogOK
<1>5. /\ j \in 1 .. Len(rows) /\ \A i \in 1 .. Len(rows) : rows[i].at <= rows[j].at
  BY <1>1, <1>4 DEF Newest
<1>6. /\ Proper(kind, rows[j].answer) /\ rows[j].body = Stored(kind, rows[j].answer)
  BY <1>3, <1>5 DEF CacheInv, LogOK, RowOK
<1> DEFINE answer == ClientAnswer(kind, rows[j].answer)
           call == [Handled(c) EXCEPT !.pc = "answered", !.row = j, !.answer = answer]
<1>7. calls' = [calls EXCEPT ![c] = call]
  <2>1. ClientAnswer(kind, Read(kind, rows[j].body)) = answer
    BY <1>3, <1>6, StoredAgrees
  <2> QED BY <1>1, <1>3, <2>1 DEF Answered
<1>8. /\ answer \in Answers
      /\ kind = "reader" => answer \in ReaderAnswers /\ Explains(answer)
  BY <1>3, <1>6, ClientTold
<1> HIDE DEF answer
<1>9. /\ call \in InObject /\ call.pc = "answered" /\ call.kind = kind /\ call.force = calls[c].force
      /\ call.at = now /\ call.saw = Len(rows) /\ call.row = j /\ call.answer = answer
  <2>1. j \in Nat
    BY <1>5
  <2> HIDE DEF rows, kind
  <2> QED BY <1>3, <1>8, <2>1 DEF InObject
<1> HIDE DEF call
<1>10. calls'[c] = call
  BY <1>7 DEF CacheInv, CallsOK
<1>11. MovesForward(calls[c])'
  <2>1. now < rows[j].at + Day
    BY <1>1 DEF IsRecent
  <2>2. ASSUME NEW i \in 1 .. Len(rows)
        PROVE  \/ rows[i].at = rows[j].at
               \/ rows[j].saw < i /\ i < j
               \/ Null \in {rows[i].version, rows[j].version}
               \/ rows[i].version <= rows[j].version
    <3>1. rows[i].at \in Nat /\ rows[j].at \in Nat
      <4> HIDE DEF rows, kind
      <4>1. rows[i] \in Rows(kind) /\ rows[j] \in Rows(kind)
        BY <1>4, <1>5, <2>2
      <4> QED BY <4>1 DEF Rows
    <3>2. InOrder(kind, i, j) /\ InOrder(kind, j, i)
      BY <1>3, <1>5, <2>2 DEF CacheInv, LogOK
    <3>3. CASE i < j
      BY <3>2, <3>3 DEF InOrder
    <3>4. CASE j < i
      BY <1>5, <2>2, <3>1, <3>2, <3>4 DEF InOrder
    <3>5. CASE i = j
      BY <3>5
    <3> QED BY <1>5, <2>2, <3>3, <3>4, <3>5
  <2>3. rows = log'[call.kind]
    BY <1>2, <1>9
  <2> HIDE DEF rows, kind
  <2> QED BY <1>9, <1>10, <2>1, <2>2, <2>3 DEF MovesForward
<1>12. AnswerOK(calls[c])'
  <2>1. Len(rows) <= Len(rows) /\ j <= Len(rows) /\ j # 0
    BY <1>4, <1>5
  <2> QED BY <1>2, <1>8, <1>9, <1>10, <1>11, <2>1 DEF AnswerOK, answer
<1>13. CallOK(c)'
  BY <1>2, <1>3, <1>9, <1>10, <1>12 DEF CallOK
<1>14. CallsOK'
  BY <1>2, <1>7, <1>13, QuietGrows, CallStep DEF CacheInv
<1>15. LogOK'
  BY <1>2, LogKept, VersionsCount DEF CacheInv, StateOK
<1> QED BY <1>2, <1>14, <1>15 DEF CacheInv, StateOK

\* A call that ends, and one that dies with the object.
LEMMA DoneOK ==
  ASSUME NEW c, CallOK(c), calls[c] # Idle, NEW k, k = calls[c].kind,
         calls'[c] = Idle \/ calls'[c] = [pc |-> "died", kind |-> k]
  PROVE  CallOK(c)'
<1>1. k \in Kinds /\ (c \in Windows => k = "reader")
  BY CallForms DEF CallOK
<1>2. CASE calls'[c] = Idle
  BY <1>2 DEF CallOK, Idle
<1>3. CASE calls'[c] = [pc |-> "died", kind |-> k]
  BY <1>1, <1>3 DEF CallOK, Dead
<1> QED BY <1>2, <1>3

LEMMA ReturnKeeps ==
  ASSUME CacheInv, NEW c \in Callers, Return(c)
  PROVE  CacheInv'
<1>1. /\ calls' = [calls EXCEPT ![c] = Idle] /\ calls[c].pc \in {"answered", "died"}
      /\ url' = url /\ made' = made /\ log' = log /\ page' = page /\ now' = now
  BY DEF Return
<1>2. CallOK(c)'
  <2>1. CallOK(c) /\ calls[c] # Idle /\ calls'[c] = Idle
    BY <1>1 DEF CacheInv, CallsOK, Idle
  <2> QED BY <2>1, DoneOK
<1>3. CallsOK'
  BY <1>1, <1>2, QuietGrows, CallStep DEF CacheInv
<1>4. LogOK'
  BY <1>1, LogKept, VersionsCount DEF CacheInv, StateOK
<1> QED BY <1>1, <1>3, <1>4 DEF CacheInv, StateOK

LEMMA RestartKeeps ==
  ASSUME CacheInv, Restart
  PROVE  CacheInv'
<1>1. /\ DOMAIN calls' = Callers
      /\ \A c \in Callers :
           calls'[c] = IF calls[c].pc \in {"fetching", "reading"}
                         THEN [pc |-> "died", kind |-> calls[c].kind] ELSE calls[c]
      /\ url' = url /\ made' = made /\ log' = log /\ page' = page /\ now' = now
  BY DEF Restart
<1>2. Grows
  BY <1>1, QuietGrows DEF CacheInv
<1>3. ASSUME NEW c \in Callers  PROVE CallOK(c)'
  <2>1. CallOK(c)
    BY DEF CacheInv, CallsOK
  <2>2. CASE calls[c].pc \in {"fetching", "reading"}
    BY <1>1, <2>1, <2>2, DoneOK DEF Idle
  <2>3. CASE calls[c].pc \notin {"fetching", "reading"}
    BY <1>1, <1>2, <2>1, <2>3, CallKept
  <2> QED BY <2>2, <2>3
<1>4. LogOK'
  BY <1>1, LogKept, VersionsCount DEF CacheInv, StateOK
<1> QED BY <1>1, <1>3, <1>4 DEF CacheInv, CallsOK, StateOK

\* Time passes, or the page becomes another.
LEMMA WorldKeeps ==
  ASSUME CacheInv, Publish \/ Tick
  PROVE  CacheInv'
<1>1. calls' = calls /\ url' = url /\ made' = made /\ log' = log
  BY DEF Publish, Tick
<1>2. page \in Pages /\ page.version \in Nat /\ page.version <= page.version /\ now \in Nat
  BY VersionsCount DEF CacheInv, StateOK
<1>3. page' \in Pages /\ page.version <= page'.version
  <2>1. CASE Publish
    <3>1. page' \in [version : {page.version + 1}, doc : Documents] /\ page.version < MaxVersions
      BY <2>1 DEF Publish
    <3>2. page.version + 1 \in Versions
      BY <1>2, <3>1, PageCacheAssumption DEF Versions
    <3> QED BY <1>2, <3>1, <3>2 DEF Pages
  <2>2. CASE Tick
    BY <1>2, <2>2 DEF Tick
  <2> QED BY <2>1, <2>2
<1>4. now' \in Nat /\ now <= now'
  BY <1>2 DEF Publish, Tick
<1>5. Grows
  <2>1. \A kind \in Kinds : Len(log[kind]) \in Nat
    BY DEF CacheInv, LogOK
  <2> QED BY <1>1, <1>2, <1>3, <2>1 DEF Grows
<1>6. CallsOK'
  BY <1>1, <1>5, CallKept DEF CacheInv, CallsOK
<1>7. LogOK'
  BY <1>1, <1>3, <1>4, LogKept DEF CacheInv
<1> QED BY <1>1, <1>3, <1>4, <1>6, <1>7 DEF CacheInv, StateOK

\* The row of a fetch that ends goes to the end of its table, and is no older
\* than those before it.
LEMMA AppendOK ==
  ASSUME LogOK, StateOK, NEW kind \in Kinds, NEW row \in Rows(kind),
         log' = [log EXCEPT ![kind] = Append(@, row)], page' = page, now' = now,
         row.at = now, row.saw <= Len(log[kind]), NotNewer(row.version, page.version),
         Proper(kind, row.answer), row.body = Stored(kind, row.answer),
         \A i \in 1 .. row.saw : row.version = Null \/ NotNewer(log[kind][i].version, row.version)
  PROVE  LogOK'
<1> DEFINE rows == log[kind]
           after == log'[kind]
<1>1. /\ rows \in Seq(Rows(kind)) /\ Len(rows) \in Nat
  BY DEF LogOK
<1>2. /\ DOMAIN log' = Kinds /\ after = Append(rows, row)
      /\ \A k \in Kinds \ {kind} : log'[k] = log[k]
  BY DEF LogOK
<1>3. /\ after \in Seq(Rows(kind)) /\ Len(after) = Len(rows) + 1
      /\ \A i \in 1 .. Len(rows) : after[i] = rows[i]
      /\ after[Len(rows) + 1] = row
  BY <1>1, <1>2
<1> HIDE DEF rows, after
<1>4. row.saw \in Nat /\ row.at \in Nat
  BY DEF Rows
<1>5. ASSUME NEW k \in Kinds, NEW j \in 1 .. Len(log'[k])  PROVE RowOK(k, j)'
  <2>1. CASE k = kind /\ j = Len(rows) + 1
    <3>1. log'[k][j] = row
      BY <1>3, <2>1 DEF after
    <3>2. row.saw < j /\ row.at <= now
      BY <1>1, <1>4, <2>1 DEF rows
    <3> QED BY <2>1, <3>1, <3>2 DEF RowOK
  <2>2. CASE ~ (k = kind /\ j = Len(rows) + 1)
    <3>1. j \in 1 .. Len(log[k]) /\ log'[k][j] = log[k][j]
      BY <1>1, <1>2, <1>3, <2>2 DEF rows, after
    <3>2. RowOK(k, j)
      BY <3>1 DEF LogOK
    <3> QED BY <3>1, <3>2 DEF RowOK
  <2> QED BY <2>1, <2>2
<1>6. ASSUME NEW k \in Kinds, NEW i \in 1 .. Len(log'[k]), NEW j \in 1 .. Len(log'[k])
      PROVE  InOrder(k, i, j)'
  <2>1. CASE k = kind /\ i < j /\ j = Len(rows) + 1
    <3>1. i \in 1 .. Len(rows) /\ log'[k][i] = rows[i] /\ log'[k][j] = row
      BY <1>1, <1>3, <2>1 DEF after
    <3>2. RowOK(kind, i)
      BY <3>1 DEF LogOK, rows
    <3>3. rows[i].at <= row.at
      BY <3>2 DEF RowOK, rows
    <3>4. \/ row.saw < i
          \/ Null \in {rows[i].version, row.version}
          \/ rows[i].version <= row.version
      <4>1. CASE row.saw < i
        BY <4>1
      <4>2. CASE i \in 1 .. row.saw
        BY <4>2 DEF NotNewer, rows
      <4> QED BY <1>4, <3>1, <4>1, <4>2
    <3> QED BY <3>1, <3>3, <3>4 DEF InOrder
  <2>2. CASE i < j /\ ~ (k = kind /\ j = Len(rows) + 1)
    <3>1. /\ i \in 1 .. Len(log[k]) /\ log'[k][i] = log[k][i]
          /\ j \in 1 .. Len(log[k]) /\ log'[k][j] = log[k][j]
      BY <1>1, <1>2, <1>3, <2>2 DEF rows, after
    <3>2. InOrder(k, i, j)
      BY <3>1 DEF LogOK
    <3> QED BY <3>1, <3>2 DEF InOrder
  <2>3. CASE ~ (i < j)
    BY <2>3 DEF InOrder
  <2> QED BY <2>1, <2>2, <2>3
<1>7. \A k \in Kinds : log'[k] \in Seq(Rows(k))
  BY <1>2, <1>3 DEF LogOK, after
<1> QED BY <1>2, <1>5, <1>6, <1>7 DEF LogOK

LEMMA EndFetchKeeps ==
  ASSUME CacheInv, NEW c \in Callers, EndFetch(c)
  PROVE  CacheInv'
<1>1. PICK got \in FetchErrors \cup (IF calls[c].pc = "reading" THEN {calls[c].got} ELSE {}) :
        LET call   == calls[c]
            answer == Fetched(call.kind, got)
        IN /\ log' = [log EXCEPT ![call.kind] = Append(@,
                        [at |-> now, body |-> Stored(call.kind, answer), answer |-> answer,
                         saw |-> call.saw,
                         version |-> IF got \in FetchErrors THEN Null ELSE got.version])]
           /\ calls' = [calls EXCEPT ![c] = Answered([call EXCEPT !.got = got], 0, answer)]
  BY DEF EndFetch
<1>2. /\ calls[c].pc \in {"fetching", "reading"}
      /\ url' = url /\ made' = made /\ page' = page /\ now' = now
  BY DEF EndFetch
<1>3. PICK call : call = calls[c]
  OBVIOUS
<1>4. /\ CallOK(c) /\ call \in InObject /\ FetchOK(call) /\ url # Null
      /\ call.kind \in Kinds /\ call.saw \in Nat /\ call.version \in Versions
      /\ c \in Windows => call.kind = "reader"
  <2>1. CallOK(c) /\ call \in InObject
    BY <1>2, <1>3, CallForms DEF CacheInv, CallsOK
  <2> QED BY <1>2, <1>3, <2>1 DEF CallOK, InObject, Idle
<1>5. got \in FetchErrors \/ (got \in Pages /\ call.version <= got.version /\ got.version <= page.version)
  BY <1>1, <1>3, <1>4 DEF FetchOK
<1> DEFINE kind == call.kind
           answer == Fetched(kind, got)
           version == IF got \in FetchErrors THEN Null ELSE got.version
           row == [at |-> now, body |-> Stored(kind, answer), answer |-> answer,
                   saw |-> call.saw, version |-> version]
           done == [call EXCEPT !.got = got, !.pc = "answered", !.row = 0,
                                !.answer = ClientAnswer(kind, answer)]
<1>6. log' = [log EXCEPT ![kind] = Append(@, row)]
  BY <1>1, <1>3
<1>7. calls' = [calls EXCEPT ![c] = done]
  BY <1>1, <1>3, <1>4 DEF Answered, InObject
<1>8. Proper(kind, answer)
  BY <1>4, <1>5, FetchedProper
<1>9. version \in Versions \cup {Null} /\ NotNewer(version, page.version)
  BY <1>5 DEF Pages, NotNewer
<1>10. row \in Rows(kind)
  <2>1. Stored(kind, answer) \in IF kind = "metadata" THEN Titles ELSE ReaderRows
    BY <1>4, <1>8, StoredAgrees
  <2>2. answer \in IF kind = "metadata" THEN Titles ELSE Results
    BY <1>8 DEF Proper
  <2>3. now \in Nat /\ call.saw \in Nat
    BY <1>4 DEF CacheInv, StateOK
  <2> HIDE DEF answer, version, kind
  <2> QED BY <1>9, <2>1, <2>2, <2>3 DEF Rows
<1>11. \A i \in 1 .. call.saw : version = Null \/ NotNewer(log[kind][i].version, version)
  <2>1. ASSUME NEW i \in 1 .. call.saw, version # Null
        PROVE  NotNewer(log[kind][i].version, version)
    <3>1. version = got.version /\ got \in Pages /\ call.version <= got.version
      BY <1>5, <2>1
    <3>2. NotNewer(log[kind][i].version, call.version)
      BY <1>4, <2>1 DEF FetchOK
    <3>3. i \in 1 .. Len(log[kind]) /\ log[kind] \in Seq(Rows(kind)) /\ Len(log[kind]) \in Nat
      BY <1>4, <2>1 DEF FetchOK, CacheInv, LogOK
    <3>4. log[kind][i] \in Rows(kind)
      BY <3>3
    <3>5. log[kind][i].version \in Versions \cup {Null}
      BY <3>4 DEF Rows
    <3>6. got.version \in Nat /\ call.version \in Nat
      BY <1>4, <3>1, VersionsCount
    <3> HIDE DEF version, kind
    <3> QED BY <3>1, <3>2, <3>5, <3>6, VersionsCount DEF NotNewer
  <2> QED BY <2>1
<1>12. LogOK'
  <2>1. call.saw <= Len(log[kind])
    BY <1>4 DEF FetchOK
  <2>2. row.at = now /\ row.saw = call.saw /\ row.version = version
        /\ row.answer = answer /\ row.body = Stored(kind, answer)
    OBVIOUS
  <2> HIDE DEF row, version, answer, kind
  <2>3. kind \in Kinds
    BY <1>4 DEF kind
  <2> QED BY <1>2, <1>6, <1>8, <1>9, <1>10, <1>11, <2>1, <2>2, <2>3, AppendOK DEF CacheInv
<1>13. Grows
  <2>1. \A k \in Kinds : log[k] \in Seq(Rows(k)) /\ Len(log[k]) \in Nat
    BY DEF CacheInv, LogOK
  <2>2. page \in Pages /\ page.version <= page.version
    BY VersionsCount DEF CacheInv, StateOK
  <2> HIDE DEF row, kind
  <2>3. \A k \in Kinds : log'[k] = IF k = kind THEN Append(log[k], row) ELSE log[k]
    BY <1>6 DEF CacheInv, LogOK
  <2>4. ASSUME NEW k \in Kinds
        PROVE  /\ Len(log'[k]) \in Nat /\ Len(log[k]) <= Len(log'[k])
               /\ \A i \in 1 .. Len(log[k]) : log'[k][i] = log[k][i]
    <3>1. CASE k = kind
      <4>1. row \in Rows(k) /\ log[k] \in Seq(Rows(k)) /\ log'[k] = Append(log[k], row)
        BY <1>10, <2>1, <2>3, <3>1
      <4> QED BY <4>1
    <3>2. CASE k # kind
      BY <2>1, <2>3, <3>2
    <3> QED BY <3>1, <3>2
  <2> QED BY <1>2, <2>1, <2>2, <2>4 DEF Grows
<1>14. CallOK(c)'
  <2>1. /\ ClientAnswer(kind, answer) \in Answers
        /\ kind = "reader" => /\ ClientAnswer(kind, answer) \in ReaderAnswers
                              /\ Explains(ClientAnswer(kind, answer))
    BY <1>4, <1>8, ClientTold
  <2>2. /\ done.pc = "answered" /\ done.kind = kind /\ done.saw = call.saw /\ done.row = 0
        /\ done.got = got /\ done.version = call.version /\ done.answer = ClientAnswer(kind, answer)
    BY <1>4 DEF InObject
  <2> HIDE DEF answer, row
  <2>3. done \in InObject
    BY <1>4, <1>5, <2>1 DEF InObject
  <2> HIDE DEF done
  <2>4. calls'[c] = done
    BY <1>7 DEF CacheInv, CallsOK
  <2>5. Len(log[kind]) \in Nat /\ Len(log'[kind]) \in Nat /\ Len(log[kind]) <= Len(log'[kind])
    BY <1>4, <1>13 DEF Grows
  <2>6. 0 <= Len(log'[kind]) /\ call.saw <= Len(log'[kind])
    BY <1>4, <2>5 DEF FetchOK
  <2>7. got \in FetchErrors \/ got.version >= call.version
    BY <1>4, <1>5, VersionsCount
  <2>8. AnswerOK(calls[c])'
    BY <2>1, <2>2, <2>4, <2>6, <2>7 DEF AnswerOK
  <2> QED BY <1>2, <1>4, <2>2, <2>3, <2>4, <2>8 DEF CallOK
<1>15. CallsOK'
  BY <1>7, <1>13, <1>14, CallStep DEF CacheInv
<1> QED BY <1>2, <1>12, <1>15 DEF CacheInv, StateOK
-----------------------------------------------------------------------------
LEMMA CacheInitOK == Init => CacheInv
<1> SUFFICES ASSUME Init  PROVE CacheInv
  OBVIOUS
<1>1. StateOK
  BY NullApart, PageCacheAssumption DEF Init, CacheInit, StateOK, Pages
<1>2. LogOK
  <2>1. DOMAIN log = Kinds /\ \A kind \in Kinds : log[kind] = << >>
    BY DEF Init, CacheInit
  <2>2. ASSUME NEW kind \in Kinds
        PROVE  log[kind] \in Seq(Rows(kind)) /\ Len(log[kind]) = 0
    <3>1. << >> \in Seq(Rows(kind)) /\ Len(<< >>) = 0
      OBVIOUS
    <3> QED BY <2>1, <3>1
  <2> QED BY <2>1, <2>2 DEF LogOK
<1>3. CallsOK
  BY DEF Init, CacheInit, CallsOK, CallOK, Idle
<1> QED BY <1>1, <1>2, <1>3 DEF CacheInv

LEMMA CacheNext == CacheInv /\ [Next]_vars => CacheInv'
<1> SUFFICES ASSUME CacheInv, [Next]_vars  PROVE CacheInv'
  OBVIOUS
<1>1. ASSUME NEW c \in Callers, ObjectSteps(c)  PROVE CacheInv'
  BY <1>1, InitUrlKeeps, AnswerCachedKeeps, StartFetchKeeps, RespondKeeps, EndFetchKeeps
     DEF ObjectSteps
<1>2. ASSUME NEW c \in Callers, Return(c)  PROVE CacheInv'
  BY <1>2, ReturnKeeps
<1>3. ASSUME NEW w \in Windows, NEW u \in Urls, Visit(w, u)  PROVE CacheInv'
  BY <1>3, AskKeeps, ReaderPageAssumption DEF Visit, Kinds
<1>4. ASSUME NEW c \in Others, NEW kind \in Kinds, NEW u \in Urls, NEW force \in BOOLEAN,
             Ask(c, kind, u, force)
      PROVE  CacheInv'
  BY <1>4, AskKeeps DEF Others
<1>5. ASSUME UNCHANGED cacheVars  PROVE CacheInv'
  <2>1. /\ url' = url /\ log' = log /\ calls' = calls /\ page' = page /\ now' = now /\ made' = made
    BY <1>5 DEF cacheVars
  <2>2. StateOK'
    BY <2>1 DEF CacheInv, StateOK
  <2>3. LogOK'
    BY <2>1, LogKept, VersionsCount DEF CacheInv, StateOK
  <2>4. CallsOK'
    BY <2>1, QuietGrows, CallKept DEF CacheInv, CallsOK
  <2> QED BY <2>2, <2>3, <2>4 DEF CacheInv
<1>6. CASE UNCHANGED vars
  BY <1>5, <1>6 DEF vars, cacheVars
<1>7. ASSUME NEW w \in Windows,
             \/ (\E u \in Urls : Visit(w, u)) \/ AnswerVisit(w)
             \/ RunEffect(w) \/ Highlight(w) \/ Leave(w)
      PROVE  CacheInv'
  <2>1. CASE AnswerVisit(w)
    BY <1>2, <2>1, ReaderPageAssumption DEF AnswerVisit
  <2>2. CASE RunEffect(w) \/ Highlight(w) \/ Leave(w)
    BY <1>5, <2>2 DEF RunEffect, Highlight, Leave
  <2>3. ASSUME NEW u \in Urls, Visit(w, u)  PROVE CacheInv'
    BY <1>3, <2>3 DEF Visit
  <2> QED BY <1>7, <2>1, <2>2, <2>3
<1>8. CASE Restart \/ Publish \/ Tick
  BY <1>8, RestartKeeps, WorldKeeps
<1>9. ASSUME NEW c \in Others,
             Return(c) \/ \E kind \in Kinds, u \in Urls, force \in BOOLEAN : Ask(c, kind, u, force)
      PROVE  CacheInv'
  BY <1>2, <1>4, <1>9 DEF Others
<1> QED BY <1>1, <1>6, <1>7, <1>8, <1>9 DEF Next

\* The stories that windows show are results of the reader.
LEMMA StoriesNext == ReaderInv /\ CacheInv /\ StoriesOK /\ [Next]_vars => StoriesOK'
<1> SUFFICES ASSUME ReaderInv, CacheInv, StoriesOK, [Next]_vars  PROVE StoriesOK'
  OBVIOUS
<1>1. CASE UNCHANGED reader
  BY <1>1 DEF StoriesOK
<1>2. ASSUME NEW w \in Windows, NEW u, Visit(w, u)  PROVE StoriesOK'
  <2>1. \A v \in Windows : reader'[v].story = reader[v].story
    BY <1>2 DEF Visit, ReaderInv, ReaderFields
  <2> QED BY <2>1 DEF StoriesOK
<1>3. ASSUME NEW w \in Windows, AnswerVisit(w)  PROVE StoriesOK'
  <2> DEFINE story == IF Served(w) THEN calls[w].answer ELSE Null
  <2>1. /\ \A v \in Windows \ {w} : reader'[v].story = reader[v].story
        /\ reader'[w].story \in {reader[w].story, story}
    BY <1>3 DEF AnswerVisit, ReaderInv, ReaderFields
  <2>2. story \in ReaderAnswers \cup {Null}
    <3>1. ASSUME Served(w)  PROVE calls[w].answer \in ReaderAnswers
      BY <3>1, ReaderPageAssumption DEF Served, CacheInv, CallsOK, CallOK, AnswerOK, Idle
    <3> QED BY <3>1
  <2> HIDE DEF story
  <2> QED BY <2>1, <2>2 DEF StoriesOK
<1>4. ASSUME NEW w \in Windows, RunEffect(w)  PROVE StoriesOK'
  <2>1. Restarted(reader[w]).story = reader[w].story
    BY EffectKeeps DEF ReaderInv
  <2>2. \A v \in Windows : reader'[v].story = reader[v].story
    BY <1>4, <2>1 DEF RunEffect, ReaderInv
  <2> QED BY <2>2 DEF StoriesOK
<1>5. ASSUME NEW w \in Windows, Highlight(w)  PROVE StoriesOK'
  <2>1. \A v \in Windows : reader'[v].story = reader[v].story
    BY <1>5 DEF Highlight, ReaderInv, ReaderFields
  <2> QED BY <2>1 DEF StoriesOK
<1>6. ASSUME NEW w \in Windows, Leave(w)  PROVE StoriesOK'
  <2>1. \A v \in Windows : reader'[v].story \in {reader[v].story, Null}
    BY <1>6 DEF Leave, ReaderInv, Unmounted
  <2> QED BY <2>1 DEF StoriesOK
<1> QED BY <1>1, <1>2, <1>3, <1>4, <1>5, <1>6 DEF Next, vars

LEMMA Invariant == Spec => []IInv
<1>1. Init => IInv
  <2>1. Init => StoriesOK
    BY DEF Init, StoriesOK, Unmounted
  <2> QED BY <2>1, ReaderInit, CacheInitOK DEF IInv
<1>2. IInv /\ [Next]_vars => IInv'
  BY ReaderNext, CacheNext, StoriesNext DEF IInv
<1> QED BY <1>1, <1>2, PTL DEF Spec

\* Everything is well formed, and a client that is answered from a table is told
\* what the client was told whose call fetched the row (handlers.ts).
THEOREM SpecCacheSound == Spec => []CacheSound
<1>1. IInv => CacheSound
  BY InvariantImplies DEF CacheSound
<1> QED BY <1>1, Invariant, PTL

\* A result of the reader has contents or tells why it has none, from the fetch
\* as from the table.
THEOREM SpecAnswersExplain == Spec => []AnswersExplain
BY InvariantImplies, Invariant, PTL

\* A row that answers is recent, and no other row that was there has a newer
\* page but for one of the same second, or of a fetch that overlapped its own.
THEOREM SpecCacheMovesForward == Spec => []CacheMovesForward
BY InvariantImplies, Invariant, PTL

\* A caller that forces a fetch gets the page as it was since it called.
THEOREM SpecForcedIsFresh == Spec => []ForcedIsFresh
BY InvariantImplies, Invariant, PTL
=============================================================================
