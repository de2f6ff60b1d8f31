----------------------------- MODULE ReaderPage -----------------------------
(***************************************************************************)
(* Browser windows that show articles (apps/kamp-us/src/pages/library/     *)
(* ReaderPage.tsx) and other clients of the API that ask for a page's      *)
(* title, over the page cache.                                             *)
(*                                                                         *)
(* A window that goes from one story to another keeps the component and    *)
(* its state while the query for the new story is under way.  The effect   *)
(* that starts the highlighting runs after the page has been shown with    *)
(* the new story, and before it is rendered again for an address or an     *)
(* answer.  A story is visited while the Relay store does not hold it: a   *)
(* later visit asks nothing.                                               *)
(***************************************************************************)
EXTENDS PageCache

CONSTANT Windows

ASSUME ReaderPageAssumption == Windows \subseteq Callers

VARIABLE reader   \* the component of each window

vars == <<url, log, calls, page, now, made, reader>>

\* No component, or one that has not shown a story yet; [effectOf] is the text
\* the effect ran for last.
Unmounted == [mounted |-> FALSE, story |-> Null, effectOf |-> Null,
              highlighted |-> Null, jobs |-> {}]

Content(story) == IF story = Null THEN Null ELSE story.content

EffectDue(r) == Content(r.story) # r.effectOf

RestartedUncancelled(r) ==
  LET content == Content(r.story)
  IN IF content = Null THEN [r EXCEPT !.effectOf = Null, !.jobs = {}]
     ELSE [r EXCEPT !.effectOf = content, !.highlighted = Null, !.jobs = @ \cup {content}]

\* The effect on [content]: it is cleaned up, and run again for another content.
Restarted(r) ==
  LET content == Content(r.story)
  IN IF content = Null THEN [r EXCEPT !.effectOf = Null, !.jobs = {}]
     ELSE [r EXCEPT !.effectOf = content, !.highlighted = Null, !.jobs = {content}]

Visit(w, u) ==
  /\ ~EffectDue(reader[w])
  /\ Ask(w, "reader", u, FALSE)
  /\ reader' = [reader EXCEPT ![w].mounted = TRUE]

\* The query's answer, with which the page is rendered; a call that died leaves
\* the story null.
AnswerVisit(w) ==
  /\ ~EffectDue(reader[w])
  /\ Return(w)
  /\ reader' = [reader EXCEPT ![w] =
       IF ~@.mounted THEN @
       ELSE [@ EXCEPT !.story = IF Served(w) THEN calls[w].answer ELSE Null]]

RunEffect(w) ==
  /\ EffectDue(reader[w])
  /\ reader' = [reader EXCEPT ![w] = Restarted(@)]
  /\ UNCHANGED cacheVars

\* A highlighting that was not cancelled is done.
Highlight(w) ==
  /\ \E content \in reader[w].jobs :
       reader' = [reader EXCEPT ![w].highlighted = content, ![w].jobs = @ \ {content}]
  /\ UNCHANGED cacheVars

Leave(w) ==
  /\ reader[w].mounted
  /\ reader' = [reader EXCEPT ![w] = Unmounted]
  /\ UNCHANGED cacheVars

Others == Callers \ Windows

Init ==
  /\ CacheInit
  /\ reader = [w \in Windows |-> Unmounted]

Next ==
  \/ \E w \in Windows : \/ \E u \in Urls : Visit(w, u)
                        \/ AnswerVisit(w) \/ RunEffect(w)
                        \/ Highlight(w) \/ Leave(w)
  \/ \E c \in Others : /\ \/ Return(c)
                          \/ \E kind \in Kinds, u \in Urls, force \in BOOLEAN :
                               Ask(c, kind, u, force)
                       /\ UNCHANGED reader
  \/ \E c \in Callers : ObjectSteps(c) /\ UNCHANGED reader
  \/ (Restart \/ Publish \/ Tick) /\ UNCHANGED reader

Spec == Init /\ [][Next]_vars

\* What the window shows: the article, highlighted when that is done.
Article(w) ==
  LET r == reader[w]
  IN IF r.story = Null \/ r.story.content = Null THEN Null
     ELSE IF r.highlighted = Null THEN r.story.content ELSE r.highlighted
-----------------------------------------------------------------------------
Versions == 0 .. MaxVersions
Contents == Versions \X Nat
ReaderAnswers == [readable : BOOLEAN, content : Contents \cup {Null},
                  error : FetchErrors \cup {NoContent, Null}]
Answers == ReaderAnswers \cup [title : Versions \cup {Null}, error : {Null}]

\* The state is well formed: a call is handled only once the object has a url.
TypeOK ==
  /\ url \in Urls \cup {Null}
  /\ \A c \in Callers : calls[c].pc \in {"init", "get", "fetching", "reading",
                                         "answered", "died", "idle"}
  /\ \A c \in Callers : calls[c].pc \in {"get", "fetching", "reading", "answered"} => url # Null
  /\ \A c \in Callers : Served(c) => /\ calls[c].answer \in Answers
                                     /\ calls[c].row \in 0 .. Len(log[calls[c].kind])
  /\ \A k \in Kinds : \A j \in DOMAIN log[k] : log[k][j].at \in 0 .. now
  /\ \A w \in Windows : reader[w].story \in ReaderAnswers \cup {Null}
  /\ page.version \in Versions /\ made \in 0 .. MaxCalls

\* The object and the windows are well formed, and a call answered from a table
\* gets what the fetch behind its row answered (handlers.ts fromRow, toRow).
CacheSound == TypeOK /\ CachedAsFetched

\* Once the effect of a render has run, a window never shows the text of one
\* story under the title of another: a highlighting that was started for an
\* earlier story does not arrive, nor does one that is done stay.
ArticleIsTheStorys ==
  \A w \in Windows : ~EffectDue(reader[w]) => Article(w) = Content(reader[w].story)

\* "Sanitize raw content as fallback before highlighting completes"
\* (ReaderPage.tsx:81).  The page that is rendered before the effect has run
\* shows the former story's highlighted text instead: no run checks this.
FallbackBeforeHighlighting ==
  \A w \in Windows : Article(w) = Content(reader[w].story)
=============================================================================
