--------------------------- MODULE LibraryWindow ---------------------------
(***************************************************************************)
(* A browser window with the library page (apps/kamp-us/src/pages/         *)
(* Library.tsx), the GraphQL API it calls (apps/worker/src/graphql), the   *)
(* user's Library object behind it, and the user's other windows.          *)
(*                                                                         *)
(* A request is served by the API at one time (a list by tag at two) and   *)
(* answered at a later one; answers may overtake each other or be lost.    *)
(*                                                                         *)
(* A list is all stories, or those with the tag of a name.  Which tags the *)
(* page offers is not modelled: it may offer any that exist or existed.    *)
(***************************************************************************)
EXTENDS Window

CONSTANTS
  All,      \* the list of all stories; the others are Names
  Temp,     \* the id of a story that the server has not named yet
  First     \* stories per page

Keys == {All} \cup Names

Story == [title : Titles, tags : SUBSET (1 .. MaxIds)]

ASSUME WindowAssumption ==
  /\ First \in Nat \ {0}
  /\ All \notin Names /\ Temp \notin Nat /\ Null \notin Story \cup {Temp}

VARIABLES
  lists,      \* the store's connections: key -> connection
  view        \* the list the page shows

vars == <<db, lists, rec, view, reqs, changes, disturbed>>

\* steady is a history variable: the stories that belonged to the list when
\* its first page was read, and ever since.
Connection(page, tag, steady) ==
  [edges |-> Descending(DOMAIN page.stories), hasNextPage |-> page.hasNextPage,
   endCursor |-> page.endCursor, totalCount |-> page.totalCount,
   tag |-> tag, steady |-> steady]

(* Requests *)

ListRequest(k, after) ==
  [op |-> "list", key |-> k, after |-> after, found |-> Null, steady |-> {},
   res |-> Null, rank |-> 0]

CreateRequest(title, tags) ==
  [op |-> "create", id |-> Temp, title |-> title, tags |-> tags, res |-> Null, rank |-> 0]

UpdateRequest(s, title, tags, opt) ==
  [op |-> "update", id |-> s, title |-> title, tags |-> tags, opt |-> opt,
   res |-> Null, rank |-> 0]

DeleteRequest(s) == [op |-> "delete", id |-> s, res |-> Null, rank |-> 0]

Loading(k) == \E i \in InFlight("list") : reqs[i].key = k

\* When a creation ends, what the user did to its row concerns no story.
Without(i) ==
  LET left(r) == IF reqs[i].op = "create" /\ r.op \in {"update", "delete"} /\ r.id = Temp
                   THEN [r EXCEPT !.id = Null] ELSE r
  IN [j \in DOMAIN Rest(i) |-> left(Rest(i)[j])]

Init ==
  /\ db \in Libraries
  /\ lists = EmptyMap /\ rec = EmptyMap
  /\ view = All
  /\ reqs = <<ListRequest(All, Null)>>
  /\ changes = 0 /\ disturbed = FALSE
-----------------------------------------------------------------------------
(* What the page shows: the store with the optimistic answers *)

Creation == reqs[CHOOSE i \in InFlight("create") : TRUE]

ShownStory(s) ==
  IF Overlays(s) # {}
    THEN LET r == reqs[Max(Overlays(s))] IN IF r.op = "delete" THEN Gone ELSE r.opt
    ELSE IF s = Temp THEN [title |-> Creation.title, tags |-> Creation.tags] ELSE rec[s]

\* The updater of CreateStoryForm runs on the optimistic answer too.
ShownEdges(k) ==
  (IF k = All /\ InFlight("create") # {} THEN <<Temp>> ELSE <<>>) \o lists[k].edges

\* The rows of the list: edges whose story was deleted are left out.
Rows(k) == {s \in ToSet(ShownEdges(k)) : ShownStory(s) # Gone}

Rendered == All \in DOMAIN lists /\ view \in DOMAIN lists
-----------------------------------------------------------------------------
(* What the user does *)

\* handleSubmit.  The form's button is disabled while a story is created.
SubmitStory(title, tags) ==
  /\ All \in DOMAIN lists /\ CanChange
  /\ InFlight("create") = {}
  /\ reqs' = Append(reqs, CreateRequest(title, tags))
  /\ changes' = changes + 1
  /\ UNCHANGED <<db, lists, rec, view, disturbed>>

\* handleSaveEdit: only what the user changed is sent, and nothing if nothing
\* changed.  The Enter key saves even while an earlier save is in flight.
SaveEdit(s, title, tags) ==
  LET story == ShownStory(s)
      sent(new, old) == IF new = old THEN Null ELSE new
  IN /\ CanChange
     /\ title # story.title \/ tags # story.tags
     /\ reqs' = Append(reqs, UpdateRequest(s, sent(title, story.title), sent(tags, story.tags),
                                           [title |-> title, tags |-> tags]))
     /\ changes' = changes + 1
     /\ UNCHANGED <<db, lists, rec, view, disturbed>>

\* handleDelete
ConfirmDelete(s) ==
  /\ CanChange
  /\ reqs' = Append(reqs, DeleteRequest(s))
  /\ changes' = changes + 1
  /\ UNCHANGED <<db, lists, rec, view, disturbed>>

\* handleLoadMore
LoadMore ==
  /\ Rendered /\ CanRequest
  /\ lists[view].hasNextPage /\ ~ Loading(view)
  /\ reqs' = Append(reqs, ListRequest(view, lists[view].endCursor))
  /\ UNCHANGED <<db, lists, rec, view, changes, disturbed>>

\* setTagFilter and clearFilter.  The list that is left drops its request for
\* more; a list that the store has is shown as it is, another is fetched.
ShowList(k) ==
  LET more == {i \in InFlight("list") : reqs[i].after # Null}
      kept == IF more = {} THEN reqs ELSE Without(CHOOSE i \in more : TRUE)
  IN /\ Rendered /\ k # view
     /\ view' = k
     /\ reqs' = IF k \in DOMAIN lists \/ Loading(k)
                  THEN kept
                  ELSE Append(kept, ListRequest(k, Null))
     /\ Len(reqs') <= MaxRequests
     /\ UNCHANGED <<db, lists, rec, changes, disturbed>>

\* The window is loaded again: nothing is left of its store and its requests.
\* The list to show is kept in the URL, and asked for after the first answer.
Reload ==
  /\ lists' = EmptyMap /\ rec' = EmptyMap
  /\ reqs' = <<ListRequest(All, Null)>>
  /\ disturbed' = FALSE
  /\ UNCHANGED <<db, view, changes>>
-----------------------------------------------------------------------------
(* The API *)

\* The tag that listTags finds for a name, Null if there is none.
TagNamed(d, name) ==
  LET ts == {t \in DOMAIN ListTags(d) : ListTags(d)[t].name = name}
  IN IF ts = {} THEN Null ELSE CHOOSE t \in ts : TRUE

\* The stories of d that belong to the list of k.
Members(d, k) ==
  IF k = All
    THEN DOMAIN d.story
    ELSE IF TagNamed(d, k) = Null THEN {} ELSE TaggedWith(d, TagNamed(d, k))

\* The members of list k in d that were steady before, if the name has still
\* the same tag.
StillSteady(d, k, tag, steady) ==
  IF k = All \/ TagNamed(d, k) = tag THEN steady \cap Members(d, k) ELSE {}

\* The database becomes d; the history variables follow.
Commit(d, requests) ==
  /\ db' = d
  /\ reqs' = [i \in DOMAIN requests |->
                IF requests[i].op = "list"
                  THEN [requests[i] EXCEPT !.steady =
                          StillSteady(d, requests[i].key, requests[i].found, @)]
                  ELSE requests[i]]
  /\ lists' = [k \in DOMAIN lists |->
                 [lists[k] EXCEPT !.steady = StillSteady(d, k, lists[k].tag, @)]]

\* storiesByTag asks for the tags first, and for the stories of the one it
\* found afterwards.
FindTag(i) ==
  /\ reqs[i].op = "list" /\ reqs[i].key # All
  /\ Unserved(i) /\ reqs[i].found = Null
  /\ TagNamed(db, reqs[i].key) # Null
  /\ reqs' = [reqs EXCEPT ![i].found = TagNamed(db, reqs[i].key)]
  /\ UNCHANGED <<db, lists, rec, view, changes, disturbed>>

EmptyPage == [stories |-> EmptyMap, hasNextPage |-> FALSE, endCursor |-> Null, totalCount |-> 0]

ServeList(i) ==
  LET r == reqs[i]
      page ==
        CASE r.key = All -> ListStories(db, First, r.after)
          [] r.key # All /\ r.found # Null -> ListStoriesByTag(db, r.found, First, r.after)
          [] OTHER -> EmptyPage
      begun == IF r.found = TagNamed(db, r.key) \/ r.key = All THEN Members(db, r.key) ELSE {}
  IN /\ r.op = "list" /\ Unserved(i)
     /\ r.key # All /\ r.found = Null => TagNamed(db, r.key) = Null
     /\ reqs' = [Served(i, page) EXCEPT ![i].steady = begun]
     /\ UNCHANGED <<db, lists, rec, view, changes, disturbed>>

ServeCreate(i) ==
  LET r == reqs[i]
      out == CreateStory(db, TRUE, r.title, r.tags)
  IN /\ r.op = "create" /\ Unserved(i) /\ db.next <= MaxIds
     /\ Commit(out.db, Served(i, out.res))
     /\ UNCHANGED <<rec, view, changes, disturbed>>

\* The API has an answer for a story that is not there: no story, an error.
ServeUpdate(i) ==
  LET r == reqs[i]
      out == UpdateStory(db, r.id, r.title, r.tags)
  IN /\ r.op = "update" /\ Unserved(i)
     /\ Commit(out.db, Served(i, out.res))
     /\ UNCHANGED <<rec, view, changes, disturbed>>

ServeDelete(i) ==
  LET r == reqs[i]
      out == DeleteStory(db, r.id)
  IN /\ r.op = "delete" /\ Unserved(i)
     /\ Commit(out.db, Served(i, out.res))
     /\ UNCHANGED <<rec, view, changes, disturbed>>
-----------------------------------------------------------------------------
(* The answers *)

\* An answer overtakes those that were served before it.
Answered(i) ==
  /\ reqs[i].rank > 0
  /\ disturbed' = (disturbed \/ Overtakes(i))
  /\ UNCHANGED <<db, view, changes>>

Known(stories) == [s \in DOMAIN rec \cup DOMAIN stories |->
                     IF s \in DOMAIN stories THEN stories[s] ELSE rec[s]]

\* Relay puts the first page in the place of a list, and appends a page whose
\* cursor is the list's, leaving out the stories the list has.
AnswerList(i) ==
  LET r == reqs[i]
      page == Connection(r.res, r.found, r.steady)
      old == lists[r.key]
      new == Descending(DOMAIN r.res.stories \ ToSet(old.edges))
  IN /\ r.op = "list"
     /\ Answered(i)
     /\ reqs' = IF r.key = All /\ view # All /\ view \notin DOMAIN lists /\ ~ Loading(view)
                  THEN Append(Without(i), ListRequest(view, Null))
                  ELSE Without(i)
     /\ rec' = Known(r.res.stories)
     /\ lists' = Put(lists, r.key,
          IF r.after = Null
            THEN page
            ELSE [old EXCEPT !.edges = @ \o new,
                             !.hasNextPage = page.hasNextPage,
                             !.endCursor = IF page.endCursor = Null THEN @ ELSE page.endCursor,
                             !.totalCount = page.totalCount])

\* Variant: the updater puts the new story after the others.
AnswerCreateLast(i) ==
  LET new == reqs[i].res.id
  IN /\ reqs[i].op = "create"
     /\ Answered(i)
     /\ reqs' = Without(i)
     /\ rec' = Put(rec, new, reqs[i].res.story)
     /\ lists' = [lists EXCEPT ![All].edges = @ \o <<new>>]

\* The updater puts the new story before the list of all stories; it does not
\* touch the list's count, nor the lists by tag.
AnswerCreate(i) ==
  LET new == reqs[i].res.id
  IN /\ reqs[i].op = "create"
     /\ Answered(i)
     /\ reqs' = Without(i)
     /\ rec' = Put(rec, new, reqs[i].res.story)
     /\ lists' = [lists EXCEPT ![All].edges = <<new>> \o @]

AnswerUpdate(i) ==
  /\ reqs[i].op = "update"
  /\ Answered(i)
  /\ reqs' = Without(i)
  /\ rec' = IF reqs[i].res = Null THEN rec ELSE Put(rec, reqs[i].id, reqs[i].res)
  /\ UNCHANGED lists

\* @deleteRecord, for a story that the server did delete.
AnswerDelete(i) ==
  /\ reqs[i].op = "delete"
  /\ Answered(i)
  /\ reqs' = Without(i)
  /\ rec' = IF reqs[i].res THEN Put(rec, reqs[i].id, Gone) ELSE rec
  /\ UNCHANGED lists

\* A mutation or a request for more fails on the way, before or after it was
\* served: its optimistic answer is taken back.
Lose(i) ==
  /\ reqs[i].op = "list" => reqs[i].after # Null
  /\ reqs' = Without(i)
  /\ disturbed' = (disturbed \/ (reqs[i].op # "list" /\ reqs[i].rank > 0))
  /\ UNCHANGED <<db, lists, rec, view, changes>>
-----------------------------------------------------------------------------
(* The other windows *)

\* The tags that exist or existed.
TagIds == SUBSET {t \in 1 .. MaxIds : t < db.next /\ t \notin DOMAIN db.story}

\* What the library may be after one change.
ChangedLibraries ==
  LET stories == DOMAIN db.story
      tags == DOMAIN db.tag
  IN {CreateStory(db, ok, title, ts).db : ok \in BOOLEAN, title \in Titles, ts \in TagIds}
       \cup {UpdateStory(db, s, title, Null).db : s \in stories, title \in Titles}
       \cup {SetStoryTags(db, s, ts).db : s \in stories, ts \in TagIds}
       \cup {DeleteStory(db, s).db : s \in stories}
       \cup {CreateTag(db, name, color).db : name \in Names, color \in Colors}
       \cup {UpdateTag(db, t, name, Null).db : t \in tags, name \in Names}
       \cup {DeleteTag(db, t).db : t \in tags}

Elsewhere ==
  \E d \in ChangedLibraries :
    /\ changes < MaxChanges
    /\ d # db /\ d.next <= MaxIds + 1
    /\ Commit(d, reqs)
    /\ changes' = changes + 1
    /\ disturbed' = TRUE
    /\ UNCHANGED <<rec, view>>

UserActs ==
  \/ \E title \in Titles, tags \in TagIds : SubmitStory(title, tags)
  \/ /\ Rendered
     /\ \E s \in Rows(view) :
          \/ \E title \in Titles, tags \in TagIds : SaveEdit(s, title, tags)
          \/ ConfirmDelete(s)
  \/ LoadMore
  \/ \E k \in Keys : ShowList(k)
  \/ Reload

ApiActs(i) ==
  FindTag(i) \/ ServeList(i) \/ ServeCreate(i) \/ ServeUpdate(i) \/ ServeDelete(i)

NetworkActs(i) ==
  AnswerList(i) \/ AnswerCreate(i) \/ AnswerUpdate(i) \/ AnswerDelete(i) \/ Lose(i)

Next ==
  \/ UserActs
  \/ \E i \in DOMAIN reqs : ApiActs(i) \/ NetworkActs(i)
  \/ Elsewhere

Spec == Init /\ [][Next]_vars
-----------------------------------------------------------------------------
(* Properties *)

\* Type invariant: the store's connections refer to stories that it has, and
\* at most one list request per list is in flight.
TypeOK ==
  /\ WellFormed(db)
  /\ DOMAIN lists \subseteq Keys /\ view \in Keys
  /\ \A s \in DOMAIN rec : s \in 1 .. MaxIds /\ rec[s] \in Story \cup {Gone}
  /\ \A k \in DOMAIN lists : ToSet(lists[k].edges) \subseteq DOMAIN rec
  /\ Len(reqs) <= MaxRequests /\ changes \in 0 .. MaxChanges /\ disturbed \in BOOLEAN
  /\ \A i, j \in InFlight("list") : reqs[i].key = reqs[j].key => i = j

\* The Library object keeps no link to a story or a tag that is not there,
\* no two tags of one name, and never gives an id out again, whatever the
\* windows ask of it (handlers.ts).
LibrarySound == LibraryOK(db)

\* Rows are in order and none is shown twice, though pages are appended at one
\* end and new stories put before the other (handleLoadMore and the updater of
\* handleSubmit, Library.tsx; the cursors of listStories and listStoriesByTag).
RowsDescend ==
  \A k \in DOMAIN lists : \A i, j \in DOMAIN lists[k].edges :
    i < j => lists[k].edges[i] > lists[k].edges[j]

\* The page has only rows that its store has, in order and each once, after
\* every answer, whatever the order in which the answers arrive.
PageSound == TypeOK /\ RowsDescend

\* No page skips a story: what belonged to a list when it was loaded, and
\* has since, is shown once the pages reach it, whatever stories other windows
\* add, delete or tag between the pages (listStories, listStoriesByTag).
PagesSkipNothing ==
  \A k \in DOMAIN lists : \A s \in lists[k].steady :
    ~ lists[k].hasNextPage \/ s >= lists[k].endCursor => s \in ToSet(lists[k].edges)

\* When nothing is in flight, a page whose window alone has changed the library,
\* and whose answers came in turn and none was lost, shows every story as the
\* server has it, and all stories from its cursor on: no optimistic answer is
\* left, none was rolled back that should stay (the mutations of Library.tsx).
QuietPageAgrees ==
  reqs = <<>> /\ ~ disturbed =>
    /\ \A k \in DOMAIN lists : \A s \in ToSet(lists[k].edges) :
         rec[s] = IF s \in DOMAIN db.story THEN FormatStory(db, s) ELSE Gone
    /\ All \in DOMAIN lists => \A s \in DOMAIN db.story :
         ~ lists[All].hasNextPage \/ s >= lists[All].endCursor => s \in ToSet(lists[All].edges)

\* What the plan for pagination expects of the count over the list after a
\* story was created or deleted (specs/relay-pagination/requirements.md:111).
CountShown ==
  reqs = <<>> /\ ~ disturbed /\ All \in DOMAIN lists =>
    lists[All].totalCount = Cardinality(DOMAIN db.story)
=============================================================================
