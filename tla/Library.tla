------------------------------ MODULE Library ------------------------------
(***************************************************************************)
(* The Library durable object of a user: stories, tags and which story has *)
(* which tag, in SQLite (apps/worker/src/features/library/handlers.ts).    *)
(*                                                                         *)
(* A handler is an operator on the database: a change of the database      *)
(* gives a record [db, res] with the database after it and its result.  A  *)
(* handler runs to its end before another starts, since its statements are *)
(* synchronous and it awaits nothing else; fetchUrlMetadata, which does,   *)
(* touches no table.                                                       *)
(*                                                                         *)
(* Ids are numbers in order of creation, as the code's are sortable by     *)
(* time; urls, descriptions and dates are left out, and colours are taken  *)
(* up to case.  Null is a field that is not given, or a null result.       *)
(***************************************************************************)
EXTENDS Naturals, FiniteSets, FiniteSetsExt, Maps

CONSTANTS
  Titles,
  Names,        \* tag names as spelled
  Lower,        \* a name -> what SQLite's lower() makes of it
  ValidNames,   \* the names that validateTagName accepts
  Colors,
  ValidColors,  \* the colours that isValidHexColor accepts
  Null

ASSUME LibraryAssumption ==
  /\ ValidNames \subseteq Names /\ ValidColors \subseteq Colors
  /\ Null \notin Names \cup Colors \cup Titles \cup Nat

EmptyLibrary == [story |-> EmptyMap, tag |-> EmptyMap, links |-> {}, next |-> 1]

Result(db, res) == [db |-> db, res |-> res]

\* The failures of a handler, told from any other result by their field.
Failure(error) == [failed |-> error]

TagsOf(db, s) == {t \in DOMAIN db.tag : <<s, t>> \in db.links}

TaggedWith(db, t) == {l[1] : l \in {k \in db.links : k[2] = t}}

FormatStory(db, s) == [title |-> db.story[s], tags |-> TagsOf(db, s)]
-----------------------------------------------------------------------------
(* Reading stories *)

GetStory(db, s) == IF s \in DOMAIN db.story THEN FormatStory(db, s) ELSE Null

\* The n newest of ids: ORDER BY id DESC LIMIT n.
Newest(ids, n) == {i \in ids : Cardinality({j \in ids : j > i}) < n}

\* WHERE id < after
Before(ids, after) == IF after = Null THEN ids ELSE {i \in ids : i < after}

\* Variant: the cursor is the row beyond the page.
PageOfPeek(db, ids, first, total) ==
  LET rows == Newest(ids, first + 1)
      shown == Newest(rows, first)
  IN [stories |-> [s \in shown |-> FormatStory(db, s)],
      hasNextPage |-> Cardinality(rows) > first,
      endCursor |-> IF shown = {} THEN Null ELSE Min(rows),
      totalCount |-> total]

\* A page asks for one row more than it shows, to know whether there is
\* another page.
PageOf(db, ids, first, total) ==
  LET rows == Newest(ids, first + 1)
      shown == Newest(rows, first)
  IN [stories |-> [s \in shown |-> FormatStory(db, s)],
      hasNextPage |-> Cardinality(rows) > first,
      endCursor |-> IF shown = {} THEN Null ELSE Min(shown),
      totalCount |-> total]

ListStories(db, first, after) ==
  PageOf(db, Before(DOMAIN db.story, after), first, Cardinality(DOMAIN db.story))

ListStoriesByTag(db, t, first, after) ==
  PageOf(db, Before(TaggedWith(db, t), after), first, Cardinality(TaggedWith(db, t)))
-----------------------------------------------------------------------------
(* Changing stories *)

\* The tags of the new story are those of tagIds that exist.
CreateStory(db, urlOk, title, tagIds) ==
  IF ~ urlOk
    THEN Result(db, Failure("InvalidUrlError"))
    ELSE LET s == db.next
             d == [db EXCEPT !.story = Put(@, s, title),
                             !.links = @ \cup {s} \X (tagIds \cap DOMAIN db.tag),
                             !.next = s + 1]
         IN Result(d, [id |-> s, story |-> FormatStory(d, s)])

\* Tags that are not in tagIds go, tags that are new and exist come.
ReplaceTags(db, s, tagIds) ==
  LET current == {t \in DOMAIN db.tag : <<s, t>> \in db.links}
      added   == (tagIds \ current) \cap DOMAIN db.tag
  IN [db EXCEPT !.links = (@ \ ({s} \X (current \ tagIds))) \cup {s} \X added]

\* Variant: the story is read back before its tags are replaced.
UpdateStoryStale(db, s, title, tagIds) ==
  IF s \notin DOMAIN db.story
    THEN Result(db, Null)
    ELSE LET retitled == [db EXCEPT !.story = Put(@, s, IF title = Null THEN @[s] ELSE title)]
             d == IF tagIds = Null THEN retitled ELSE ReplaceTags(retitled, s, tagIds)
         IN Result(d, FormatStory(retitled, s))

UpdateStory(db, s, title, tagIds) ==
  IF s \notin DOMAIN db.story
    THEN Result(db, Null)
    ELSE LET retitled == [db EXCEPT !.story = Put(@, s, IF title = Null THEN @[s] ELSE title)]
             d == IF tagIds = Null THEN retitled ELSE ReplaceTags(retitled, s, tagIds)
         IN Result(d, FormatStory(d, s))

\* The links of the story go by the cascade of the foreign key.
DeleteStory(db, s) ==
  IF s \notin DOMAIN db.story
    THEN Result(db, FALSE)
    ELSE Result([db EXCEPT !.story = Drop(@, {s}), !.links = {l \in @ : l[1] # s}], TRUE)

\* No check that the story exists: adding a tag to one that does not breaks
\* the foreign key.
SetStoryTags(db, s, tagIds) ==
  IF s \notin DOMAIN db.story /\ tagIds \cap DOMAIN db.tag # {}
    THEN Result(db, Failure("SqlError"))
    ELSE Result(ReplaceTags(db, s, tagIds), TRUE)
-----------------------------------------------------------------------------
(* Tags *)

TagView(db, t) ==
  [name |-> db.tag[t].name, color |-> db.tag[t].color,
   storyCount |-> Cardinality(TaggedWith(db, t))]

\* listTags, by name in the code; getBatchTag reads one of them by its id.
ListTags(db) == [t \in DOMAIN db.tag |-> TagView(db, t)]

GetTag(db, t) == IF t \in DOMAIN db.tag THEN TagView(db, t) ELSE Null

GetTagsForStory(db, s) == [t \in TagsOf(db, s) |-> TagView(db, t)]

\* Variant: names are compared as they are spelled.
NameTakenAsSpelled(db, name, self) ==
  \E t \in DOMAIN db.tag \ {self} : db.tag[t].name = name

\* Some tag other than self has the name, whatever its case.
NameTaken(db, name, self) ==
  \E t \in DOMAIN db.tag \ {self} : Lower[db.tag[t].name] = Lower[name]

CreateTag(db, name, color) ==
  CASE name \notin ValidNames -> Result(db, Failure("InvalidTagNameError"))
    [] name \in ValidNames /\ color \notin ValidColors ->
         Result(db, Failure("InvalidTagColorError"))
    [] name \in ValidNames /\ color \in ValidColors /\ NameTaken(db, name, Null) ->
         Result(db, Failure("TagNameExistsError"))
    [] OTHER ->
         LET t == db.next
             d == [db EXCEPT !.tag = Put(@, t, [name |-> name, color |-> color]),
                             !.next = t + 1]
         IN Result(d, [id |-> t, tag |-> TagView(d, t)])

\* The name and the colour are checked before the tag is looked up.
UpdateTag(db, t, name, color) ==
  CASE name # Null /\ name \notin ValidNames -> Result(db, Failure("InvalidTagNameError"))
    [] name \in ValidNames \cup {Null} /\ color # Null /\ color \notin ValidColors ->
         Result(db, Failure("InvalidTagColorError"))
    [] name \in ValidNames \cup {Null} /\ color \in ValidColors \cup {Null}
         /\ t \notin DOMAIN db.tag -> Result(db, Null)
    [] name \in ValidNames /\ color \in ValidColors \cup {Null}
         /\ t \in DOMAIN db.tag /\ NameTaken(db, name, t) ->
         Result(db, Failure("TagNameExistsError"))
    [] OTHER ->
         LET old == db.tag[t]
             d == [db EXCEPT !.tag = Put(@, t,
                     [name  |-> IF name = Null THEN old.name ELSE name,
                      color |-> IF color = Null THEN old.color ELSE color])]
         IN Result(d, TagView(d, t))

\* The links of the tag go by the cascade of the foreign key.
DeleteTag(db, t) ==
  IF t \notin DOMAIN db.tag
    THEN Result(db, FALSE)
    ELSE Result([db EXCEPT !.tag = Drop(@, {t}), !.links = {l \in @ : l[2] # t}], TRUE)
-----------------------------------------------------------------------------
(* What a library never loses, as predicates on the database *)

\* A link joins a story and a tag that exist.
Linked(db) == db.links \subseteq (DOMAIN db.story) \X (DOMAIN db.tag)

\* No two tags have the same name but for the case of ASCII letters.
NamesDiffer(db) ==
  \A t, u \in DOMAIN db.tag :
    Lower[db.tag[t].name] = Lower[db.tag[u].name] => t = u

\* Ids are never used again.
IdsUsed(db) ==
  /\ db.next \in Nat \ {0}
  /\ DOMAIN db.story \cup DOMAIN db.tag \subseteq 1 .. (db.next - 1)
  /\ DOMAIN db.story \cap DOMAIN db.tag = {}

WellFormed(db) ==
  /\ DOMAIN db = {"story", "tag", "links", "next"}
  /\ db.story \in [DOMAIN db.story -> Titles]
  /\ db.tag \in [DOMAIN db.tag -> [name : ValidNames, color : ValidColors]]

LibraryOK(db) == WellFormed(db) /\ IdsUsed(db) /\ Linked(db) /\ NamesDiffer(db)
=============================================================================
