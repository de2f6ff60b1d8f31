------------------------------ MODULE TagPages ------------------------------
(***************************************************************************)
(* The tags of a browser window: the form that adds a story (CreateStory-  *)
(* Form in apps/kamp-us/src/pages/Library.tsx with its TagInput), the page *)
(* that renames, recolours and deletes tags (TagManagement.tsx), and the   *)
(* API and the Library object behind them.                                 *)
(*                                                                         *)
(* The store has the list library.tags and a record for each tag.  React   *)
(* renders after every step; what a render does of itself (an effect that  *)
(* changes the form, an error that unmounts the page) is part of the step. *)
(* An answer's changes of the store and its onCompleted are rendered       *)
(* together.                                                               *)
(*                                                                         *)
(* A page is the library with the list of all stories, or the tags.  Which *)
(* stories it lists, and the form's other fields, are left out.            *)
(***************************************************************************)
EXTENDS Window

CONSTANT JsLower   \* a name -> what toLowerCase makes of it

ASSUME TagPagesAssumption ==
  /\ \A n, m \in Names : Lower[n] = Lower[m] => JsLower[n] = JsLower[m]
  /\ Titles # {}
  /\ Null \notin Seq(Nat) \cup [name : Names, color : Colors, storyCount : Nat]
                   \cup [failed : {"InvalidTagNameError", "InvalidTagColorError", "TagNameExistsError"}]
  /\ Gone \notin [name : Names, color : Colors, counted : BOOLEAN]

VARIABLES
  tags,       \* library.tags in the store, Null before the first answer
  page,       \* the page of the URL: "library" or "manage"
  crashed,    \* an error has unmounted the page
  form,       \* the state of the story form and its TagInput
  rows,       \* the state of the rows of the tags page
  asked       \* history: the tags and new names the user wants on the form

tagsVars == <<db, reqs, tags, rec, page, crashed, form, rows, changes, asked, disturbed>>

\* counted tells whether the store knows the number of stories of the tag.
Record(tag, counted) == [name |-> tag.name, color |-> tag.color, counted |-> counted]

\* here tells whether the component that made the request is still mounted.
TagsRequest(counted) ==
  [op |-> "tags", counted |-> counted, here |-> TRUE, res |-> Null, rank |-> 0]

CreateTagRequest(name, color, chosen) ==
  [op |-> "create", name |-> name, color |-> color, chosen |-> chosen,
   here |-> TRUE, res |-> Null, rank |-> 0]

UpdateTagRequest(t, name, color, opt) ==
  [op |-> "update", id |-> t, name |-> name, color |-> color, opt |-> opt,
   here |-> TRUE, res |-> Null, rank |-> 0]

DeleteTagRequest(t) ==
  [op |-> "delete", id |-> t, here |-> TRUE, res |-> Null, rank |-> 0]

StoryRequest(chosen) ==
  [op |-> "story", chosen |-> chosen, here |-> TRUE, res |-> Null, rank |-> 0]

EmptyForm == [open |-> FALSE, selected |-> <<>>, pending |-> Null]

ViewRow == [mode |-> "view", error |-> FALSE]

NoWishes == [tags |-> {}, names |-> {}, touched |-> FALSE]

TagsInit ==
  /\ db \in Libraries
  /\ reqs = <<TagsRequest(FALSE)>>
  /\ tags = Null /\ rec = EmptyMap
  /\ page = "library" /\ crashed = FALSE
  /\ form = EmptyForm /\ rows = [t \in 1 .. MaxIds |-> ViewRow]
  /\ changes = 0 /\ asked = NoWishes /\ disturbed = FALSE
-----------------------------------------------------------------------------
(* What the pages show *)

ShownTag(t) ==
  IF Overlays(t) = {} THEN rec[t]
  ELSE LET r == reqs[Max(Overlays(t))] IN IF r.op = "delete" THEN Gone ELSE r.opt

\* The names of the tags that the library page offers.
Available ==
  [t \in {u \in IF tags = Null THEN {} ELSE ToSet(tags) : ShownTag(u) # Gone} |-> ShownTag(t).name]

\* A page is not rendered while the answer it was mounted for is missing.
Suspended ==
  \/ tags = Null
  \/ page = "manage" /\ \E i \in InFlight("tags") : reqs[i].here

\* Both pages read every tag of the list, and the tags page its stories too:
\* a null or an undefined in their place is a TypeError.
Broken ==
  /\ ~ Suspended
  /\ \E t \in ToSet(tags) :
       ShownTag(t) = Gone \/ (page = "manage" /\ ~ ShownTag(t).counted)

SameName(n, m) == JsLower[n] = JsLower[m]

\* The library page offers t under the name.
Bears(t, name) == name # Null /\ t \in DOMAIN Available /\ SameName(Available[t], name)

\* Variant: the effect of TagInput takes a tag that is selected already.
AutoSelectAgain(f, offered) ==
  LET match == {t \in DOMAIN offered : f.pending # Null /\ SameName(offered[t], f.pending)}
      new == CHOOSE t \in match : TRUE
  IN IF match = {} THEN f
     ELSE [f EXCEPT !.selected = Append(@, new), !.pending = Null]

\* The effect of TagInput: a tag that was asked for and has appeared is
\* selected.  One that is selected already stays pending.
AutoSelect(f, offered) ==
  LET match == {t \in DOMAIN offered : f.pending # Null /\ SameName(offered[t], f.pending)}
      new == CHOOSE t \in match : TRUE
  IN IF match = {} \/ new \in ToSet(f.selected) THEN f
     ELSE [f EXCEPT !.selected = Append(@, new), !.pending = Null]

\* The render after a step that makes the form f.
Render(f) ==
  /\ crashed' = (crashed \/ Broken')
  /\ form' = IF f.open THEN AutoSelect(f, Available') ELSE f

OnPage(p) == page = p /\ ~ crashed /\ ~ Suspended
-----------------------------------------------------------------------------
(* The story form *)

\* The form changes while a tag is being created for it.
Meddles == \E i \in InFlight("create") : reqs[i].here

OnForm == OnPage("library") /\ form.open

Expand ==
  /\ OnPage("library") /\ ~ form.open
  /\ UNCHANGED <<db, reqs, tags, rec, page, rows, changes, asked, disturbed>>
  /\ Render([form EXCEPT !.open = TRUE])

\* Variant: the tags stay selected in the form that is closed.
CancelKeepsTags ==
  /\ OnForm
  /\ asked' = [NoWishes EXCEPT !.touched = Meddles]
  /\ UNCHANGED <<db, reqs, tags, rec, page, rows, changes, disturbed>>
  /\ Render([EmptyForm EXCEPT !.selected = form.selected])

\* handleCancel; with the form its TagInput goes.
Cancel ==
  /\ OnForm
  /\ asked' = [NoWishes EXCEPT !.touched = Meddles]
  /\ UNCHANGED <<db, reqs, tags, rec, page, rows, changes, disturbed>>
  /\ Render(EmptyForm)

\* handleValueChange, with a tag that is not selected yet.
Pick(t) ==
  /\ OnForm /\ t \notin ToSet(form.selected)
  /\ asked' = [asked EXCEPT !.tags = @ \cup {t}, !.touched = @ \/ Meddles]
  /\ UNCHANGED <<db, reqs, tags, rec, page, rows, changes, disturbed>>
  /\ Render([form EXCEPT !.selected = Append(@, t)])

\* handleValueChange, without a tag: the cross on a chip.  While the tag is
\* the pending one the effect selects it again.
RemoveChip(i) ==
  LET t == form.selected[i]
  IN /\ OnForm
     /\ asked' = [tags |-> asked.tags \ {t},
                  names |-> {n \in asked.names : ~ Bears(t, n)},
                  touched |-> asked.touched \/ Meddles \/ Bears(t, form.pending)]
     /\ UNCHANGED <<db, reqs, tags, rec, page, rows, changes, disturbed>>
     /\ Render([form EXCEPT !.selected = RemoveAt(@, i)])

\* handleCreate of TagInput with a name that no tag has, then handleCreateTag
\* of the form.  The colour is the next of the palette.
EnterName(name, color) ==
  /\ OnForm /\ CanChange
  /\ \A t \in DOMAIN Available : ~ SameName(Available[t], name)
  /\ reqs' = Append(reqs, CreateTagRequest(name, color, form.selected))
  /\ changes' = changes + 1
  /\ asked' = [asked EXCEPT !.names = @ \cup {name},
                             !.touched = @ \/ InFlight("create") \cup InFlight("update") # {}]
  /\ UNCHANGED <<db, tags, rec, page, rows, disturbed>>
  /\ Render([form EXCEPT !.pending = name])

\* handleSubmit.  The button is disabled while a story is created.
Submit ==
  /\ OnForm /\ CanChange
  /\ \A i \in InFlight("story") : ~ reqs[i].here
  /\ reqs' = Append(reqs, StoryRequest(ToSet(form.selected)))
  /\ changes' = changes + 1
  /\ UNCHANGED <<db, tags, rec, page, rows, asked, disturbed>>
  /\ Render(form)

\* The list by a tag is opened and left: its answer has the tags.
Refresh ==
  /\ OnPage("library") /\ CanRequest
  /\ InFlight("tags") = {}
  /\ reqs' = Append(reqs, TagsRequest(FALSE))
  /\ UNCHANGED <<db, tags, rec, page, rows, changes, asked, disturbed>>
  /\ Render(form)
-----------------------------------------------------------------------------
(* The tags page *)

OnRow(t) == OnPage("manage") /\ t \in ToSet(tags)

Updating(t) == \E i \in InFlight("update") : reqs[i].id = t /\ reqs[i].here
Deleting(t) == \E i \in InFlight("delete") : reqs[i].id = t /\ reqs[i].here

\* The items of a row's menu.
OpenRow(t, mode) ==
  /\ OnRow(t) /\ rows[t].mode # mode
  /\ rows' = [rows EXCEPT ![t].mode = mode]
  /\ UNCHANGED <<db, reqs, tags, rec, page, changes, asked, disturbed>>
  /\ Render(form)

\* Cancel, Escape, or a click outside.
CloseRow(t) ==
  /\ OnRow(t) /\ rows[t].mode # "view"
  /\ rows[t].mode = "rename" => ~ Updating(t)
  /\ rows' = [rows EXCEPT ![t].mode = "view"]
  /\ UNCHANGED <<db, reqs, tags, rec, page, changes, asked, disturbed>>
  /\ Render(form)

Send(t, name, color) ==
  LET old == ShownTag(t)
      opt == [old EXCEPT !.name = IF name = Null THEN @ ELSE name,
                         !.color = IF color = Null THEN @ ELSE color]
  IN reqs' = Append(reqs, UpdateTagRequest(t, name, color, opt))

\* handleRename.  The input is disabled while an update is in flight.
Rename(t, name) ==
  /\ OnRow(t) /\ rows[t].mode = "rename" /\ ~ Updating(t) /\ CanChange
  /\ name # ShownTag(t).name
  /\ Send(t, name, Null)
  /\ rows' = [rows EXCEPT ![t].error = FALSE]
  /\ changes' = changes + 1
  /\ UNCHANGED <<db, tags, rec, page, asked, disturbed>>
  /\ Render(form)

\* handleColorChange; the picker closes itself.
Recolor(t, color) ==
  /\ OnRow(t) /\ rows[t].mode = "color" /\ CanChange
  /\ color # ShownTag(t).color
  /\ Send(t, Null, color)
  /\ rows' = [rows EXCEPT ![t] = ViewRow]
  /\ changes' = changes + 1
  /\ UNCHANGED <<db, tags, rec, page, asked, disturbed>>
  /\ Render(form)

\* handleDelete
Delete(t) ==
  /\ OnRow(t) /\ rows[t].mode = "delete" /\ ~ Deleting(t) /\ CanChange
  /\ reqs' = Append(reqs, DeleteTagRequest(t))
  /\ rows' = [rows EXCEPT ![t].error = FALSE]
  /\ changes' = changes + 1
  /\ UNCHANGED <<db, tags, rec, page, asked, disturbed>>
  /\ Render(form)
-----------------------------------------------------------------------------
(* Going from page to page *)

\* A query that the store can answer is not sent, and one that is in flight
\* is not sent again.
Goto(p) ==
  LET counted == p = "manage"
      need == tags = Null \/ (counted /\ \E t \in ToSet(tags) :
                                 ShownTag(t) # Gone /\ ~ ShownTag(t).counted)
      left == [i \in DOMAIN reqs |->
                 [reqs[i] EXCEPT !.here = need /\ reqs[i].op = "tags" /\ reqs[i].counted = counted]]
  IN /\ page # p /\ (crashed => page = "manage")
     /\ page' = p
     /\ reqs' = IF need /\ \A i \in DOMAIN left : ~ left[i].here
                  THEN Append(left, TagsRequest(counted)) ELSE left
     /\ Len(reqs') <= MaxRequests
     /\ form' = EmptyForm /\ rows' = [t \in 1 .. MaxIds |-> ViewRow] /\ asked' = NoWishes
     /\ UNCHANGED <<db, tags, rec, changes, disturbed>>
     /\ crashed' = Broken'

\* The window is loaded again.  A request that is served after it was given
\* up counts as another window's.
ReloadTags ==
  /\ reqs' = <<TagsRequest(page = "manage")>>
  /\ tags' = Null /\ rec' = EmptyMap /\ crashed' = FALSE
  /\ form' = EmptyForm /\ rows' = [t \in 1 .. MaxIds |-> ViewRow] /\ asked' = NoWishes
  /\ disturbed' = FALSE
  /\ UNCHANGED <<db, page, changes>>
-----------------------------------------------------------------------------
(* The API *)

ServeTags(i) ==
  /\ reqs[i].op = "tags" /\ Unserved(i)
  /\ reqs' = Served(i, [t \in DOMAIN ListTags(db) |-> Record(ListTags(db)[t], reqs[i].counted)])
  /\ UNCHANGED db

ServeCreateTag(i) ==
  LET out == CreateTag(db, reqs[i].name, reqs[i].color)
  IN /\ reqs[i].op = "create" /\ Unserved(i) /\ db.next <= MaxIds
     /\ db' = out.db
     /\ reqs' = Served(i, out.res)

ServeUpdateTag(i) ==
  LET out == UpdateTag(db, reqs[i].id, reqs[i].name, reqs[i].color)
  IN /\ reqs[i].op = "update" /\ Unserved(i)
     /\ db' = out.db
     /\ reqs' = Served(i, out.res)

ServeDeleteTag(i) ==
  LET out == DeleteTag(db, reqs[i].id)
  IN /\ reqs[i].op = "delete" /\ Unserved(i)
     /\ db' = out.db
     /\ reqs' = Served(i, out.res)

ServeStory(i) ==
  LET out == CreateStory(db, TRUE, CHOOSE title \in Titles : TRUE, reqs[i].chosen)
  IN /\ reqs[i].op = "story" /\ Unserved(i) /\ db.next <= MaxIds
     /\ db' = out.db
     /\ reqs' = Served(i, out.res)

TagApiActs(i) ==
  /\ ServeTags(i) \/ ServeCreateTag(i) \/ ServeUpdateTag(i) \/ ServeDeleteTag(i) \/ ServeStory(i)
  /\ UNCHANGED <<tags, rec, page, crashed, form, rows, changes, asked, disturbed>>
-----------------------------------------------------------------------------
(* The answers *)

Failed(res) == res # Null /\ "failed" \in DOMAIN res

TagAnswered(i) ==
  /\ ~ Unserved(i)
  /\ reqs' = Rest(i)
  /\ disturbed' = (disturbed \/ Overtakes(i))

\* The answer of a query takes the place of the list; a count that the store
\* has stays.
AnswerTags(i) ==
  LET res == reqs[i].res
      known(t) == t \in DOMAIN rec /\ rec[t] # Gone /\ rec[t].counted
  IN /\ reqs[i].op = "tags"
     /\ TagAnswered(i)
     /\ tags' = Descending(DOMAIN res)
     /\ rec' = [t \in DOMAIN rec \cup DOMAIN res |->
                  IF t \in DOMAIN res THEN [res[t] EXCEPT !.counted = @ \/ known(t)] ELSE rec[t]]
     /\ UNCHANGED <<rows, asked>>
     /\ Render(form)

\* Variant: the updater runs once more when the creation completes.
AnswerCreateTagTwice(i) ==
  LET r == reqs[i]
      made == ~ Failed(r.res)
  IN /\ r.op = "create"
     /\ TagAnswered(i)
     /\ tags' = IF made /\ tags # Null THEN tags \o <<r.res.id, r.res.id>> ELSE tags
     /\ rec' = IF made THEN Put(rec, r.res.id, Record(r.res.tag, FALSE)) ELSE rec
     /\ UNCHANGED <<rows, asked>>
     /\ Render(IF made /\ r.here THEN [form EXCEPT !.selected = Append(r.chosen, r.res.id)] ELSE form)

\* The updater of handleCreateTag adds the tag to the list; onCompleted to the
\* tags that were selected when the creation was asked for.  A failure is a
\* top-level error, of which the form takes no notice.
AnswerCreateTag(i) ==
  LET r == reqs[i]
      made == ~ Failed(r.res)
  IN /\ r.op = "create"
     /\ TagAnswered(i)
     /\ tags' = IF made /\ tags # Null THEN Append(tags, r.res.id) ELSE tags
     /\ rec' = IF made THEN Put(rec, r.res.id, Record(r.res.tag, FALSE)) ELSE rec
     /\ UNCHANGED <<rows, asked>>
     /\ Render(IF made /\ r.here THEN [form EXCEPT !.selected = Append(r.chosen, r.res.id)] ELSE form)

\* The row of a change that failed; a rename stays open.
FailedRow(r) ==
  IF ~ r.here THEN rows
  ELSE [rows EXCEPT ![r.id] = [mode  |-> IF r.op = "update" /\ r.name # Null THEN @.mode ELSE "view",
                               error |-> TRUE]]

ClosedRow(r) == IF r.here THEN [rows EXCEPT ![r.id].mode = "view"] ELSE rows

\* Variant: a change that failed stays in the store.
AnswerUpdateTagKept(i) ==
  LET r == reqs[i]
      made == r.res # Null /\ ~ Failed(r.res)
  IN /\ r.op = "update"
     /\ TagAnswered(i)
     /\ rec' = Put(rec, r.id, IF made THEN Record(r.res, TRUE) ELSE r.opt)
     /\ rows' = IF made THEN ClosedRow(r) ELSE FailedRow(r)
     /\ UNCHANGED <<tags, asked>>
     /\ Render(form)

AnswerUpdateTag(i) ==
  LET r == reqs[i]
      made == r.res # Null /\ ~ Failed(r.res)
  IN /\ r.op = "update"
     /\ TagAnswered(i)
     /\ rec' = IF made THEN Put(rec, r.id, Record(r.res, TRUE)) ELSE rec
     /\ rows' = IF made THEN ClosedRow(r) ELSE FailedRow(r)
     /\ UNCHANGED <<tags, asked>>
     /\ Render(form)

\* @deleteRecord leaves the tag's place in the list, with nothing in it.
AnswerDeleteTag(i) ==
  LET r == reqs[i]
  IN /\ r.op = "delete"
     /\ TagAnswered(i)
     /\ rec' = IF r.res THEN Put(rec, r.id, Gone) ELSE rec
     /\ rows' = IF r.res THEN ClosedRow(r) ELSE FailedRow(r)
     /\ UNCHANGED <<tags, asked>>
     /\ Render(form)

\* onCompleted of handleSubmit empties the form, whatever was entered since.
AnswerStory(i) ==
  /\ reqs[i].op = "story"
  /\ TagAnswered(i)
  /\ asked' = IF reqs[i].here THEN [NoWishes EXCEPT !.touched = Meddles] ELSE asked
  /\ UNCHANGED <<tags, rec, rows>>
  /\ Render(IF reqs[i].here THEN EmptyForm ELSE form)

\* A request fails on the way, before or after it was served.  The page whose
\* query fails is lost, for want of an error boundary that tries again.
LoseTagRequest(i) ==
  LET r == reqs[i]
  IN /\ reqs' = Rest(i)
     /\ disturbed' = (disturbed \/ (r.op # "tags" /\ ~ Unserved(i)))
     /\ rows' = IF r.op \in {"update", "delete"} THEN FailedRow(r) ELSE rows
     /\ UNCHANGED <<db, tags, rec, page, changes, asked>>
     /\ IF r.op = "tags" /\ r.here
          THEN crashed' = TRUE /\ UNCHANGED form
          ELSE Render(form)

\* The user's other windows.
ChangeTagsElsewhere ==
  \E t \in DOMAIN db.tag, name \in Names, color \in Colors :
    \E d \in {CreateTag(db, name, color).db, UpdateTag(db, t, name, color).db, DeleteTag(db, t).db} :
      /\ changes < MaxChanges /\ d # db /\ d.next <= MaxIds + 1
      /\ db' = d
      /\ changes' = changes + 1
      /\ disturbed' = TRUE
      /\ UNCHANGED <<reqs, tags, rec, page, crashed, form, rows, asked>>

TagUserActs ==
  \/ Expand \/ Cancel \/ Submit \/ Refresh \/ ReloadTags
  \/ \E t \in DOMAIN Available : Pick(t)
  \/ \E i \in DOMAIN form.selected : RemoveChip(i)
  \/ \E name \in Names, color \in Colors : EnterName(name, color)
  \/ \E p \in {"library", "manage"} : Goto(p)
  \/ \E t \in 1 .. MaxIds :
       \/ \E mode \in {"rename", "color", "delete"} : OpenRow(t, mode)
       \/ CloseRow(t) \/ Delete(t)
       \/ \E name \in Names : Rename(t, name)
       \/ \E color \in Colors : Recolor(t, color)

Answers(i) ==
  \/ /\ UNCHANGED <<db, page, changes>>
     /\ AnswerTags(i) \/ AnswerCreateTag(i) \/ AnswerUpdateTag(i) \/ AnswerDeleteTag(i) \/ AnswerStory(i)
  \/ LoseTagRequest(i)

TagsNext ==
  \/ TagUserActs
  \/ \E i \in DOMAIN reqs : TagApiActs(i) \/ Answers(i)
  \/ ChangeTagsElsewhere

TagsSpec == TagsInit /\ [][TagsNext]_tagsVars
-----------------------------------------------------------------------------
(* Properties *)

\* Type invariant: what the list and the form refer to, the store has.
TagsTypeOK ==
  /\ LibraryOK(db)
  /\ tags # Null => ToSet(tags) \subseteq DOMAIN rec
  /\ \A t \in DOMAIN rec : rec[t] = Gone \/
       (rec[t].name \in ValidNames /\ rec[t].color \in ValidColors /\ rec[t].counted \in BOOLEAN)
  /\ ToSet(form.selected) \subseteq DOMAIN rec /\ form.pending \in Names \cup {Null}
  /\ \A t \in 1 .. MaxIds : rows[t].mode \in {"view", "rename", "color", "delete"}
  /\ Len(reqs) <= MaxRequests /\ page \in {"library", "manage"}

\* Two things select a tag that was created, the answer and the effect of
\* TagInput; the form never shows it twice (Library.tsx, TagInput.tsx).
NoChipTwice ==
  \A i, j \in DOMAIN form.selected : form.selected[i] = form.selected[j] => i = j

\* The two pages refer to tags the store has, and the form names none twice,
\* after every answer and every change of page.
PagesSound == TagsTypeOK /\ NoChipTwice

\* When nothing is in flight the form has the tags that the user picked, and
\* those of the names entered that the list has, when the window's changes alone
\* were made and answered in turn; unless the user changed the form while a tag
\* was created, entered a name while another tag was created or changed, or
\* removed the tag that is still pending: then the closure of handleCreateTag or
\* the effect of TagInput puts back, drops or takes what it should not.
ChipsAsAsked ==
  reqs = <<>> /\ ~ asked.touched /\ ~ disturbed /\ page = "library" /\ ~ crashed /\ tags # Null =>
    ToSet(form.selected) = asked.tags \cup
      {t \in ToSet(tags) : \E n \in asked.names : SameName(ShownTag(t).name, n)}

\* While answers come in turn the list has no tag twice: a page would show two
\* rows with one key (the updater of handleCreateTag appends unconditionally).
TagsListedOnce ==
  tags # Null /\ ~ disturbed => \A i, j \in DOMAIN tags : tags[i] = tags[j] => i = j

\* When nothing is in flight, a window whose changes alone were made, and whose
\* answers came in turn, lists every tag as the server has it: a rename or a
\* colour that failed is taken back, also under one that did not.
TagsAgree ==
  reqs = <<>> /\ ~ disturbed /\ tags # Null =>
    /\ DOMAIN db.tag \subseteq ToSet(tags)
    /\ \A t \in ToSet(tags) :
         IF t \in DOMAIN db.tag
           THEN rec[t] # Gone /\ rec[t].name = db.tag[t].name /\ rec[t].color = db.tag[t].color
           ELSE rec[t] = Gone

\* A deletion is shown at once, and the page goes on showing the other tags
\* (specs/frontend-tag-management/requirements.md:65).  It shows an error.
DeletionIsShown == (\E i \in InFlight("delete") : reqs[i].here) => ~ crashed
=============================================================================
