-------------------------- MODULE MCLibraryWindow --------------------------
(***************************************************************************)
(* A library with a tag and two or three stories, as its handlers make it. *)
(***************************************************************************)
EXTENDS LibraryWindow

CONSTANTS x, y, go, Go, red

MCNames == {go, Go}
MCLower == [n \in MCNames |-> "go"]
MCColors == {red}
MCTitles == {x, y}

MCOneTag == CreateTag(EmptyLibrary, go, red).db
MCTwoStories == CreateStory(CreateStory(MCOneTag, TRUE, x, {1}).db, TRUE, x, {1}).db
MCLibraries == {MCTwoStories}

\* The handlers that read tell the same of a story and of its tags: getBatchTag,
\* listTags and getTagsForStory have the counts of listStoriesByTag, and the tags
\* of getStory.
MCChanged ==
  LET d == CreateTag(MCTwoStories, Go, red).db
      e == CreateStory(d, TRUE, y, {1}).db
  IN {d, e, DeleteTag(e, 1).db, DeleteStory(e, 2).db, SetStoryTags(e, 3, {}).db,
      UpdateStory(e, 4, Null, {}).db}

ASSUME ReadsAgree ==
  \A d \in MCChanged : \A i \in 1 .. d.next :
    LET story == GetStory(d, i)
        tag == GetTag(d, i)
    IN /\ (story = Null) # (i \in DOMAIN ListStories(d, d.next, Null).stories)
       /\ (tag = Null) # (i \in DOMAIN ListTags(d))
       /\ story # Null => /\ DOMAIN GetTagsForStory(d, i) = story.tags
                          /\ \A t \in story.tags : GetTagsForStory(d, i)[t] = GetTag(d, t)
       /\ tag # Null => /\ tag = ListTags(d)[i]
                        /\ tag.storyCount = ListStoriesByTag(d, i, 1, Null).totalCount
=============================================================================
