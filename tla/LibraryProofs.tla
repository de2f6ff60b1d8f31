--------------------------- MODULE LibraryProofs ---------------------------
(***************************************************************************)
(* The invariants of the library page and of the tag pages, for every      *)
(* choice of titles, names and colours, any number of stories, tags and    *)
(* requests, and pages of any size.  Those of the library page are proved  *)
(* in three layers:                                                        *)
(*                                                                         *)
(*   Shape    what the library, the store and the requests in flight look  *)
(*            like; it is inductive, and implies LibrarySound and          *)
(*            PageSound.                                                   *)
(*   Steady   what has belonged to a list since it was read is in it down  *)
(*            to its cursor; inductive given Shape, and implies            *)
(*            PagesSkipNothing.                                            *)
(*   Agreed   what an answer or the store says of a story is so, unless an *)
(*            answer on its way says otherwise; inductive given Shape, and *)
(*            implies QuietPageAgrees.                                     *)
(*                                                                         *)
(* And so are those of the tag pages:                                      *)
(*                                                                         *)
(*   TagShape    what the store, the form and the requests look like;      *)
(*               inductive, and implies PagesSound.                        *)
(*   TagsAgreed  the store has the library as it was before the answers on *)
(*               their way were served; inductive given TagShape, and      *)
(*               implies TagsListedOnce and TagsAgree.                     *)
(*   ChipsFit    the form has the chips that were asked for, as far as the *)
(*               creations on their way allow; inductive given both, and   *)
(*               implies ChipsAsAsked.                                     *)
(***************************************************************************)
EXTENDS LibraryWindow, TagPages, SequenceTheorems, FiniteSetTheorems, WellFoundedInduction, TLAPS

(* Sets of ids. *)

\* A set of ids that is not empty has a least one and a greatest one.
LEMMA LeastId ==
  ASSUME NEW S \in SUBSET Nat, S # {}
  PROVE  Min(S) \in S /\ \A s \in S : Min(S) <= s
<1>1. PICK n \in S : \A k \in S : <<k, n>> \notin OpToRel(<, Nat)
  BY NatLessThanWellFounded, WFMin
<1>2. \A k \in S : ~ (k < n)
  BY <1>1 DEF OpToRel
<1>3. \A k \in S : n \in Nat /\ k \in Nat
  OBVIOUS
<1>4. \A k \in S : n <= k
  BY <1>2, <1>3
<1> QED BY <1>4 DEF Min

\* A bounded set of ids that is not empty has a greatest one.
LEMMA GreatestId ==
  ASSUME NEW n \in Nat, NEW S \in SUBSET (1 .. n), S # {}
  PROVE  \E m \in S : \A s \in S : s <= m
<1> DEFINE T == {n - s : s \in S}
<1>0. \A s \in S : s \in Nat /\ n - s \in Nat
  OBVIOUS
<1>1. T \in SUBSET Nat /\ T # {}
  BY <1>0
<1> HIDE DEF T
<1>2. PICK t \in T : \A u \in T : t <= u
  BY <1>1, LeastId
<1>3. PICK m \in S : t = n - m
  BY <1>2 DEF T
<1>4. \A s \in S : n - s \in T
  BY DEF T
<1>5. \A s \in S : n - m <= n - s
  BY <1>2, <1>3, <1>4
<1>6. m \in Nat /\ S \subseteq Nat
  OBVIOUS
<1> QED BY <1>5, <1>6

\* A set of ids given out is finite.
LEMMA IdsFinite ==
  ASSUME NEW n \in Nat, NEW S \in SUBSET (1 .. n)
  PROVE  IsFiniteSet(S) /\ Cardinality(S) \in Nat
<1>1. IsFiniteSet(1 .. n)
  BY FS_Interval
<1>2. IsFiniteSet(S)
  BY <1>1, FS_Subset
<1> QED BY <1>2, FS_CardinalityType

\* Descending lists the ids once each, the newest first.
LEMMA DescendingIs ==
  ASSUME NEW n \in Nat, NEW S \in SUBSET (1 .. n)
  PROVE  /\ Descending(S) \in Seq(S) /\ ToSet(Descending(S)) = S
         /\ \A i, j \in DOMAIN Descending(S) : i < j => Descending(S)[i] > Descending(S)[j]
<1> DEFINE above(s) == {t \in S : t > s}
           N == Cardinality(S)
           rank == [s \in S |-> Cardinality(above(s)) + 1]
<1>1. IsFiniteSet(S) /\ N \in Nat
  BY IdsFinite
<1>2. ASSUME NEW s \in S
      PROVE  IsFiniteSet(above(s)) /\ Cardinality(above(s)) \in Nat /\ Cardinality(above(s)) < N
  <2>1. above(s) \in SUBSET (1 .. n) /\ above(s) \in SUBSET S
    OBVIOUS
  <2>2. IsFiniteSet(above(s)) /\ Cardinality(above(s)) \in Nat
    BY <2>1, IdsFinite
  <2>3. s \in S /\ s \notin above(s)
    OBVIOUS
  <2>4. S # above(s)
    BY <2>3
  <2>5. Cardinality(above(s)) <= N /\ (N = Cardinality(above(s)) => S = above(s))
    BY <1>1, <2>1, FS_Subset
  <2> HIDE DEF N, above
  <2> QED BY <1>1, <2>2, <2>4, <2>5
<1>3. ASSUME NEW s \in S, NEW t \in S, s < t
      PROVE  Cardinality(above(t)) < Cardinality(above(s))
  <2>0. \A r \in S : r \in Nat
    OBVIOUS
  <2>a. \A r \in S : r > t => r > s
    BY <1>3, <2>0
  <2>b. t > s /\ ~ (t > t)
    BY <1>3, <2>0
  <2>1. above(t) \in SUBSET above(s) /\ t \in above(s) /\ t \notin above(t)
    BY <2>a, <2>b
  <2>2. IsFiniteSet(above(s)) /\ Cardinality(above(s)) \in Nat /\ Cardinality(above(t)) \in Nat
    BY <1>2
  <2>3. above(s) # above(t)
    BY <2>1
  <2> HIDE DEF above
  <2>4. /\ Cardinality(above(t)) <= Cardinality(above(s))
        /\ Cardinality(above(s)) = Cardinality(above(t)) => above(s) = above(t)
    BY <2>1, <2>2, FS_Subset
  <2> QED BY <2>2, <2>3, <2>4
<1> HIDE DEF N, above
<1>4. rank \in [S -> 1 .. N]
  BY <1>1, <1>2
<1>5. \A s, t \in S : rank[s] = rank[t] => s = t
  <2>1. \A s, t \in S : s < t => rank[t] < rank[s]
    BY <1>2, <1>3
  <2>2. \A s \in S : rank[s] \in Nat /\ s \in Nat
    BY <1>1, <1>4
  <2> HIDE DEF rank
  <2> QED BY <2>1, <2>2
<1>6. rank \in Injection(S, 1 .. N)
  BY <1>4, <1>5 DEF Injection, IsInjective
<1>7. IsFiniteSet(1 .. N) /\ Cardinality(1 .. N) = N
  BY <1>1, FS_Interval
<1>8. rank \in Surjection(S, 1 .. N)
  <2> HIDE DEF rank
  <2> QED BY <1>6, <1>7, FS_Injection DEF N
<1>9. \A i \in 1 .. N : \E s \in S : Cardinality(above(s)) = i - 1
  <2>1. \A i \in 1 .. N : \E s \in S : rank[s] = i
    BY <1>8 DEF Surjection
  <2>2. \A s \in S : rank[s] = Cardinality(above(s)) + 1 /\ Cardinality(above(s)) \in Nat
    BY <1>2
  <2> HIDE DEF rank
  <2>3. ASSUME NEW i \in 1 .. N  PROVE \E s \in S : Cardinality(above(s)) = i - 1
    <3>1. PICK s \in S : rank[s] = i
      BY <2>1
    <3>2. Cardinality(above(s)) + 1 = i /\ Cardinality(above(s)) \in Nat /\ i \in Nat
      BY <1>1, <2>2, <3>1
    <3> QED BY <3>2
  <2> QED BY <2>3
<1> DEFINE D == Descending(S)
<1>10. D = [i \in 1 .. N |-> CHOOSE s \in S : Cardinality(above(s)) = i - 1]
  BY DEF Descending, N, above
<1>11. \A i \in 1 .. N : D[i] \in S /\ Cardinality(above(D[i])) = i - 1
  BY <1>9, <1>10
<1>12. D \in [1 .. N -> S]
  BY <1>10, <1>11
<1> HIDE DEF D
<1>13. D \in Seq(S) /\ DOMAIN D = 1 .. N
  BY <1>1, <1>12, SeqDef
<1>14. \A i, j \in DOMAIN D : i < j => D[i] > D[j]
  <2>0. \A r \in S : r \in Nat
    OBVIOUS
  <2>1. \A i \in 1 .. N : D[i] \in S /\ D[i] \in Nat
    BY <1>11, <2>0
  <2> SUFFICES ASSUME NEW i \in 1 .. N, NEW j \in 1 .. N, i < j  PROVE D[i] > D[j]
    BY <1>13
  <2>2. CASE D[i] = D[j]
    BY <1>11, <2>2
  <2>3. CASE D[i] < D[j]
    <3>1. Cardinality(above(D[j])) < Cardinality(above(D[i]))
      BY <1>3, <2>1, <2>3
    <3> QED BY <1>11, <3>1
  <2> QED BY <2>1, <2>2, <2>3
<1>15. ToSet(D) = S
  <2>1. \A s \in S : rank[s] \in 1 .. N /\ Cardinality(above(s)) = rank[s] - 1
    BY <1>2, <1>4
  <2>2. \A s \in S : D[rank[s]] = s
    <3> SUFFICES ASSUME NEW s \in S PROVE D[rank[s]] = s
      OBVIOUS
    <3>1. D[rank[s]] \in S /\ Cardinality(above(D[rank[s]])) = rank[s] - 1
      BY <1>11, <2>1
    <3>2. rank[D[rank[s]]] = rank[s]
      BY <2>1, <3>1
    <3> QED BY <1>5, <3>1, <3>2
  <2> HIDE DEF rank
  <2> QED BY <1>12, <1>13, <2>1, <2>2 DEF ToSet
<1> QED BY <1>13, <1>14, <1>15 DEF D

\* The newest ids are the upper part of them.
LEMMA NewestIs ==
  ASSUME NEW n \in Nat, NEW S \in SUBSET (1 .. n), NEW m \in Nat \ {0}
  PROVE  /\ Newest(S, m) \in SUBSET S
         /\ \A s \in Newest(S, m) : \A t \in S : t > s => t \in Newest(S, m)
         /\ S # {} => Newest(S, m) # {}
         /\ Cardinality(Newest(S, m)) < m => Newest(S, m) = S
<1> DEFINE above(s) == {t \in S : t > s}
           N == Newest(S, m)
<1>0. \A s \in S : s \in Nat
  OBVIOUS
<1>1. N = {s \in S : Cardinality(above(s)) < m}
  BY DEF Newest
<1>2. ASSUME NEW T \in SUBSET S, NEW U \in SUBSET T
      PROVE  Cardinality(U) \in Nat /\ Cardinality(T) \in Nat /\ Cardinality(U) <= Cardinality(T)
  <2>1. IsFiniteSet(T) /\ IsFiniteSet(U) /\ Cardinality(U) \in Nat /\ Cardinality(T) \in Nat
    BY IdsFinite
  <2> QED BY <2>1, FS_Subset
<1> HIDE DEF N
<1>3. N \in SUBSET S
  BY <1>1
<1>4. \A s \in N : \A t \in S : t > s => t \in N
  <2> SUFFICES ASSUME NEW s \in N, NEW t \in S, t > s PROVE t \in N
    OBVIOUS
  <2>1. s \in S /\ Cardinality(above(s)) < m
    BY <1>1
  <2>a. \A r \in S : r > t => r > s
    BY <1>0, <2>1
  <2>2. above(t) \in SUBSET above(s) /\ above(s) \in SUBSET S
    BY <2>a
  <2>3. /\ Cardinality(above(t)) \in Nat /\ Cardinality(above(s)) \in Nat
        /\ Cardinality(above(t)) <= Cardinality(above(s))
    BY <1>2, <2>2
  <2> HIDE DEF above
  <2> QED BY <1>1, <2>1, <2>3
<1>5. ASSUME NEW T \in SUBSET S, NEW s \in S, T = above(s), Cardinality(T) < m  PROVE s \in N
  BY <1>1, <1>5
<1>6. S # {} => N # {}
  <2> SUFFICES ASSUME S # {} PROVE N # {}
    OBVIOUS
  <2>1. PICK s \in S : \A t \in S : t <= s
    BY GreatestId
  <2>a. \A r \in S : ~ (r > s)
    BY <1>0, <2>1
  <2>2. above(s) = {}
    BY <2>a
  <2>3. Cardinality({}) = 0
    BY FS_EmptySet
  <2> QED BY <1>5, <2>2, <2>3
<1>7. Cardinality(N) < m => N = S
  <2> SUFFICES ASSUME Cardinality(N) < m, S \ N # {}  PROVE FALSE
    BY <1>3
  <2>1. PICK s \in S \ N : \A t \in S \ N : t <= s
    BY GreatestId
  <2>a. \A r \in S : r > s => r \in N
    BY <1>0, <2>1
  <2>2. above(s) \in SUBSET N /\ N \in SUBSET S
    BY <1>3, <2>a
  <2>3. /\ Cardinality(above(s)) \in Nat /\ Cardinality(N) \in Nat
        /\ Cardinality(above(s)) <= Cardinality(N)
    BY <1>2, <2>2
  <2>4. Cardinality(above(s)) < m
    BY <2>3
  <2> QED BY <1>5, <2>1, <2>2, <2>4
<1> QED BY <1>3, <1>4, <1>6, <1>7 DEF N
-----------------------------------------------------------------------------
(* Pages *)

\* A page has the newest of the ids before its cursor, and all of them when
\* no page follows.
LEMMA PageOfIs ==
  ASSUME NEW d, NEW n \in Nat, NEW S \in SUBSET (1 .. n), NEW first \in Nat \ {0}, NEW total
  PROVE  LET p == PageOf(d, S, first, total) IN
         /\ DOMAIN p.stories \in SUBSET S /\ p.hasNextPage \in BOOLEAN
         /\ \A s \in DOMAIN p.stories : p.stories[s] = FormatStory(d, s)
         /\ DOMAIN p.stories = {} => p.endCursor = Null /\ ~ p.hasNextPage
         /\ DOMAIN p.stories # {} => /\ p.endCursor \in DOMAIN p.stories
                                     /\ \A s \in DOMAIN p.stories : p.endCursor <= s
         /\ \A s \in S : ~ p.hasNextPage \/ s >= p.endCursor => s \in DOMAIN p.stories
<1> DEFINE p == PageOf(d, S, first, total)
           taken == Newest(S, first + 1)
           shown == Newest(taken, first)
<1>1. /\ p.stories = [s \in shown |-> FormatStory(d, s)]
      /\ p.hasNextPage = (Cardinality(taken) > first)
      /\ p.endCursor = IF shown = {} THEN Null ELSE Min(shown)
  BY DEF PageOf
<1>0. first + 1 \in Nat \ {0}
  OBVIOUS
<1>2. /\ taken \in SUBSET S
      /\ \A s \in taken : \A t \in S : t > s => t \in taken
      /\ S # {} => taken # {}
      /\ Cardinality(taken) < first + 1 => taken = S
  BY <1>0, NewestIs
<1> HIDE DEF p, taken
<1>3. taken \in SUBSET (1 .. n) /\ Cardinality(taken) \in Nat /\ IsFiniteSet(taken)
  BY <1>2, IdsFinite
<1>4. /\ shown \in SUBSET taken
      /\ \A s \in shown : \A t \in taken : t > s => t \in shown
      /\ taken # {} => shown # {}
      /\ Cardinality(shown) < first => shown = taken
  BY <1>3, NewestIs
<1>5. Cardinality(taken) <= first => shown = S
  <2> SUFFICES ASSUME Cardinality(taken) <= first PROVE shown = S
    OBVIOUS
  <2>1. taken = S
    BY <1>2, <1>3
  <2>2. Cardinality(shown) \in Nat /\ Cardinality(shown) <= Cardinality(taken)
        /\ (Cardinality(taken) = Cardinality(shown) => taken = shown)
    BY <1>3, <1>4, FS_Subset, FS_CardinalityType
  <2> QED BY <1>3, <1>4, <2>1, <2>2
<1> HIDE DEF shown
<1>6. DOMAIN p.stories = shown /\ shown \in SUBSET S /\ p.hasNextPage \in BOOLEAN
      /\ \A s \in shown : p.stories[s] = FormatStory(d, s)
  BY <1>1, <1>2, <1>4
<1>7. shown = {} => p.endCursor = Null /\ ~ p.hasNextPage
  <2> SUFFICES ASSUME shown = {} PROVE p.endCursor = Null /\ ~ p.hasNextPage
    OBVIOUS
  <2>1. Cardinality(taken) = 0
    BY <1>4, FS_EmptySet
  <2>2. ~ (Cardinality(taken) > first)
    BY <2>1
  <2> QED BY <1>1, <2>2
<1>8. ASSUME shown # {} PROVE p.endCursor \in shown /\ \A s \in shown : p.endCursor <= s
  <2>1. shown \in SUBSET Nat
    BY <1>6
  <2>2. Min(shown) \in shown /\ \A s \in shown : Min(shown) <= s
    BY <1>8, <2>1, LeastId
  <2>3. p.endCursor = Min(shown)
    BY <1>1, <1>8
  <2> QED BY <2>2, <2>3
<1>9. ASSUME NEW s \in S, ~ p.hasNextPage \/ s >= p.endCursor  PROVE s \in shown
  <2>0. \A t \in S : t \in Nat
    OBVIOUS
  <2>1. CASE ~ p.hasNextPage
    <3>1. ~ (Cardinality(taken) > first)
      BY <1>1, <2>1
    <3>2. Cardinality(taken) <= first
      BY <1>3, <3>1
    <3> QED BY <1>5, <3>2
  <2>2. CASE p.hasNextPage /\ s >= p.endCursor
    <3>1. p.endCursor \in shown /\ p.endCursor \in taken /\ p.endCursor \in S
      BY <1>4, <1>6, <1>7, <1>8, <2>2
    <3>2. CASE s = p.endCursor
      BY <3>1, <3>2
    <3>3. CASE s # p.endCursor
      <4>1. s \in Nat /\ p.endCursor \in Nat
        BY <2>0, <3>1
      <4>2. s > p.endCursor
        BY <2>2, <3>3, <4>1
      <4> QED BY <1>2, <1>4, <3>1, <4>2
    <3> QED BY <3>2, <3>3
  <2> QED BY <1>9, <2>1, <2>2
<1> QED BY <1>6, <1>7, <1>8, <1>9 DEF p
-----------------------------------------------------------------------------
(* What a handler changes, beside keeping the library sound. *)

\* The story of id s as the server has it.
Now(d, s) == IF s \in DOMAIN d.story THEN FormatStory(d, s) ELSE Gone

\* ReplaceTags changes what is told of no other story.
LEMMA ReplaceTagsIs ==
  ASSUME NEW d, NEW s, NEW tagIds, LibraryOK(d)
  PROVE  LET e == ReplaceTags(d, s, tagIds) IN
         /\ e.story = d.story /\ e.next = d.next
         /\ \A t \in DOMAIN d.story : t # s => FormatStory(e, t) = FormatStory(d, t)
<1> DEFINE e == ReplaceTags(d, s, tagIds)
<1>1. e.story = d.story /\ e.next = d.next /\ e.tag = d.tag
      /\ \A l : l[1] # s => (l \in e.links <=> l \in d.links)
  BY DEF ReplaceTags, LibraryOK, WellFormed
<1> HIDE DEF e
<1>2. ASSUME NEW t, t # s PROVE TagsOf(e, t) = TagsOf(d, t)
  BY <1>1, <1>2 DEF TagsOf
<1> QED BY <1>1, <1>2 DEF FormatStory, e

\* A story created gets the next id, the answer tells what it is, and no other
\* story changes.
LEMMA CreateStoryIs ==
  ASSUME NEW d, NEW title, NEW tagIds, LibraryOK(d)
  PROVE  LET out == CreateStory(d, TRUE, title, tagIds) IN
         /\ out.db.next = d.next + 1 /\ DOMAIN out.db.story = DOMAIN d.story \cup {d.next}
         /\ \A s : s # d.next => Now(out.db, s) = Now(d, s)
         /\ out.res.id = d.next /\ out.res.story = Now(out.db, d.next)
<1> DEFINE s == d.next
           e == [d EXCEPT !.story = Put(@, s, title),
                          !.links = @ \cup {s} \X (tagIds \cap DOMAIN d.tag),
                          !.next = s + 1]
           out == CreateStory(d, TRUE, title, tagIds)
<1>1. out.db = e /\ out.res.id = s /\ out.res.story = FormatStory(e, s)
  BY DEF CreateStory, Result
<1>2. e.story = Put(d.story, s, title) /\ e.tag = d.tag /\ e.next = s + 1
      /\ e.links = d.links \cup {s} \X (tagIds \cap DOMAIN d.tag)
  BY DEF LibraryOK, WellFormed
<1>3. DOMAIN e.story = DOMAIN d.story \cup {s} /\ \A t \in DOMAIN d.story : t # s => e.story[t] = d.story[t]
  BY <1>2 DEF Put
<1> HIDE DEF e, out
<1>4. ASSUME NEW t, t # s PROVE TagsOf(e, t) = TagsOf(d, t)
  <2>1. \A u : <<t, u>> \in e.links <=> <<t, u>> \in d.links
    BY <1>2, <1>4
  <2> QED BY <1>2, <2>1 DEF TagsOf
<1>5. \A t : t # s => Now(e, t) = Now(d, t)
  BY <1>3, <1>4 DEF Now, FormatStory
<1> QED BY <1>1, <1>2, <1>3, <1>5 DEF Now, out

\* An update changes no other story, and tells what the story has become.
LEMMA UpdateStoryIs ==
  ASSUME NEW d, NEW s, NEW title, NEW tagIds, LibraryOK(d)
  PROVE  LET out == UpdateStory(d, s, title, tagIds) IN
         /\ out.db.next = d.next /\ DOMAIN out.db.story = DOMAIN d.story
         /\ \A t : t # s => Now(out.db, t) = Now(d, t)
         /\ s \notin DOMAIN d.story => out.res = Null /\ out.db = d
         /\ s \in DOMAIN d.story => out.res = Now(out.db, s)
<1> DEFINE out == UpdateStory(d, s, title, tagIds)
<1>1. CASE s \notin DOMAIN d.story
  BY <1>1 DEF UpdateStory, Result
<1>2. CASE s \in DOMAIN d.story
  <2> DEFINE e == [d EXCEPT !.story = Put(@, s, IF title = Null THEN @[s] ELSE title)]
             f == IF tagIds = Null THEN e ELSE ReplaceTags(e, s, tagIds)
  <2>1. out.db = f /\ out.res = FormatStory(f, s)
    BY <1>2 DEF UpdateStory, Result
  <2>2. e.story = Put(d.story, s, IF title = Null THEN d.story[s] ELSE title)
        /\ e.tag = d.tag /\ e.next = d.next /\ e.links = d.links /\ DOMAIN e = DOMAIN d
    BY DEF LibraryOK, WellFormed
  <2>3. DOMAIN e.story = DOMAIN d.story /\ \A t \in DOMAIN d.story : t # s => e.story[t] = d.story[t]
    BY <1>2, <2>2 DEF Put
  <2> HIDE DEF e, out
  <2>4. f.story = e.story /\ f.next = e.next /\ f.tag = e.tag
        /\ \A l : l[1] # s => (l \in f.links <=> l \in e.links)
    <3>1. \A S, T, U : \A l : l[1] # s => (l \in (S \ ({s} \X T)) \cup ({s} \X U) <=> l \in S)
      OBVIOUS
    <3> DEFINE current == {t \in DOMAIN e.tag : <<s, t>> \in e.links}
               added   == (tagIds \ current) \cap DOMAIN e.tag
               g == [e EXCEPT !.links = (@ \ ({s} \X (current \ tagIds))) \cup {s} \X added]
    <3>2. ReplaceTags(e, s, tagIds) = g
      BY DEF ReplaceTags
    <3>3. g.story = e.story /\ g.next = e.next /\ g.tag = e.tag
          /\ g.links = (e.links \ ({s} \X (current \ tagIds))) \cup {s} \X added
      BY <2>2 DEF LibraryOK, WellFormed
    <3> HIDE DEF g, current, added
    <3> QED BY <3>1, <3>2, <3>3
  <2> HIDE DEF f
  <2>5. ASSUME NEW t, t # s PROVE TagsOf(f, t) = TagsOf(d, t)
    BY <2>2, <2>4, <2>5 DEF TagsOf
  <2>6. \A t : t # s => Now(f, t) = Now(d, t)
    BY <2>3, <2>4, <2>5 DEF Now, FormatStory
  <2> QED BY <1>2, <2>1, <2>2, <2>3, <2>4, <2>6 DEF Now, out
<1> QED BY <1>1, <1>2

\* A deletion takes away the one story, and tells whether it was there.
LEMMA DeleteStoryIs ==
  ASSUME NEW d, NEW s, LibraryOK(d)
  PROVE  LET out == DeleteStory(d, s) IN
         /\ out.db.next = d.next /\ DOMAIN out.db.story = DOMAIN d.story \ {s}
         /\ \A t : t # s => Now(out.db, t) = Now(d, t)
         /\ s \notin DOMAIN d.story => out.res = FALSE /\ out.db = d
         /\ s \in DOMAIN d.story => out.res = TRUE
<1> DEFINE out == DeleteStory(d, s)
<1>1. CASE s \notin DOMAIN d.story
  BY <1>1 DEF DeleteStory, Result
<1>2. CASE s \in DOMAIN d.story
  <2> DEFINE e == [d EXCEPT !.story = Drop(@, {s}), !.links = {l \in @ : l[1] # s}]
  <2>1. out.db = e /\ out.res = TRUE
    BY <1>2 DEF DeleteStory, Result
  <2>2. e.story = Drop(d.story, {s}) /\ e.tag = d.tag /\ e.next = d.next
        /\ e.links = {l \in d.links : l[1] # s}
    BY DEF LibraryOK, WellFormed
  <2>3. DOMAIN e.story = DOMAIN d.story \ {s} /\ \A t \in DOMAIN e.story : e.story[t] = d.story[t]
    BY <2>2 DEF Drop
  <2> HIDE DEF e, out
  <2>4. ASSUME NEW t, t # s PROVE TagsOf(e, t) = TagsOf(d, t)
    BY <2>2, <2>4 DEF TagsOf
  <2>5. \A t : t # s => Now(e, t) = Now(d, t)
    BY <2>3, <2>4 DEF Now, FormatStory
  <2> QED BY <1>2, <2>1, <2>2, <2>3, <2>5 DEF out
<1> QED BY <1>1, <1>2
-----------------------------------------------------------------------------
(* The requests in flight, as a sequence that grows at its end and loses     *)
(* its elements one by one.                                                *)

Listed(q) == q \in Seq({q[i] : i \in DOMAIN q})

\* A queue is indexed from 1 to its length.
LEMMA ListedIs ==
  ASSUME NEW q, Listed(q)
  PROVE  Len(q) \in Nat /\ DOMAIN q = 1 .. Len(q)
  BY DEF Listed

\* What is indexed from 1 to n is a queue of n requests.
LEMMA ListedFrom ==
  ASSUME NEW n \in Nat, NEW q, q = [i \in 1 .. n |-> q[i]]
  PROVE  Listed(q) /\ Len(q) = n /\ DOMAIN q = 1 .. n
<1> DEFINE S == {q[i] : i \in 1 .. n}
<1>1. q \in [1 .. n -> S] /\ DOMAIN q = 1 .. n
  OBVIOUS
<1>2. q \in Seq(S)
  BY <1>1, SeqDef
<1> QED BY <1>1, <1>2, LenProperties DEF Listed

\* A request made is the last of the queue, and the others stay.
LEMMA AppendIs ==
  ASSUME NEW q, NEW r, Listed(q)
  PROVE  LET a == Append(q, r) IN
         /\ Listed(a) /\ Len(a) = Len(q) + 1 /\ DOMAIN a = 1 .. Len(q) + 1
         /\ \A i \in DOMAIN q : a[i] = q[i]
         /\ a[Len(q) + 1] = r
<1> DEFINE S == {q[i] : i \in DOMAIN q} \cup {r}
           a == Append(q, r)
<1>1. q \in Seq({q[i] : i \in DOMAIN q})
  BY DEF Listed
<1>2. q \in Seq(S) /\ r \in S
  BY <1>1
<1> HIDE DEF S
<1>3. a \in Seq(S) /\ Len(a) = Len(q) + 1 /\ DOMAIN q = 1 .. Len(q) /\ Len(q) \in Nat
      /\ (\A i \in 1 .. Len(q) : a[i] = q[i]) /\ a[Len(q) + 1] = r
  BY <1>2
<1> HIDE DEF a
<1>4. DOMAIN a = 1 .. Len(a) /\ a = [i \in 1 .. Len(a) |-> a[i]] /\ Len(a) \in Nat
  BY <1>3, LenProperties
<1>5. Listed(a)
  BY <1>4, ListedFrom
<1> QED BY <1>3, <1>4, <1>5 DEF a

\* Where the j-th of the requests without the i-th was before.
Old(i, j) == IF j < i THEN j ELSE j + 1

\* A rank once the rank a is closed up.
Closed(a, b) == IF a > 0 /\ b > a THEN b - 1 ELSE b

\* p is r, perhaps of another rank, and of no story if it was of the row that
\* has no id yet.
Same(p, r) ==
  /\ DOMAIN p = DOMAIN r /\ p.op = r.op /\ p.res = r.res
  /\ \A f \in DOMAIN r \ {"rank", "id"} : p[f] = r[f]
  /\ r.op = "create" => p.id = r.id
  /\ r.op \in {"update", "delete"} => p.id = r.id \/ r.id = Temp

\* w is q without its i-th request, the ranks closed up over it.
Dropped(w, q, i) ==
  /\ Listed(w) /\ Len(w) = Len(q) - 1
  /\ \A j \in DOMAIN w : /\ Old(i, j) \in DOMAIN q \ {i}
                         /\ Same(w[j], q[Old(i, j)])
                         /\ w[j].rank = Closed(q[i].rank, q[Old(i, j)].rank)
  /\ \A k \in DOMAIN q \ {i} : \E j \in DOMAIN w : Old(i, j) = k

HasFields(r) ==
  /\ {"op", "res", "rank"} \subseteq DOMAIN r /\ r.rank \in Nat
  /\ r.op \in {"list", "create", "update", "delete"}
  /\ r.op = "list" => "key" \in DOMAIN r
  /\ r.op \in {"create", "update", "delete"} => "id" \in DOMAIN r

\* Old maps the n - 1 requests left one to one onto those but the i-th.
LEMMA OldIs ==
  ASSUME NEW n \in Nat, NEW i \in 1 .. n
  PROVE  /\ n - 1 \in Nat
         /\ \A j \in 1 .. n - 1 : Old(i, j) \in (1 .. n) \ {i}
         /\ \A k \in (1 .. n) \ {i} : \E j \in 1 .. n - 1 : Old(i, j) = k
         /\ \A j, k \in 1 .. n - 1 : Old(i, j) = Old(i, k) => j = k
<1>1. n - 1 \in Nat /\ \A j \in 1 .. n - 1 : Old(i, j) \in (1 .. n) \ {i}
  BY DEF Old
<1>2. \A j, k \in 1 .. n - 1 : Old(i, j) = Old(i, k) => j = k
  BY DEF Old
<1>3. ASSUME NEW k \in (1 .. n) \ {i} PROVE \E j \in 1 .. n - 1 : Old(i, j) = k
  <2>1. CASE k < i
    BY <2>1 DEF Old
  <2>2. CASE k > i
    <3>1. k - 1 \in 1 .. n - 1 /\ ~ (k - 1 < i) /\ (k - 1) + 1 = k
      BY <2>2
    <3> QED BY <3>1 DEF Old
  <2> QED BY <2>1, <2>2
<1> QED BY <1>1, <1>2, <1>3

\* Without drops the one request.
LEMMA WithoutIs ==
  ASSUME NEW i \in DOMAIN reqs, Listed(reqs), \A j \in DOMAIN reqs : HasFields(reqs[j])
  PROVE  Dropped(Without(i), reqs, i)
<1> DEFINE n == Len(reqs)
           q == reqs
           closed(r) == IF q[i].rank > 0 /\ r.rank > q[i].rank
                          THEN [r EXCEPT !.rank = r.rank - 1] ELSE r
           rest == [j \in 1 .. n - 1 |-> closed(q[Old(i, j)])]
           left(r) == IF q[i].op = "create" /\ r.op \in {"update", "delete"} /\ r.id = Temp
                        THEN [r EXCEPT !.id = Null] ELSE r
           w == [j \in 1 .. n - 1 |-> left(rest[j])]
<1>1. n \in Nat /\ DOMAIN reqs = 1 .. n
  BY ListedIs
<1>2. /\ n - 1 \in Nat
      /\ \A j \in 1 .. n - 1 : Old(i, j) \in (1 .. n) \ {i}
      /\ \A k \in (1 .. n) \ {i} : \E j \in 1 .. n - 1 : Old(i, j) = k
  BY <1>1, OldIs
<1>3. Without(i) = w
  <2>1. Rest(i) = rest
    BY DEF Rest, Old
  <2> QED BY <2>1 DEF Without
<1>4. ASSUME NEW r, HasFields(r)
      PROVE  /\ Same(closed(r), r) /\ closed(r).rank = Closed(q[i].rank, r.rank) /\ HasFields(closed(r))
  <2>1. q[i].rank \in Nat
    BY <1>1 DEF HasFields
  <2> QED BY <1>4, <2>1 DEF HasFields, Same, Closed
<1>5. ASSUME NEW p, NEW r, Same(p, r), HasFields(p)
      PROVE  Same(left(p), r) /\ left(p).rank = p.rank
  BY <1>5 DEF Same, HasFields
<1> HIDE DEF closed, left
<1>6. \A j \in 1 .. n - 1 : Same(w[j], q[Old(i, j)]) /\ w[j].rank = Closed(q[i].rank, q[Old(i, j)].rank)
  <2> SUFFICES ASSUME NEW j \in 1 .. n - 1
               PROVE  Same(w[j], q[Old(i, j)]) /\ w[j].rank = Closed(q[i].rank, q[Old(i, j)].rank)
    OBVIOUS
  <2>1. HasFields(q[Old(i, j)]) /\ rest[j] = closed(q[Old(i, j)]) /\ w[j] = left(rest[j])
    BY <1>1, <1>2
  <2> HIDE DEF rest, w
  <2> QED BY <1>4, <1>5, <2>1
<1>7. w = [j \in 1 .. n - 1 |-> w[j]]
  OBVIOUS
<1> HIDE DEF w
<1>8. Listed(w) /\ Len(w) = n - 1 /\ DOMAIN w = 1 .. n - 1
  BY <1>2, <1>7, ListedFrom
<1> QED BY <1>1, <1>2, <1>3, <1>6, <1>8 DEF Dropped

\* Served changes the one request.
LEMMA ServedIs ==
  ASSUME NEW i \in DOMAIN reqs, NEW res, Listed(reqs), HasFields(reqs[i])
  PROVE  LET q == Served(i, res) IN
         /\ Listed(q) /\ Len(q) = Len(reqs) /\ DOMAIN q = DOMAIN reqs
         /\ \A j \in DOMAIN reqs \ {i} : q[j] = reqs[j]
         /\ q[i] = [reqs[i] EXCEPT !.res = res, !.rank = NextRank]
<1> DEFINE q == Served(i, res)
<1>1. Len(reqs) \in Nat /\ DOMAIN reqs = 1 .. Len(reqs)
  BY ListedIs
<1>2. /\ q = [j \in 1 .. Len(reqs) |-> q[j]]
      /\ \A j \in DOMAIN reqs \ {i} : q[j] = reqs[j]
      /\ q[i] = [reqs[i] EXCEPT !.res = res, !.rank = NextRank]
  BY <1>1 DEF Served
<1> HIDE DEF q
<1>3. Listed(q) /\ Len(q) = Len(reqs) /\ DOMAIN q = 1 .. Len(reqs)
  BY <1>1, <1>2, ListedFrom
<1> QED BY <1>1, <1>2, <1>3 DEF q
-----------------------------------------------------------------------------
(* No two requests in flight are for the same list, no two create a story, *)
(* and those that were served have ranks of their own.                     *)

\* The requests that were served.
Answerable(q) == {i \in DOMAIN q : q[i].rank > 0}

Apart(q) ==
  /\ \A i, j \in DOMAIN q : i # j =>
       /\ q[i].op = "list" /\ q[j].op = "list" => q[i].key # q[j].key
       /\ ~ (q[i].op = "create" /\ q[j].op = "create")
       /\ q[i].rank > 0 => q[i].rank # q[j].rank
  /\ \A i \in DOMAIN q : q[i].rank <= Cardinality(Answerable(q))

\* The requests served are finitely many.
LEMMA AnswerableFinite ==
  ASSUME NEW q, Listed(q)
  PROVE  IsFiniteSet(Answerable(q)) /\ Cardinality(Answerable(q)) \in Nat
<1>1. Len(q) \in Nat /\ Answerable(q) \in SUBSET (1 .. Len(q))
  BY ListedIs DEF Answerable
<1> QED BY <1>1, IdsFinite

\* A request that is not served yet keeps the others apart, if it is not for the
\* list of another one, nor a second creation.
LEMMA AppendApart ==
  ASSUME NEW q, NEW r, Listed(q), Apart(q), r.rank = 0,
         r.op = "list" => \A i \in DOMAIN q : q[i].op = "list" => q[i].key # r.key,
         r.op = "create" => \A i \in DOMAIN q : q[i].op # "create"
  PROVE  Apart(Append(q, r))
<1> DEFINE a == Append(q, r)
           n == Len(q)
<1>1. /\ n \in Nat /\ DOMAIN q = 1 .. n /\ DOMAIN a = 1 .. n + 1
      /\ \A i \in 1 .. n : a[i] = q[i]
      /\ a[n + 1] = r
  BY ListedIs, AppendIs
<1> HIDE DEF a
<1>2. Answerable(a) = Answerable(q)
  <2>1. \A i : i \in 1 .. n + 1 <=> i \in 1 .. n \/ i = n + 1
    BY <1>1
  <2>2. n + 1 \notin Answerable(a)
    BY <1>1 DEF Answerable
  <2>3. \A i \in 1 .. n : i \in Answerable(a) <=> i \in Answerable(q)
    BY <1>1, <2>1 DEF Answerable
  <2>4. Answerable(a) \subseteq 1 .. n + 1 /\ Answerable(q) \subseteq 1 .. n
    BY <1>1 DEF Answerable
  <2> QED BY <2>1, <2>2, <2>3, <2>4
<1>3. Cardinality(Answerable(q)) \in Nat
  BY AnswerableFinite
<1>4. \A i \in DOMAIN a : (i \in DOMAIN q /\ a[i] = q[i]) \/ (i = n + 1 /\ a[i] = r)
  BY <1>1
<1> HIDE DEF n
<1>5. \A i \in DOMAIN a : a[i].rank <= Cardinality(Answerable(a))
  BY <1>2, <1>3, <1>4 DEF Apart
<1>6. ASSUME NEW i \in DOMAIN a, NEW j \in DOMAIN a, i # j
      PROVE  /\ a[i].op = "list" /\ a[j].op = "list" => a[i].key # a[j].key
             /\ ~ (a[i].op = "create" /\ a[j].op = "create")
             /\ a[i].rank > 0 => a[i].rank # a[j].rank
  <2>1. CASE i \in DOMAIN q /\ a[i] = q[i] /\ j \in DOMAIN q /\ a[j] = q[j]
    BY <1>6, <2>1 DEF Apart
  <2>2. CASE i \in DOMAIN q /\ a[i] = q[i] /\ a[j] = r
    BY <2>2
  <2>3. CASE a[i] = r /\ j \in DOMAIN q /\ a[j] = q[j]
    BY <2>3
  <2> QED BY <1>4, <1>6, <2>1, <2>2, <2>3
<1> QED BY <1>5, <1>6 DEF Apart, a

\* Ranks are closed up over a request that is dropped, and stay different.
LEMMA DroppedApart ==
  ASSUME NEW q, NEW w, NEW i \in DOMAIN q, Listed(q), Apart(q), Dropped(w, q, i),
         \A j \in DOMAIN q : HasFields(q[j])
  PROVE  Apart(w)
<1> DEFINE n == Len(q)
<1>1. n \in Nat /\ DOMAIN q = 1 .. n /\ DOMAIN w = 1 .. n - 1
  BY ListedIs DEF Dropped
<1>2. /\ \A j \in DOMAIN w : /\ Old(i, j) \in DOMAIN q \ {i}
                             /\ Same(w[j], q[Old(i, j)])
                             /\ w[j].rank = Closed(q[i].rank, q[Old(i, j)].rank)
      /\ \A k \in DOMAIN q \ {i} : \E j \in DOMAIN w : Old(i, j) = k
  BY DEF Dropped
<1>3. \A j, k \in DOMAIN w : Old(i, j) = Old(i, k) => j = k
  BY <1>1, OldIs
<1>4. \A j \in DOMAIN q : q[j].rank \in Nat
  BY DEF HasFields
<1>5. \A j \in DOMAIN w : /\ w[j].rank \in Nat
                          /\ w[j].rank > 0 <=> q[Old(i, j)].rank > 0
  BY <1>2, <1>4 DEF Closed
<1> DEFINE f == [j \in Answerable(w) |-> Old(i, j)]
<1>6. f \in Bijection(Answerable(w), Answerable(q) \ {i})
  <2>1. f \in [Answerable(w) -> Answerable(q) \ {i}]
    BY <1>2, <1>5 DEF Answerable
  <2>2. \A j, k \in Answerable(w) : f[j] = f[k] => j = k
    BY <1>3 DEF Answerable
  <2>3. \A k \in Answerable(q) \ {i} : \E j \in Answerable(w) : f[j] = k
    BY <1>2, <1>5 DEF Answerable
  <2> HIDE DEF f
  <2> QED BY <2>1, <2>2, <2>3 DEF Bijection, Injection, IsInjective, Surjection
<1>7. IsFiniteSet(Answerable(q)) /\ Cardinality(Answerable(q)) \in Nat
      /\ IsFiniteSet(Answerable(w)) /\ Cardinality(Answerable(w)) \in Nat
  BY AnswerableFinite DEF Dropped
<1>8. Cardinality(Answerable(w)) = Cardinality(Answerable(q) \ {i})
  <2> HIDE DEF f
  <2>1. ExistsBijection(Answerable(w), Answerable(q) \ {i})
    BY <1>6 DEF ExistsBijection
  <2> QED BY <1>7, <2>1, FS_Bijection
<1>9. Cardinality(Answerable(q) \ {i}) =
        IF i \in Answerable(q) THEN Cardinality(Answerable(q)) - 1 ELSE Cardinality(Answerable(q))
  BY <1>7, FS_RemoveElement
<1>10. \A j \in DOMAIN w : w[j].rank <= Cardinality(Answerable(w))
  <2> SUFFICES ASSUME NEW j \in DOMAIN w  PROVE w[j].rank <= Cardinality(Answerable(w))
    OBVIOUS
  <2>1. /\ Old(i, j) \in DOMAIN q /\ Old(i, j) # i
        /\ w[j].rank = Closed(q[i].rank, q[Old(i, j)].rank)
        /\ q[i].rank \in Nat /\ q[Old(i, j)].rank \in Nat
    BY <1>2, <1>4
  <2>2. /\ q[i].rank <= Cardinality(Answerable(q)) /\ q[Old(i, j)].rank <= Cardinality(Answerable(q))
        /\ q[i].rank > 0 => q[i].rank # q[Old(i, j)].rank
    BY <2>1 DEF Apart
  <2>3. i \in Answerable(q) <=> q[i].rank > 0
    BY DEF Answerable
  <2> HIDE DEF f
  <2> QED BY <1>7, <1>8, <1>9, <2>1, <2>2, <2>3 DEF Closed
<1>11. ASSUME NEW j \in DOMAIN w, NEW k \in DOMAIN w, j # k
       PROVE  /\ w[j].op = "list" /\ w[k].op = "list" => w[j].key # w[k].key
              /\ ~ (w[j].op = "create" /\ w[k].op = "create")
              /\ w[j].rank > 0 => w[j].rank # w[k].rank
  <2> DEFINE r == q[Old(i, j)]
             p == q[Old(i, k)]
  <2>1. /\ Old(i, j) \in DOMAIN q /\ Old(i, k) \in DOMAIN q /\ Old(i, j) # Old(i, k)
        /\ Old(i, j) # i /\ Old(i, k) # i
    BY <1>2, <1>3, <1>11
  <2>2. /\ r.op = "list" /\ p.op = "list" => r.key # p.key
        /\ ~ (r.op = "create" /\ p.op = "create")
        /\ r.rank > 0 => r.rank # p.rank
        /\ q[i].rank > 0 => q[i].rank # r.rank /\ q[i].rank # p.rank
    BY <2>1 DEF Apart
  <2>3. /\ Same(w[j], r) /\ Same(w[k], p)
        /\ w[j].rank = Closed(q[i].rank, r.rank) /\ w[k].rank = Closed(q[i].rank, p.rank)
        /\ r.rank \in Nat /\ p.rank \in Nat /\ q[i].rank \in Nat
    BY <1>2, <1>4, <2>1
  <2> HIDE DEF r, p, f
  <2>5. w[j].rank > 0 => w[j].rank # w[k].rank
    BY <2>2, <2>3 DEF Closed
  <2>6. w[j].op = r.op /\ w[k].op = p.op
    BY <2>3 DEF Same
  <2>7. "key" \in DOMAIN r => w[j].key = r.key
    BY <2>3 DEF Same
  <2>8. "key" \in DOMAIN p => w[k].key = p.key
    BY <2>3 DEF Same
  <2>9. (r.op = "list" => "key" \in DOMAIN r) /\ (p.op = "list" => "key" \in DOMAIN p)
    BY <2>1 DEF HasFields, r, p
  <2> QED BY <2>2, <2>5, <2>6, <2>7, <2>8, <2>9
<1> QED BY <1>10, <1>11 DEF Apart

\* A request that is served ranks after all those served before it.
LEMMA ServedApart ==
  ASSUME NEW q, NEW w, NEW i \in DOMAIN q, Listed(q), Apart(q), DOMAIN w = DOMAIN q,
         q[i].rank = 0, w[i].rank = 1 + Cardinality(Answerable(q)),
         w[i].op = q[i].op, q[i].op = "list" => w[i].key = q[i].key,
         \A j \in DOMAIN q \ {i} : w[j] = q[j],
         \A j \in DOMAIN q : HasFields(q[j])
  PROVE  Apart(w) /\ \A j \in DOMAIN q \ {i} : w[j].rank < w[i].rank
<1>1. IsFiniteSet(Answerable(q)) /\ Cardinality(Answerable(q)) \in Nat
  BY AnswerableFinite
<1>2. Answerable(w) = Answerable(q) \cup {i} /\ i \notin Answerable(q)
  BY <1>1 DEF Answerable
<1>3. Cardinality(Answerable(w)) = Cardinality(Answerable(q)) + 1
  BY <1>1, <1>2, FS_AddElement
<1>4. \A j \in DOMAIN q : q[j].rank \in Nat /\ q[j].rank <= Cardinality(Answerable(q))
  BY DEF Apart, HasFields
<1>5. \A j \in DOMAIN q \ {i} : w[j].rank < w[i].rank
  BY <1>1, <1>4
<1>6. \A j \in DOMAIN w : w[j].rank <= Cardinality(Answerable(w))
  BY <1>1, <1>3, <1>4
<1>7. ASSUME NEW j \in DOMAIN w, NEW k \in DOMAIN w, j # k
      PROVE  /\ w[j].op = "list" /\ w[k].op = "list" => w[j].key # w[k].key
             /\ ~ (w[j].op = "create" /\ w[k].op = "create")
             /\ w[j].rank > 0 => w[j].rank # w[k].rank
  <2>1. /\ q[j].op = "list" /\ q[k].op = "list" => q[j].key # q[k].key
        /\ ~ (q[j].op = "create" /\ q[k].op = "create")
        /\ q[j].rank > 0 => q[j].rank # q[k].rank
    BY <1>7 DEF Apart
  <2>2. CASE j = i
    BY <1>4, <1>5, <1>7, <2>1, <2>2
  <2>3. CASE k = i
    BY <1>4, <1>5, <1>7, <2>1, <2>3
  <2>4. CASE j # i /\ k # i
    BY <2>1, <2>4
  <2> QED BY <2>2, <2>3, <2>4
<1> QED BY <1>5, <1>6, <1>7 DEF Apart
-----------------------------------------------------------------------------
(* What the store and the requests in flight look like, when the next id   *)
(* is n.                                                                   *)

\* The ids given out.
Used(n) == 1 .. n - 1

\* A page refers to ids given out; it ends at its cursor.
PageOK(p, n) ==
  /\ DOMAIN p.stories \subseteq Used(n) /\ p.hasNextPage \in BOOLEAN
  /\ \A s \in DOMAIN p.stories : p.stories[s] \in Story
  /\ DOMAIN p.stories = {} => p.endCursor = Null /\ ~ p.hasNextPage
  /\ DOMAIN p.stories # {} => /\ p.endCursor \in DOMAIN p.stories
                              /\ \A s \in DOMAIN p.stories : p.endCursor <= s

\* The fields of a list.
Fields == {"edges", "hasNextPage", "endCursor", "totalCount", "tag", "steady"}

\* A list is in order and ends at its cursor, if it has one; it has one when
\* another page follows.
ListOK(l, n) ==
  /\ DOMAIN l = Fields
  /\ l.edges \in Seq(Used(n)) /\ l.hasNextPage \in BOOLEAN
  /\ \A i, j \in DOMAIN l.edges : i < j => l.edges[i] > l.edges[j]
  /\ l.hasNextPage => l.endCursor # Null
  /\ l.endCursor # Null => /\ l.endCursor \in ToSet(l.edges)
                           /\ \A s \in ToSet(l.edges) : l.endCursor <= s

\* The ids that a request asks for.
Below(r, s) == r.after = Null \/ s < r.after

\* A first page is asked for a list that the store does not have, another one
\* from the cursor of the list it is for.
ListRequestOK(r, n, ls) ==
  /\ {"key", "after", "found", "steady"} \subseteq DOMAIN r
  /\ r.key \in Keys /\ (r.key = All => r.found = Null)
  /\ r.after = Null => r.key \notin DOMAIN ls
  /\ r.after # Null => r.key \in DOMAIN ls /\ r.after = ls[r.key].endCursor
  /\ r.rank > 0 => PageOK(r.res, n) /\ \A s \in DOMAIN r.res.stories : Below(r, s)

\* A story is created while the store has the list of all stories, and is newer
\* than those in it.
CreateRequestOK(r, n, ls) ==
  /\ {"title", "tags"} \subseteq DOMAIN r /\ r.title \in Titles /\ r.id = Temp /\ All \in DOMAIN ls
  /\ r.rank > 0 => /\ r.res.id \in Used(n) /\ r.res.story \in Story
                   /\ \A s \in ToSet(ls[All].edges) : s < r.res.id

\* An update that was served tells of a story that there was.
UpdateRequestOK(r, n) ==
  /\ {"title", "tags"} \subseteq DOMAIN r /\ r.title \in Titles \cup {Null}
  /\ r.rank > 0 /\ r.res # Null => r.id \in Used(n) /\ r.res \in Story

\* A deletion that was served tells of a story that there was.
DeleteRequestOK(r, n) == r.rank > 0 => r.res \in BOOLEAN /\ (r.res => r.id \in Used(n))

\* What a request asks for, and its answer.
RequestOK(r, n, ls) ==
  /\ HasFields(r)
  /\ r.op = "list" => ListRequestOK(r, n, ls)
  /\ r.op = "create" => CreateRequestOK(r, n, ls)
  /\ r.op = "update" => UpdateRequestOK(r, n)
  /\ r.op = "delete" => DeleteRequestOK(r, n)

\* The requests in flight.
QueueOK(q, n, ls) ==
  /\ Listed(q) /\ Apart(q)
  /\ \A i \in DOMAIN q : RequestOK(q[i], n, ls)

\* The lists are in order, and of stories that the store has.
StoreOK(ls, rc, n) ==
  /\ DOMAIN ls \subseteq Keys
  /\ \A k \in DOMAIN ls : ListOK(ls[k], n) /\ ToSet(ls[k].edges) \subseteq DOMAIN rc
  /\ \A s \in DOMAIN rc : s \in Used(n) /\ rc[s] \in Story \cup {Gone}

\* The inductive invariant: the library is sound, its ids are within the bound,
\* the lists and the requests in flight are sound for it.
Shape ==
  /\ LibraryOK(db) /\ db.next <= MaxIds + 1
  /\ StoreOK(lists, rec, db.next)
  /\ QueueOK(reqs, db.next, lists) /\ Len(reqs) <= MaxRequests
  /\ view \in Keys /\ changes \in 0 .. MaxChanges /\ disturbed \in BOOLEAN
-----------------------------------------------------------------------------
(* Pages and lists. *)

\* Stories have ids that were given out.
LEMMA StoriesUsed ==
  ASSUME NEW d, LibraryOK(d)
  PROVE  /\ d.next \in Nat \ {0} /\ d.next - 1 \in Nat /\ DOMAIN d.story \subseteq Used(d.next)
         /\ \A t : TaggedWith(d, t) \subseteq DOMAIN d.story
         /\ \A k : Members(d, k) \subseteq DOMAIN d.story
<1>1. d.next \in Nat \ {0} /\ DOMAIN d.story \subseteq Used(d.next)
  BY DEF LibraryOK, IdsUsed, Used
<1>2. d.next - 1 \in Nat
  BY <1>1
<1>3. \A t : TaggedWith(d, t) \subseteq DOMAIN d.story
  BY DEF TaggedWith, LibraryOK, Linked
<1>4. \A k : Members(d, k) \subseteq DOMAIN d.story
  BY <1>3 DEF Members
<1> QED BY <1>1, <1>2, <1>3, <1>4

\* What a sound library tells of a story is one.
LEMMA FormatStoryOK ==
  ASSUME NEW d, NEW s \in DOMAIN d.story, LibraryOK(d), d.next <= MaxIds + 1
  PROVE  FormatStory(d, s) \in Story /\ Now(d, s) \in Story
<1>1. d.story[s] \in Titles
  BY DEF LibraryOK, WellFormed
<1>2. DOMAIN d.tag \subseteq 1 .. MaxIds
  <2>1. d.next \in Nat /\ MaxIds \in Nat /\ DOMAIN d.tag \subseteq 1 .. d.next - 1
    BY WindowAssumption, LibrariesAssumption DEF LibraryOK, IdsUsed
  <2> QED BY <2>1
<1>3. TagsOf(d, s) \subseteq DOMAIN d.tag
  BY DEF TagsOf
<1> QED BY <1>1, <1>2, <1>3 DEF FormatStory, Story, Now

\* A page of stories of the library.
LEMMA PageServed ==
  ASSUME NEW d, NEW S \in SUBSET DOMAIN d.story, NEW after, NEW total,
         after = Null \/ after \in Nat, LibraryOK(d), d.next <= MaxIds + 1
  PROVE  LET p == PageOf(d, Before(S, after), First, total) IN
         /\ PageOK(p, d.next)
         /\ \A s \in DOMAIN p.stories : (after = Null \/ s < after) /\ s \in S /\ p.stories[s] = Now(d, s)
         /\ \A s \in S : (after = Null \/ s < after) /\ (~ p.hasNextPage \/ s >= p.endCursor)
              => s \in DOMAIN p.stories
<1> DEFINE n == d.next - 1
           B == Before(S, after)
           p == PageOf(d, B, First, total)
<1>1. n \in Nat /\ S \in SUBSET (1 .. n) /\ DOMAIN d.story \subseteq Used(d.next)
  BY StoriesUsed DEF Used
<1>2. B \in SUBSET S /\ \A s \in S : s \in B <=> after = Null \/ s < after
  BY DEF Before
<1>3. B \in SUBSET (1 .. n) /\ First \in Nat \ {0}
  BY <1>1, <1>2, WindowAssumption, LibrariesAssumption
<1> HIDE DEF n, B
<1>4. /\ DOMAIN p.stories \in SUBSET B /\ p.hasNextPage \in BOOLEAN
      /\ \A s \in DOMAIN p.stories : p.stories[s] = FormatStory(d, s)
      /\ DOMAIN p.stories = {} => p.endCursor = Null /\ ~ p.hasNextPage
      /\ DOMAIN p.stories # {} => /\ p.endCursor \in DOMAIN p.stories
                                  /\ \A s \in DOMAIN p.stories : p.endCursor <= s
      /\ \A s \in B : ~ p.hasNextPage \/ s >= p.endCursor => s \in DOMAIN p.stories
  BY <1>1, <1>3, PageOfIs
<1> HIDE DEF p
<1>5. \A s \in DOMAIN p.stories : s \in DOMAIN d.story /\ s \in S /\ s \in B
  BY <1>2, <1>4
<1>6. \A s \in DOMAIN p.stories : p.stories[s] \in Story /\ p.stories[s] = Now(d, s)
  BY <1>4, <1>5, FormatStoryOK DEF Now
<1>7. PageOK(p, d.next)
  BY <1>1, <1>4, <1>5, <1>6 DEF PageOK
<1> QED BY <1>2, <1>4, <1>5, <1>6, <1>7 DEF p, B

\* The connection made of a page is a list of its stories.
LEMMA ConnectionOK ==
  ASSUME NEW p, NEW n \in Nat \ {0}, NEW tag, NEW steady, PageOK(p, n)
  PROVE  LET l == Connection(p, tag, steady) IN
         /\ ListOK(l, n) /\ ToSet(l.edges) = DOMAIN p.stories
         /\ l.tag = tag /\ l.steady = steady
         /\ l.hasNextPage = p.hasNextPage /\ l.endCursor = p.endCursor
<1> DEFINE S == DOMAIN p.stories
           E == Descending(S)
           l == Connection(p, tag, steady)
<1>1. n - 1 \in Nat /\ S \in SUBSET (1 .. n - 1)
  BY DEF PageOK, Used
<1>2. /\ E \in Seq(S) /\ ToSet(E) = S
      /\ \A i, j \in DOMAIN E : i < j => E[i] > E[j]
  BY <1>1, DescendingIs
<1>3. /\ DOMAIN l = Fields /\ l.edges = E /\ l.hasNextPage = p.hasNextPage /\ l.endCursor = p.endCursor
      /\ l.tag = tag /\ l.steady = steady
  BY DEF Connection, Fields
<1> HIDE DEF E, l
<1>4. E \in Seq(Used(n))
  BY <1>1, <1>2 DEF Used
<1>5. l.hasNextPage \in BOOLEAN /\ (l.hasNextPage => l.endCursor # Null)
  <2>1. \A s \in S : s # Null
    BY <1>1, LibraryAssumption
  <2> QED BY <1>3, <2>1 DEF PageOK
<1>6. l.endCursor # Null => l.endCursor \in S /\ \A s \in S : l.endCursor <= s
  BY <1>3 DEF PageOK
<1> QED BY <1>2, <1>3, <1>4, <1>5, <1>6 DEF ListOK, l

\* What is in two sequences joined.
LEMMA ConcatIs ==
  ASSUME NEW S, NEW s \in Seq(S), NEW t \in Seq(S)
  PROVE  /\ s \o t \in Seq(S) /\ ToSet(s \o t) = ToSet(s) \cup ToSet(t)
         /\ \A i \in DOMAIN (s \o t) : \/ i \in DOMAIN s /\ (s \o t)[i] = s[i]
                                       \/ i > Len(s) /\ i - Len(s) \in DOMAIN t /\ (s \o t)[i] = t[i - Len(s)]
<1> DEFINE u == s \o t
<1>1. /\ u \in Seq(S) /\ DOMAIN u = 1 .. Len(s) + Len(t) /\ DOMAIN s = 1 .. Len(s) /\ DOMAIN t = 1 .. Len(t)
      /\ Len(s) \in Nat /\ Len(t) \in Nat
      /\ \A i \in 1 .. Len(s) + Len(t) : u[i] = IF i <= Len(s) THEN s[i] ELSE t[i - Len(s)]
  OBVIOUS
<1> HIDE DEF u
<1>2. \A i \in DOMAIN u : \/ i \in DOMAIN s /\ u[i] = s[i]
                          \/ i > Len(s) /\ i - Len(s) \in DOMAIN t /\ u[i] = t[i - Len(s)]
  BY <1>1
<1>3. \A i \in DOMAIN s : i \in DOMAIN u /\ u[i] = s[i]
  BY <1>1
<1>4. \A i \in DOMAIN t : Len(s) + i \in DOMAIN u /\ u[Len(s) + i] = t[i]
  <2> TAKE i \in DOMAIN t
  <2>1. /\ i \in Nat /\ Len(s) + i \in 1 .. Len(s) + Len(t)
        /\ ~ (Len(s) + i <= Len(s)) /\ (Len(s) + i) - Len(s) = i
    BY <1>1
  <2> QED BY <1>1, <2>1
<1>5. ToSet(u) \subseteq ToSet(s) \cup ToSet(t)
  BY <1>2 DEF ToSet
<1>6. ToSet(s) \subseteq ToSet(u) /\ ToSet(t) \subseteq ToSet(u)
  BY <1>3, <1>4 DEF ToSet
<1> QED BY <1>1, <1>2, <1>5, <1>6 DEF u

\* Two sequences that descend, the first one above the second, descend joined.
LEMMA ConcatDescends ==
  ASSUME NEW S \in SUBSET Nat, NEW s \in Seq(S), NEW t \in Seq(S),
         \A i, j \in DOMAIN s : i < j => s[i] > s[j],
         \A i, j \in DOMAIN t : i < j => t[i] > t[j],
         \A x \in ToSet(s) : \A z \in ToSet(t) : x > z
  PROVE  \A i, j \in DOMAIN (s \o t) : i < j => (s \o t)[i] > (s \o t)[j]
<1> DEFINE u == s \o t
<1>1. /\ \A i \in DOMAIN u : \/ i \in DOMAIN s /\ u[i] = s[i]
                             \/ i > Len(s) /\ i - Len(s) \in DOMAIN t /\ u[i] = t[i - Len(s)]
      /\ u \in Seq(S) /\ DOMAIN u \subseteq Nat /\ Len(s) \in Nat /\ DOMAIN s = 1 .. Len(s)
  BY ConcatIs
<1> HIDE DEF u
<1> SUFFICES ASSUME NEW i \in DOMAIN u, NEW j \in DOMAIN u, i < j  PROVE u[i] > u[j]
  BY DEF u
<1>2. i \in Nat /\ j \in Nat
  BY <1>1
<1>3. CASE i \in DOMAIN s /\ u[i] = s[i] /\ j \in DOMAIN s /\ u[j] = s[j]
  BY <1>3
<1>4. CASE i \in DOMAIN s /\ u[i] = s[i] /\ j - Len(s) \in DOMAIN t /\ u[j] = t[j - Len(s)]
  BY <1>4 DEF ToSet
<1>5. CASE i - Len(s) \in DOMAIN t /\ u[i] = t[i - Len(s)] /\ j - Len(s) \in DOMAIN t /\ u[j] = t[j - Len(s)]
  <2>1. i - Len(s) < j - Len(s)
    BY <1>1, <1>2
  <2> QED BY <1>5, <2>1
<1>6. ~ (i > Len(s) /\ j \in DOMAIN s)
  BY <1>1, <1>2
<1> QED BY <1>1, <1>3, <1>4, <1>5, <1>6

\* The page that follows a list is put after it.
Appended(l, p, new) ==
  [l EXCEPT !.edges = @ \o new, !.hasNextPage = p.hasNextPage,
            !.endCursor = IF p.endCursor = Null THEN @ ELSE p.endCursor,
            !.totalCount = p.totalCount]

\* A page below the cursor of a list extends it to its own cursor.
LEMMA AppendedOK ==
  ASSUME NEW l, NEW p, NEW n \in Nat \ {0}, ListOK(l, n), PageOK(p, n), l.endCursor # Null,
         \A s \in DOMAIN p.stories : s < l.endCursor
  PROVE  LET m == Appended(l, p, Descending(DOMAIN p.stories \ ToSet(l.edges))) IN
         /\ ListOK(m, n) /\ ToSet(m.edges) = ToSet(l.edges) \cup DOMAIN p.stories
         /\ m.hasNextPage = p.hasNextPage /\ m.tag = l.tag /\ m.steady = l.steady
         /\ m.endCursor = IF p.endCursor = Null THEN l.endCursor ELSE p.endCursor
<1> DEFINE S == DOMAIN p.stories
           old == ToSet(l.edges)
           E == Descending(S \ old)
           m == Appended(l, p, E)
<1>1. /\ l.edges \in Seq(Used(n)) /\ l.endCursor \in old /\ \A s \in old : l.endCursor <= s
      /\ \A i, j \in DOMAIN l.edges : i < j => l.edges[i] > l.edges[j]
  BY DEF ListOK
<1>2. old \subseteq Used(n) /\ S \subseteq Used(n) /\ Used(n) \subseteq Nat
  BY <1>1 DEF ToSet, PageOK, Used
<1>3. \A s \in old : \A t \in S : s > t
  BY <1>1, <1>2
<1>4. S \ old = S
  BY <1>2, <1>3
<1>5. n - 1 \in Nat /\ S \in SUBSET (1 .. n - 1)
  BY <1>2 DEF Used
<1>6. /\ E \in Seq(S) /\ ToSet(E) = S
      /\ \A i, j \in DOMAIN E : i < j => E[i] > E[j]
  BY <1>4, <1>5, DescendingIs
<1>7. /\ DOMAIN m = Fields /\ m.edges = l.edges \o E /\ m.hasNextPage = p.hasNextPage
      /\ m.endCursor = (IF p.endCursor = Null THEN l.endCursor ELSE p.endCursor)
      /\ m.tag = l.tag /\ m.steady = l.steady
  BY DEF Appended, ListOK, Fields
<1> HIDE DEF S, old, E, m
<1>8. E \in Seq(Used(n))
  BY <1>2, <1>6
<1>9. m.edges \in Seq(Used(n)) /\ ToSet(m.edges) = old \cup S
  BY <1>1, <1>6, <1>7, <1>8, ConcatIs DEF old
<1>10. \A i, j \in DOMAIN m.edges : i < j => m.edges[i] > m.edges[j]
  BY <1>1, <1>2, <1>3, <1>6, <1>7, <1>8, ConcatDescends DEF old
<1>11. m.endCursor # Null /\ m.endCursor \in old \cup S /\ \A s \in old \cup S : m.endCursor <= s
  <2>1. CASE p.endCursor = Null
    <3>1. S = {}
      <4>1. p.endCursor \notin Nat
        BY <2>1, LibraryAssumption
      <4> QED BY <1>2, <4>1 DEF PageOK, S
    <3> QED BY <1>1, <1>7, <2>1, <3>1
  <2>2. CASE p.endCursor # Null
    <3>1. p.endCursor \in S /\ \A s \in S : p.endCursor <= s
      BY <2>2 DEF PageOK, S
    <3>2. \A s \in old : p.endCursor <= s
      BY <1>2, <1>3, <3>1
    <3> QED BY <1>7, <2>2, <3>1, <3>2
  <2> QED BY <2>1, <2>2
<1>12. m.hasNextPage \in BOOLEAN
  BY <1>7 DEF PageOK
<1> QED BY <1>7, <1>9, <1>10, <1>11, <1>12 DEF ListOK, m, E, S, old

\* A story that is newer than those of a list is put before them.
LEMMA PrependedOK ==
  ASSUME NEW l, NEW n \in Nat \ {0}, ListOK(l, n), NEW new \in Used(n),
         \A s \in ToSet(l.edges) : s < new
  PROVE  LET m == [l EXCEPT !.edges = <<new>> \o @] IN
         /\ ListOK(m, n) /\ ToSet(m.edges) = ToSet(l.edges) \cup {new}
         /\ \A f \in DOMAIN l \ {"edges"} : m[f] = l[f]
<1> DEFINE m == [l EXCEPT !.edges = <<new>> \o @]
           one == <<new>>
<1>1. /\ l.edges \in Seq(Used(n)) /\ DOMAIN l = Fields
      /\ \A i, j \in DOMAIN l.edges : i < j => l.edges[i] > l.edges[j]
  BY DEF ListOK
<1>2. one \in Seq(Used(n)) /\ ToSet(one) = {new} /\ DOMAIN one = {1}
  BY DEF ToSet
<1>3. /\ DOMAIN m = Fields /\ m.edges = one \o l.edges /\ m.hasNextPage = l.hasNextPage
      /\ m.endCursor = l.endCursor /\ \A f \in DOMAIN l \ {"edges"} : m[f] = l[f]
  BY <1>1 DEF Fields
<1>4. ToSet(l.edges) \subseteq Used(n) /\ Used(n) \in SUBSET Nat
  BY <1>1 DEF ToSet, Used
<1> HIDE DEF m, one
<1>5. m.edges \in Seq(Used(n)) /\ ToSet(m.edges) = ToSet(l.edges) \cup {new}
  BY <1>1, <1>2, <1>3, ConcatIs
<1>6. \A i, j \in DOMAIN m.edges : i < j => m.edges[i] > m.edges[j]
  <2>1. \A i, j \in DOMAIN one : i < j => one[i] > one[j]
    BY <1>2
  <2>2. \A x \in ToSet(one) : \A z \in ToSet(l.edges) : x > z
    BY <1>2, <1>4
  <2> QED BY <1>1, <1>2, <1>3, <1>4, <2>1, <2>2, ConcatDescends
<1>7. l.endCursor # Null => m.endCursor \in ToSet(m.edges) /\ \A s \in ToSet(m.edges) : m.endCursor <= s
  BY <1>3, <1>4, <1>5 DEF ListOK
<1> QED BY <1>3, <1>5, <1>6, <1>7 DEF ListOK, m, one
-----------------------------------------------------------------------------
(* Each handler keeps the library sound.  A handler's result is unfolded   *)
(* once, in the database it leaves.                                        *)

\* ReplaceTags only links a story that exists to tags that exist.
LEMMA ReplaceTagsOK ==
  ASSUME NEW d, NEW s, NEW tagIds, LibraryOK(d), s \in DOMAIN d.story
  PROVE  LibraryOK(ReplaceTags(d, s, tagIds))
  BY DEF ReplaceTags, LibraryOK, WellFormed, IdsUsed, Linked, NamesDiffer

LEMMA CreateStoryOK ==
  ASSUME NEW d, NEW urlOk, NEW title \in Titles, NEW tagIds, LibraryOK(d)
  PROVE  LibraryOK(CreateStory(d, urlOk, title, tagIds).db)
<1> DEFINE s == d.next
           e == [d EXCEPT !.story = Put(@, s, title),
                          !.links = @ \cup {s} \X (tagIds \cap DOMAIN d.tag),
                          !.next = s + 1]
<1>1. CASE ~ urlOk
  BY <1>1 DEF CreateStory, Result
<1>2. CASE urlOk
  <2>1. CreateStory(d, urlOk, title, tagIds).db = e
    BY <1>2 DEF CreateStory, Result
  <2>2. e.story = Put(d.story, s, title) /\ e.tag = d.tag /\ e.next = s + 1
        /\ e.links = d.links \cup {s} \X (tagIds \cap DOMAIN d.tag) /\ DOMAIN e = DOMAIN d
    BY DEF LibraryOK, WellFormed
  <2>3. DOMAIN e.story = DOMAIN d.story \cup {s} /\ e.story \in [DOMAIN e.story -> Titles]
    BY <2>2 DEF Put, LibraryOK, WellFormed
  <2> HIDE DEF e
  <2>4. WellFormed(e) /\ Linked(e) /\ NamesDiffer(e)
    BY <2>2, <2>3 DEF LibraryOK, WellFormed, Linked, NamesDiffer
  <2>5. IdsUsed(e)
    BY <2>2, <2>3 DEF LibraryOK, IdsUsed
  <2> QED BY <2>1, <2>4, <2>5 DEF LibraryOK
<1> QED BY <1>1, <1>2

LEMMA UpdateStoryOK ==
  ASSUME NEW d, NEW s, NEW title \in Titles \cup {Null}, NEW tagIds, LibraryOK(d)
  PROVE  LibraryOK(UpdateStory(d, s, title, tagIds).db)
<1>1. CASE s \notin DOMAIN d.story
  BY <1>1 DEF UpdateStory, Result
<1>2. CASE s \in DOMAIN d.story
  <2> DEFINE e == [d EXCEPT !.story = Put(@, s, IF title = Null THEN @[s] ELSE title)]
  <2>1. UpdateStory(d, s, title, tagIds).db = IF tagIds = Null THEN e ELSE ReplaceTags(e, s, tagIds)
    BY <1>2 DEF UpdateStory, Result
  <2>2. e.story = Put(d.story, s, IF title = Null THEN d.story[s] ELSE title)
        /\ e.tag = d.tag /\ e.next = d.next /\ e.links = d.links /\ DOMAIN e = DOMAIN d
    BY DEF LibraryOK, WellFormed
  <2>3. DOMAIN e.story = DOMAIN d.story /\ e.story \in [DOMAIN e.story -> Titles]
    BY <1>2, <2>2 DEF Put, LibraryOK, WellFormed
  <2> HIDE DEF e
  <2>4. LibraryOK(e)
    BY <2>2, <2>3 DEF LibraryOK, WellFormed, Linked, NamesDiffer, IdsUsed
  <2> QED BY <1>2, <2>1, <2>3, <2>4, ReplaceTagsOK
<1> QED BY <1>1, <1>2

LEMMA DeleteStoryOK ==
  ASSUME NEW d, NEW s, LibraryOK(d)
  PROVE  LibraryOK(DeleteStory(d, s).db)
<1> DEFINE e == [d EXCEPT !.story = Drop(@, {s}), !.links = {l \in @ : l[1] # s}]
<1>1. CASE s \notin DOMAIN d.story
  BY <1>1 DEF DeleteStory, Result
<1>2. CASE s \in DOMAIN d.story
  <2>1. DeleteStory(d, s).db = e
    BY <1>2 DEF DeleteStory, Result
  <2>2. e.story = Drop(d.story, {s}) /\ e.tag = d.tag /\ e.next = d.next
        /\ e.links = {l \in d.links : l[1] # s} /\ DOMAIN e = DOMAIN d
    BY DEF LibraryOK, WellFormed
  <2>3. DOMAIN e.story = DOMAIN d.story \ {s} /\ e.story \in [DOMAIN e.story -> Titles]
    BY <2>2 DEF Drop, LibraryOK, WellFormed
  <2> HIDE DEF e
  <2>4. LibraryOK(e)
    BY <2>2, <2>3 DEF LibraryOK, WellFormed, Linked, NamesDiffer, IdsUsed
  <2> QED BY <2>1, <2>4
<1> QED BY <1>1, <1>2

LEMMA SetStoryTagsOK ==
  ASSUME NEW d, NEW s \in DOMAIN d.story, NEW tagIds, LibraryOK(d)
  PROVE  LibraryOK(SetStoryTags(d, s, tagIds).db)
  BY ReplaceTagsOK DEF SetStoryTags, Result

LEMMA CreateTagOK ==
  ASSUME NEW d, NEW name, NEW color, LibraryOK(d)
  PROVE  LibraryOK(CreateTag(d, name, color).db)
<1> DEFINE t == d.next
           e == [d EXCEPT !.tag = Put(@, t, [name |-> name, color |-> color]), !.next = t + 1]
           created == name \in ValidNames /\ color \in ValidColors /\ ~ NameTaken(d, name, Null)
<1>1. CASE ~ created
  BY <1>1 DEF CreateTag, Result
<1>2. CASE created
  <2>1. CreateTag(d, name, color).db = e
    BY <1>2 DEF CreateTag, Result
  <2>2. e.story = d.story /\ e.tag = Put(d.tag, t, [name |-> name, color |-> color])
        /\ e.next = t + 1 /\ e.links = d.links /\ DOMAIN e = DOMAIN d
    BY DEF LibraryOK, WellFormed
  <2>3. /\ DOMAIN e.tag = DOMAIN d.tag \cup {t}
        /\ e.tag[t] = [name |-> name, color |-> color]
        /\ \A u \in DOMAIN d.tag : u # t => e.tag[u] = d.tag[u]
        /\ e.tag \in [DOMAIN e.tag -> [name : ValidNames, color : ValidColors]]
    BY <1>2, <2>2 DEF Put, LibraryOK, WellFormed
  <2> HIDE DEF e
  <2>4. t \notin DOMAIN d.tag /\ t \notin DOMAIN d.story /\ \A u \in DOMAIN d.tag : u # Null
    BY LibraryAssumption DEF LibraryOK, IdsUsed
  <2>5. \A u \in DOMAIN d.tag : Lower[d.tag[u].name] # Lower[name]
    BY <1>2, <2>4 DEF NameTaken
  <2>6. NamesDiffer(e)
    <3>1. \A u \in DOMAIN d.tag : Lower[e.tag[u].name] # Lower[e.tag[t].name]
      BY <2>3, <2>4, <2>5
    <3>2. \A u, v \in DOMAIN d.tag : Lower[e.tag[u].name] = Lower[e.tag[v].name] => u = v
      BY <2>3, <2>4 DEF LibraryOK, NamesDiffer
    <3> QED BY <2>3, <3>1, <3>2 DEF NamesDiffer
  <2>7. WellFormed(e) /\ Linked(e)
    BY <2>2, <2>3 DEF LibraryOK, WellFormed, Linked
  <2>8. IdsUsed(e)
    BY <2>2, <2>3, <2>4 DEF LibraryOK, IdsUsed
  <2> QED BY <2>1, <2>6, <2>7, <2>8 DEF LibraryOK
<1> QED BY <1>1, <1>2

LEMMA UpdateTagOK ==
  ASSUME NEW d, NEW t, NEW name, NEW color, LibraryOK(d)
  PROVE  LibraryOK(UpdateTag(d, t, name, color).db)
<1> DEFINE new == [name  |-> IF name = Null THEN d.tag[t].name ELSE name,
                   color |-> IF color = Null THEN d.tag[t].color ELSE color]
           e == [d EXCEPT !.tag = Put(@, t, new)]
           updated == /\ name \in ValidNames \cup {Null} /\ color \in ValidColors \cup {Null}
                      /\ t \in DOMAIN d.tag
                      /\ name # Null => ~ NameTaken(d, name, t)
<1>1. CASE ~ updated
  BY <1>1, LibraryAssumption DEF UpdateTag, Result
<1>2. CASE updated
  <2>1. UpdateTag(d, t, name, color).db = e
    BY <1>2, LibraryAssumption DEF UpdateTag, Result
  <2>2. e.story = d.story /\ e.tag = Put(d.tag, t, new)
        /\ e.next = d.next /\ e.links = d.links /\ DOMAIN e = DOMAIN d
    BY DEF LibraryOK, WellFormed
  <2>3. /\ DOMAIN e.tag = DOMAIN d.tag
        /\ e.tag[t] = new
        /\ \A u \in DOMAIN d.tag : u # t => e.tag[u] = d.tag[u]
        /\ e.tag \in [DOMAIN e.tag -> [name : ValidNames, color : ValidColors]]
    BY <1>2, <2>2 DEF Put, LibraryOK, WellFormed
  <2>4. \A u \in DOMAIN d.tag \ {t} : Lower[d.tag[u].name] # Lower[new.name]
    <3>1. CASE name = Null
      BY <1>2, <3>1 DEF LibraryOK, NamesDiffer
    <3>2. CASE name # Null
      BY <1>2, <3>2 DEF NameTaken
    <3> QED BY <3>1, <3>2
  <2> HIDE DEF e, new
  <2>5. NamesDiffer(e)
    <3>1. \A u \in DOMAIN d.tag \ {t} : Lower[e.tag[u].name] # Lower[e.tag[t].name]
      BY <2>3, <2>4
    <3>2. \A u, v \in DOMAIN d.tag \ {t} : Lower[e.tag[u].name] = Lower[e.tag[v].name] => u = v
      BY <2>3 DEF LibraryOK, NamesDiffer
    <3> QED BY <2>3, <3>1, <3>2 DEF NamesDiffer
  <2>6. WellFormed(e) /\ Linked(e) /\ IdsUsed(e)
    BY <2>2, <2>3 DEF LibraryOK, WellFormed, Linked, IdsUsed
  <2> QED BY <2>1, <2>5, <2>6 DEF LibraryOK
<1> QED BY <1>1, <1>2

LEMMA DeleteTagOK ==
  ASSUME NEW d, NEW t, LibraryOK(d)
  PROVE  LibraryOK(DeleteTag(d, t).db)
<1> DEFINE e == [d EXCEPT !.tag = Drop(@, {t}), !.links = {l \in @ : l[2] # t}]
<1>1. CASE t \notin DOMAIN d.tag
  BY <1>1 DEF DeleteTag, Result
<1>2. CASE t \in DOMAIN d.tag
  <2>1. DeleteTag(d, t).db = e
    BY <1>2 DEF DeleteTag, Result
  <2>2. e.story = d.story /\ e.tag = Drop(d.tag, {t}) /\ e.next = d.next
        /\ e.links = {l \in d.links : l[2] # t} /\ DOMAIN e = DOMAIN d
    BY DEF LibraryOK, WellFormed
  <2>3. /\ DOMAIN e.tag = DOMAIN d.tag \ {t}
        /\ \A u \in DOMAIN e.tag : e.tag[u] = d.tag[u]
        /\ e.tag \in [DOMAIN e.tag -> [name : ValidNames, color : ValidColors]]
    BY <2>2 DEF Drop, LibraryOK, WellFormed
  <2> HIDE DEF e
  <2>4. NamesDiffer(e)
    BY <2>3 DEF LibraryOK, NamesDiffer
  <2>5. WellFormed(e) /\ Linked(e) /\ IdsUsed(e)
    BY <2>2, <2>3 DEF LibraryOK, WellFormed, Linked, IdsUsed
  <2> QED BY <2>1, <2>4, <2>5 DEF LibraryOK
<1> QED BY <1>1, <1>2
LEMMA ChangedLibrariesSound ==
  ASSUME LibraryOK(db), NEW d \in ChangedLibraries  PROVE LibraryOK(d)
<1> DEFINE created == {CreateStory(db, ok, title, ts).db : ok \in BOOLEAN, title \in Titles, ts \in TagIds}
           updated == {UpdateStory(db, s, title, Null).db : s \in DOMAIN db.story, title \in Titles}
           tagged == {SetStoryTags(db, s, ts).db : s \in DOMAIN db.story, ts \in TagIds}
           deleted == {DeleteStory(db, s).db : s \in DOMAIN db.story}
           newTags == {CreateTag(db, name, color).db : name \in Names, color \in Colors}
           renamed == {UpdateTag(db, t, name, Null).db : t \in DOMAIN db.tag, name \in Names}
           goneTags == {DeleteTag(db, t).db : t \in DOMAIN db.tag}
<1>1. d \in created => LibraryOK(d)
  BY CreateStoryOK
<1>2. d \in updated => LibraryOK(d)
  BY UpdateStoryOK
<1>3. d \in tagged => LibraryOK(d)
  BY SetStoryTagsOK
<1>4. d \in deleted => LibraryOK(d)
  BY DeleteStoryOK
<1>5. d \in newTags => LibraryOK(d)
  BY CreateTagOK
<1>6. d \in renamed => LibraryOK(d)
  BY UpdateTagOK
<1>7. d \in goneTags => LibraryOK(d)
  BY DeleteTagOK
<1>8. ChangedLibraries = created \cup updated \cup tagged \cup deleted
                           \cup newTags \cup renamed \cup goneTags
  BY DEF ChangedLibraries
<1> HIDE DEF created, updated, tagged, deleted, newTags, renamed, goneTags
<1> QED BY <1>1, <1>2, <1>3, <1>4, <1>5, <1>6, <1>7, <1>8
-----------------------------------------------------------------------------
(* What keeps the requests in order. *)

\* A page stays one when more ids are given out.
LEMMA PageGrows ==
  ASSUME NEW p, NEW n \in Nat, NEW m \in Nat, n <= m, PageOK(p, n)
  PROVE  PageOK(p, m)
<1>1. Used(n) \subseteq Used(m)
  BY DEF Used
<1> QED BY <1>1 DEF PageOK

\* So does the store.
LEMMA StoreGrows ==
  ASSUME NEW ls, NEW rc, NEW n \in Nat, NEW m \in Nat, n <= m, StoreOK(ls, rc, n)
  PROVE  StoreOK(ls, rc, m)
<1>1. Used(n) \subseteq Used(m)
  BY DEF Used
<1>2. ASSUME NEW k \in DOMAIN ls PROVE ListOK(ls[k], m)
  <2>1. ListOK(ls[k], n)
    BY DEF StoreOK
  <2>2. ls[k].edges \in Seq(Used(n)) /\ DOMAIN ls[k].edges = 1 .. Len(ls[k].edges)
    BY <2>1 DEF ListOK
  <2>3. ls[k].edges \in Seq(Used(m))
    BY <1>1, <2>2
  <2> QED BY <2>1, <2>3 DEF ListOK
<1>3. \A s \in DOMAIN rc : s \in Used(m) /\ rc[s] \in Story \cup {Gone}
  BY <1>1 DEF StoreOK
<1> QED BY <1>2, <1>3 DEF StoreOK

\* p asks for what r asks for, and has its answer if r has.
Kin(p, r) ==
  /\ DOMAIN p = DOMAIN r /\ p.op = r.op /\ p.res = r.res
  /\ p.rank \in Nat /\ (p.rank > 0 <=> r.rank > 0)
  /\ \A f \in DOMAIN r \ {"rank", "id", "steady"} : p[f] = r[f]
  /\ r.op = "create" => p.id = r.id
  /\ r.op \in {"update", "delete"} => p.id = r.id \/ r.id = Temp

\* The lists ls become ks without doing harm to a request.
Fits(r, ls, ks) ==
  /\ r.op = "list" =>
       /\ r.key \in DOMAIN ks <=> r.key \in DOMAIN ls
       /\ r.key \in DOMAIN ls => ks[r.key].endCursor = ls[r.key].endCursor
  /\ r.op = "create" /\ All \in DOMAIN ls =>
       /\ All \in DOMAIN ks
       /\ r.rank > 0 /\ (\A s \in ToSet(ls[All].edges) : s < r.res.id) =>
            \A s \in ToSet(ks[All].edges) : s < r.res.id

\* A request stays sound under another rank, more ids, and lists that do it no harm.
LEMMA RequestStays ==
  ASSUME NEW p, NEW r, NEW ls, NEW ks, NEW n \in Nat, NEW m \in Nat, n <= m,
         Kin(p, r), RequestOK(r, n, ls), Fits(r, ls, ks)
  PROVE  RequestOK(p, m, ks)
<1>1. Used(n) \subseteq Used(m) /\ Temp \notin Used(n)
  BY WindowAssumption, LibrariesAssumption DEF Used
<1>2. HasFields(p) /\ p.op = r.op /\ p.res = r.res /\ DOMAIN p = DOMAIN r
      /\ (p.rank > 0 <=> r.rank > 0)
  BY DEF Kin, HasFields, RequestOK
<1>3. CASE r.op = "list"
  <2>1. ListRequestOK(r, n, ls)
    BY <1>3 DEF RequestOK
  <2>2. p.key = r.key /\ p.after = r.after /\ p.found = r.found
    BY <2>1 DEF Kin, ListRequestOK
  <2>3. r.rank > 0 => PageOK(p.res, m) /\ \A s \in DOMAIN p.res.stories : Below(p, s)
    BY <1>2, <2>1, <2>2, PageGrows DEF ListRequestOK, Below
  <2>4. ListRequestOK(p, m, ks)
    BY <1>2, <1>3, <2>1, <2>2, <2>3 DEF ListRequestOK, Fits
  <2> QED BY <1>2, <1>3, <2>4 DEF RequestOK
<1>4. CASE r.op = "create"
  <2>1. CreateRequestOK(r, n, ls)
    BY <1>4 DEF RequestOK
  <2>2. p.title = r.title /\ p.id = r.id
    BY <1>4, <2>1 DEF Kin, CreateRequestOK
  <2>3. CreateRequestOK(p, m, ks)
    BY <1>1, <1>2, <1>4, <2>1, <2>2 DEF CreateRequestOK, Fits
  <2> QED BY <1>2, <1>4, <2>3 DEF RequestOK
<1>5. CASE r.op = "update"
  <2>1. UpdateRequestOK(r, n)
    BY <1>5 DEF RequestOK
  <2>2. p.title = r.title /\ (p.id = r.id \/ r.id = Temp)
    BY <1>5, <2>1 DEF Kin, UpdateRequestOK
  <2>3. UpdateRequestOK(p, m)
    BY <1>1, <1>2, <2>1, <2>2 DEF UpdateRequestOK
  <2> QED BY <1>2, <1>5, <2>3 DEF RequestOK
<1>6. CASE r.op = "delete"
  <2>1. DeleteRequestOK(r, n)
    BY <1>6 DEF RequestOK
  <2>2. p.id = r.id \/ r.id = Temp
    BY <1>6 DEF Kin
  <2>3. DeleteRequestOK(p, m)
    BY <1>1, <1>2, <2>1, <2>2 DEF DeleteRequestOK
  <2> QED BY <1>2, <1>6, <2>3 DEF RequestOK
<1> QED BY <1>3, <1>4, <1>5, <1>6 DEF RequestOK, HasFields

\* Dropping a request makes the others at most kin of what they were.
LEMMA SameIsKin ==
  ASSUME NEW p, NEW r, NEW a, Same(p, r), HasFields(r), p.rank = Closed(a, r.rank), a \in Nat
  PROVE  Kin(p, r)
<1>1. p.rank \in Nat /\ (p.rank > 0 <=> r.rank > 0)
  BY DEF HasFields, Closed
<1> QED BY <1>1 DEF Same, Kin

\* A request is its own kin.
LEMMA KinItself ==
  ASSUME NEW r, HasFields(r)  PROVE Kin(r, r)
  BY DEF Kin, HasFields

\* The queue stays sound when a request is dropped.
LEMMA QueueDropped ==
  ASSUME NEW q, NEW w, NEW i \in DOMAIN q, NEW n \in Nat, NEW ls, NEW ks,
         QueueOK(q, n, ls), Dropped(w, q, i), \A j \in DOMAIN q \ {i} : Fits(q[j], ls, ks)
  PROVE  QueueOK(w, n, ks) /\ Len(w) = Len(q) - 1
<1>1. Listed(q) /\ Apart(q) /\ \A j \in DOMAIN q : RequestOK(q[j], n, ls) /\ HasFields(q[j])
  BY DEF QueueOK, RequestOK
<1>2. Apart(w) /\ Listed(w) /\ Len(w) = Len(q) - 1
  BY <1>1, DroppedApart DEF Dropped
<1>3. ASSUME NEW j \in DOMAIN w PROVE RequestOK(w[j], n, ks)
  <2> DEFINE r == q[Old(i, j)]
  <2>1. Old(i, j) \in DOMAIN q \ {i} /\ Same(w[j], r) /\ w[j].rank = Closed(q[i].rank, r.rank)
    BY DEF Dropped
  <2>2. RequestOK(r, n, ls) /\ HasFields(r) /\ q[i].rank \in Nat /\ Fits(r, ls, ks)
    BY <1>1, <2>1 DEF HasFields
  <2> HIDE DEF r
  <2>3. Kin(w[j], r)
    BY <2>1, <2>2, SameIsKin
  <2> QED BY <2>2, <2>3, RequestStays
<1> QED BY <1>2, <1>3 DEF QueueOK

\* Lists that do not change harm no request.
LEMMA FitsItself ==
  ASSUME NEW r, NEW ls  PROVE Fits(r, ls, ls)
  BY DEF Fits

\* The queue stays sound when a request is answered or lost.
LEMMA QueueLess ==
  ASSUME NEW i \in DOMAIN reqs, NEW n \in Nat, NEW ls, NEW ks, QueueOK(reqs, n, ls),
         \A j \in DOMAIN reqs \ {i} : Fits(reqs[j], ls, ks)
  PROVE  QueueOK(Without(i), n, ks) /\ Len(Without(i)) = Len(reqs) - 1 /\ Dropped(Without(i), reqs, i)
<1>1. Dropped(Without(i), reqs, i)
  BY WithoutIs DEF QueueOK, RequestOK
<1> QED BY <1>1, QueueDropped

\* The queue stays sound when a request is made.
LEMMA QueueMore ==
  ASSUME NEW q, NEW r, NEW n, NEW ls, QueueOK(q, n, ls), RequestOK(r, n, ls), r.rank = 0,
         r.op = "list" => \A i \in DOMAIN q : q[i].op = "list" => q[i].key # r.key,
         r.op = "create" => \A i \in DOMAIN q : q[i].op # "create"
  PROVE  QueueOK(Append(q, r), n, ls) /\ Len(Append(q, r)) = Len(q) + 1
<1> DEFINE a == Append(q, r)
<1>1. Listed(q) /\ Apart(q) /\ \A i \in DOMAIN q : RequestOK(q[i], n, ls)
  BY DEF QueueOK
<1>2. /\ Listed(a) /\ Len(a) = Len(q) + 1 /\ DOMAIN a = 1 .. Len(q) + 1
      /\ \A i \in DOMAIN q : a[i] = q[i]
      /\ a[Len(q) + 1] = r /\ DOMAIN q = 1 .. Len(q) /\ Len(q) \in Nat
  BY <1>1, AppendIs, ListedIs
<1>3. Apart(a)
  BY <1>1, AppendApart
<1> HIDE DEF a
<1>4. \A i \in DOMAIN a : i \in DOMAIN q \/ i = Len(q) + 1
  BY <1>2
<1>5. \A i \in DOMAIN a : RequestOK(a[i], n, ls)
  BY <1>1, <1>2, <1>4
<1> QED BY <1>2, <1>3, <1>5 DEF QueueOK, a

\* One request is served.
LEMMA QueueServed ==
  ASSUME NEW i \in DOMAIN reqs, NEW w, NEW n \in Nat, NEW m \in Nat, n <= m, NEW ls, QueueOK(reqs, n, ls),
         reqs[i].rank = 0, Listed(w), Len(w) = Len(reqs), w[i].rank = NextRank,
         w[i].op = reqs[i].op, reqs[i].op = "list" => w[i].key = reqs[i].key,
         \A j \in DOMAIN reqs \ {i} : w[j] = reqs[j], RequestOK(w[i], m, ls)
  PROVE  QueueOK(w, m, ls) /\ \A j \in DOMAIN reqs \ {i} : w[j].rank < w[i].rank
<1>1. Listed(reqs) /\ Apart(reqs) /\ \A j \in DOMAIN reqs : RequestOK(reqs[j], n, ls) /\ HasFields(reqs[j])
  BY DEF QueueOK, RequestOK
<1>2. DOMAIN w = DOMAIN reqs
  BY <1>1, ListedIs
<1>3. NextRank = 1 + Cardinality(Answerable(reqs))
  BY DEF NextRank, Answerable
<1>4. Apart(w) /\ \A j \in DOMAIN reqs \ {i} : w[j].rank < w[i].rank
  BY <1>1, <1>2, <1>3, ServedApart
<1>5. \A j \in DOMAIN reqs \ {i} : RequestOK(w[j], m, ls)
  BY <1>1, RequestStays, KinItself, FitsItself
<1> QED BY <1>2, <1>4, <1>5 DEF QueueOK

\* A commit changes the history variables only.
LEMMA CommitIs ==
  ASSUME NEW d, NEW q, Listed(q), \A i \in DOMAIN q : HasFields(q[i]), Commit(d, q)
  PROVE  /\ db' = d /\ Listed(reqs') /\ Len(reqs') = Len(q) /\ DOMAIN reqs' = DOMAIN q
         /\ \A i \in DOMAIN q : /\ Kin(reqs'[i], q[i]) /\ reqs'[i].rank = q[i].rank
                                /\ q[i].op # "list" => reqs'[i] = q[i]
                                /\ q[i].op = "list" => reqs'[i] =
                                     [q[i] EXCEPT !.steady = StillSteady(d, q[i].key, q[i].found, @)]
         /\ DOMAIN lists' = DOMAIN lists
         /\ \A k \in DOMAIN lists : lists'[k] =
              [lists[k] EXCEPT !.steady = StillSteady(d, k, lists[k].tag, @)]
<1>1. Len(q) \in Nat /\ DOMAIN q = 1 .. Len(q)
  BY ListedIs
<1>2. /\ db' = d /\ reqs' = [i \in 1 .. Len(q) |-> reqs'[i]]
      /\ \A i \in DOMAIN q :
           /\ q[i].op # "list" => reqs'[i] = q[i]
           /\ q[i].op = "list" => reqs'[i] =
                [q[i] EXCEPT !.steady = StillSteady(d, q[i].key, q[i].found, @)]
      /\ DOMAIN lists' = DOMAIN lists
      /\ \A k \in DOMAIN lists : lists'[k] =
           [lists[k] EXCEPT !.steady = StillSteady(d, k, lists[k].tag, @)]
  BY <1>1 DEF Commit
<1>3. Listed(reqs') /\ Len(reqs') = Len(q) /\ DOMAIN reqs' = 1 .. Len(q)
  BY <1>1, <1>2, ListedFrom
<1>4. ASSUME NEW i \in DOMAIN q  PROVE Kin(reqs'[i], q[i]) /\ reqs'[i].rank = q[i].rank
  <2>1. CASE q[i].op # "list"
    BY <1>2, <2>1, KinItself
  <2>2. CASE q[i].op = "list"
    <3> DEFINE v == StillSteady(d, q[i].key, q[i].found, q[i].steady)
    <3>1. reqs'[i] = [q[i] EXCEPT !.steady = v]
      BY <1>2, <2>2
    <3> HIDE DEF v
    <3> QED BY <2>2, <3>1 DEF Kin, HasFields
  <2> QED BY <2>1, <2>2
<1> QED BY <1>1, <1>2, <1>3, <1>4

\* Commit leaves the queue and the store sound.
LEMMA CommitShape ==
  ASSUME NEW d, NEW q, NEW n \in Nat \ {0}, StoreOK(lists, rec, n), QueueOK(q, n, lists), Commit(d, q),
         rec' = rec
  PROVE  StoreOK(lists', rec', n) /\ QueueOK(reqs', n, lists') /\ Len(reqs') = Len(q) /\ db' = d
<1>1. Listed(q) /\ Apart(q) /\ \A i \in DOMAIN q : HasFields(q[i]) /\ RequestOK(q[i], n, lists)
  BY DEF QueueOK, RequestOK
<1>2. /\ db' = d /\ Listed(reqs') /\ Len(reqs') = Len(q) /\ DOMAIN reqs' = DOMAIN q
      /\ \A i \in DOMAIN q : Kin(reqs'[i], q[i]) /\ reqs'[i].rank = q[i].rank
      /\ DOMAIN lists' = DOMAIN lists
      /\ \A k \in DOMAIN lists : lists'[k] = [lists[k] EXCEPT !.steady = StillSteady(d, k, lists[k].tag, @)]
  BY <1>1, CommitIs
<1>3. ASSUME NEW k \in DOMAIN lists
      PROVE  /\ DOMAIN lists'[k] = DOMAIN lists[k]
             /\ lists'[k].edges = lists[k].edges /\ lists'[k].endCursor = lists[k].endCursor
             /\ lists'[k].hasNextPage = lists[k].hasNextPage
             /\ ListOK(lists'[k], n)
  <2> DEFINE v == StillSteady(d, k, lists[k].tag, lists[k].steady)
  <2>1. lists'[k] = [lists[k] EXCEPT !.steady = v] /\ ListOK(lists[k], n)
    BY <1>2 DEF StoreOK
  <2> HIDE DEF v
  <2>2. DOMAIN lists[k] = Fields
    BY <2>1 DEF ListOK
  <2>3. /\ DOMAIN lists'[k] = DOMAIN lists[k]
        /\ lists'[k].edges = lists[k].edges /\ lists'[k].endCursor = lists[k].endCursor
        /\ lists'[k].hasNextPage = lists[k].hasNextPage
    BY <2>1, <2>2 DEF Fields
  <2> QED BY <2>1, <2>3 DEF ListOK
<1>4. StoreOK(lists', rec', n)
  BY <1>2, <1>3 DEF StoreOK
<1>5. \A i \in DOMAIN q : Fits(q[i], lists, lists')
  BY <1>2, <1>3 DEF Fits
<1>6. \A i \in DOMAIN reqs' : RequestOK(reqs'[i], n, lists')
  BY <1>1, <1>2, <1>5, RequestStays
<1>7. \A i \in DOMAIN q : reqs'[i].op = q[i].op /\ (q[i].op = "list" => reqs'[i].key = q[i].key)
  BY <1>1, <1>2 DEF Kin, HasFields
<1>8. Answerable(reqs') = Answerable(q)
  BY <1>2 DEF Answerable
<1>9. Apart(reqs')
  BY <1>1, <1>2, <1>7, <1>8 DEF Apart
<1> QED BY <1>2, <1>4, <1>6, <1>9 DEF QueueOK
-----------------------------------------------------------------------------
(* What the user does *)

\* What the shape says, in the form that the steps below cite.
LEMMA ShapeIs ==
  ASSUME Shape
  PROVE  /\ db.next \in Nat \ {0} /\ db.next - 1 \in Nat /\ Listed(reqs) /\ Len(reqs) \in Nat
         /\ DOMAIN reqs = 1 .. Len(reqs) /\ Apart(reqs)
         /\ \A i \in DOMAIN reqs : HasFields(reqs[i]) /\ RequestOK(reqs[i], db.next, lists)
         /\ \A k \in DOMAIN lists : /\ ListOK(lists[k], db.next)
                                    /\ ToSet(lists[k].edges) \subseteq Used(db.next)
         /\ Used(db.next) \subseteq Nat
<1>1. db.next \in Nat \ {0} /\ db.next - 1 \in Nat
  BY StoriesUsed DEF Shape
<1>2. Listed(reqs) /\ Apart(reqs) /\ \A i \in DOMAIN reqs : HasFields(reqs[i]) /\ RequestOK(reqs[i], db.next, lists)
  BY DEF Shape, QueueOK, RequestOK
<1>3. \A k \in DOMAIN lists : ListOK(lists[k], db.next) /\ lists[k].edges \in Seq(Used(db.next))
  BY DEF Shape, StoreOK, ListOK
<1>4. \A k \in DOMAIN lists : ToSet(lists[k].edges) \subseteq Used(db.next)
  BY <1>3 DEF ToSet
<1> QED BY <1>1, <1>2, <1>3, <1>4, ListedIs DEF Used

\* The user asks for something: nothing else changes.
LEMMA AskShape ==
  ASSUME Shape, NEW r, RequestOK(r, db.next, lists), r.rank = 0,
         r.op = "list" => ~ Loading(r.key), r.op = "create" => InFlight("create") = {},
         CanRequest, reqs' = Append(reqs, r), UNCHANGED <<db, lists, rec, view, disturbed>>,
         changes' = changes \/ (changes < MaxChanges /\ changes' = changes + 1)
  PROVE  Shape'
<1>1. QueueOK(reqs', db.next, lists) /\ Len(reqs') = Len(reqs) + 1
  BY QueueMore DEF Shape, Loading, InFlight
<1>2. Len(reqs') <= MaxRequests
  BY <1>1, ShapeIs, WindowAssumption, LibrariesAssumption DEF CanRequest
<1>3. changes' \in 0 .. MaxChanges
  BY WindowAssumption, LibrariesAssumption DEF Shape
<1> QED BY <1>1, <1>2, <1>3 DEF Shape

\* The fields of a request for a page.
LEMMA ListRequestIs ==
  ASSUME NEW k, NEW after
  PROVE  LET r == ListRequest(k, after) IN
         /\ HasFields(r) /\ r.op = "list" /\ r.key = k /\ r.after = after /\ r.rank = 0
         /\ r.found = Null /\ r.steady = {} /\ {"key", "after", "found", "steady"} \subseteq DOMAIN r
  BY DEF ListRequest, HasFields

\* The first page of a list that the store does not have may be asked for.
LEMMA FirstPageOK ==
  ASSUME NEW k \in Keys, NEW n, NEW ls, k \notin DOMAIN ls
  PROVE  RequestOK(ListRequest(k, Null), n, ls)
<1> DEFINE r == ListRequest(k, Null)
<1>1. /\ HasFields(r) /\ r.op = "list" /\ r.key = k /\ r.after = Null /\ r.rank = 0
      /\ r.found = Null /\ {"key", "after", "found", "steady"} \subseteq DOMAIN r
  BY ListRequestIs
<1> HIDE DEF r
<1> QED BY <1>1 DEF RequestOK, ListRequestOK, r

\* The page starts with the request for the first page of all stories.
LEMMA InitShape == Init => Shape
<1> SUFFICES ASSUME Init PROVE Shape
  OBVIOUS
<1>1. LibraryOK(db) /\ db.next <= MaxIds + 1
  BY WindowAssumption, LibrariesAssumption DEF Init
<1> DEFINE r == ListRequest(All, Null)
           q == <<r>>
<1>2. reqs = q /\ lists = EmptyMap /\ rec = EmptyMap /\ view = All /\ changes = 0 /\ disturbed = FALSE
  BY DEF Init
<1>3. DOMAIN lists = {} /\ DOMAIN rec = {}
  BY <1>2 DEF EmptyMap
<1>4. RequestOK(r, db.next, lists) /\ r.rank = 0
  BY <1>3, FirstPageOK, ListRequestIs DEF Keys
<1> HIDE DEF r
<1>5. q = [i \in 1 .. 1 |-> q[i]] /\ q[1] = r
  OBVIOUS
<1>6. Listed(q) /\ Len(q) = 1 /\ DOMAIN q = 1 .. 1
  BY <1>5, ListedFrom
<1> HIDE DEF q
<1>7. \A i \in DOMAIN q : i = 1 /\ q[i] = r
  BY <1>5, <1>6
<1>8. Cardinality(Answerable(q)) \in Nat
  BY <1>6, AnswerableFinite
<1>9. Apart(q)
  BY <1>4, <1>7, <1>8 DEF Apart
<1>10. QueueOK(reqs, db.next, lists)
  BY <1>2, <1>4, <1>6, <1>7, <1>9 DEF QueueOK
<1>11. Len(reqs) <= MaxRequests /\ changes \in 0 .. MaxChanges
  BY <1>2, <1>6, WindowAssumption, LibrariesAssumption
<1> QED BY <1>1, <1>2, <1>3, <1>10, <1>11 DEF Shape, StoreOK, Keys

\* Submitting a story: no other creation is in flight.
LEMMA SubmitShape ==
  ASSUME Shape, NEW title \in Titles, NEW chosen, SubmitStory(title, chosen)  PROVE Shape'
<1> DEFINE r == CreateRequest(title, chosen)
<1>1. RequestOK(r, db.next, lists) /\ r.rank = 0 /\ r.op = "create"
  BY DEF SubmitStory, CreateRequest, RequestOK, HasFields, CreateRequestOK
<1> HIDE DEF r
<1> QED BY <1>1, AskShape DEF SubmitStory, CanChange, r

\* Saving an edit, also of the row without an id.
LEMMA SaveShape ==
  ASSUME Shape, NEW s, NEW title \in Titles, NEW chosen, SaveEdit(s, title, chosen)  PROVE Shape'
<1>1. PICK t \in Titles \cup {Null} : \E ts :
        reqs' = Append(reqs, UpdateRequest(s, t, ts, [title |-> title, tags |-> chosen]))
  BY DEF SaveEdit
<1>2. PICK ts : reqs' = Append(reqs, UpdateRequest(s, t, ts, [title |-> title, tags |-> chosen]))
  BY <1>1
<1> DEFINE r == UpdateRequest(s, t, ts, [title |-> title, tags |-> chosen])
<1>3. RequestOK(r, db.next, lists) /\ r.rank = 0 /\ r.op = "update"
  BY DEF UpdateRequest, RequestOK, HasFields, UpdateRequestOK
<1> HIDE DEF r
<1> QED BY <1>2, <1>3, AskShape DEF SaveEdit, CanChange, r

\* Deleting a story, also the row without an id.
LEMMA ConfirmShape ==
  ASSUME Shape, NEW s, ConfirmDelete(s)  PROVE Shape'
<1> DEFINE r == DeleteRequest(s)
<1>1. RequestOK(r, db.next, lists) /\ r.rank = 0 /\ r.op = "delete"
  BY DEF DeleteRequest, RequestOK, HasFields, DeleteRequestOK
<1> HIDE DEF r
<1> QED BY <1>1, AskShape DEF ConfirmDelete, CanChange, r

\* Loading the next page: none of this list is being loaded.
LEMMA MoreShape ==
  ASSUME Shape, LoadMore  PROVE Shape'
<1> DEFINE r == ListRequest(view, lists[view].endCursor)
<1>1. view \in DOMAIN lists /\ lists[view].hasNextPage /\ ~ Loading(view)
  BY DEF LoadMore, Rendered
<1>2. /\ HasFields(r) /\ r.op = "list" /\ r.key = view /\ r.after = lists[view].endCursor /\ r.rank = 0
      /\ r.found = Null /\ {"key", "after", "found", "steady"} \subseteq DOMAIN r
  BY ListRequestIs
<1> HIDE DEF r
<1>3. lists[view].endCursor # Null
  BY <1>1, ShapeIs DEF ListOK
<1>4. RequestOK(r, db.next, lists)
  BY <1>1, <1>2, <1>3 DEF RequestOK, ListRequestOK, Shape
<1> QED BY <1>1, <1>2, <1>4, AskShape DEF LoadMore, r

\* What is left of the requests when the page shows another list.
Kept(q) ==
  \/ q = reqs
  \/ \E i \in DOMAIN reqs : /\ reqs[i].op = "list" /\ reqs[i].after # Null
                            /\ q = Without(i)

\* Showing a list drops the pages being loaded, and asks for the list if the
\* store does not have it.
LEMMA ShowListIs ==
  ASSUME NEW k, ShowList(k)
  PROVE  \E q : /\ Kept(q)
                /\ \/ reqs' = q
                   \/ reqs' = Append(q, ListRequest(k, Null)) /\ k \notin DOMAIN lists /\ ~ Loading(k)
<1> DEFINE more == {i \in InFlight("list") : reqs[i].after # Null}
           kept == IF more = {} THEN reqs ELSE Without(CHOOSE i \in more : TRUE)
<1>1. Kept(kept)
  <2>1. CASE more = {}
    BY <2>1 DEF Kept
  <2>2. CASE more # {}
    <3>1. (CHOOSE i \in more : TRUE) \in more
      BY <2>2
    <3> QED BY <2>2, <3>1 DEF Kept, InFlight
  <2> QED BY <2>1, <2>2
<1>2. \/ reqs' = kept
      \/ reqs' = Append(kept, ListRequest(k, Null)) /\ k \notin DOMAIN lists /\ ~ Loading(k)
  BY DEF ShowList
<1> QED BY <1>1, <1>2

\* The requests that are left are as they were.
LEMMA LeftAlone ==
  ASSUME Shape, NEW i \in DOMAIN reqs
  PROVE  /\ QueueOK(Without(i), db.next, lists) /\ Len(Without(i)) = Len(reqs) - 1
         /\ Dropped(Without(i), reqs, i)
         /\ \A k : ~ Loading(k) => \A j \in DOMAIN Without(i) :
              Without(i)[j].op = "list" => Without(i)[j].key # k
<1> DEFINE w == Without(i)
<1>1. QueueOK(w, db.next, lists) /\ Len(w) = Len(reqs) - 1 /\ Dropped(w, reqs, i)
  BY ShapeIs, QueueLess, FitsItself DEF Shape
<1> HIDE DEF w
<1>2. ASSUME NEW k, ~ Loading(k), NEW j \in DOMAIN w, w[j].op = "list"  PROVE w[j].key # k
  <2>1. Old(i, j) \in DOMAIN reqs /\ Same(w[j], reqs[Old(i, j)])
    BY <1>1 DEF Dropped
  <2>2. reqs[Old(i, j)].op = "list" /\ w[j].key = reqs[Old(i, j)].key
    BY <1>2, <2>1, ShapeIs DEF Same, HasFields
  <2> QED BY <1>2, <2>1, <2>2 DEF Loading, InFlight
<1> QED BY <1>1, <1>2 DEF w

\* Dropping those pages and asking for a list keeps the shape.
LEMMA ShowShape ==
  ASSUME Shape, NEW k \in Keys, ShowList(k)  PROVE Shape'
<1>1. PICK q : /\ Kept(q)
               /\ \/ reqs' = q
                  \/ reqs' = Append(q, ListRequest(k, Null)) /\ k \notin DOMAIN lists /\ ~ Loading(k)
  BY ShowListIs
<1>2. QueueOK(q, db.next, lists)
      /\ (~ Loading(k) => \A j \in DOMAIN q : q[j].op = "list" => q[j].key # k)
  <2>1. CASE q = reqs
    BY <2>1 DEF Shape, Loading, InFlight
  <2>2. ASSUME NEW i \in DOMAIN reqs, q = Without(i)
        PROVE  QueueOK(q, db.next, lists)
               /\ (~ Loading(k) => \A j \in DOMAIN q : q[j].op = "list" => q[j].key # k)
    BY <2>2, LeftAlone
  <2> QED BY <1>1, <2>1, <2>2 DEF Kept
<1>3. QueueOK(reqs', db.next, lists)
  <2>1. CASE reqs' = q
    BY <1>2, <2>1
  <2>2. CASE reqs' = Append(q, ListRequest(k, Null)) /\ k \notin DOMAIN lists /\ ~ Loading(k)
    BY <1>2, <2>2, FirstPageOK, ListRequestIs, QueueMore
  <2> QED BY <1>1, <2>1, <2>2
<1> QED BY <1>3 DEF ShowList, Shape

\* A reload starts over.
LEMMA ReloadShape ==
  ASSUME Shape, Reload  PROVE Shape'
<1> DEFINE r == ListRequest(All, Null)
           q == <<r>>
<1>1. reqs' = q /\ lists' = EmptyMap /\ rec' = EmptyMap /\ disturbed' = FALSE /\ UNCHANGED <<db, view, changes>>
  BY DEF Reload
<1>2. DOMAIN lists' = {} /\ DOMAIN rec' = {}
  BY <1>1 DEF EmptyMap
<1>3. RequestOK(r, db.next, lists') /\ r.rank = 0
  BY <1>2, FirstPageOK, ListRequestIs DEF Keys
<1> HIDE DEF r
<1>4. q = [i \in 1 .. 1 |-> q[i]] /\ q[1] = r
  OBVIOUS
<1>5. Listed(q) /\ Len(q) = 1 /\ DOMAIN q = 1 .. 1
  BY <1>4, ListedFrom
<1> HIDE DEF q
<1>6. \A i \in DOMAIN q : i = 1 /\ q[i] = r
  BY <1>4, <1>5
<1>7. Cardinality(Answerable(q)) \in Nat
  BY <1>5, AnswerableFinite
<1>8. Apart(q)
  BY <1>3, <1>6, <1>7 DEF Apart
<1>9. QueueOK(reqs', db'.next, lists')
  BY <1>1, <1>3, <1>5, <1>6, <1>8 DEF QueueOK
<1>10. Len(reqs') <= MaxRequests
  BY <1>1, <1>5, WindowAssumption, LibrariesAssumption
<1> QED BY <1>1, <1>2, <1>9, <1>10 DEF Shape, StoreOK

\* Whatever the user does keeps the shape.
LEMMA UserShape == Shape /\ UserActs => Shape'
  BY SubmitShape, SaveShape, ConfirmShape, MoreShape, ShowShape, ReloadShape DEF UserActs
-----------------------------------------------------------------------------
(* The API *)

\* Looking up the tag of a list changes the one request.
LEMMA FindTagIs ==
  ASSUME Shape, NEW i \in DOMAIN reqs, FindTag(i)
  PROVE  /\ reqs[i].op = "list" /\ reqs[i].key # All /\ reqs[i].rank = 0 /\ reqs[i].found = Null
         /\ Listed(reqs') /\ Len(reqs') = Len(reqs) /\ DOMAIN reqs' = DOMAIN reqs
         /\ \A j \in DOMAIN reqs \ {i} : reqs'[j] = reqs[j]
         /\ reqs'[i] = [reqs[i] EXCEPT !.found = TagNamed(db, reqs[i].key)]
         /\ DOMAIN reqs'[i] = DOMAIN reqs[i] /\ reqs'[i].found = TagNamed(db, reqs[i].key)
         /\ \A f \in DOMAIN reqs[i] \ {"found"} : reqs'[i][f] = reqs[i][f]
<1> DEFINE v == TagNamed(db, reqs[i].key)
<1>1. reqs[i].op = "list" /\ reqs[i].key # All /\ reqs[i].rank = 0 /\ reqs[i].found = Null
      /\ reqs' = [reqs EXCEPT ![i].found = v]
  BY DEF FindTag, Unserved
<1> HIDE DEF v
<1>2. Len(reqs) \in Nat /\ DOMAIN reqs = 1 .. Len(reqs)
  BY ShapeIs
<1>3. reqs' = [j \in 1 .. Len(reqs) |-> reqs'[j]]
  BY <1>1, <1>2
<1>4. Listed(reqs') /\ Len(reqs') = Len(reqs) /\ DOMAIN reqs' = 1 .. Len(reqs)
  BY <1>2, <1>3, ListedFrom
<1>5. ListRequestOK(reqs[i], db.next, lists)
  BY <1>1, ShapeIs DEF RequestOK
<1>6. reqs'[i] = [reqs[i] EXCEPT !.found = v] /\ "found" \in DOMAIN reqs[i]
  BY <1>1, <1>5 DEF ListRequestOK
<1> QED BY <1>1, <1>2, <1>4, <1>6 DEF v

\* Looking up the tag keeps the shape.
LEMMA FindShape ==
  ASSUME Shape, NEW i \in DOMAIN reqs, FindTag(i)  PROVE Shape'
<1> DEFINE p == reqs'[i]
           r == reqs[i]
<1>1. /\ r.op = "list" /\ r.key # All /\ r.rank = 0
      /\ Listed(reqs') /\ Len(reqs') = Len(reqs) /\ DOMAIN reqs' = DOMAIN reqs
      /\ \A j \in DOMAIN reqs \ {i} : reqs'[j] = reqs[j]
      /\ DOMAIN p = DOMAIN r
      /\ \A f \in DOMAIN r \ {"found"} : p[f] = r[f]
  BY FindTagIs
<1>2. HasFields(r) /\ ListRequestOK(r, db.next, lists) /\ Apart(reqs)
      /\ \A j \in DOMAIN reqs : RequestOK(reqs[j], db.next, lists)
  BY <1>1, ShapeIs DEF RequestOK
<1>3. p.op = r.op /\ p.res = r.res /\ p.rank = r.rank /\ p.key = r.key /\ p.after = r.after
  BY <1>1, <1>2 DEF HasFields, ListRequestOK
<1>4. RequestOK(p, db.next, lists)
  <2>1. HasFields(p)
    BY <1>1, <1>2, <1>3 DEF HasFields
  <2>2. ListRequestOK(p, db.next, lists)
    BY <1>1, <1>2, <1>3 DEF ListRequestOK
  <2> QED BY <1>1, <1>3, <2>1, <2>2 DEF RequestOK
<1>5. \A j \in DOMAIN reqs : /\ RequestOK(reqs'[j], db.next, lists) /\ reqs'[j].op = reqs[j].op
                             /\ reqs'[j].rank = reqs[j].rank
                             /\ reqs[j].op = "list" => reqs'[j].key = reqs[j].key
  BY <1>1, <1>2, <1>3, <1>4
<1> HIDE DEF p, r
<1>6. Answerable(reqs') = Answerable(reqs)
  BY <1>1, <1>5 DEF Answerable
<1>7. Apart(reqs')
  BY <1>1, <1>2, <1>5, <1>6 DEF Apart
<1>8. QueueOK(reqs', db.next, lists)
  BY <1>1, <1>5, <1>7 DEF QueueOK
<1> QED BY <1>1, <1>8 DEF FindTag, Shape

\* The page that a request is served.
PageFor(r) ==
  CASE r.key = All -> ListStories(db, First, r.after)
    [] r.key # All /\ r.found # Null -> ListStoriesByTag(db, r.found, First, r.after)
    [] OTHER -> EmptyPage

\* The stories that the page is taken from.
Source(r) ==
  IF r.key = All THEN DOMAIN db.story ELSE IF r.found = Null THEN {} ELSE TaggedWith(db, r.found)

\* The page served is of stories as they are now, below the cursor asked from, and
\* skips none that belongs to the list.
LEMMA PageForIs ==
  ASSUME Shape, NEW r, ListRequestOK(r, db.next, lists)
  PROVE  LET p == PageFor(r) IN
         /\ PageOK(p, db.next)
         /\ \A s \in DOMAIN p.stories : Below(r, s) /\ p.stories[s] = Now(db, s)
         /\ \A s \in Source(r) : Below(r, s) /\ (~ p.hasNextPage \/ s >= p.endCursor)
              => s \in DOMAIN p.stories
<1>1. r.after = Null \/ r.after \in Nat
  <2>1. r.after # Null => r.key \in DOMAIN lists /\ r.after = lists[r.key].endCursor
    BY DEF ListRequestOK
  <2>2. \A k \in DOMAIN lists : lists[k].endCursor # Null => lists[k].endCursor \in Nat
    BY ShapeIs DEF ListOK
  <2> QED BY <2>1, <2>2
<1>2. LibraryOK(db) /\ db.next <= MaxIds + 1
  BY DEF Shape
<1>3. \A t : TaggedWith(db, t) \subseteq DOMAIN db.story
  BY <1>2, StoriesUsed
<1>4. CASE r.key = All
  <2>1. PageFor(r) = PageOf(db, Before(DOMAIN db.story, r.after), First, Cardinality(DOMAIN db.story))
    BY <1>4 DEF PageFor, ListStories
  <2>2. Source(r) = DOMAIN db.story
    BY <1>4 DEF Source
  <2> DEFINE S == DOMAIN db.story
             p == PageOf(db, Before(S, r.after), First, Cardinality(S))
  <2>3. /\ PageOK(p, db.next)
        /\ \A s \in DOMAIN p.stories :
             (r.after = Null \/ s < r.after) /\ s \in S /\ p.stories[s] = Now(db, s)
        /\ \A s \in S : (r.after = Null \/ s < r.after) /\ (~ p.hasNextPage \/ s >= p.endCursor)
             => s \in DOMAIN p.stories
    <3>1. S \in SUBSET DOMAIN db.story
      OBVIOUS
    <3> HIDE DEF S
    <3> QED BY <1>1, <1>2, <3>1, PageServed
  <2>4. PageFor(r) = p /\ Source(r) = S
    BY <2>1, <2>2
  <2> HIDE DEF p, S
  <2> QED BY <2>3, <2>4 DEF Below
<1>5. CASE r.key # All /\ r.found # Null
  <2>1. PageFor(r) = PageOf(db, Before(TaggedWith(db, r.found), r.after), First,
                            Cardinality(TaggedWith(db, r.found)))
    BY <1>5 DEF PageFor, ListStoriesByTag
  <2>2. Source(r) = TaggedWith(db, r.found)
    BY <1>5 DEF Source
  <2>3. TaggedWith(db, r.found) \in SUBSET DOMAIN db.story
    BY <1>3
  <2> DEFINE S == TaggedWith(db, r.found)
             p == PageOf(db, Before(S, r.after), First, Cardinality(S))
  <2>4. /\ PageOK(p, db.next)
        /\ \A s \in DOMAIN p.stories :
             (r.after = Null \/ s < r.after) /\ s \in S /\ p.stories[s] = Now(db, s)
        /\ \A s \in S : (r.after = Null \/ s < r.after) /\ (~ p.hasNextPage \/ s >= p.endCursor)
             => s \in DOMAIN p.stories
    <3>1. S \in SUBSET DOMAIN db.story
      BY <2>3
    <3> HIDE DEF S
    <3> QED BY <1>1, <1>2, <3>1, PageServed
  <2>5. PageFor(r) = p /\ Source(r) = S
    BY <2>1, <2>2
  <2> HIDE DEF p, S
  <2> QED BY <2>4, <2>5 DEF Below
<1>6. CASE r.key # All /\ r.found = Null
  <2>1. PageFor(r) = EmptyPage /\ Source(r) = {}
    BY <1>6 DEF PageFor, Source
  <2> QED BY <2>1 DEF EmptyPage, EmptyMap, PageOK
<1> QED BY <1>4, <1>5, <1>6

\* The members of the list when its request is served.
Begun(r) == IF r.found = TagNamed(db, r.key) \/ r.key = All THEN Members(db, r.key) ELSE {}

\* Serving a page changes the one request.
LEMMA ServeListIs ==
  ASSUME Shape, NEW i \in DOMAIN reqs, ServeList(i)
  PROVE  LET r == reqs[i]
             p == reqs'[i] IN
         /\ r.op = "list" /\ r.rank = 0 /\ ListRequestOK(r, db.next, lists) /\ HasFields(r)
         /\ r.key # All /\ r.found = Null => TagNamed(db, r.key) = Null
         /\ Listed(reqs') /\ Len(reqs') = Len(reqs) /\ DOMAIN reqs' = DOMAIN reqs
         /\ \A j \in DOMAIN reqs \ {i} : reqs'[j] = reqs[j]
         /\ DOMAIN p = DOMAIN r /\ p.op = "list" /\ p.key = r.key /\ p.after = r.after /\ p.found = r.found
         /\ p.rank = NextRank /\ p.rank \in Nat /\ p.rank > 0
         /\ p.res = PageFor(r) /\ p.steady = Begun(r)
<1> DEFINE r == reqs[i]
           q == Served(i, PageFor(r))
           b == Begun(r)
           w == [q EXCEPT ![i].steady = b]
<1>1. r.op = "list" /\ r.rank = 0 /\ (r.key # All /\ r.found = Null => TagNamed(db, r.key) = Null)
      /\ reqs' = w
  BY DEF ServeList, Unserved, PageFor, Begun
<1>2. ListRequestOK(r, db.next, lists) /\ HasFields(r)
  BY <1>1, ShapeIs DEF RequestOK
<1>3. /\ Listed(q) /\ Len(q) = Len(reqs) /\ DOMAIN q = DOMAIN reqs
      /\ \A j \in DOMAIN reqs \ {i} : q[j] = reqs[j]
      /\ q[i] = [r EXCEPT !.res = PageFor(r), !.rank = NextRank]
  BY <1>2, ShapeIs, ServedIs
<1>4. NextRank \in Nat /\ NextRank > 0
  <2>1. Cardinality(Answerable(reqs)) \in Nat
    BY ShapeIs, AnswerableFinite
  <2> QED BY <2>1 DEF NextRank, Answerable
<1>5. {"op", "res", "rank", "key", "after", "found", "steady"} \subseteq DOMAIN r
  BY <1>2 DEF HasFields, ListRequestOK
<1> HIDE DEF q, b
<1>6. Len(reqs) \in Nat /\ DOMAIN reqs = 1 .. Len(reqs)
  BY ShapeIs
<1>7. w = [j \in 1 .. Len(reqs) |-> w[j]]
  BY <1>3, <1>6
<1>8. /\ \A j \in DOMAIN reqs \ {i} : w[j] = reqs[j]
      /\ w[i] = [q[i] EXCEPT !.steady = b]
  BY <1>3
<1> HIDE DEF w
<1>9. Listed(w) /\ Len(w) = Len(reqs) /\ DOMAIN w = 1 .. Len(reqs)
  BY <1>6, <1>7, ListedFrom
<1> DEFINE loaded == PageFor(r)
<1>10. q[i] = [r EXCEPT !.res = loaded, !.rank = NextRank]
  BY <1>3
<1>11. DOMAIN w[i] = DOMAIN r /\ w[i].res = loaded /\ w[i].rank = NextRank /\ w[i].steady = b
       /\ w[i].op = r.op /\ w[i].key = r.key /\ w[i].after = r.after /\ w[i].found = r.found
  <2> HIDE DEF loaded
  <2> QED BY <1>5, <1>8, <1>10
<1> QED BY <1>1, <1>2, <1>4, <1>6, <1>8, <1>9, <1>11 DEF b

\* Serving a page keeps the shape.
LEMMA ServeListShape ==
  ASSUME Shape, NEW i \in DOMAIN reqs, ServeList(i)  PROVE Shape'
<1> DEFINE p == reqs'[i]
           r == reqs[i]
<1>1. /\ r.op = "list" /\ r.rank = 0 /\ ListRequestOK(r, db.next, lists) /\ HasFields(r)
      /\ Listed(reqs') /\ Len(reqs') = Len(reqs) /\ DOMAIN reqs' = DOMAIN reqs
      /\ \A j \in DOMAIN reqs \ {i} : reqs'[j] = reqs[j]
      /\ DOMAIN p = DOMAIN r /\ p.op = "list" /\ p.key = r.key /\ p.after = r.after /\ p.found = r.found
      /\ p.rank = NextRank /\ p.rank \in Nat
      /\ p.res = PageFor(r)
  BY ServeListIs
<1>2. PageOK(p.res, db.next) /\ \A s \in DOMAIN p.res.stories : Below(p, s)
  BY <1>1, PageForIs DEF Below
<1>3. RequestOK(p, db.next, lists)
  <2>1. HasFields(p)
    BY <1>1 DEF HasFields
  <2>2. ListRequestOK(p, db.next, lists)
    BY <1>1, <1>2 DEF ListRequestOK
  <2> QED BY <1>1, <2>1, <2>2 DEF RequestOK
<1>4. QueueOK(reqs, db.next, lists) /\ db.next \in Nat /\ db.next <= db.next
  BY ShapeIs DEF Shape
<1> HIDE DEF p, r
<1>5. QueueOK(reqs', db.next, lists)
  BY <1>1, <1>3, <1>4, QueueServed DEF p, r
<1> QED BY <1>1, <1>5 DEF ServeList, Shape

\* A mutation is served: its result is put in the queue and the database changes.
LEMMA ServedShape ==
  ASSUME Shape, NEW i \in DOMAIN reqs, NEW d, NEW res, reqs[i].rank = 0, reqs[i].op # "list",
         LibraryOK(d), d.next <= MaxIds + 1, db.next <= d.next,
         RequestOK([reqs[i] EXCEPT !.res = res, !.rank = NextRank], d.next, lists),
         Commit(d, Served(i, res)), UNCHANGED <<rec, view, changes, disturbed>>
  PROVE  Shape'
<1> DEFINE q == Served(i, res)
<1>1. db.next \in Nat \ {0} /\ d.next \in Nat \ {0}
  BY StoriesUsed DEF Shape
<1>2. /\ Listed(q) /\ Len(q) = Len(reqs) /\ DOMAIN q = DOMAIN reqs
      /\ \A j \in DOMAIN reqs \ {i} : q[j] = reqs[j]
      /\ q[i] = [reqs[i] EXCEPT !.res = res, !.rank = NextRank]
  BY ShapeIs, ServedIs
<1> HIDE DEF q
<1>3. q[i].rank = NextRank /\ q[i].op = reqs[i].op
  BY <1>2, ShapeIs DEF HasFields
<1>4. QueueOK(q, d.next, lists)
  BY <1>1, <1>2, <1>3, QueueServed DEF Shape
<1>5. StoreOK(lists, rec, d.next)
  BY <1>1, StoreGrows DEF Shape
<1>6. StoreOK(lists', rec', d.next) /\ QueueOK(reqs', d.next, lists') /\ Len(reqs') = Len(q) /\ db' = d
  BY <1>1, <1>4, <1>5, CommitShape DEF q
<1> QED BY <1>2, <1>6 DEF Shape

\* A request that was served has its answer and the next rank.
LEMMA ServedRequest ==
  ASSUME Shape, NEW i \in DOMAIN reqs, NEW res
  PROVE  LET p == [reqs[i] EXCEPT !.res = res, !.rank = NextRank] IN
         /\ DOMAIN p = DOMAIN reqs[i] /\ p.res = res /\ p.rank = NextRank /\ p.rank \in Nat /\ p.rank > 0
         /\ HasFields(p) /\ p.op = reqs[i].op
         /\ \A f \in DOMAIN reqs[i] \ {"res", "rank"} : p[f] = reqs[i][f]
<1>1. Cardinality(Answerable(reqs)) \in Nat
  BY ShapeIs, AnswerableFinite
<1>2. NextRank \in Nat /\ NextRank > 0
  BY <1>1 DEF NextRank, Answerable
<1> QED BY <1>2, ShapeIs DEF HasFields

\* Creating a story gives out an id above all in the lists.
LEMMA ServeCreateShape ==
  ASSUME Shape, NEW i \in DOMAIN reqs, ServeCreate(i)  PROVE Shape'
<1> DEFINE r == reqs[i]
           n == db.next
           out == CreateStory(db, TRUE, r.title, r.tags)
           res == out.res
           p == [r EXCEPT !.res = res, !.rank = NextRank]
<1>1. r.op = "create" /\ r.rank = 0 /\ n <= MaxIds /\ Commit(out.db, Served(i, res))
      /\ UNCHANGED <<rec, view, changes, disturbed>>
  BY DEF ServeCreate, Unserved
<1>2. HasFields(r) /\ CreateRequestOK(r, n, lists) /\ n \in Nat \ {0} /\ LibraryOK(db)
  BY <1>1, ShapeIs DEF RequestOK, Shape
<1>3. LibraryOK(out.db)
  BY <1>2, CreateStoryOK DEF CreateRequestOK
<1>4. /\ out.db.next = db.next + 1 /\ DOMAIN out.db.story = DOMAIN db.story \cup {db.next}
      /\ out.res.id = db.next /\ out.res.story = Now(out.db, db.next)
  <2> DEFINE a == r.title
             b == r.tags
             o == CreateStory(db, TRUE, a, b)
  <2>1. /\ o.db.next = db.next + 1 /\ DOMAIN o.db.story = DOMAIN db.story \cup {db.next}
        /\ o.res.id = db.next /\ o.res.story = Now(o.db, db.next)
    <3> HIDE DEF a, b
    <3> QED BY <1>2, CreateStoryIs
  <2> QED BY <2>1
<1> HIDE DEF out
<1>5. out.db.next <= MaxIds + 1 /\ n <= out.db.next
  BY <1>1, <1>2, <1>4, WindowAssumption, LibrariesAssumption
<1>6. /\ DOMAIN p = DOMAIN r /\ p.res = res /\ p.rank \in Nat /\ HasFields(p) /\ p.op = r.op
      /\ \A f \in DOMAIN r \ {"res", "rank"} : p[f] = r[f]
  <2> HIDE DEF res
  <2> QED BY ServedRequest
<1>7. res.id = n /\ res.story \in Story
  BY <1>3, <1>4, <1>5, FormatStoryOK
<1> HIDE DEF res
<1>8. p.title = r.title /\ p.id = r.id
  BY <1>1, <1>2, <1>6 DEF CreateRequestOK, HasFields
<1>9. \A s \in ToSet(lists[All].edges) : s < n
  <2>1. ToSet(lists[All].edges) \subseteq Used(n)
    BY <1>2, ShapeIs DEF CreateRequestOK
  <2> QED BY <1>2, <2>1 DEF Used
<1>10. n \in Used(n + 1)
  BY <1>2 DEF Used
<1>11. CreateRequestOK(p, out.db.next, lists)
  <2> HIDE DEF p, r
  <2> QED BY <1>2, <1>4, <1>6, <1>7, <1>8, <1>9, <1>10 DEF CreateRequestOK
<1>12. RequestOK(p, out.db.next, lists)
  BY <1>1, <1>6, <1>11 DEF RequestOK
<1> HIDE DEF n
<1> QED BY <1>1, <1>3, <1>5, <1>12, ServedShape DEF n

\* Updating a story gives out no id.
LEMMA ServeUpdateShape ==
  ASSUME Shape, NEW i \in DOMAIN reqs, ServeUpdate(i)  PROVE Shape'
<1> DEFINE r == reqs[i]
           out == UpdateStory(db, r.id, r.title, r.tags)
           res == out.res
           p == [r EXCEPT !.res = res, !.rank = NextRank]
<1>1. r.op = "update" /\ r.rank = 0 /\ Commit(out.db, Served(i, res))
      /\ UNCHANGED <<rec, view, changes, disturbed>>
  BY DEF ServeUpdate, Unserved
<1>2. HasFields(r) /\ UpdateRequestOK(r, db.next) /\ LibraryOK(db) /\ db.next <= MaxIds + 1
      /\ db.next \in Nat
  BY <1>1, ShapeIs DEF RequestOK, Shape
<1>3. LibraryOK(out.db)
  BY <1>2, UpdateStoryOK DEF UpdateRequestOK
<1>4. /\ out.db.next = db.next /\ DOMAIN out.db.story = DOMAIN db.story
      /\ r.id \notin DOMAIN db.story => res = Null
      /\ r.id \in DOMAIN db.story => res = Now(out.db, r.id)
  BY <1>2, UpdateStoryIs
<1>5. /\ DOMAIN p = DOMAIN r /\ p.res = res /\ p.rank \in Nat /\ HasFields(p) /\ p.op = r.op
      /\ \A f \in DOMAIN r \ {"res", "rank"} : p[f] = r[f]
  <2> HIDE DEF res
  <2> QED BY ServedRequest
<1> HIDE DEF out
<1>6. r.id \in DOMAIN db.story => res \in Story /\ r.id \in Used(db.next)
  BY <1>2, <1>3, <1>4, FormatStoryOK, StoriesUsed
<1> HIDE DEF res
<1>7. p.title = r.title /\ p.id = r.id
  BY <1>1, <1>2, <1>5 DEF UpdateRequestOK, HasFields
<1>8. UpdateRequestOK(p, db.next)
  <2> HIDE DEF p, r
  <2> QED BY <1>2, <1>4, <1>5, <1>6, <1>7 DEF UpdateRequestOK
<1>9. RequestOK(p, db.next, lists)
  BY <1>1, <1>5, <1>8 DEF RequestOK
<1>10. db.next <= out.db.next /\ out.db.next <= MaxIds + 1
  BY <1>2, <1>4
<1> QED BY <1>1, <1>3, <1>4, <1>9, <1>10, ServedShape

\* Deleting a story gives out no id.
LEMMA ServeDeleteShape ==
  ASSUME Shape, NEW i \in DOMAIN reqs, ServeDelete(i)  PROVE Shape'
<1> DEFINE r == reqs[i]
           out == DeleteStory(db, r.id)
           res == out.res
           p == [r EXCEPT !.res = res, !.rank = NextRank]
<1>1. r.op = "delete" /\ r.rank = 0 /\ Commit(out.db, Served(i, res))
      /\ UNCHANGED <<rec, view, changes, disturbed>>
  BY DEF ServeDelete, Unserved
<1>2. HasFields(r) /\ LibraryOK(db) /\ db.next <= MaxIds + 1 /\ db.next \in Nat
  BY <1>1, ShapeIs DEF Shape
<1>3. LibraryOK(out.db)
  BY <1>2, DeleteStoryOK
<1>4. /\ out.db.next = db.next
      /\ r.id \notin DOMAIN db.story => out.res = FALSE
      /\ r.id \in DOMAIN db.story => out.res = TRUE
  <2> HIDE DEF r
  <2> QED BY <1>2, DeleteStoryIs
<1>5. /\ DOMAIN p = DOMAIN r /\ p.res = res /\ p.rank \in Nat /\ HasFields(p) /\ p.op = r.op
      /\ \A f \in DOMAIN r \ {"res", "rank"} : p[f] = r[f]
  <2> HIDE DEF res
  <2> QED BY ServedRequest
<1> HIDE DEF out, res
<1>6. r.id \in DOMAIN db.story => r.id \in Used(db.next)
  BY <1>2, StoriesUsed
<1>11. res \in BOOLEAN /\ (res => r.id \in DOMAIN db.story)
  BY <1>4 DEF res
<1>7. p.id = r.id
  BY <1>1, <1>2, <1>5 DEF HasFields
<1>8. DeleteRequestOK(p, db.next)
  <2> HIDE DEF p, r
  <2> QED BY <1>5, <1>6, <1>7, <1>11 DEF DeleteRequestOK
<1>9. RequestOK(p, db.next, lists)
  BY <1>1, <1>5, <1>8 DEF RequestOK
<1>10. db.next <= out.db.next /\ out.db.next <= MaxIds + 1
  BY <1>2, <1>4
<1> QED BY <1>1, <1>3, <1>4, <1>9, <1>10, ServedShape
-----------------------------------------------------------------------------
(* The other windows *)

\* Changing a tag gives out no id.
LEMMA UpdateTagNext ==
  ASSUME NEW d, NEW t, NEW name, NEW color, LibraryOK(d)
  PROVE  LET e == UpdateTag(d, t, name, color).db IN e.next = d.next /\ DOMAIN e.story = DOMAIN d.story
<1> DEFINE new == [name  |-> IF name = Null THEN d.tag[t].name ELSE name,
                   color |-> IF color = Null THEN d.tag[t].color ELSE color]
           e == [d EXCEPT !.tag = Put(@, t, new)]
           updated == /\ name \in ValidNames \cup {Null} /\ color \in ValidColors \cup {Null}
                      /\ t \in DOMAIN d.tag
                      /\ name # Null => ~ NameTaken(d, name, t)
<1>1. CASE ~ updated
  BY <1>1, LibraryAssumption DEF UpdateTag, Result
<1>2. CASE updated
  <2>1. UpdateTag(d, t, name, color).db = e
    BY <1>2, LibraryAssumption DEF UpdateTag, Result
  <2>2. e.story = d.story /\ e.next = d.next
    BY DEF LibraryOK, WellFormed
  <2> HIDE DEF e
  <2> QED BY <2>1, <2>2
<1> QED BY <1>1, <1>2

\* Creating a tag gives out one id at most.
LEMMA CreateTagNext ==
  ASSUME NEW d, NEW name, NEW color, LibraryOK(d)
  PROVE  LET e == CreateTag(d, name, color).db IN d.next <= e.next /\ DOMAIN e.story = DOMAIN d.story
<1> DEFINE t == d.next
           e == [d EXCEPT !.tag = Put(@, t, [name |-> name, color |-> color]), !.next = t + 1]
           created == name \in ValidNames /\ color \in ValidColors /\ ~ NameTaken(d, name, Null)
<1>0. d.next \in Nat
  BY DEF LibraryOK, IdsUsed
<1>1. CASE ~ created
  <2>1. CreateTag(d, name, color).db = d
    BY <1>1 DEF CreateTag, Result
  <2> QED BY <1>0, <2>1
<1>2. CASE created
  <2>1. CreateTag(d, name, color).db = e
    BY <1>2 DEF CreateTag, Result
  <2>2. e.story = d.story /\ e.next = t + 1
    BY DEF LibraryOK, WellFormed
  <2> HIDE DEF e
  <2> QED BY <1>0, <2>1, <2>2
<1> QED BY <1>1, <1>2

\* Creating a story gives out one id at most.
LEMMA CreateStoryNext ==
  ASSUME NEW d, NEW ok \in BOOLEAN, NEW title, NEW tagIds, LibraryOK(d)
  PROVE  d.next <= CreateStory(d, ok, title, tagIds).db.next
<1>1. d.next \in Nat /\ d.next <= d.next /\ d.next <= d.next + 1
  BY DEF LibraryOK, IdsUsed
<1>2. CASE ok = FALSE
  BY <1>1, <1>2 DEF CreateStory, Result
<1>3. CASE ok = TRUE
  <2> DEFINE s == d.next
             e == [d EXCEPT !.story = Put(@, s, title),
                            !.links = @ \cup {s} \X (tagIds \cap DOMAIN d.tag),
                            !.next = s + 1]
  <2>1. CreateStory(d, ok, title, tagIds).db = e
    BY <1>3 DEF CreateStory, Result
  <2>2. e.next = d.next + 1
    BY DEF LibraryOK, WellFormed
  <2> HIDE DEF e
  <2> QED BY <1>1, <2>1, <2>2
<1> QED BY <1>2, <1>3

\* Ids are never given back, whatever another window changes.
LEMMA ChangedLibrariesNext ==
  ASSUME LibraryOK(db), NEW d \in ChangedLibraries  PROVE db.next <= d.next
<1> DEFINE created == {CreateStory(db, ok, title, ts).db : ok \in BOOLEAN, title \in Titles, ts \in TagIds}
           updated == {UpdateStory(db, s, title, Null).db : s \in DOMAIN db.story, title \in Titles}
           tagged == {SetStoryTags(db, s, ts).db : s \in DOMAIN db.story, ts \in TagIds}
           deleted == {DeleteStory(db, s).db : s \in DOMAIN db.story}
           newTags == {CreateTag(db, name, color).db : name \in Names, color \in Colors}
           renamed == {UpdateTag(db, t, name, Null).db : t \in DOMAIN db.tag, name \in Names}
           goneTags == {DeleteTag(db, t).db : t \in DOMAIN db.tag}
<1>0. db.next \in Nat /\ db.next <= db.next /\ db.next <= db.next + 1
  BY DEF LibraryOK, IdsUsed
<1>1. \A ok \in BOOLEAN : \A title, ts : db.next <= CreateStory(db, ok, title, ts).db.next
  BY CreateStoryNext
<1>2. \A s, title : db.next <= UpdateStory(db, s, title, Null).db.next
  BY <1>0, UpdateStoryIs
<1>3. ASSUME NEW s \in DOMAIN db.story, NEW ts
      PROVE  db.next <= SetStoryTags(db, s, ts).db.next
  <2>1. SetStoryTags(db, s, ts).db = ReplaceTags(db, s, ts)
    BY DEF SetStoryTags, Result
  <2>2. ReplaceTags(db, s, ts).next = db.next
    BY ReplaceTagsIs
  <2> QED BY <1>0, <2>1, <2>2
<1>4. \A s : db.next <= DeleteStory(db, s).db.next
  BY <1>0, DeleteStoryIs
<1>5. \A name, color : db.next <= CreateTag(db, name, color).db.next
  BY CreateTagNext
<1>6. \A t, name : db.next <= UpdateTag(db, t, name, Null).db.next
  BY <1>0, UpdateTagNext
<1>7. ASSUME NEW t  PROVE db.next <= DeleteTag(db, t).db.next
  <2>1. DeleteTag(db, t).db.next = db.next
    BY DEF DeleteTag, Result, LibraryOK, WellFormed
  <2> QED BY <1>0, <2>1
<1>8. ChangedLibraries = created \cup updated \cup tagged \cup deleted
                           \cup newTags \cup renamed \cup goneTags
  BY DEF ChangedLibraries
<1>9. /\ d \in created => db.next <= d.next
      /\ d \in updated => db.next <= d.next
      /\ d \in tagged => db.next <= d.next
      /\ d \in deleted => db.next <= d.next
      /\ d \in newTags => db.next <= d.next
      /\ d \in renamed => db.next <= d.next
      /\ d \in goneTags => db.next <= d.next
  BY <1>1, <1>2, <1>3, <1>4, <1>5, <1>6, <1>7
<1> HIDE DEF created, updated, tagged, deleted, newTags, renamed, goneTags
<1> QED BY <1>8, <1>9

\* The queue stays sound when more ids are given out.
LEMMA QueueGrows ==
  ASSUME NEW q, NEW ls, NEW n \in Nat, NEW m \in Nat, n <= m, QueueOK(q, n, ls)
  PROVE  QueueOK(q, m, ls)
<1>1. \A i \in DOMAIN q : RequestOK(q[i], n, ls) /\ HasFields(q[i])
  BY DEF QueueOK, RequestOK
<1>2. \A i \in DOMAIN q : RequestOK(q[i], m, ls)
  BY <1>1, RequestStays, KinItself, FitsItself
<1> QED BY <1>2 DEF QueueOK

\* What other windows do keeps the shape.
LEMMA ElsewhereShape == Shape /\ Elsewhere => Shape'
<1> SUFFICES ASSUME Shape, Elsewhere  PROVE Shape'
  OBVIOUS
<1>1. PICK d \in ChangedLibraries :
        /\ changes < MaxChanges /\ d.next <= MaxIds + 1
        /\ Commit(d, reqs) /\ changes' = changes + 1
        /\ disturbed' = TRUE /\ UNCHANGED <<rec, view>>
  BY DEF Elsewhere
<1>2. LibraryOK(db) /\ LibraryOK(d) /\ db.next <= d.next
  BY ChangedLibrariesSound, ChangedLibrariesNext DEF Shape
<1>3. db.next \in Nat \ {0} /\ d.next \in Nat \ {0}
  BY <1>2, StoriesUsed
<1>4. StoreOK(lists, rec, d.next) /\ QueueOK(reqs, d.next, lists)
  BY <1>2, <1>3, StoreGrows, QueueGrows DEF Shape
<1>5. StoreOK(lists', rec', d.next) /\ QueueOK(reqs', d.next, lists') /\ Len(reqs') = Len(reqs) /\ db' = d
  BY <1>1, <1>3, <1>4, CommitShape
<1>6. changes' \in 0 .. MaxChanges
  BY <1>1, WindowAssumption, LibrariesAssumption DEF Shape
<1> QED BY <1>1, <1>2, <1>5, <1>6 DEF Shape
-----------------------------------------------------------------------------
(* The answers *)

\* What is left of the requests when the i-th is answered, with the lists as
\* they are then.
LEMMA AnsweredLeft ==
  ASSUME Shape, NEW i \in DOMAIN reqs, NEW ks, \A j \in DOMAIN reqs \ {i} : Fits(reqs[j], lists, ks)
  PROVE  QueueOK(Without(i), db.next, ks) /\ Len(Without(i)) <= MaxRequests - 1
<1>1. QueueOK(Without(i), db.next, ks) /\ Len(Without(i)) = Len(reqs) - 1
  BY ShapeIs, QueueLess DEF Shape
<1>2. Len(reqs) - 1 <= MaxRequests - 1
  BY ShapeIs, WindowAssumption, LibrariesAssumption DEF Shape
<1> QED BY <1>1, <1>2

\* Losing an answer keeps the shape.
LEMMA LoseShape ==
  ASSUME Shape, NEW i \in DOMAIN reqs, Lose(i)  PROVE Shape'
<1>1. QueueOK(Without(i), db.next, lists) /\ Len(Without(i)) = Len(reqs) - 1
  BY LeftAlone
<1>2. Len(Without(i)) <= MaxRequests
  BY <1>1, ShapeIs, WindowAssumption, LibrariesAssumption DEF Shape
<1>3. disturbed' \in BOOLEAN
  BY DEF Lose
<1> QED BY <1>1, <1>2, <1>3 DEF Lose, Shape

\* The answer to an update changes a story that the store may have.
LEMMA AnswerUpdateShape ==
  ASSUME Shape, NEW i \in DOMAIN reqs, AnswerUpdate(i)  PROVE Shape'
<1> DEFINE r == reqs[i]
<1>1. /\ r.op = "update" /\ r.rank > 0 /\ reqs' = Without(i) /\ lists' = lists /\ db' = db /\ view' = view
      /\ changes' = changes /\ disturbed' \in BOOLEAN
      /\ rec' = IF r.res = Null THEN rec ELSE Put(rec, r.id, r.res)
  BY DEF AnswerUpdate, Answered
<1>2. QueueOK(Without(i), db.next, lists) /\ Len(Without(i)) = Len(reqs) - 1
  BY LeftAlone
<1>3. Len(Without(i)) <= MaxRequests
  BY <1>2, ShapeIs, WindowAssumption, LibrariesAssumption DEF Shape
<1>4. r.res # Null => r.id \in Used(db.next) /\ r.res \in Story
  BY <1>1, ShapeIs DEF RequestOK, UpdateRequestOK
<1> HIDE DEF r
<1>5. StoreOK(lists', rec', db.next)
  <2>1. DOMAIN rec \subseteq DOMAIN rec' /\ \A s \in DOMAIN rec' : s \in Used(db.next) /\ rec'[s] \in Story \cup {Gone}
    BY <1>1, <1>4 DEF Shape, StoreOK, Put
  <2> QED BY <1>1, <2>1 DEF Shape, StoreOK
<1> QED BY <1>1, <1>2, <1>3, <1>5 DEF Shape

\* The answer to a deletion leaves Gone in the store.
LEMMA AnswerDeleteShape ==
  ASSUME Shape, NEW i \in DOMAIN reqs, AnswerDelete(i)  PROVE Shape'
<1> DEFINE r == reqs[i]
<1>1. /\ r.op = "delete" /\ r.rank > 0 /\ reqs' = Without(i) /\ lists' = lists /\ db' = db /\ view' = view
      /\ changes' = changes /\ disturbed' \in BOOLEAN
      /\ rec' = IF r.res THEN Put(rec, r.id, Gone) ELSE rec
  BY DEF AnswerDelete, Answered
<1>2. QueueOK(Without(i), db.next, lists) /\ Len(Without(i)) = Len(reqs) - 1
  BY LeftAlone
<1>3. Len(Without(i)) <= MaxRequests
  BY <1>2, ShapeIs, WindowAssumption, LibrariesAssumption DEF Shape
<1>4. r.res \in BOOLEAN /\ (r.res => r.id \in Used(db.next))
  BY <1>1, ShapeIs DEF RequestOK, DeleteRequestOK
<1> HIDE DEF r
<1>5. StoreOK(lists', rec', db.next)
  <2>1. DOMAIN rec \subseteq DOMAIN rec' /\ \A s \in DOMAIN rec' : s \in Used(db.next) /\ rec'[s] \in Story \cup {Gone}
    BY <1>1, <1>4 DEF Shape, StoreOK, Put
  <2> QED BY <1>1, <2>1 DEF Shape, StoreOK
<1> QED BY <1>1, <1>2, <1>3, <1>5 DEF Shape

\* The list of all stories with the new one before the others.
LEMMA AnswerCreateIs ==
  ASSUME Shape, NEW i \in DOMAIN reqs, AnswerCreate(i)
  PROVE  LET r == reqs[i]
             new == r.res.id IN
         /\ r.op = "create" /\ r.rank > 0 /\ reqs' = Without(i)
         /\ db' = db /\ view' = view /\ changes' = changes
         /\ disturbed' = (disturbed \/ Overtakes(i)) /\ disturbed' \in BOOLEAN
         /\ new \in Used(db.next) /\ r.res.story \in Story /\ rec' = Put(rec, new, r.res.story)
         /\ All \in DOMAIN lists /\ DOMAIN lists' = DOMAIN lists
         /\ \A s \in ToSet(lists[All].edges) : s < new
         /\ \A k \in DOMAIN lists \ {All} : lists'[k] = lists[k]
         /\ ListOK(lists'[All], db.next) /\ ToSet(lists'[All].edges) = ToSet(lists[All].edges) \cup {new}
         /\ \A f \in Fields \ {"edges"} : lists'[All][f] = lists[All][f]
<1> DEFINE r == reqs[i]
           new == r.res.id
           l == lists[All]
           m == [l EXCEPT !.edges = <<new>> \o @]
<1>1. /\ r.op = "create" /\ r.rank > 0 /\ reqs' = Without(i)
      /\ db' = db /\ view' = view /\ changes' = changes
      /\ disturbed' = (disturbed \/ Overtakes(i)) /\ disturbed' \in BOOLEAN
      /\ rec' = Put(rec, new, r.res.story)
      /\ lists' = [lists EXCEPT ![All].edges = <<new>> \o @]
  BY DEF AnswerCreate, Answered
<1>2. new \in Used(db.next) /\ r.res.story \in Story /\ All \in DOMAIN lists
      /\ \A s \in ToSet(l.edges) : s < new
  BY <1>1, ShapeIs DEF RequestOK, CreateRequestOK
<1>3. DOMAIN lists' = DOMAIN lists /\ lists'[All] = m /\ \A k \in DOMAIN lists \ {All} : lists'[k] = lists[k]
  BY <1>1, <1>2
<1>4. ListOK(l, db.next) /\ db.next \in Nat \ {0}
  BY <1>2, ShapeIs
<1> HIDE DEF new
<1>5. /\ ListOK(m, db.next) /\ ToSet(m.edges) = ToSet(l.edges) \cup {new}
      /\ \A f \in DOMAIN l \ {"edges"} : m[f] = l[f]
  <2> HIDE DEF l
  <2> QED BY <1>2, <1>4, PrependedOK
<1>6. DOMAIN l = Fields
  BY <1>4 DEF ListOK
<1> HIDE DEF m, r
<1> QED BY <1>1, <1>2, <1>3, <1>5, <1>6 DEF r, new

\* The new story is above all in the list that it is put before.
LEMMA AnswerCreateShape ==
  ASSUME Shape, NEW i \in DOMAIN reqs, AnswerCreate(i)  PROVE Shape'
<1> DEFINE r == reqs[i]
           new == r.res.id
<1>1. /\ r.op = "create" /\ r.rank > 0 /\ reqs' = Without(i)
      /\ db' = db /\ view' = view /\ changes' = changes /\ disturbed' \in BOOLEAN
      /\ new \in Used(db.next) /\ r.res.story \in Story /\ rec' = Put(rec, new, r.res.story)
      /\ All \in DOMAIN lists /\ DOMAIN lists' = DOMAIN lists
      /\ \A k \in DOMAIN lists \ {All} : lists'[k] = lists[k]
      /\ ListOK(lists'[All], db.next) /\ ToSet(lists'[All].edges) = ToSet(lists[All].edges) \cup {new}
      /\ \A f \in Fields \ {"edges"} : lists'[All][f] = lists[All][f]
  BY AnswerCreateIs
<1>2. \A k \in DOMAIN lists : lists'[k].endCursor = lists[k].endCursor
  BY <1>1 DEF Fields
<1>3. ASSUME NEW j \in DOMAIN reqs \ {i}  PROVE Fits(reqs[j], lists, lists')
  <2>1. reqs[j].op # "create"
    BY <1>1, <1>3, ShapeIs DEF Apart
  <2> QED BY <1>1, <1>2, <2>1 DEF Fits
<1>4. QueueOK(reqs', db.next, lists') /\ Len(reqs') <= MaxRequests - 1
  BY <1>1, <1>3, AnsweredLeft
<1>5. Len(reqs') <= MaxRequests
  <2>1. Len(reqs') \in Nat
    BY <1>4, ListedIs DEF QueueOK
  <2> QED BY <1>4, <2>1, WindowAssumption, LibrariesAssumption
<1> HIDE DEF r, new
<1>6. StoreOK(lists', rec', db.next)
  <2>1. /\ DOMAIN rec' = DOMAIN rec \cup {new}
        /\ \A s \in DOMAIN rec' : s \in Used(db.next) /\ rec'[s] \in Story \cup {Gone}
    BY <1>1 DEF Shape, StoreOK, Put
  <2>2. ASSUME NEW k \in DOMAIN lists'
        PROVE  ListOK(lists'[k], db.next) /\ ToSet(lists'[k].edges) \subseteq DOMAIN rec'
    BY <1>1, <2>1 DEF Shape, StoreOK
  <2> QED BY <1>1, <2>1, <2>2 DEF Shape, StoreOK
<1> QED BY <1>1, <1>4, <1>5, <1>6 DEF Shape

\* A page takes the place of a list or is put after it.
LEMMA AnswerListIs ==
  ASSUME Shape, NEW i \in DOMAIN reqs, AnswerList(i)
  PROVE  LET r == reqs[i]
             l == lists[r.key]
             m == lists'[r.key] IN
         /\ r.op = "list" /\ r.rank > 0 /\ ListRequestOK(r, db.next, lists)
         /\ reqs' = Without(i) \/ (/\ reqs' = Append(Without(i), ListRequest(view, Null))
                                   /\ r.key = All /\ view # All /\ view \notin DOMAIN lists
                                   /\ ~ Loading(view))
         /\ db' = db /\ view' = view /\ changes' = changes
         /\ disturbed' = (disturbed \/ Overtakes(i)) /\ disturbed' \in BOOLEAN
         /\ rec' = Known(r.res.stories)
         /\ DOMAIN lists' = DOMAIN lists \cup {r.key}
         /\ \A k \in DOMAIN lists \ {r.key} : lists'[k] = lists[k]
         /\ ListOK(m, db.next) /\ m.hasNextPage = r.res.hasNextPage
         /\ r.after = Null => /\ r.key \notin DOMAIN lists /\ ToSet(m.edges) = DOMAIN r.res.stories
                              /\ m.tag = r.found /\ m.steady = r.steady
                              /\ m.endCursor = r.res.endCursor
         /\ r.after # Null => /\ r.key \in DOMAIN lists /\ ToSet(m.edges) = ToSet(l.edges) \cup DOMAIN r.res.stories
                              /\ m.tag = l.tag /\ m.steady = l.steady
                              /\ m.endCursor = IF r.res.endCursor = Null THEN l.endCursor ELSE r.res.endCursor
<1> DEFINE r == reqs[i]
           l == lists[r.key]
           p == r.res
           loaded == Connection(p, r.found, r.steady)
           new == Descending(DOMAIN p.stories \ ToSet(l.edges))
           more == Appended(l, p, new)
           m == IF r.after = Null THEN loaded ELSE more
<1>1. /\ r.op = "list" /\ r.rank > 0
      /\ reqs' = Without(i) \/ (/\ reqs' = Append(Without(i), ListRequest(view, Null))
                                /\ r.key = All /\ view # All /\ view \notin DOMAIN lists
                                /\ ~ Loading(view))
      /\ db' = db /\ view' = view /\ changes' = changes
      /\ disturbed' = (disturbed \/ Overtakes(i)) /\ disturbed' \in BOOLEAN
      /\ rec' = Known(p.stories)
  BY DEF AnswerList, Answered
<1>2. loaded.hasNextPage = p.hasNextPage /\ loaded.endCursor = p.endCursor /\ loaded.totalCount = p.totalCount
  BY DEF Connection
<1>3. lists' = Put(lists, r.key, m)
  <2>1. more = [l EXCEPT !.edges = @ \o new,
                         !.hasNextPage = loaded.hasNextPage,
                         !.endCursor = IF loaded.endCursor = Null THEN @ ELSE loaded.endCursor,
                         !.totalCount = loaded.totalCount]
    <3> HIDE DEF loaded, new
    <3> QED BY <1>2 DEF Appended
  <2> QED BY <2>1 DEF AnswerList
<1>4. ListRequestOK(r, db.next, lists) /\ db.next \in Nat \ {0}
  BY <1>1, ShapeIs DEF RequestOK
<1>5. PageOK(p, db.next) /\ \A s \in DOMAIN p.stories : Below(r, s)
  BY <1>1, <1>4 DEF ListRequestOK
<1>6. r.after = Null => /\ r.key \notin DOMAIN lists /\ ListOK(m, db.next)
                        /\ ToSet(m.edges) = DOMAIN p.stories
                        /\ m.tag = r.found /\ m.steady = r.steady
                        /\ m.hasNextPage = p.hasNextPage /\ m.endCursor = p.endCursor
  <2> SUFFICES ASSUME r.after = Null
               PROVE  /\ r.key \notin DOMAIN lists /\ ListOK(loaded, db.next)
                      /\ ToSet(loaded.edges) = DOMAIN p.stories
                      /\ loaded.tag = r.found /\ loaded.steady = r.steady
                      /\ loaded.hasNextPage = p.hasNextPage /\ loaded.endCursor = p.endCursor
    OBVIOUS
  <2>1. r.key \notin DOMAIN lists
    BY <1>4 DEF ListRequestOK
  <2> DEFINE tag == r.found
             steady == r.steady
  <2> HIDE DEF p, r
  <2>2. LET pg == Connection(p, tag, steady) IN
        /\ ListOK(pg, db.next) /\ ToSet(pg.edges) = DOMAIN p.stories
        /\ pg.tag = tag /\ pg.steady = steady
        /\ pg.hasNextPage = p.hasNextPage /\ pg.endCursor = p.endCursor
    <3> HIDE DEF tag, steady
    <3> QED BY <1>4, <1>5, ConnectionOK
  <2> QED BY <2>1, <2>2
<1>7. r.after # Null => /\ r.key \in DOMAIN lists /\ ListOK(m, db.next)
                        /\ ToSet(m.edges) = ToSet(l.edges) \cup DOMAIN p.stories
                        /\ m.tag = l.tag /\ m.steady = l.steady
                        /\ m.hasNextPage = p.hasNextPage
                        /\ m.endCursor = IF p.endCursor = Null THEN l.endCursor ELSE p.endCursor
  <2> SUFFICES ASSUME r.after # Null
               PROVE  /\ r.key \in DOMAIN lists /\ ListOK(more, db.next)
                      /\ ToSet(more.edges) = ToSet(l.edges) \cup DOMAIN p.stories
                      /\ more.tag = l.tag /\ more.steady = l.steady
                      /\ more.hasNextPage = p.hasNextPage
                      /\ more.endCursor = IF p.endCursor = Null THEN l.endCursor ELSE p.endCursor
    OBVIOUS
  <2>1. r.key \in DOMAIN lists /\ r.after = l.endCursor
    BY <1>4 DEF ListRequestOK
  <2>2. ListOK(l, db.next)
    BY <2>1, ShapeIs
  <2>3. l.endCursor # Null /\ \A s \in DOMAIN p.stories : s < l.endCursor
    BY <1>5, <2>1 DEF Below
  <2> HIDE DEF p, l
  <2> QED BY <1>4, <1>5, <2>1, <2>2, <2>3, AppendedOK
<1> HIDE DEF m
<1>8. /\ DOMAIN lists' = DOMAIN lists \cup {r.key} /\ lists'[r.key] = m
      /\ \A k \in DOMAIN lists \ {r.key} : lists'[k] = lists[k]
  BY <1>3 DEF Put
<1> HIDE DEF r, p, l, loaded, more, new
<1>9. ListOK(m, db.next) /\ m.hasNextPage = p.hasNextPage
  BY <1>6, <1>7
<1> QED BY <1>1, <1>4, <1>6, <1>7, <1>8, <1>9 DEF r, p, l

\* A page comes for the list that it was asked for.
LEMMA AnswerListShape ==
  ASSUME Shape, NEW i \in DOMAIN reqs, AnswerList(i)  PROVE Shape'
<1> DEFINE r == reqs[i]
           p == r.res
           l == lists[r.key]
           m == lists'[r.key]
<1>1. /\ r.op = "list" /\ r.rank > 0 /\ ListRequestOK(r, db.next, lists)
      /\ reqs' = Without(i) \/ (/\ reqs' = Append(Without(i), ListRequest(view, Null))
                                /\ r.key = All /\ view # All /\ view \notin DOMAIN lists
                                /\ ~ Loading(view))
      /\ db' = db /\ view' = view /\ changes' = changes /\ disturbed' \in BOOLEAN
      /\ rec' = Known(p.stories)
      /\ DOMAIN lists' = DOMAIN lists \cup {r.key}
      /\ \A k \in DOMAIN lists \ {r.key} : lists'[k] = lists[k]
      /\ ListOK(m, db.next)
      /\ r.after = Null => r.key \notin DOMAIN lists /\ ToSet(m.edges) = DOMAIN p.stories
      /\ r.after # Null => r.key \in DOMAIN lists /\ ToSet(m.edges) = ToSet(l.edges) \cup DOMAIN p.stories
  BY AnswerListIs
<1>2. PageOK(p, db.next) /\ r.key \in Keys /\ \A s \in DOMAIN p.stories : Below(r, s)
  BY <1>1 DEF ListRequestOK
<1>3. ASSUME NEW j \in DOMAIN reqs \ {i}  PROVE Fits(reqs[j], lists, lists')
  <2>1. CASE reqs[j].op = "list"
    <3>1. reqs[j].key # r.key
      BY <1>1, <1>3, <2>1, ShapeIs DEF Apart
    <3> QED BY <1>1, <2>1, <3>1 DEF Fits
  <2>2. CASE reqs[j].op = "create"
    <3>1. All \in DOMAIN lists
      BY <2>2, ShapeIs DEF RequestOK, CreateRequestOK
    <3>2. CASE r.key # All
      BY <1>1, <2>2, <3>1, <3>2 DEF Fits
    <3>3. CASE r.key = All
      <4>1. r.after # Null /\ r.after = l.endCursor
        BY <1>1, <3>1, <3>3 DEF ListRequestOK
      <4>2. l.endCursor \in ToSet(l.edges) /\ ToSet(l.edges) \subseteq Nat
        BY <3>1, <3>3, <4>1, ShapeIs DEF ListOK
      <4>3. \A s \in DOMAIN p.stories : s \in Nat /\ s < l.endCursor
        BY <1>2, <4>1, ShapeIs DEF Below, PageOK
      <4>4. reqs[j].rank > 0 /\ (\A s \in ToSet(l.edges) : s < reqs[j].res.id) =>
              \A s \in ToSet(m.edges) : s < reqs[j].res.id
        <5> SUFFICES ASSUME reqs[j].rank > 0, \A s \in ToSet(l.edges) : s < reqs[j].res.id,
                            NEW s \in ToSet(m.edges)
                     PROVE  s < reqs[j].res.id
          OBVIOUS
        <5>1. reqs[j].res.id \in Nat
          BY <2>2, ShapeIs DEF RequestOK, CreateRequestOK
        <5>2. CASE s \in ToSet(l.edges)
          BY <5>2
        <5>3. CASE s \in DOMAIN p.stories
          <6>1. s < l.endCursor /\ s \in Nat /\ l.endCursor \in Nat /\ l.endCursor < reqs[j].res.id
            BY <4>2, <4>3, <5>3
          <6> QED BY <5>1, <6>1
        <5> QED BY <1>1, <4>1, <5>2, <5>3
      <4> QED BY <1>1, <2>2, <3>3, <4>4 DEF Fits
    <3> QED BY <3>2, <3>3
  <2>3. CASE reqs[j].op \notin {"list", "create"}
    BY <2>3 DEF Fits
  <2> QED BY <2>1, <2>2, <2>3
<1>4. QueueOK(Without(i), db.next, lists') /\ Len(Without(i)) <= MaxRequests - 1
  BY <1>3, AnsweredLeft
<1>5. QueueOK(reqs', db.next, lists') /\ Len(reqs') <= MaxRequests
  <2>0. Len(Without(i)) \in Nat
    BY <1>4, ListedIs DEF QueueOK
  <2>1. CASE reqs' = Without(i)
    BY <1>4, <2>0, <2>1, WindowAssumption, LibrariesAssumption
  <2>2. CASE /\ reqs' = Append(Without(i), ListRequest(view, Null))
             /\ r.key = All /\ view # All /\ view \notin DOMAIN lists
             /\ ~ Loading(view)
    <3>1. RequestOK(ListRequest(view, Null), db.next, lists')
      <4>1. view \notin DOMAIN lists' /\ view \in Keys
        BY <1>1, <2>2 DEF Shape
      <4> QED BY <4>1, FirstPageOK
    <3>2. \A j \in DOMAIN Without(i) : Without(i)[j].op = "list" => Without(i)[j].key # view
      BY <2>2, LeftAlone
    <3>3. QueueOK(reqs', db.next, lists') /\ Len(reqs') = Len(Without(i)) + 1
      BY <1>4, <2>2, <3>1, <3>2, ListRequestIs, QueueMore
    <3> QED BY <1>4, <2>0, <3>3, WindowAssumption, LibrariesAssumption
  <2> QED BY <1>1, <2>1, <2>2
<1>6. StoreOK(lists', rec', db.next)
  <2>1. /\ DOMAIN rec' = DOMAIN rec \cup DOMAIN p.stories
        /\ \A s \in DOMAIN rec' : s \in Used(db.next) /\ rec'[s] \in Story \cup {Gone}
    <3> HIDE DEF p
    <3> QED BY <1>1, <1>2 DEF Known, Shape, StoreOK, PageOK
  <2> HIDE DEF p, l, m, r
  <2>2. ToSet(m.edges) \subseteq DOMAIN rec'
    <3>1. r.key \in DOMAIN lists => ToSet(l.edges) \subseteq DOMAIN rec
      BY DEF Shape, StoreOK, l
    <3> QED BY <1>1, <2>1, <3>1
  <2>3. ASSUME NEW k \in DOMAIN lists'
        PROVE  ListOK(lists'[k], db.next) /\ ToSet(lists'[k].edges) \subseteq DOMAIN rec'
    <3>1. CASE k = r.key
      BY <1>1, <2>2, <3>1 DEF m
    <3>2. CASE k # r.key
      BY <1>1, <2>1, <3>2 DEF Shape, StoreOK
    <3> QED BY <3>1, <3>2
  <2> QED BY <1>1, <1>2, <2>1, <2>3 DEF Shape, StoreOK
<1> QED BY <1>1, <1>5, <1>6 DEF Shape

\* The answers keep the shape.
LEMMA NetworkShape ==
  ASSUME Shape, NEW i \in DOMAIN reqs, NetworkActs(i)  PROVE Shape'
  BY AnswerListShape, AnswerCreateShape, AnswerUpdateShape, AnswerDeleteShape, LoseShape DEF NetworkActs

\* The API keeps the shape.
LEMMA ApiShape ==
  ASSUME Shape, NEW i \in DOMAIN reqs, ApiActs(i)  PROVE Shape'
  BY FindShape, ServeListShape, ServeCreateShape, ServeUpdateShape, ServeDeleteShape DEF ApiActs

\* Every step keeps the shape.
LEMMA ShapeStays == Shape /\ [Next]_vars => Shape'
<1> SUFFICES ASSUME Shape, [Next]_vars  PROVE Shape'
  OBVIOUS
<1>1. CASE Next
  BY <1>1, UserShape, ApiShape, NetworkShape, ElsewhereShape DEF Next
<1>2. CASE UNCHANGED vars
  BY <1>2 DEF vars, Shape
<1> QED BY <1>1, <1>2

\* The shape is what the two invariants need.
LEMMA ShapeIsSound == Shape => PageSound /\ LibrarySound
<1> SUFFICES ASSUME Shape PROVE PageSound /\ LibrarySound
  OBVIOUS
<1>1. LibrarySound /\ WellFormed(db)
  BY DEF Shape, LibrarySound, LibraryOK
<1>2. Used(db.next) \subseteq 1 .. MaxIds
  BY ShapeIs, WindowAssumption, LibrariesAssumption DEF Shape, Used
<1>3. \A s \in DOMAIN rec : s \in 1 .. MaxIds /\ rec[s] \in Story \cup {Gone}
  BY <1>2 DEF Shape, StoreOK
<1>4. DOMAIN lists \subseteq Keys /\ \A k \in DOMAIN lists : ToSet(lists[k].edges) \subseteq DOMAIN rec
  BY DEF Shape, StoreOK
<1>5. \A i, j \in InFlight("list") : reqs[i].key = reqs[j].key => i = j
  BY ShapeIs DEF InFlight, Apart
<1>6. TypeOK
  BY <1>1, <1>3, <1>4, <1>5 DEF TypeOK, Shape
<1>7. RowsDescend
  BY ShapeIs DEF RowsDescend, ListOK
<1> QED BY <1>1, <1>6, <1>7 DEF PageSound

\* The Library object keeps no link to a story or a tag that is not there, no
\* two tags of one name, and never gives an id out again, for any number of
\* stories, tags, windows and requests (handlers.ts).
THEOREM LibraryStaysSound == Spec => []LibrarySound
<1> QED BY InitShape, ShapeStays, ShapeIsSound, PTL DEF Spec

\* The page has only rows that its store has, in order and each once, after every
\* answer, for pages of any size and any number of requests in flight whose
\* answers overtake each other or are lost (Library.tsx, handlers.ts).
THEOREM PageStaysSound == Spec => []PageSound
<1> QED BY InitShape, ShapeStays, ShapeIsSound, PTL DEF Spec
-----------------------------------------------------------------------------
(* What is steady is not skipped *)

\* What has ids down to its cursor, or all of them when nothing follows.
Reached(c, s) == ~ c.hasNextPage \/ s >= c.endCursor

\* Steady stories belong to the list, by the tag it was read with.
SteadyOK(d, k, tag, steady) ==
  /\ steady \subseteq Members(d, k)
  /\ k # All /\ steady # {} => TagNamed(d, k) = tag

SteadyList(k, l, d) ==
  /\ SteadyOK(d, k, l.tag, l.steady)
  /\ \A s \in l.steady : Reached(l, s) => s \in ToSet(l.edges)

\* A page that was served has what is steady down to its cursor: in the list it
\* is for, or since it was served when it is a first page.
SteadyRequest(r, d, ls) ==
  /\ SteadyOK(d, r.key, r.found, r.steady)
  /\ r.rank = 0 => r.steady = {}
  /\ r.after # Null /\ r.found # Null /\ ls[r.key].steady # {} => r.found = ls[r.key].tag
  /\ r.rank > 0 => \A s \in IF r.after = Null THEN r.steady ELSE ls[r.key].steady :
                     Below(r, s) /\ Reached(r.res, s) => s \in DOMAIN r.res.stories

SteadyQueue(q, d, ls) == \A i \in DOMAIN q : q[i].op = "list" => SteadyRequest(q[i], d, ls)

\* Stories that are steady stay so, in the lists and on the way to them.
Steady ==
  /\ \A k \in DOMAIN lists : SteadyList(k, lists[k], db)
  /\ SteadyQueue(reqs, db, lists)

\* The lists ls become ks without a story becoming steady in them.
Settled(r, ls, ks) ==
  r.after # Null => ks[r.key].steady \subseteq ls[r.key].steady /\ ks[r.key].tag = ls[r.key].tag

\* What is steady stays so for a request, when the lists gain no steady story.
LEMMA SteadyRequestStays ==
  ASSUME NEW p, NEW r, NEW d, NEW e, NEW n, NEW ls, NEW ks, r.op = "list", RequestOK(r, n, ls), Kin(p, r),
         SteadyRequest(r, d, ls), Settled(r, ls, ks), p.steady \subseteq r.steady,
         SteadyOK(e, r.key, r.found, p.steady)
  PROVE  SteadyRequest(p, e, ks)
<1>1. ListRequestOK(r, n, ls)
  BY DEF RequestOK
<1>2. p.key = r.key /\ p.after = r.after /\ p.found = r.found /\ p.res = r.res
      /\ (p.rank > 0 <=> r.rank > 0) /\ p.rank \in Nat /\ r.rank \in Nat
  BY <1>1 DEF Kin, ListRequestOK, RequestOK, HasFields
<1>3. p.rank = 0 => p.steady = {}
  BY <1>2 DEF SteadyRequest
<1>4. p.rank > 0 => \A s \in IF p.after = Null THEN p.steady ELSE ks[p.key].steady :
        Below(p, s) /\ Reached(p.res, s) => s \in DOMAIN p.res.stories
  <2> SUFFICES ASSUME p.rank > 0, NEW s \in IF p.after = Null THEN p.steady ELSE ks[p.key].steady,
                      Below(p, s), Reached(p.res, s)
               PROVE  s \in DOMAIN p.res.stories
    OBVIOUS
  <2>1. s \in IF r.after = Null THEN r.steady ELSE ls[r.key].steady
    BY <1>2 DEF Settled
  <2>2. Below(r, s)
    BY <1>2 DEF Below
  <2> QED BY <1>2, <2>1, <2>2 DEF SteadyRequest
<1>5. p.after # Null /\ p.found # Null /\ ks[p.key].steady # {} => p.found = ks[p.key].tag
  BY <1>2 DEF SteadyRequest, Settled
<1> QED BY <1>2, <1>3, <1>4, <1>5 DEF SteadyRequest

\* And for all of them, when one is dropped.
LEMMA SteadyDropped ==
  ASSUME Shape, Steady, NEW i \in DOMAIN reqs, NEW ks,
         \A j \in DOMAIN reqs \ {i} : reqs[j].op = "list" => Settled(reqs[j], lists, ks)
  PROVE  SteadyQueue(Without(i), db, ks)
<1>1. Dropped(Without(i), reqs, i)
  BY LeftAlone
<1> SUFFICES ASSUME NEW j \in DOMAIN Without(i), Without(i)[j].op = "list"
             PROVE  SteadyRequest(Without(i)[j], db, ks)
  BY DEF SteadyQueue
<1> DEFINE p == Without(i)[j]
           r == reqs[Old(i, j)]
<1>2. Old(i, j) \in DOMAIN reqs \ {i} /\ Same(p, r) /\ p.rank = Closed(reqs[i].rank, r.rank)
  BY <1>1 DEF Dropped
<1>3. RequestOK(r, db.next, lists) /\ HasFields(r) /\ reqs[i].rank \in Nat /\ r.op = "list"
  BY <1>2, ShapeIs DEF HasFields, Same
<1>4. SteadyRequest(r, db, lists) /\ Settled(r, lists, ks)
  BY <1>2, <1>3 DEF Steady, SteadyQueue
<1> HIDE DEF r, p
<1>5. Kin(p, r)
  BY <1>2, <1>3, SameIsKin
<1>6. p.steady = r.steady
  BY <1>2, <1>3 DEF Same, RequestOK, ListRequestOK
<1>7. SteadyOK(db, r.key, r.found, p.steady)
  BY <1>4, <1>6 DEF SteadyRequest
<1> QED BY <1>3, <1>4, <1>5, <1>6, <1>7, SteadyRequestStays DEF p

\* Lists that do not change gain none.
LEMMA SettledItself ==
  ASSUME NEW r, NEW ls  PROVE Settled(r, ls, ls)
  BY DEF Settled

\* A request made is steady if it is so for itself.
LEMMA SteadyMore ==
  ASSUME NEW q, NEW r, NEW d, NEW ls, Listed(q), SteadyQueue(q, d, ls),
         r.op = "list" => SteadyRequest(r, d, ls)
  PROVE  SteadyQueue(Append(q, r), d, ls)
<1> DEFINE a == Append(q, r)
<1>1. /\ DOMAIN a = 1 .. Len(q) + 1 /\ \A i \in DOMAIN q : a[i] = q[i]
      /\ a[Len(q) + 1] = r /\ DOMAIN q = 1 .. Len(q) /\ Len(q) \in Nat
  BY AppendIs, ListedIs
<1> HIDE DEF a
<1>2. \A i \in DOMAIN a : (i \in DOMAIN q /\ a[i] = q[i]) \/ a[i] = r
  BY <1>1
<1> QED BY <1>2 DEF SteadyQueue, a

\* A page just asked for has nothing that is steady.
LEMMA SteadyAsked ==
  ASSUME NEW k, NEW after, NEW d, NEW ls  PROVE SteadyRequest(ListRequest(k, after), d, ls)
<1> DEFINE r == ListRequest(k, after)
<1>1. r.rank = 0 /\ r.found = Null /\ r.steady = {}
  BY ListRequestIs
<1> HIDE DEF r
<1> QED BY <1>1 DEF SteadyRequest, SteadyOK, r

\* A commit keeps what is still steady.
LEMMA SteadyCommit ==
  ASSUME NEW d, NEW q, NEW n \in Nat, Listed(q), StoreOK(lists, rec, n),
         \A i \in DOMAIN q : HasFields(q[i]) /\ (q[i].op = "list" => RequestOK(q[i], n, lists)),
         SteadyQueue(q, db, lists), \A k \in DOMAIN lists : SteadyList(k, lists[k], db), Commit(d, q)
  PROVE  Steady'
<1>1. Listed(q) /\ \A i \in DOMAIN q : HasFields(q[i]) /\ (q[i].op = "list" => RequestOK(q[i], n, lists))
  OBVIOUS
<1>2. /\ db' = d /\ DOMAIN reqs' = DOMAIN q
      /\ \A i \in DOMAIN q : /\ Kin(reqs'[i], q[i])
                             /\ q[i].op = "list" => reqs'[i] =
                                  [q[i] EXCEPT !.steady = StillSteady(d, q[i].key, q[i].found, @)]
      /\ DOMAIN lists' = DOMAIN lists
      /\ \A k \in DOMAIN lists : lists'[k] = [lists[k] EXCEPT !.steady = StillSteady(d, k, lists[k].tag, @)]
  BY <1>1, CommitIs
<1>3. ASSUME NEW k, NEW tag, NEW steady
      PROVE  /\ StillSteady(d, k, tag, steady) \subseteq steady
             /\ SteadyOK(d, k, tag, StillSteady(d, k, tag, steady))
  BY DEF StillSteady, SteadyOK
<1>4. ASSUME NEW k \in DOMAIN lists
      PROVE  /\ lists'[k].steady = StillSteady(d, k, lists[k].tag, lists[k].steady)
             /\ lists'[k].tag = lists[k].tag /\ lists'[k].edges = lists[k].edges
             /\ lists'[k].hasNextPage = lists[k].hasNextPage /\ lists'[k].endCursor = lists[k].endCursor
  <2> DEFINE v == StillSteady(d, k, lists[k].tag, lists[k].steady)
  <2>1. lists'[k] = [lists[k] EXCEPT !.steady = v] /\ DOMAIN lists[k] = Fields
    BY <1>2 DEF StoreOK, ListOK
  <2> HIDE DEF v
  <2>2. /\ lists'[k].steady = v /\ lists'[k].tag = lists[k].tag /\ lists'[k].edges = lists[k].edges
        /\ lists'[k].hasNextPage = lists[k].hasNextPage /\ lists'[k].endCursor = lists[k].endCursor
    BY <2>1 DEF Fields
  <2> QED BY <2>2 DEF v
<1>5. ASSUME NEW k \in DOMAIN lists  PROVE SteadyList(k, lists'[k], d)
  <2>1. /\ lists'[k].steady \subseteq lists[k].steady
        /\ SteadyOK(d, k, lists'[k].tag, lists'[k].steady)
    BY <1>3, <1>4
  <2>2. \A s \in lists[k].steady : Reached(lists[k], s) => s \in ToSet(lists[k].edges)
    BY DEF SteadyList
  <2> QED BY <1>4, <2>1, <2>2 DEF SteadyList, Reached
<1>6. ASSUME NEW i \in DOMAIN q, reqs'[i].op = "list"  PROVE SteadyRequest(reqs'[i], d, lists')
  <2> DEFINE p == reqs'[i]
             r == q[i]
             v == StillSteady(d, r.key, r.found, r.steady)
  <2>1. Kin(p, r) /\ r.op = "list" /\ RequestOK(r, n, lists) /\ SteadyRequest(r, db, lists)
    BY <1>1, <1>2, <1>6 DEF Kin, SteadyQueue
  <2>2. p = [r EXCEPT !.steady = v] /\ ListRequestOK(r, n, lists)
    BY <1>2, <2>1 DEF RequestOK
  <2>3. p.steady = v
    <3> HIDE DEF v
    <3> QED BY <2>2 DEF ListRequestOK
  <2>4. p.steady \subseteq r.steady /\ SteadyOK(d, r.key, r.found, p.steady)
    BY <1>3, <2>3
  <2>5. Settled(r, lists, lists')
    <3>1. r.after # Null => r.key \in DOMAIN lists
      BY <2>2 DEF ListRequestOK
    <3> QED BY <1>3, <1>4, <3>1 DEF Settled
  <2> HIDE DEF p, r
  <2> QED BY <2>1, <2>4, <2>5, SteadyRequestStays DEF p
<1> QED BY <1>2, <1>5, <1>6 DEF Steady, SteadyQueue
-----------------------------------------------------------------------------

\* Nothing is steady at first.
LEMMA InitSteady == Init => Steady
<1> SUFFICES ASSUME Init PROVE Steady
  OBVIOUS
<1> DEFINE r == ListRequest(All, Null)
<1>1. lists = EmptyMap /\ reqs = <<r>>
  BY DEF Init
<1>2. DOMAIN lists = {}
  BY <1>1 DEF EmptyMap
<1>3. SteadyRequest(r, db, lists)
  BY SteadyAsked
<1> HIDE DEF r
<1>4. \A i \in DOMAIN reqs : reqs[i] = r
  BY <1>1
<1> QED BY <1>2, <1>3, <1>4 DEF Steady, SteadyQueue

\* Requests are asked for and dropped.
LEMMA SteadyUser == Shape /\ Steady /\ UserActs => Steady'
<1> SUFFICES ASSUME Shape, Steady, UserActs  PROVE Steady'
  OBVIOUS
<1>0. Listed(reqs)
  BY ShapeIs
<1>1. ASSUME NEW r, r.op = "list" => SteadyRequest(r, db, lists), reqs' = Append(reqs, r),
             db' = db, lists' = lists
      PROVE  Steady'
  <2>1. SteadyQueue(reqs, db, lists)
    BY DEF Steady
  <2>2. SteadyQueue(reqs', db, lists)
    BY <1>0, <1>1, <2>1, SteadyMore
  <2> QED BY <1>1, <2>2 DEF Steady
<1>2. ASSUME NEW title \in Titles, NEW chosen, SubmitStory(title, chosen)  PROVE Steady'
  <2>1. CreateRequest(title, chosen).op # "list"
    BY DEF CreateRequest
  <2> QED BY <1>1, <1>2, <2>1 DEF SubmitStory
<1>3. ASSUME NEW s, NEW title \in Titles, NEW chosen, SaveEdit(s, title, chosen)  PROVE Steady'
  <2>1. PICK t : \E ts :
          reqs' = Append(reqs, UpdateRequest(s, t, ts, [title |-> title, tags |-> chosen]))
    BY <1>3 DEF SaveEdit
  <2>2. PICK ts : reqs' = Append(reqs, UpdateRequest(s, t, ts, [title |-> title, tags |-> chosen]))
    BY <2>1
  <2> DEFINE r == UpdateRequest(s, t, ts, [title |-> title, tags |-> chosen])
  <2>3. r.op # "list"
    BY DEF UpdateRequest
  <2>4. reqs' = Append(reqs, r) /\ db' = db /\ lists' = lists
    BY <1>3, <2>2 DEF SaveEdit
  <2> HIDE DEF r
  <2> QED BY <1>1, <2>3, <2>4
<1>4. ASSUME NEW s, ConfirmDelete(s)  PROVE Steady'
  <2>1. DeleteRequest(s).op # "list"
    BY DEF DeleteRequest
  <2> QED BY <1>1, <1>4, <2>1 DEF ConfirmDelete
<1>5. CASE LoadMore
  BY <1>1, <1>5, SteadyAsked DEF LoadMore
<1>6. ASSUME NEW k, ShowList(k)  PROVE Steady'
  <2>1. PICK q : /\ Kept(q)
                 /\ reqs' = q \/ reqs' = Append(q, ListRequest(k, Null))
    BY <1>6, ShowListIs
  <2>2. SteadyQueue(q, db, lists) /\ Listed(q)
    <3>1. CASE q = reqs
      BY <1>0, <3>1 DEF Steady
    <3>2. ASSUME NEW i \in DOMAIN reqs, q = Without(i)  PROVE SteadyQueue(q, db, lists) /\ Listed(q)
      BY <3>2, SteadyDropped, SettledItself, LeftAlone DEF QueueOK
    <3> QED BY <2>1, <3>1, <3>2 DEF Kept
  <2>3. SteadyQueue(reqs', db, lists)
    BY <2>1, <2>2, SteadyMore, SteadyAsked
  <2> QED BY <1>6, <2>3 DEF ShowList, Steady
<1>7. CASE Reload
  <2> DEFINE r == ListRequest(All, Null)
  <2>1. lists' = EmptyMap /\ reqs' = <<r>> /\ db' = db
    BY <1>7 DEF Reload
  <2>2. DOMAIN lists' = {} /\ SteadyRequest(r, db, lists')
    BY <2>1, SteadyAsked DEF EmptyMap
  <2> HIDE DEF r
  <2>3. \A i \in DOMAIN reqs' : reqs'[i] = r
    BY <2>1
  <2> QED BY <2>1, <2>2, <2>3 DEF Steady, SteadyQueue
<1> QED BY <1>2, <1>3, <1>4, <1>5, <1>6, <1>7 DEF UserActs

\* A commit of a mutation that was served.
LEMMA SteadyMutation ==
  ASSUME Shape, Steady, NEW i \in DOMAIN reqs, NEW d, NEW res, reqs[i].op # "list",
         Commit(d, Served(i, res))
  PROVE  Steady'
<1> DEFINE q == Served(i, res)
<1>1. /\ DOMAIN q = DOMAIN reqs /\ \A j \in DOMAIN reqs \ {i} : q[j] = reqs[j]
      /\ q[i] = [reqs[i] EXCEPT !.res = res, !.rank = NextRank] /\ Listed(q)
  BY ShapeIs, ServedIs
<1> HIDE DEF q
<1>2. q[i].op = reqs[i].op /\ HasFields(q[i])
  <2> DEFINE p == [reqs[i] EXCEPT !.res = res, !.rank = NextRank]
  <2>1. p.op = reqs[i].op /\ HasFields(p)
    BY ServedRequest
  <2> QED BY <1>1, <2>1
<1>3. SteadyQueue(q, db, lists)
  BY <1>1, <1>2 DEF Steady, SteadyQueue
<1>4. \A j \in DOMAIN q : HasFields(q[j]) /\ (q[j].op = "list" => RequestOK(q[j], db.next, lists))
  BY <1>1, <1>2, ShapeIs
<1>5. db.next \in Nat /\ StoreOK(lists, rec, db.next) /\ \A k \in DOMAIN lists : SteadyList(k, lists[k], db)
  BY ShapeIs DEF Shape, Steady
<1> QED BY <1>1, <1>3, <1>4, <1>5, SteadyCommit DEF q

\* What other windows change, Commit takes from what is steady.
LEMMA SteadyElsewhere == Shape /\ Steady /\ Elsewhere => Steady'
<1> SUFFICES ASSUME Shape, Steady, NEW d, Commit(d, reqs)  PROVE Steady'
  BY DEF Elsewhere
<1>1. db.next \in Nat /\ StoreOK(lists, rec, db.next) /\ Listed(reqs)
  BY ShapeIs DEF Shape
<1>2. \A j \in DOMAIN reqs : HasFields(reqs[j]) /\ RequestOK(reqs[j], db.next, lists)
  BY ShapeIs
<1> QED BY <1>1, <1>2, SteadyCommit DEF Steady

\* Looking up the tag changes nothing that is steady.
LEMMA SteadyFind ==
  ASSUME Shape, Steady, NEW i \in DOMAIN reqs, FindTag(i)  PROVE Steady'
<1> DEFINE p == reqs'[i]
           r == reqs[i]
           t == TagNamed(db, r.key)
<1>1. /\ r.op = "list" /\ r.key # All /\ r.rank = 0
      /\ DOMAIN reqs' = DOMAIN reqs /\ \A j \in DOMAIN reqs \ {i} : reqs'[j] = reqs[j]
      /\ p.found = t /\ \A f \in DOMAIN r \ {"found"} : p[f] = r[f]
  BY FindTagIs
<1>2. db' = db /\ lists' = lists
  BY DEF FindTag
<1>3. ListRequestOK(r, db.next, lists) /\ HasFields(r) /\ SteadyRequest(r, db, lists)
  BY <1>1, ShapeIs DEF RequestOK, Steady, SteadyQueue
<1>4. p.key = r.key /\ p.after = r.after /\ p.rank = r.rank /\ p.steady = r.steady /\ r.steady = {}
  BY <1>1, <1>3 DEF ListRequestOK, HasFields, SteadyRequest
<1>5. r.after # Null /\ lists[r.key].steady # {} => t = lists[r.key].tag
  <2>1. r.after # Null => r.key \in DOMAIN lists
    BY <1>3 DEF ListRequestOK
  <2> QED BY <1>1, <2>1 DEF Steady, SteadyList, SteadyOK
<1> HIDE DEF p, r, t
<1>6. SteadyRequest(p, db, lists)
  BY <1>1, <1>4, <1>5 DEF SteadyRequest, SteadyOK
<1> QED BY <1>1, <1>2, <1>6 DEF Steady, SteadyQueue, p

\* The page is taken from what belongs to the list, if its tag was found.
LEMMA SteadyServe ==
  ASSUME Shape, Steady, NEW i \in DOMAIN reqs, ServeList(i)  PROVE Steady'
<1> DEFINE p == reqs'[i]
           r == reqs[i]
<1>1. /\ r.op = "list" /\ ListRequestOK(r, db.next, lists)
      /\ r.key # All /\ r.found = Null => TagNamed(db, r.key) = Null
      /\ DOMAIN reqs' = DOMAIN reqs /\ \A j \in DOMAIN reqs \ {i} : reqs'[j] = reqs[j]
      /\ p.op = "list" /\ p.key = r.key /\ p.after = r.after /\ p.found = r.found
      /\ p.rank > 0 /\ p.rank \in Nat /\ p.res = PageFor(r) /\ p.steady = Begun(r)
  BY ServeListIs
<1>2. SteadyRequest(r, db, lists)
  BY <1>1 DEF Steady, SteadyQueue
<1>3. \A s \in Source(r) : Below(r, s) /\ Reached(p.res, s) => s \in DOMAIN p.res.stories
  BY <1>1, PageForIs DEF Reached
<1>4. \A k : Members(db, k) = IF k = All THEN DOMAIN db.story
                              ELSE IF TagNamed(db, k) = Null THEN {} ELSE TaggedWith(db, TagNamed(db, k))
  BY DEF Members
<1>5. SteadyOK(db, r.key, r.found, p.steady) /\ p.steady \subseteq Source(r)
  BY <1>1, <1>4 DEF Begun, SteadyOK, Source
<1>6. r.after # Null => lists[r.key].steady \subseteq Source(r)
  <2>1. r.after # Null => r.key \in DOMAIN lists
    BY <1>1 DEF ListRequestOK
  <2>2. r.after # Null => SteadyOK(db, r.key, lists[r.key].tag, lists[r.key].steady)
    BY <2>1 DEF Steady, SteadyList
  <2>3. r.after # Null /\ r.found # Null /\ lists[r.key].steady # {} => r.found = lists[r.key].tag
    BY <1>2 DEF SteadyRequest
  <2> QED BY <1>1, <1>4, <2>2, <2>3 DEF SteadyOK, Source
<1>7. db' = db /\ lists' = lists
  BY DEF ServeList
<1> HIDE DEF p, r
<1>8. \A s \in IF p.after = Null THEN p.steady ELSE lists[p.key].steady :
        Below(p, s) /\ Reached(p.res, s) => s \in DOMAIN p.res.stories
  BY <1>1, <1>3, <1>5, <1>6 DEF Below
<1>9. p.after # Null /\ p.found # Null /\ lists[p.key].steady # {} => p.found = lists[p.key].tag
  BY <1>1, <1>2 DEF SteadyRequest
<1>10. SteadyRequest(p, db, lists)
  BY <1>1, <1>5, <1>8, <1>9 DEF SteadyRequest
<1> QED BY <1>1, <1>7, <1>10 DEF Steady, SteadyQueue, p

\* The API keeps what is steady.
LEMMA SteadyApi ==
  ASSUME Shape, Steady, NEW i \in DOMAIN reqs, ApiActs(i)  PROVE Steady'
<1>1. CASE ServeCreate(i)
  <2>1. PICK d, res : Commit(d, Served(i, res)) /\ reqs[i].op # "list"
    BY <1>1 DEF ServeCreate
  <2> QED BY <2>1, SteadyMutation
<1>2. CASE ServeUpdate(i)
  <2>1. PICK d, res : Commit(d, Served(i, res)) /\ reqs[i].op # "list"
    BY <1>2 DEF ServeUpdate
  <2> QED BY <2>1, SteadyMutation
<1>3. CASE ServeDelete(i)
  <2>1. PICK d, res : Commit(d, Served(i, res)) /\ reqs[i].op # "list"
    BY <1>3 DEF ServeDelete
  <2> QED BY <2>1, SteadyMutation
<1> QED BY <1>1, <1>2, <1>3, SteadyFind, SteadyServe DEF ApiActs

\* A list whose steady stories, tag and cursor stay keeps what it has.
LEMMA SteadyListGrows ==
  ASSUME NEW k, NEW l, NEW m, NEW d, SteadyList(k, l, d), m.steady = l.steady, m.tag = l.tag,
         m.hasNextPage = l.hasNextPage, m.endCursor = l.endCursor,
         ToSet(l.edges) \subseteq ToSet(m.edges)
  PROVE  SteadyList(k, m, d)
  BY DEF SteadyList, Reached

\* A new story is put before what is steady.
LEMMA SteadyAnswerCreate ==
  ASSUME Shape, Steady, NEW i \in DOMAIN reqs, AnswerCreate(i)  PROVE Steady'
<1>1. /\ reqs' = Without(i) /\ db' = db /\ All \in DOMAIN lists /\ DOMAIN lists' = DOMAIN lists
      /\ \A k \in DOMAIN lists \ {All} : lists'[k] = lists[k]
      /\ ToSet(lists'[All].edges) = ToSet(lists[All].edges) \cup {reqs[i].res.id}
      /\ \A f \in Fields \ {"edges"} : lists'[All][f] = lists[All][f]
  BY AnswerCreateIs
<1>2. /\ lists'[All].steady = lists[All].steady /\ lists'[All].tag = lists[All].tag
      /\ lists'[All].hasNextPage = lists[All].hasNextPage
      /\ lists'[All].endCursor = lists[All].endCursor
  BY <1>1 DEF Fields
<1>3. \A k \in DOMAIN lists : lists'[k].steady = lists[k].steady /\ lists'[k].tag = lists[k].tag
  BY <1>1, <1>2
<1>4. \A j \in DOMAIN reqs \ {i} : reqs[j].op = "list" => Settled(reqs[j], lists, lists')
  <2>1. \A j \in DOMAIN reqs : reqs[j].op = "list" /\ reqs[j].after # Null => reqs[j].key \in DOMAIN lists
    BY ShapeIs DEF RequestOK, ListRequestOK
  <2> QED BY <1>3, <2>1 DEF Settled
<1>5. SteadyQueue(reqs', db, lists')
  BY <1>1, <1>4, SteadyDropped
<1>6. SteadyList(All, lists'[All], db)
  <2>1. SteadyList(All, lists[All], db)
    BY <1>1 DEF Steady
  <2> QED BY <1>1, <1>2, <2>1, SteadyListGrows
<1>7. \A k \in DOMAIN lists' : SteadyList(k, lists'[k], db)
  BY <1>1, <1>6 DEF Steady
<1> QED BY <1>1, <1>5, <1>7 DEF Steady

\* What a list and the page that is put after it have reached, one of them had.
LEMMA ReachedBy ==
  ASSUME Shape, NEW r, NEW m, ListRequestOK(r, db.next, lists), r.rank > 0, r.after # Null,
         m.hasNextPage = r.res.hasNextPage,
         m.endCursor = IF r.res.endCursor = Null THEN lists[r.key].endCursor ELSE r.res.endCursor,
         NEW s \in Nat, Reached(m, s)
  PROVE  Reached(lists[r.key], s) \/ (Below(r, s) /\ Reached(r.res, s))
<1> DEFINE l == lists[r.key]
           p == r.res
<1>1. r.key \in DOMAIN lists /\ r.after = l.endCursor /\ PageOK(p, db.next)
  BY DEF ListRequestOK
<1>2. l.endCursor \in Nat
  <2>1. ListOK(l, db.next) /\ ToSet(l.edges) \subseteq Nat
    BY <1>1, ShapeIs
  <2> QED BY <1>1, <2>1 DEF ListOK
<1>3. p.endCursor = Null => ~ p.hasNextPage
  <2>1. DOMAIN p.stories \subseteq Nat
    BY <1>1, ShapeIs DEF PageOK
  <2> QED BY <1>1, <2>1, LibraryAssumption DEF PageOK
<1>4. CASE s < r.after
  BY <1>3, <1>4 DEF Below, Reached
<1>5. CASE s >= r.after
  BY <1>1, <1>5 DEF Reached
<1> QED BY <1>1, <1>2, <1>4, <1>5

\* A page that follows brings what is steady down to its cursor, and the list has
\* the rest.
LEMMA SteadyAnswerList ==
  ASSUME Shape, Steady, NEW i \in DOMAIN reqs, AnswerList(i)  PROVE Steady'
<1> DEFINE r == reqs[i]
           p == r.res
           l == lists[r.key]
           m == lists'[r.key]
<1>1. /\ r.op = "list" /\ r.rank > 0 /\ ListRequestOK(r, db.next, lists)
      /\ reqs' = Without(i) \/ reqs' = Append(Without(i), ListRequest(view, Null))
      /\ db' = db
      /\ DOMAIN lists' = DOMAIN lists \cup {r.key}
      /\ \A k \in DOMAIN lists \ {r.key} : lists'[k] = lists[k]
      /\ ListOK(m, db.next) /\ m.hasNextPage = p.hasNextPage
      /\ r.after = Null => /\ r.key \notin DOMAIN lists /\ ToSet(m.edges) = DOMAIN p.stories
                           /\ m.tag = r.found /\ m.steady = r.steady /\ m.endCursor = p.endCursor
      /\ r.after # Null => /\ r.key \in DOMAIN lists /\ ToSet(m.edges) = ToSet(l.edges) \cup DOMAIN p.stories
                           /\ m.tag = l.tag /\ m.steady = l.steady
                           /\ m.endCursor = IF p.endCursor = Null THEN l.endCursor ELSE p.endCursor
  BY AnswerListIs
<1>2. SteadyRequest(r, db, lists)
  BY <1>1 DEF Steady, SteadyQueue
<1>3. ASSUME NEW j \in DOMAIN reqs \ {i}, reqs[j].op = "list"  PROVE Settled(reqs[j], lists, lists')
  <2>1. reqs[j].key # r.key
    BY <1>1, <1>3, ShapeIs DEF Apart
  <2>2. reqs[j].after # Null => reqs[j].key \in DOMAIN lists
    BY <1>3, ShapeIs DEF RequestOK, ListRequestOK
  <2> QED BY <1>1, <2>1, <2>2 DEF Settled
<1>4. SteadyQueue(Without(i), db, lists') /\ Listed(Without(i))
  BY <1>3, SteadyDropped, LeftAlone DEF QueueOK
<1>5. SteadyQueue(reqs', db, lists')
  <2> DEFINE a == ListRequest(view, Null)
             ks == lists'
  <2>1. SteadyRequest(a, db, ks) /\ SteadyQueue(Without(i), db, ks)
    BY <1>4, SteadyAsked
  <2>2. reqs' = Without(i) \/ reqs' = Append(Without(i), a)
    BY <1>1
  <2> HIDE DEF a, ks, r, m, l, p
  <2>3. SteadyQueue(reqs', db, ks)
    BY <1>4, <2>1, <2>2, SteadyMore
  <2> QED BY <2>3 DEF ks
<1>6. PageOK(p, db.next)
  BY <1>1 DEF ListRequestOK
<1>7. SteadyList(r.key, m, db)
  <2>1. CASE r.after = Null
    <3>1. SteadyOK(db, r.key, m.tag, m.steady)
      BY <1>1, <1>2, <2>1 DEF SteadyRequest
    <3>2. \A s \in m.steady : Reached(m, s) => s \in ToSet(m.edges)
      <4>1. \A s \in m.steady : Reached(m, s) => Below(r, s) /\ Reached(p, s)
        BY <1>1, <2>1 DEF Below, Reached
      <4> QED BY <1>1, <1>2, <2>1, <4>1 DEF SteadyRequest
    <3> QED BY <3>1, <3>2 DEF SteadyList
  <2>2. CASE r.after # Null
    <3>1. SteadyList(r.key, l, db) /\ r.after = l.endCursor
      BY <1>1, <2>2 DEF Steady, ListRequestOK
    <3>2. SteadyOK(db, r.key, m.tag, m.steady)
      BY <1>1, <2>2, <3>1 DEF SteadyList
    <3>3. l.steady \subseteq Nat
      <4>1. l.steady \subseteq DOMAIN db.story
        BY <3>1, StoriesUsed DEF SteadyList, SteadyOK, Shape
      <4>2. DOMAIN db.story \subseteq Used(db.next) /\ Used(db.next) \subseteq Nat
        BY ShapeIs, StoriesUsed DEF Shape
      <4> QED BY <4>1, <4>2
    <3>5. ASSUME NEW s \in l.steady, Reached(m, s)  PROVE s \in ToSet(m.edges)
      <4>1. Reached(l, s) \/ (Below(r, s) /\ Reached(p, s))
        BY <1>1, <2>2, <3>3, <3>5, ReachedBy
      <4>2. Reached(l, s) => s \in ToSet(l.edges)
        BY <3>1 DEF SteadyList
      <4>3. Below(r, s) /\ Reached(p, s) => s \in DOMAIN p.stories
        BY <1>1, <1>2, <2>2 DEF SteadyRequest
      <4> QED BY <1>1, <2>2, <4>1, <4>2, <4>3
    <3>6. \A s \in m.steady : Reached(m, s) => s \in ToSet(m.edges)
      <4>1. m.steady = l.steady
        BY <1>1, <2>2
      <4> HIDE DEF m, l, p
      <4> QED BY <3>5, <4>1
    <3> QED BY <3>2, <3>6 DEF SteadyList
  <2> QED BY <2>1, <2>2
<1>8. \A k \in DOMAIN lists' : SteadyList(k, lists'[k], db)
  BY <1>1, <1>7 DEF Steady
<1> QED BY <1>1, <1>5, <1>8 DEF Steady

\* The answers keep what is steady.
LEMMA SteadyNetwork ==
  ASSUME Shape, Steady, NEW i \in DOMAIN reqs, NetworkActs(i)  PROVE Steady'
<1>1. ASSUME reqs' = Without(i), lists' = lists, db' = db  PROVE Steady'
  <2>1. SteadyQueue(Without(i), db, lists)
    BY SteadyDropped, SettledItself
  <2> QED BY <1>1, <2>1 DEF Steady
<1>2. CASE AnswerUpdate(i)
  BY <1>1, <1>2 DEF AnswerUpdate, Answered
<1>3. CASE AnswerDelete(i)
  BY <1>1, <1>3 DEF AnswerDelete, Answered
<1>4. CASE Lose(i)
  BY <1>1, <1>4 DEF Lose
<1> QED BY <1>2, <1>3, <1>4, SteadyAnswerList, SteadyAnswerCreate DEF NetworkActs

\* Every step keeps what is steady.
LEMMA SteadyStays == Shape /\ Steady /\ [Next]_vars => Steady'
<1> SUFFICES ASSUME Shape, Steady, [Next]_vars  PROVE Steady'
  OBVIOUS
<1>1. CASE Next
  BY <1>1, SteadyUser, SteadyApi, SteadyNetwork, SteadyElsewhere DEF Next
<1>2. CASE UNCHANGED vars
  BY <1>2 DEF vars, Steady
<1> QED BY <1>1, <1>2

\* What is steady is not skipped.
LEMMA SteadySkipsNothing == Steady => PagesSkipNothing
  BY DEF Steady, SteadyList, PagesSkipNothing, Reached

\* No page skips a story that has belonged to the list since its first page was
\* read, whatever the windows add, delete, tag or rename between the pages
\* (listStories and listStoriesByTag of handlers.ts, handleLoadMore of Library.tsx).
THEOREM PagesNeverSkip == Spec => []PagesSkipNothing
<1> QED BY InitShape, ShapeStays, InitSteady, SteadyStays, SteadySkipsNothing, PTL DEF Spec
-----------------------------------------------------------------------------
(* What is told of a story is so *)

\* The answer r changes the story s.
Changes(r, s) ==
  /\ r.rank > 0
  /\ \/ r.op = "create" /\ r.res.id = s
     \/ r.op = "update" /\ r.id = s /\ r.res # Null
     \/ r.op = "delete" /\ r.id = s /\ r.res = TRUE

\* The answer r says what the story s is; Told is what it says.
Tells(r, s) == Changes(r, s) \/ (r.rank > 0 /\ r.op = "list" /\ s \in DOMAIN r.res.stories)

Told(r, s) ==
  CASE r.op = "list" -> r.res.stories[s]
    [] r.op = "create" -> r.res.story
    [] r.op = "update" -> r.res
    [] OTHER -> Gone

\* What an answer says of a story is so, or an answer that was served later
\* tells otherwise; what the store has is so, or an answer on its way tells
\* otherwise; and the same of the stories that the list of all stories, or the
\* page that follows it, has reached.
AnswersAgree(q, d) ==
  \A i \in DOMAIN q : \A s : Tells(q[i], s) =>
    \/ Told(q[i], s) = Now(d, s)
    \/ \E j \in DOMAIN q : q[j].rank > q[i].rank /\ Changes(q[j], s)

StoreAgrees(q, d, rc) ==
  \A s \in DOMAIN rc : rc[s] = Now(d, s) \/ \E j \in DOMAIN q : Changes(q[j], s)

ListAgrees(q, d, ls) ==
  All \in DOMAIN ls => \A s \in DOMAIN d.story : Reached(ls[All], s) =>
    \/ s \in ToSet(ls[All].edges)
    \/ \E j \in DOMAIN q : q[j].op = "create" /\ Changes(q[j], s)

PagesAgree(q, d) ==
  \A i \in DOMAIN q : q[i].op = "list" /\ q[i].key = All /\ q[i].rank > 0 =>
    \A s \in DOMAIN d.story : Below(q[i], s) /\ Reached(q[i].res, s) => s \in DOMAIN q[i].res.stories

\* What is told agrees with the library d.
Agree(q, d, rc, ls) ==
  AnswersAgree(q, d) /\ StoreAgrees(q, d, rc) /\ ListAgrees(q, d, ls) /\ PagesAgree(q, d)

\* The agreement holds while the page is not disturbed.
Agreed == ~ disturbed => Agree(reqs, db, rec, lists)
-----------------------------------------------------------------------------
\* p is r for what it says.
Alike(p, r) ==
  /\ p.op = r.op /\ p.res = r.res /\ p.rank \in Nat /\ (p.rank > 0 <=> r.rank > 0)
  /\ r.op = "list" => p.key = r.key /\ p.after = r.after
  /\ r.op \in {"update", "delete"} => p.id = r.id \/ r.id = Temp

\* Kin are alike.
LEMMA KinIsAlike ==
  ASSUME NEW p, NEW r, NEW n, NEW ls, Kin(p, r), RequestOK(r, n, ls)  PROVE Alike(p, r)
  BY DEF Kin, Alike, RequestOK, ListRequestOK

\* Requests that are alike tell the same.
LEMMA AlikeTells ==
  ASSUME NEW p, NEW r, NEW n \in Nat, NEW ls, Alike(p, r), RequestOK(r, n, ls), NEW s
  PROVE  /\ Changes(p, s) <=> Changes(r, s)
         /\ Tells(p, s) <=> Tells(r, s)
         /\ Told(p, s) = Told(r, s)
<1>1. Temp \notin Used(n)
  BY WindowAssumption, LibrariesAssumption DEF Used
<1>2. HasFields(r) /\ p.op = r.op /\ p.res = r.res /\ (p.rank > 0 <=> r.rank > 0)
  BY DEF Alike, RequestOK
<1>3. Told(p, s) = Told(r, s)
  BY <1>2 DEF Told
<1>4. Changes(p, s) <=> Changes(r, s)
  <2>1. CASE r.op = "list" \/ r.op = "create"
    BY <1>2, <2>1 DEF Changes
  <2>2. CASE r.op = "update"
    <3>1. r.rank > 0 /\ r.res # Null => r.id # Temp
      BY <1>1, <2>2 DEF RequestOK, UpdateRequestOK
    <3> QED BY <1>2, <2>2, <3>1 DEF Changes, Alike
  <2>3. CASE r.op = "delete"
    <3>1. r.rank > 0 /\ r.res = TRUE => r.id # Temp
      BY <1>1, <2>3 DEF RequestOK, DeleteRequestOK
    <3> QED BY <1>2, <2>3, <3>1 DEF Changes, Alike
  <2> QED BY <1>2, <2>1, <2>2, <2>3 DEF HasFields
<1> QED BY <1>2, <1>3, <1>4 DEF Tells

\* Requests that are not served say nothing.
LEMMA AgreeMore ==
  ASSUME NEW q, NEW r, NEW d, NEW rc, NEW ls, Listed(q), r.rank = 0, Agree(q, d, rc, ls)
  PROVE  Agree(Append(q, r), d, rc, ls)
<1> DEFINE a == Append(q, r)
<1>1. /\ DOMAIN a = 1 .. Len(q) + 1 /\ \A i \in DOMAIN q : a[i] = q[i]
      /\ a[Len(q) + 1] = r /\ DOMAIN q = 1 .. Len(q) /\ Len(q) \in Nat
  BY AppendIs, ListedIs
<1> HIDE DEF a
<1>2. \A i \in DOMAIN a : (i \in DOMAIN q /\ a[i] = q[i]) \/ a[i] = r
  BY <1>1
<1>3. \A i \in DOMAIN q : i \in DOMAIN a /\ a[i] = q[i]
  BY <1>1
<1>4. \A s : ~ Tells(r, s)
  BY DEF Tells, Changes
<1>5. AnswersAgree(a, d)
  BY <1>2, <1>3, <1>4 DEF Agree, AnswersAgree
<1>6. StoreAgrees(a, d, rc)
  BY <1>3 DEF Agree, StoreAgrees
<1>7. ListAgrees(a, d, ls)
  BY <1>3 DEF Agree, ListAgrees
<1>8. PagesAgree(a, d)
  BY <1>2 DEF Agree, PagesAgree
<1> QED BY <1>5, <1>6, <1>7, <1>8 DEF Agree, a

\* Requests that say the same agree with the same.
LEMMA AgreeAlike ==
  ASSUME NEW q, NEW w, NEW n \in Nat, NEW d, NEW rc, NEW ls, NEW ks,
         \A i \in DOMAIN q : RequestOK(q[i], n, ls), DOMAIN w = DOMAIN q,
         \A i \in DOMAIN q : Alike(w[i], q[i]) /\ w[i].rank = q[i].rank,
         All \in DOMAIN ks <=> All \in DOMAIN ls,
         All \in DOMAIN ls => /\ ks[All].edges = ls[All].edges /\ ks[All].endCursor = ls[All].endCursor
                              /\ ks[All].hasNextPage = ls[All].hasNextPage,
         Agree(q, d, rc, ls)
  PROVE  Agree(w, d, rc, ks)
<1>1. \A i \in DOMAIN q : \A s : /\ Changes(w[i], s) <=> Changes(q[i], s)
                                 /\ Tells(w[i], s) <=> Tells(q[i], s)
                                 /\ Told(w[i], s) = Told(q[i], s)
  BY AlikeTells
<1>2. AnswersAgree(w, d)
  BY <1>1 DEF Agree, AnswersAgree
<1>3. StoreAgrees(w, d, rc)
  BY <1>1 DEF Agree, StoreAgrees
<1>4. ListAgrees(w, d, ks)
  <2>1. All \in DOMAIN ls => \A s : Reached(ks[All], s) => Reached(ls[All], s)
    BY DEF Reached
  <2>2. \A i \in DOMAIN q : w[i].op = q[i].op
    BY DEF Alike
  <2> QED BY <1>1, <2>1, <2>2 DEF Agree, ListAgrees
<1>5. PagesAgree(w, d)
  <2> SUFFICES ASSUME NEW i \in DOMAIN w, w[i].op = "list", w[i].key = All, w[i].rank > 0,
                      NEW s \in DOMAIN d.story, Below(w[i], s), Reached(w[i].res, s)
               PROVE  s \in DOMAIN w[i].res.stories
    BY DEF PagesAgree
  <2>1. q[i].op = "list" /\ q[i].key = All /\ q[i].rank > 0 /\ q[i].res = w[i].res
        /\ q[i].after = w[i].after
    BY DEF Alike
  <2>2. Below(q[i], s) /\ Reached(q[i].res, s)
    BY <2>1 DEF Below
  <2> QED BY <2>1, <2>2 DEF Agree, PagesAgree
<1> QED BY <1>2, <1>3, <1>4, <1>5 DEF Agree

\* Closing up ranks keeps their order.
LEMMA ClosedOrder ==
  ASSUME NEW a \in Nat, NEW b \in Nat, NEW c \in Nat, b > c, c > 0, a > 0 => a # b /\ a # c
  PROVE  Closed(a, b) > Closed(a, c)
  BY DEF Closed

\* A request ends: either it says of no story that it has changed, or it is
\* the first that was served.
LEMMA AgreeLeft ==
  ASSUME Shape, Agree(reqs, db, rec, lists), NEW i \in DOMAIN reqs, NEW rc, NEW ks,
         reqs[i].rank = 1 \/ \A s : ~ Changes(reqs[i], s),
         \A s \in DOMAIN rc : \/ rc[s] = Now(db, s)
                              \/ \E j \in DOMAIN reqs \ {i} : Changes(reqs[j], s),
         All \in DOMAIN ks => \A s \in DOMAIN db.story : Reached(ks[All], s) =>
           \/ s \in ToSet(ks[All].edges)
           \/ \E j \in DOMAIN reqs \ {i} : reqs[j].op = "create" /\ Changes(reqs[j], s)
  PROVE  Agree(Without(i), db, rc, ks)
<1> DEFINE w == Without(i)
<1>1. Dropped(w, reqs, i)
  BY LeftAlone
<1> HIDE DEF w
<1>2. \A j \in DOMAIN reqs : RequestOK(reqs[j], db.next, lists) /\ HasFields(reqs[j]) /\ reqs[j].rank \in Nat
  BY ShapeIs DEF HasFields
<1>3. /\ \A j \in DOMAIN w : /\ Old(i, j) \in DOMAIN reqs \ {i}
                             /\ Alike(w[j], reqs[Old(i, j)])
                             /\ w[j].rank = Closed(reqs[i].rank, reqs[Old(i, j)].rank)
      /\ \A k \in DOMAIN reqs \ {i} : \E j \in DOMAIN w : Old(i, j) = k
  <2>1. \A k \in DOMAIN reqs \ {i} : \E j \in DOMAIN w : Old(i, j) = k
    BY <1>1 DEF Dropped
  <2>2. ASSUME NEW j \in DOMAIN w
        PROVE  /\ Old(i, j) \in DOMAIN reqs \ {i}
               /\ Alike(w[j], reqs[Old(i, j)])
               /\ w[j].rank = Closed(reqs[i].rank, reqs[Old(i, j)].rank)
    <3>1. /\ Old(i, j) \in DOMAIN reqs \ {i} /\ Same(w[j], reqs[Old(i, j)])
          /\ w[j].rank = Closed(reqs[i].rank, reqs[Old(i, j)].rank)
      BY <1>1 DEF Dropped
    <3>2. Kin(w[j], reqs[Old(i, j)])
      BY <1>2, <3>1, SameIsKin
    <3> QED BY <1>2, <3>1, <3>2, KinIsAlike
  <2> QED BY <2>1, <2>2
<1>4. db.next \in Nat
  BY ShapeIs
<1>5. \A j \in DOMAIN w : \A s : /\ Changes(w[j], s) <=> Changes(reqs[Old(i, j)], s)
                                 /\ Tells(w[j], s) <=> Tells(reqs[Old(i, j)], s)
                                 /\ Told(w[j], s) = Told(reqs[Old(i, j)], s)
  BY <1>2, <1>3, <1>4, AlikeTells
<1>6. AnswersAgree(w, db)
  <2> SUFFICES ASSUME NEW j \in DOMAIN w, NEW s, Tells(w[j], s), Told(w[j], s) # Now(db, s)
               PROVE  \E k \in DOMAIN w : w[k].rank > w[j].rank /\ Changes(w[k], s)
    BY DEF AnswersAgree
  <2> DEFINE m == Old(i, j)
  <2>1. m \in DOMAIN reqs \ {i} /\ Tells(reqs[m], s) /\ Told(reqs[m], s) # Now(db, s)
    BY <1>3, <1>5
  <2>2. reqs[m].rank > 0
    BY <2>1 DEF Tells, Changes
  <2>3. PICK l \in DOMAIN reqs : reqs[l].rank > reqs[m].rank /\ Changes(reqs[l], s)
    BY <2>1 DEF Agree, AnswersAgree
  <2>4. l # i
    BY <1>2, <2>1, <2>2, <2>3
  <2>5. PICK k \in DOMAIN w : Old(i, k) = l
    BY <1>3, <2>4
  <2>6. w[k].rank = Closed(reqs[i].rank, reqs[l].rank) /\ w[j].rank = Closed(reqs[i].rank, reqs[m].rank)
        /\ Changes(w[k], s)
    BY <1>3, <1>5, <2>3, <2>5
  <2>7. reqs[i].rank > 0 => reqs[i].rank # reqs[l].rank /\ reqs[i].rank # reqs[m].rank
    BY <2>1, <2>4, ShapeIs DEF Apart
  <2> HIDE DEF m
  <2>8. w[k].rank > w[j].rank
    BY <1>2, <2>1, <2>2, <2>3, <2>6, <2>7, ClosedOrder
  <2> QED BY <2>6, <2>8
<1>7. \A j \in DOMAIN reqs \ {i} : \A s : Changes(reqs[j], s) =>
        \E k \in DOMAIN w : w[k].op = reqs[j].op /\ Changes(w[k], s)
  <2> SUFFICES ASSUME NEW j \in DOMAIN reqs \ {i}, NEW s, Changes(reqs[j], s)
               PROVE  \E k \in DOMAIN w : w[k].op = reqs[j].op /\ Changes(w[k], s)
    OBVIOUS
  <2>1. PICK k \in DOMAIN w : Old(i, k) = j
    BY <1>3
  <2>2. Alike(w[k], reqs[j]) /\ Changes(w[k], s)
    BY <1>3, <1>5, <2>1
  <2> QED BY <2>2 DEF Alike
<1>8. StoreAgrees(w, db, rc)
  BY <1>7 DEF StoreAgrees
<1>9. ListAgrees(w, db, ks)
  <2> SUFFICES ASSUME All \in DOMAIN ks, NEW s \in DOMAIN db.story, Reached(ks[All], s),
                      s \notin ToSet(ks[All].edges)
               PROVE  \E k \in DOMAIN w : w[k].op = "create" /\ Changes(w[k], s)
    BY DEF ListAgrees
  <2>1. PICK j \in DOMAIN reqs \ {i} : reqs[j].op = "create" /\ Changes(reqs[j], s)
    OBVIOUS
  <2> QED BY <1>7, <2>1
<1>10. PagesAgree(w, db)
  <2> SUFFICES ASSUME NEW j \in DOMAIN w, w[j].op = "list", w[j].key = All, w[j].rank > 0,
                      NEW s \in DOMAIN db.story, Below(w[j], s), Reached(w[j].res, s)
               PROVE  s \in DOMAIN w[j].res.stories
    BY DEF PagesAgree
  <2> DEFINE r == reqs[Old(i, j)]
  <2>1. Old(i, j) \in DOMAIN reqs /\ Alike(w[j], r)
    BY <1>3
  <2>2. r.op = "list" /\ r.key = All /\ r.rank > 0 /\ r.res = w[j].res /\ r.after = w[j].after
    BY <2>1 DEF Alike
  <2>3. Below(r, s) /\ Reached(r.res, s)
    BY <2>2 DEF Below
  <2> QED BY <2>1, <2>2, <2>3 DEF Agree, PagesAgree
<1> QED BY <1>6, <1>8, <1>9, <1>10 DEF Agree, w

\* A request that changes no story is dropped.
LEMMA AgreeDropped ==
  ASSUME Shape, Agree(reqs, db, rec, lists), NEW i \in DOMAIN reqs, \A s : ~ Changes(reqs[i], s)
  PROVE  Agree(Without(i), db, rec, lists)
<1>1. \A s \in DOMAIN rec : \/ rec[s] = Now(db, s)
                            \/ \E j \in DOMAIN reqs \ {i} : Changes(reqs[j], s)
  BY DEF Agree, StoreAgrees
<1>2. All \in DOMAIN lists => \A s \in DOMAIN db.story : Reached(lists[All], s) =>
        \/ s \in ToSet(lists[All].edges)
        \/ \E j \in DOMAIN reqs \ {i} : reqs[j].op = "create" /\ Changes(reqs[j], s)
  BY DEF Agree, ListAgrees
<1> QED BY <1>1, <1>2, AgreeLeft
-----------------------------------------------------------------------------
\* The page is loaded: it has nothing that could disagree.
LEMMA AgreeLoaded ==
  ASSUME NEW k, NEW after, NEW d  PROVE Agree(<<ListRequest(k, after)>>, d, EmptyMap, EmptyMap)
<1> DEFINE r == ListRequest(k, after)
           q == <<r>>
<1>1. r.rank = 0
  BY ListRequestIs
<1> HIDE DEF r
<1>2. \A i \in DOMAIN q : q[i] = r
  OBVIOUS
<1>3. DOMAIN EmptyMap = {}
  BY DEF EmptyMap
<1> HIDE DEF q
<1> QED BY <1>1, <1>2, <1>3 DEF Agree, AnswersAgree, StoreAgrees, ListAgrees, PagesAgree, Tells, Changes, q, r

\* Nothing is shown at first.
LEMMA InitAgreed == Init => Agreed
  BY AgreeLoaded DEF Init, Agreed

\* What the user does tells the store nothing, and drops no change.
LEMMA UserAgreed == Shape /\ Agreed /\ UserActs => Agreed'
<1> SUFFICES ASSUME Shape, Agreed, UserActs  PROVE Agreed'
  OBVIOUS
<1>0. Listed(reqs)
  BY ShapeIs
<1>1. ASSUME NEW r, r.rank = 0, reqs' = Append(reqs, r), UNCHANGED <<db, lists, rec, disturbed>>
      PROVE  Agreed'
  <2>1. ~ disturbed => Agree(reqs', db, rec, lists)
    BY <1>0, <1>1, AgreeMore DEF Agreed
  <2> QED BY <1>1, <2>1 DEF Agreed
<1>2. ASSUME NEW title \in Titles, NEW chosen, SubmitStory(title, chosen)  PROVE Agreed'
  <2>1. CreateRequest(title, chosen).rank = 0
    BY DEF CreateRequest
  <2> QED BY <1>1, <1>2, <2>1 DEF SubmitStory
<1>3. ASSUME NEW s, NEW title \in Titles, NEW chosen, SaveEdit(s, title, chosen)  PROVE Agreed'
  <2>1. PICK t : \E ts :
          reqs' = Append(reqs, UpdateRequest(s, t, ts, [title |-> title, tags |-> chosen]))
    BY <1>3 DEF SaveEdit
  <2>2. PICK ts : reqs' = Append(reqs, UpdateRequest(s, t, ts, [title |-> title, tags |-> chosen]))
    BY <2>1
  <2> DEFINE r == UpdateRequest(s, t, ts, [title |-> title, tags |-> chosen])
  <2>3. r.rank = 0
    BY DEF UpdateRequest
  <2>4. reqs' = Append(reqs, r) /\ UNCHANGED <<db, lists, rec, disturbed>>
    BY <1>3, <2>2 DEF SaveEdit
  <2> HIDE DEF r
  <2> QED BY <1>1, <2>3, <2>4
<1>4. ASSUME NEW s, ConfirmDelete(s)  PROVE Agreed'
  <2>1. DeleteRequest(s).rank = 0
    BY DEF DeleteRequest
  <2> QED BY <1>1, <1>4, <2>1 DEF ConfirmDelete
<1>5. CASE LoadMore
  BY <1>1, <1>5, ListRequestIs DEF LoadMore
<1>6. ASSUME NEW k, ShowList(k)  PROVE Agreed'
  <2>1. PICK q : /\ Kept(q)
                 /\ reqs' = q \/ reqs' = Append(q, ListRequest(k, Null))
    BY <1>6, ShowListIs
  <2> SUFFICES ASSUME ~ disturbed  PROVE Agree(reqs', db, rec, lists)
    BY <1>6 DEF ShowList, Agreed
  <2>2. Agree(q, db, rec, lists) /\ Listed(q)
    <3>1. CASE q = reqs
      BY <1>0, <3>1 DEF Agreed
    <3>2. ASSUME NEW i \in DOMAIN reqs, reqs[i].op = "list", q = Without(i)
          PROVE  Agree(q, db, rec, lists) /\ Listed(q)
      <4>1. \A s : ~ Changes(reqs[i], s)
        BY <3>2 DEF Changes
      <4> QED BY <3>2, <4>1, AgreeDropped, LeftAlone DEF QueueOK, Agreed
    <3> QED BY <2>1, <3>1, <3>2 DEF Kept
  <2> DEFINE a == ListRequest(k, Null)
  <2>3. a.rank = 0 /\ (reqs' = q \/ reqs' = Append(q, a))
    BY <2>1, ListRequestIs
  <2> HIDE DEF a
  <2> QED BY <2>2, <2>3, AgreeMore
<1>7. CASE Reload
  BY <1>7, AgreeLoaded DEF Reload, Agreed
<1> QED BY <1>2, <1>3, <1>4, <1>5, <1>6, <1>7 DEF UserActs
-----------------------------------------------------------------------------

\* Looking up the tag tells nothing yet.
LEMMA FindAgreed ==
  ASSUME Shape, Agreed, NEW i \in DOMAIN reqs, FindTag(i)  PROVE Agreed'
<1>1. /\ DOMAIN reqs' = DOMAIN reqs /\ reqs[i].op = "list"
      /\ \A j \in DOMAIN reqs \ {i} : reqs'[j] = reqs[j]
      /\ \A f \in DOMAIN reqs[i] \ {"found"} : reqs'[i][f] = reqs[i][f]
  BY FindTagIs
<1>2. \A j \in DOMAIN reqs : HasFields(reqs[j]) /\ RequestOK(reqs[j], db.next, lists) /\ db.next \in Nat
  BY ShapeIs
<1>3. \A j \in DOMAIN reqs \ {i} : Alike(reqs'[j], reqs[j]) /\ reqs'[j].rank = reqs[j].rank
  BY <1>1, <1>2 DEF Alike, HasFields
<1>4. Alike(reqs'[i], reqs[i]) /\ reqs'[i].rank = reqs[i].rank
  BY <1>1, <1>2 DEF Alike, HasFields, RequestOK, ListRequestOK
<1>5. db' = db /\ lists' = lists /\ rec' = rec /\ disturbed' = disturbed
  BY DEF FindTag
<1>6. \A j \in DOMAIN reqs : Alike(reqs'[j], reqs[j]) /\ reqs'[j].rank = reqs[j].rank
  BY <1>3, <1>4
<1>7. ~ disturbed => Agree(reqs', db, rec, lists)
  BY <1>1, <1>2, <1>6, AgreeAlike DEF Agreed
<1> QED BY <1>5, <1>7 DEF Agreed

\* A page is served: it tells what is so, and it was served last.
LEMMA ServeListAgreed ==
  ASSUME Shape, Agreed, NEW i \in DOMAIN reqs, ServeList(i)  PROVE Agreed'
<1> DEFINE r == reqs[i]
           p == reqs'[i]
<1>1. /\ r.op = "list" /\ r.rank = 0 /\ ListRequestOK(r, db.next, lists)
      /\ DOMAIN reqs' = DOMAIN reqs /\ \A j \in DOMAIN reqs \ {i} : reqs'[j] = reqs[j]
      /\ p.op = "list" /\ p.key = r.key /\ p.after = r.after
      /\ p.rank = NextRank /\ p.rank > 0 /\ p.res = PageFor(r)
  BY ServeListIs
<1>2. db' = db /\ lists' = lists /\ rec' = rec /\ disturbed' = disturbed
  BY DEF ServeList
<1>3. /\ \A s \in DOMAIN p.res.stories : p.res.stories[s] = Now(db, s)
      /\ \A s \in Source(r) : Below(r, s) /\ Reached(p.res, s) => s \in DOMAIN p.res.stories
  BY <1>1, PageForIs DEF Reached
<1>4. r.key = All => Source(r) = DOMAIN db.story
  BY DEF Source
<1> SUFFICES ASSUME ~ disturbed  PROVE Agree(reqs', db, rec, lists)
  BY <1>2 DEF Agreed
<1>5. Agree(reqs, db, rec, lists)
  BY DEF Agreed
<1>6. \A j \in DOMAIN reqs : \A s : Changes(reqs[j], s) => j # i /\ reqs'[j] = reqs[j]
  BY <1>1 DEF Changes
<1>7. AnswersAgree(reqs', db)
  <2> SUFFICES ASSUME NEW j \in DOMAIN reqs', NEW s, Tells(reqs'[j], s), Told(reqs'[j], s) # Now(db, s)
               PROVE  \E k \in DOMAIN reqs' : reqs'[k].rank > reqs'[j].rank /\ Changes(reqs'[k], s)
    BY DEF AnswersAgree
  <2>1. j # i
    <3>1. Tells(p, s) => s \in DOMAIN p.res.stories
      BY <1>1 DEF Tells, Changes
    <3> QED BY <1>1, <1>3, <3>1 DEF Told
  <2>2. PICK k \in DOMAIN reqs : reqs[k].rank > reqs[j].rank /\ Changes(reqs[k], s)
    BY <1>1, <1>5, <2>1 DEF Agree, AnswersAgree
  <2> QED BY <1>1, <1>6, <2>1, <2>2
<1>8. StoreAgrees(reqs', db, rec) /\ ListAgrees(reqs', db, lists)
  BY <1>1, <1>5, <1>6 DEF Agree, StoreAgrees, ListAgrees
<1>9. PagesAgree(reqs', db)
  <2> SUFFICES ASSUME NEW j \in DOMAIN reqs', reqs'[j].op = "list", reqs'[j].key = All, reqs'[j].rank > 0,
                      NEW s \in DOMAIN db.story, Below(reqs'[j], s), Reached(reqs'[j].res, s)
               PROVE  s \in DOMAIN reqs'[j].res.stories
    BY DEF PagesAgree
  <2>1. CASE j = i
    BY <1>1, <1>3, <1>4, <2>1 DEF Below
  <2>2. CASE j # i
    BY <1>1, <1>5, <2>2 DEF Agree, PagesAgree
  <2> QED BY <2>1, <2>2
<1> QED BY <1>5, <1>7, <1>8, <1>9 DEF Agree

\* What Commit leaves of a change that was served.
LEMMA ServedCommitted ==
  ASSUME Shape, NEW i \in DOMAIN reqs, NEW d, NEW res, Commit(d, Served(i, res))
  PROVE  LET q == Served(i, res) IN
         /\ DOMAIN q = DOMAIN reqs /\ \A j \in DOMAIN reqs \ {i} : q[j] = reqs[j]
         /\ q[i] = [reqs[i] EXCEPT !.res = res, !.rank = NextRank]
         /\ Listed(q) /\ Len(q) = Len(reqs)
         /\ db' = d /\ DOMAIN reqs' = DOMAIN q
         /\ \A j \in DOMAIN q : Kin(reqs'[j], q[j]) /\ reqs'[j].rank = q[j].rank
         /\ DOMAIN lists' = DOMAIN lists
         /\ \A k \in DOMAIN lists : /\ lists'[k].edges = lists[k].edges
                                    /\ lists'[k].endCursor = lists[k].endCursor
                                    /\ lists'[k].hasNextPage = lists[k].hasNextPage
<1> DEFINE q == Served(i, res)
<1>1. /\ DOMAIN q = DOMAIN reqs /\ \A j \in DOMAIN reqs \ {i} : q[j] = reqs[j]
      /\ q[i] = [reqs[i] EXCEPT !.res = res, !.rank = NextRank]
      /\ Listed(q) /\ Len(q) = Len(reqs)
  BY ShapeIs, ServedIs
<1> HIDE DEF q
<1>2. HasFields(q[i])
  <2> DEFINE p == [reqs[i] EXCEPT !.res = res, !.rank = NextRank]
  <2>1. HasFields(p)
    BY ServedRequest
  <2> QED BY <1>1, <2>1
<1>3. Commit(d, q) /\ \A j \in DOMAIN q : HasFields(q[j])
  BY <1>1, <1>2, ShapeIs DEF q
<1>4. /\ db' = d /\ DOMAIN reqs' = DOMAIN q
      /\ \A j \in DOMAIN q : Kin(reqs'[j], q[j]) /\ reqs'[j].rank = q[j].rank
      /\ DOMAIN lists' = DOMAIN lists
      /\ \A k \in DOMAIN lists : lists'[k] = [lists[k] EXCEPT !.steady = StillSteady(d, k, lists[k].tag, @)]
  <2>1. Listed(q)
    BY <1>1
  <2> QED BY <1>3, <2>1, CommitIs
<1>5. ASSUME NEW k \in DOMAIN lists
      PROVE  /\ lists'[k].edges = lists[k].edges
             /\ lists'[k].endCursor = lists[k].endCursor
             /\ lists'[k].hasNextPage = lists[k].hasNextPage
  <2> DEFINE v == StillSteady(d, k, lists[k].tag, lists[k].steady)
  <2>1. lists'[k] = [lists[k] EXCEPT !.steady = v] /\ DOMAIN lists[k] = Fields
    BY <1>4, ShapeIs DEF ListOK
  <2> HIDE DEF v
  <2> QED BY <2>1 DEF Fields
<1> QED BY <1>1, <1>4, <1>5 DEF q

\* When the database becomes d, p tells what has changed, and nothing else.
TellsAll(p, d) ==
  /\ \A s : Now(d, s) = Now(db, s) \/ Changes(p, s)
  /\ \A s : Changes(p, s) => Told(p, s) = Now(d, s)
  /\ \A s \in DOMAIN d.story \ DOMAIN db.story : p.op = "create" /\ Changes(p, s) /\ s = db.next

\* A mutation is served: it changes the story it tells of, and no other.
LEMMA AgreeServed ==
  ASSUME Shape, Agree(reqs, db, rec, lists), NEW i \in DOMAIN reqs, NEW d, NEW res,
         reqs[i].rank = 0, reqs[i].op # "list", Commit(d, Served(i, res)),
         NEW p, p = [reqs[i] EXCEPT !.res = res, !.rank = NextRank], NEW m \in Nat, db.next <= m,
         RequestOK(p, m, lists), TellsAll(p, d)
  PROVE  Agree(reqs', db', rec, lists')
<1> DEFINE q == Served(i, res)
<1>0. /\ DOMAIN q = DOMAIN reqs /\ \A j \in DOMAIN reqs \ {i} : q[j] = reqs[j]
      /\ q[i] = [reqs[i] EXCEPT !.res = res, !.rank = NextRank]
      /\ Listed(q) /\ Len(q) = Len(reqs)
      /\ db' = d /\ DOMAIN reqs' = DOMAIN q
      /\ \A j \in DOMAIN q : Kin(reqs'[j], q[j]) /\ reqs'[j].rank = q[j].rank
      /\ DOMAIN lists' = DOMAIN lists
      /\ \A k \in DOMAIN lists : /\ lists'[k].edges = lists[k].edges
                                 /\ lists'[k].endCursor = lists[k].endCursor
                                 /\ lists'[k].hasNextPage = lists[k].hasNextPage
  BY ServedCommitted
<1> HIDE DEF q
<1>1. /\ DOMAIN q = DOMAIN reqs /\ \A j \in DOMAIN reqs \ {i} : q[j] = reqs[j]
      /\ q[i] = p /\ Listed(q) /\ Len(q) = Len(reqs)
  BY <1>0
<1>2. p.rank = NextRank /\ p.rank > 0 /\ p.op = reqs[i].op /\ HasFields(p)
  <2> DEFINE o == [reqs[i] EXCEPT !.res = res, !.rank = NextRank]
  <2>1. o.rank = NextRank /\ o.rank > 0 /\ o.op = reqs[i].op /\ HasFields(o)
    BY ServedRequest
  <2> QED BY <2>1
<1>3. QueueOK(q, m, lists) /\ \A j \in DOMAIN reqs \ {i} : q[j].rank < q[i].rank
  <2>1. /\ q[i].rank = NextRank /\ q[i].op = reqs[i].op /\ reqs[i].op # "list"
        /\ RequestOK(q[i], m, lists) /\ db.next \in Nat /\ QueueOK(reqs, db.next, lists)
    BY <1>1, <1>2, ShapeIs DEF Shape
  <2> QED BY <1>1, <2>1, QueueServed
<1>4. \A j \in DOMAIN reqs : \A s : Changes(reqs[j], s) => j # i /\ q[j] = reqs[j]
  BY <1>1 DEF Changes
<1>5. AnswersAgree(q, d)
  <2> SUFFICES ASSUME NEW j \in DOMAIN q, NEW s, Tells(q[j], s), Told(q[j], s) # Now(d, s)
               PROVE  \E k \in DOMAIN q : q[k].rank > q[j].rank /\ Changes(q[k], s)
    BY DEF AnswersAgree
  <2>1. j # i
    <3>1. Tells(p, s) => Changes(p, s)
      BY <1>2 DEF Tells
    <3> QED BY <1>1, <3>1 DEF TellsAll
  <2>2. CASE Changes(p, s)
    <3>1. q[i].rank > q[j].rank
      <4>1. q[j].rank < q[i].rank /\ q[j].rank \in Nat /\ q[i].rank \in Nat
        BY <1>1, <1>3, <2>1 DEF QueueOK, RequestOK, HasFields
      <4> QED BY <4>1
    <3> QED BY <1>1, <2>2, <3>1
  <2>3. CASE Now(d, s) = Now(db, s)
    <3>1. PICK k \in DOMAIN reqs : reqs[k].rank > reqs[j].rank /\ Changes(reqs[k], s)
      BY <1>1, <2>1, <2>3 DEF Agree, AnswersAgree
    <3> QED BY <1>1, <1>4, <2>1, <3>1
  <2> QED BY <2>2, <2>3 DEF TellsAll
<1>6. StoreAgrees(q, d, rec)
  <2> SUFFICES ASSUME NEW s \in DOMAIN rec, rec[s] # Now(d, s)  PROVE \E j \in DOMAIN q : Changes(q[j], s)
    BY DEF StoreAgrees
  <2>1. CASE Changes(p, s)
    BY <1>1, <2>1
  <2>2. CASE Now(d, s) = Now(db, s)
    BY <1>1, <1>4, <2>2 DEF Agree, StoreAgrees
  <2> QED BY <2>1, <2>2 DEF TellsAll
<1>7. ListAgrees(q, d, lists)
  <2> SUFFICES ASSUME All \in DOMAIN lists, NEW s \in DOMAIN d.story, Reached(lists[All], s),
                      s \notin ToSet(lists[All].edges)
               PROVE  \E j \in DOMAIN q : q[j].op = "create" /\ Changes(q[j], s)
    BY DEF ListAgrees
  <2>1. CASE s \in DOMAIN db.story
    BY <1>1, <1>4, <2>1 DEF Agree, ListAgrees
  <2>2. CASE s \notin DOMAIN db.story
    <3>1. p.op = "create" /\ Changes(p, s)
      BY <2>2 DEF TellsAll
    <3> QED BY <1>1, <3>1
  <2> QED BY <2>1, <2>2
<1>8. PagesAgree(q, d)
  <2> SUFFICES ASSUME NEW j \in DOMAIN q, q[j].op = "list", q[j].key = All, q[j].rank > 0,
                      NEW s \in DOMAIN d.story, Below(q[j], s), Reached(q[j].res, s)
               PROVE  s \in DOMAIN q[j].res.stories
    BY DEF PagesAgree
  <2>1. j # i /\ q[j] = reqs[j] /\ j \in DOMAIN reqs
    BY <1>1, <1>2
  <2>2. CASE s \in DOMAIN db.story
    BY <2>1, <2>2 DEF Agree, PagesAgree
  <2>3. CASE s \notin DOMAIN db.story
    <3>1. p.op = "create" /\ s = db.next
      BY <2>3 DEF TellsAll
    <3>2. All \in DOMAIN lists
      BY <3>1 DEF RequestOK, CreateRequestOK
    <3>3. ListRequestOK(reqs[j], db.next, lists)
      BY <2>1, ShapeIs DEF RequestOK
    <3>4. reqs[j].after # Null /\ reqs[j].after = lists[All].endCursor
      BY <2>1, <3>2, <3>3 DEF ListRequestOK
    <3>5. reqs[j].after \in Used(db.next)
      <4>1. ListOK(lists[All], db.next) /\ ToSet(lists[All].edges) \subseteq Used(db.next)
        BY <3>2, ShapeIs
      <4> QED BY <3>4, <4>1 DEF ListOK
    <3>6. ~ (s < reqs[j].after)
      <4>1. db.next \in Nat /\ reqs[j].after \in Nat /\ reqs[j].after <= db.next - 1
        BY <3>5, ShapeIs DEF Used
      <4> QED BY <3>1, <4>1
    <3> QED BY <2>1, <3>4, <3>6 DEF Below
  <2> QED BY <2>2, <2>3
<1>9. Agree(q, d, rec, lists)
  BY <1>5, <1>6, <1>7, <1>8 DEF Agree
<1>10. \A j \in DOMAIN q : HasFields(q[j]) /\ RequestOK(q[j], m, lists)
  BY <1>3 DEF QueueOK, RequestOK
<1>12. \A j \in DOMAIN q : Alike(reqs'[j], q[j]) /\ reqs'[j].rank = q[j].rank
  BY <1>0, <1>10, KinIsAlike
<1> QED BY <1>0, <1>9, <1>10, <1>12, AgreeAlike
-----------------------------------------------------------------------------
\* A creation that was served tells what is so, and is on its way to the list.
LEMMA ServeCreateAgreed ==
  ASSUME Shape, Agreed, NEW i \in DOMAIN reqs, ServeCreate(i)  PROVE Agreed'
<1> DEFINE r == reqs[i]
           a == r.title
           b == r.tags
           out == CreateStory(db, TRUE, a, b)
           d == out.db
           res == out.res
           p == [r EXCEPT !.res = res, !.rank = NextRank]
<1>1. r.op = "create" /\ r.rank = 0 /\ db.next <= MaxIds /\ Commit(d, Served(i, res))
      /\ UNCHANGED <<rec, view, changes, disturbed>>
  BY DEF ServeCreate, Unserved
<1> SUFFICES ASSUME ~ disturbed  PROVE Agree(reqs', db', rec, lists')
  BY <1>1 DEF Agreed
<1>2. HasFields(r) /\ CreateRequestOK(r, db.next, lists) /\ db.next \in Nat \ {0} /\ LibraryOK(db)
      /\ Agree(reqs, db, rec, lists)
  BY <1>1, ShapeIs DEF RequestOK, Shape, Agreed
<1>3. LibraryOK(d)
  BY <1>2, CreateStoryOK DEF CreateRequestOK
<1>4. /\ d.next = db.next + 1 /\ DOMAIN d.story = DOMAIN db.story \cup {db.next}
      /\ \A s : s # db.next => Now(d, s) = Now(db, s)
      /\ res.id = db.next /\ res.story = Now(d, db.next)
  <2> HIDE DEF a, b
  <2> QED BY <1>2, CreateStoryIs
<1>5. /\ DOMAIN p = DOMAIN r /\ p.res = res /\ p.rank > 0 /\ p.rank \in Nat /\ HasFields(p) /\ p.op = r.op
      /\ \A f \in DOMAIN r \ {"res", "rank"} : p[f] = r[f]
  <2> HIDE DEF res
  <2> QED BY ServedRequest
<1> HIDE DEF out
<1>6. res.story \in Story
  <2>1. d.next <= MaxIds + 1 /\ db.next \in DOMAIN d.story
    BY <1>1, <1>2, <1>4, WindowAssumption, LibrariesAssumption
  <2> QED BY <1>3, <1>4, <2>1, FormatStoryOK
<1> HIDE DEF d, res
<1>7. p.title = r.title /\ p.id = r.id
  BY <1>1, <1>2, <1>5 DEF CreateRequestOK, HasFields
<1>8. \A s \in ToSet(lists[All].edges) : s < db.next
  <2>1. ToSet(lists[All].edges) \subseteq Used(db.next)
    BY <1>2, ShapeIs DEF CreateRequestOK
  <2> QED BY <1>2, <2>1 DEF Used
<1>9. db.next \in Used(db.next + 1)
  BY <1>2 DEF Used
<1>10. RequestOK(p, d.next, lists)
  <2>1. CreateRequestOK(p, d.next, lists)
    <3> HIDE DEF p, r, a, b
    <3> QED BY <1>2, <1>4, <1>5, <1>6, <1>7, <1>8, <1>9 DEF CreateRequestOK
  <2> QED BY <1>1, <1>5, <2>1 DEF RequestOK
<1>11. TellsAll(p, d)
  <2>1. \A s : Changes(p, s) <=> s = db.next
    <3> HIDE DEF p, r
    <3> QED BY <1>1, <1>4, <1>5 DEF Changes
  <2>2. Told(p, db.next) = Now(d, db.next)
    <3> HIDE DEF p, r
    <3> QED BY <1>1, <1>4, <1>5 DEF Told
  <2> QED BY <1>1, <1>4, <1>5, <2>1, <2>2 DEF TellsAll
<1>12. d.next \in Nat /\ db.next <= d.next
  BY <1>2, <1>4
<1> HIDE DEF p, a, b
<1>13. p = [reqs[i] EXCEPT !.res = res, !.rank = NextRank] /\ reqs[i].rank = 0 /\ reqs[i].op # "list"
  BY <1>1 DEF p
<1> QED BY <1>1, <1>2, <1>10, <1>11, <1>12, <1>13, AgreeServed

\* An update that was served tells what the story has become, if there is one.
LEMMA ServeUpdateAgreed ==
  ASSUME Shape, Agreed, NEW i \in DOMAIN reqs, ServeUpdate(i)  PROVE Agreed'
<1> DEFINE r == reqs[i]
           out == UpdateStory(db, r.id, r.title, r.tags)
           d == out.db
           res == out.res
           p == [r EXCEPT !.res = res, !.rank = NextRank]
<1>1. r.op = "update" /\ r.rank = 0 /\ Commit(d, Served(i, res))
      /\ UNCHANGED <<rec, view, changes, disturbed>>
  BY DEF ServeUpdate, Unserved
<1> SUFFICES ASSUME ~ disturbed  PROVE Agree(reqs', db', rec, lists')
  BY <1>1 DEF Agreed
<1>2. HasFields(r) /\ UpdateRequestOK(r, db.next) /\ LibraryOK(db) /\ db.next <= MaxIds + 1
      /\ db.next \in Nat /\ Agree(reqs, db, rec, lists)
  BY <1>1, ShapeIs DEF RequestOK, Shape, Agreed
<1>3. LibraryOK(d)
  BY <1>2, UpdateStoryOK DEF UpdateRequestOK
<1>4. /\ d.next = db.next /\ DOMAIN d.story = DOMAIN db.story
      /\ \A t : t # r.id => Now(d, t) = Now(db, t)
      /\ r.id \notin DOMAIN db.story => res = Null /\ d = db
      /\ r.id \in DOMAIN db.story => res = Now(d, r.id)
  BY <1>2, UpdateStoryIs
<1>5. /\ DOMAIN p = DOMAIN r /\ p.res = res /\ p.rank > 0 /\ p.rank \in Nat /\ HasFields(p) /\ p.op = r.op
      /\ \A f \in DOMAIN r \ {"res", "rank"} : p[f] = r[f]
  <2> HIDE DEF res
  <2> QED BY ServedRequest
<1> HIDE DEF out
<1>6. r.id \in DOMAIN db.story => res \in Story /\ r.id \in Used(db.next)
  BY <1>2, <1>3, <1>4, FormatStoryOK, StoriesUsed
<1> HIDE DEF res, d
<1>7. p.title = r.title /\ p.id = r.id
  BY <1>1, <1>2, <1>5 DEF UpdateRequestOK, HasFields
<1>8. RequestOK(p, db.next, lists)
  <2>1. UpdateRequestOK(p, db.next)
    <3> HIDE DEF p, r
    <3> QED BY <1>2, <1>4, <1>5, <1>6, <1>7 DEF UpdateRequestOK
  <2> QED BY <1>1, <1>5, <2>1 DEF RequestOK
<1>9. res # Null <=> r.id \in DOMAIN db.story
  BY <1>4, <1>6, WindowAssumption, LibrariesAssumption
<1>10. TellsAll(p, d)
  <2> HIDE DEF p, r
  <2>1. \A s : Changes(p, s) <=> s = r.id /\ res # Null
    BY <1>1, <1>5, <1>7 DEF Changes
  <2>2. Told(p, r.id) = res
    BY <1>1, <1>5 DEF Told
  <2>3. \A s : Now(d, s) = Now(db, s) \/ Changes(p, s)
    BY <1>4, <1>9, <2>1
  <2>4. \A s : Changes(p, s) => Told(p, s) = Now(d, s)
    BY <1>4, <1>9, <2>1, <2>2
  <2> QED BY <1>4, <2>3, <2>4 DEF TellsAll
<1>11. db.next <= db.next
  BY <1>2
<1> HIDE DEF p
<1>13. p = [reqs[i] EXCEPT !.res = res, !.rank = NextRank] /\ reqs[i].rank = 0 /\ reqs[i].op # "list"
  BY <1>1 DEF p
<1> QED BY <1>1, <1>2, <1>8, <1>10, <1>11, <1>13, AgreeServed

\* A deletion that was served tells that the story is gone.
LEMMA ServeDeleteAgreed ==
  ASSUME Shape, Agreed, NEW i \in DOMAIN reqs, ServeDelete(i)  PROVE Agreed'
<1> DEFINE r == reqs[i]
           out == DeleteStory(db, r.id)
           d == out.db
           res == out.res
           p == [r EXCEPT !.res = res, !.rank = NextRank]
<1>1. r.op = "delete" /\ r.rank = 0 /\ Commit(d, Served(i, res))
      /\ UNCHANGED <<rec, view, changes, disturbed>>
  BY DEF ServeDelete, Unserved
<1> SUFFICES ASSUME ~ disturbed  PROVE Agree(reqs', db', rec, lists')
  BY <1>1 DEF Agreed
<1>2. HasFields(r) /\ LibraryOK(db) /\ db.next <= MaxIds + 1
      /\ db.next \in Nat /\ Agree(reqs, db, rec, lists)
  BY <1>1, ShapeIs DEF Shape, Agreed
<1>4. /\ out.db.next = db.next /\ DOMAIN out.db.story = DOMAIN db.story \ {r.id}
      /\ \A t : t # r.id => Now(out.db, t) = Now(db, t)
      /\ r.id \notin DOMAIN db.story => out.res = FALSE /\ out.db = db
      /\ r.id \in DOMAIN db.story => out.res = TRUE
  <2> HIDE DEF r
  <2> QED BY <1>2, DeleteStoryIs
<1>5. /\ DOMAIN p = DOMAIN r /\ p.res = res /\ p.rank > 0 /\ p.rank \in Nat /\ HasFields(p) /\ p.op = r.op
      /\ \A f \in DOMAIN r \ {"res", "rank"} : p[f] = r[f]
  <2> HIDE DEF res
  <2> QED BY ServedRequest
<1> HIDE DEF out
<1>6. r.id \in DOMAIN db.story => r.id \in Used(db.next)
  BY <1>2, StoriesUsed
<1>7. /\ res \in BOOLEAN /\ (res = TRUE <=> r.id \in DOMAIN db.story)
      /\ r.id \notin DOMAIN db.story => d = db
  BY <1>4
<1>8. Now(d, r.id) = Gone
  BY <1>4 DEF Now
<1>9. DOMAIN d.story \subseteq DOMAIN db.story /\ \A t : t # r.id => Now(d, t) = Now(db, t)
  BY <1>4
<1> HIDE DEF res, d
<1>10. p.id = r.id
  BY <1>1, <1>2, <1>5 DEF HasFields
<1>11. RequestOK(p, db.next, lists)
  <2>1. DeleteRequestOK(p, db.next)
    <3> HIDE DEF p, r
    <3> QED BY <1>5, <1>6, <1>7, <1>10 DEF DeleteRequestOK
  <2> QED BY <1>1, <1>5, <2>1 DEF RequestOK
<1>12. TellsAll(p, d)
  <2> HIDE DEF p, r
  <2>1. \A s : Changes(p, s) <=> s = r.id /\ res = TRUE
    BY <1>1, <1>5, <1>10 DEF Changes
  <2>2. Told(p, r.id) = Gone
    BY <1>1, <1>5 DEF Told
  <2>3. \A s : Now(d, s) = Now(db, s) \/ Changes(p, s)
    BY <1>7, <1>9, <2>1
  <2>4. \A s : Changes(p, s) => Told(p, s) = Now(d, s)
    BY <1>8, <2>1, <2>2
  <2> QED BY <1>9, <2>3, <2>4 DEF TellsAll
<1>13. db.next <= db.next
  BY <1>2
<1> HIDE DEF p
<1>14. p = [reqs[i] EXCEPT !.res = res, !.rank = NextRank] /\ reqs[i].rank = 0 /\ reqs[i].op # "list"
  BY <1>1 DEF p
<1> QED BY <1>1, <1>2, <1>11, <1>12, <1>13, <1>14, AgreeServed
-----------------------------------------------------------------------------
(* The answers, in turn *)

\* An answer that is given in turn is that of the first request served.
LEMMA InTurn ==
  ASSUME Shape, Agreed, NEW i \in DOMAIN reqs, Answered(i), ~ disturbed'
  PROVE  /\ reqs[i].rank = 1 /\ Agree(reqs, db, rec, lists) /\ db' = db
         /\ \A s : Tells(reqs[i], s) =>
              \/ Told(reqs[i], s) = Now(db, s)
              \/ \E j \in DOMAIN reqs \ {i} : Changes(reqs[j], s)
         /\ \A s \in DOMAIN rec : ~ Changes(reqs[i], s) =>
              \/ rec[s] = Now(db, s)
              \/ \E j \in DOMAIN reqs \ {i} : Changes(reqs[j], s)
<1>1. reqs[i].rank > 0 /\ disturbed' = (disturbed \/ Overtakes(i)) /\ db' = db
  BY DEF Answered
<1>2. ~ disturbed /\ ~ (reqs[i].rank > 1)
  BY <1>1 DEF Overtakes
<1>3. reqs[i].rank \in Nat
  BY ShapeIs DEF HasFields
<1>4. reqs[i].rank = 1
  BY <1>1, <1>2, <1>3
<1>5. Agree(reqs, db, rec, lists)
  BY <1>2 DEF Agreed
<1>6. \A s : Tells(reqs[i], s) =>
        \/ Told(reqs[i], s) = Now(db, s)
        \/ \E j \in DOMAIN reqs \ {i} : Changes(reqs[j], s)
  BY <1>3, <1>5 DEF Agree, AnswersAgree
<1>7. \A s \in DOMAIN rec : ~ Changes(reqs[i], s) =>
        \/ rec[s] = Now(db, s)
        \/ \E j \in DOMAIN reqs \ {i} : Changes(reqs[j], s)
  BY <1>5 DEF Agree, StoreAgrees
<1> QED BY <1>1, <1>4, <1>5, <1>6, <1>7

\* The answer to an update tells the store.
LEMMA AnswerUpdateAgreed ==
  ASSUME Shape, Agreed, NEW i \in DOMAIN reqs, AnswerUpdate(i)  PROVE Agreed'
<1> SUFFICES ASSUME ~ disturbed'  PROVE Agree(reqs', db', rec', lists')
  BY DEF Agreed
<1> DEFINE r == reqs[i]
<1>1. /\ r.op = "update" /\ Answered(i) /\ reqs' = Without(i) /\ lists' = lists
      /\ rec' = IF r.res = Null THEN rec ELSE Put(rec, r.id, r.res)
  BY DEF AnswerUpdate
<1>2. /\ r.rank = 1 /\ Agree(reqs, db, rec, lists) /\ db' = db
      /\ \A s : Tells(r, s) =>
           \/ Told(r, s) = Now(db, s)
           \/ \E j \in DOMAIN reqs \ {i} : Changes(reqs[j], s)
      /\ \A s \in DOMAIN rec : ~ Changes(r, s) =>
           \/ rec[s] = Now(db, s)
           \/ \E j \in DOMAIN reqs \ {i} : Changes(reqs[j], s)
  BY <1>1, InTurn
<1> HIDE DEF r
<1>3. \A s : Changes(r, s) <=> s = r.id /\ r.res # Null
  BY <1>1, <1>2 DEF Changes
<1>4. \A s : Told(r, s) = r.res
  BY <1>1 DEF Told
<1>5. \A s \in DOMAIN rec' : \/ rec'[s] = Now(db, s)
                             \/ \E j \in DOMAIN reqs \ {i} : Changes(reqs[j], s)
  <2> SUFFICES ASSUME NEW s \in DOMAIN rec'
               PROVE  rec'[s] = Now(db, s) \/ \E j \in DOMAIN reqs \ {i} : Changes(reqs[j], s)
    OBVIOUS
  <2>1. CASE Changes(r, s)
    <3>1. rec'[s] = Told(r, s) /\ Tells(r, s)
      BY <1>1, <1>3, <1>4, <2>1 DEF Put, Tells
    <3> QED BY <1>2, <3>1
  <2>2. CASE ~ Changes(r, s)
    <3>1. s \in DOMAIN rec /\ rec'[s] = rec[s]
      BY <1>1, <1>3, <2>2 DEF Put
    <3> QED BY <1>2, <2>2, <3>1
  <2> QED BY <2>1, <2>2
<1>6. All \in DOMAIN lists => \A s \in DOMAIN db.story : Reached(lists[All], s) =>
        \/ s \in ToSet(lists[All].edges)
        \/ \E j \in DOMAIN reqs \ {i} : reqs[j].op = "create" /\ Changes(reqs[j], s)
  BY <1>1, <1>2 DEF Agree, ListAgrees, r
<1> QED BY <1>1, <1>2, <1>5, <1>6, AgreeLeft DEF r

\* The answer to a deletion tells the store.
LEMMA AnswerDeleteAgreed ==
  ASSUME Shape, Agreed, NEW i \in DOMAIN reqs, AnswerDelete(i)  PROVE Agreed'
<1> SUFFICES ASSUME ~ disturbed'  PROVE Agree(reqs', db', rec', lists')
  BY DEF Agreed
<1> DEFINE r == reqs[i]
<1>1. /\ r.op = "delete" /\ Answered(i) /\ reqs' = Without(i) /\ lists' = lists
      /\ rec' = IF r.res THEN Put(rec, r.id, Gone) ELSE rec
  BY DEF AnswerDelete
<1>2. /\ r.rank = 1 /\ Agree(reqs, db, rec, lists) /\ db' = db
      /\ \A s : Tells(r, s) =>
           \/ Told(r, s) = Now(db, s)
           \/ \E j \in DOMAIN reqs \ {i} : Changes(reqs[j], s)
      /\ \A s \in DOMAIN rec : ~ Changes(r, s) =>
           \/ rec[s] = Now(db, s)
           \/ \E j \in DOMAIN reqs \ {i} : Changes(reqs[j], s)
  BY <1>1, InTurn
<1>0. r.res \in BOOLEAN
  <2>1. DeleteRequestOK(r, db.next)
    BY <1>1, ShapeIs DEF RequestOK
  <2> QED BY <1>2, <2>1 DEF DeleteRequestOK
<1> HIDE DEF r
<1>3. \A s : Changes(r, s) <=> s = r.id /\ r.res = TRUE
  BY <1>1, <1>2 DEF Changes
<1>4. \A s : Told(r, s) = Gone
  BY <1>1 DEF Told
<1>5. \A s \in DOMAIN rec' : \/ rec'[s] = Now(db, s)
                             \/ \E j \in DOMAIN reqs \ {i} : Changes(reqs[j], s)
  <2> SUFFICES ASSUME NEW s \in DOMAIN rec'
               PROVE  rec'[s] = Now(db, s) \/ \E j \in DOMAIN reqs \ {i} : Changes(reqs[j], s)
    OBVIOUS
  <2>1. CASE Changes(r, s)
    <3>1. rec'[s] = Told(r, s) /\ Tells(r, s)
      BY <1>1, <1>3, <1>4, <2>1 DEF Put, Tells
    <3> QED BY <1>2, <3>1
  <2>2. CASE ~ Changes(r, s)
    <3>1. s \in DOMAIN rec /\ rec'[s] = rec[s]
      BY <1>0, <1>1, <1>3, <2>2 DEF Put
    <3> QED BY <1>2, <2>2, <3>1
  <2> QED BY <2>1, <2>2
<1>6. All \in DOMAIN lists => \A s \in DOMAIN db.story : Reached(lists[All], s) =>
        \/ s \in ToSet(lists[All].edges)
        \/ \E j \in DOMAIN reqs \ {i} : reqs[j].op = "create" /\ Changes(reqs[j], s)
  BY <1>1, <1>2 DEF Agree, ListAgrees, r
<1> QED BY <1>1, <1>2, <1>5, <1>6, AgreeLeft DEF r

\* The answer to a creation tells the store and the list of all stories.
LEMMA AnswerCreateAgreed ==
  ASSUME Shape, Agreed, NEW i \in DOMAIN reqs, AnswerCreate(i)  PROVE Agreed'
<1> SUFFICES ASSUME ~ disturbed'  PROVE Agree(reqs', db', rec', lists')
  BY DEF Agreed
<1> DEFINE r == reqs[i]
           new == r.res.id
<1>1. /\ r.op = "create" /\ reqs' = Without(i)
      /\ rec' = Put(rec, new, r.res.story)
      /\ All \in DOMAIN lists /\ DOMAIN lists' = DOMAIN lists
      /\ ToSet(lists'[All].edges) = ToSet(lists[All].edges) \cup {new}
      /\ \A f \in Fields \ {"edges"} : lists'[All][f] = lists[All][f]
  BY AnswerCreateIs
<1>2. /\ r.rank = 1 /\ Agree(reqs, db, rec, lists) /\ db' = db
      /\ \A s : Tells(r, s) =>
           \/ Told(r, s) = Now(db, s)
           \/ \E j \in DOMAIN reqs \ {i} : Changes(reqs[j], s)
      /\ \A s \in DOMAIN rec : ~ Changes(r, s) =>
           \/ rec[s] = Now(db, s)
           \/ \E j \in DOMAIN reqs \ {i} : Changes(reqs[j], s)
  <2>1. Answered(i)
    BY DEF AnswerCreate
  <2> QED BY <2>1, InTurn
<1> HIDE DEF r
<1>3. \A s : Changes(r, s) <=> s = new
  BY <1>1, <1>2 DEF Changes
<1>4. \A s : Told(r, s) = r.res.story
  BY <1>1 DEF Told
<1> HIDE DEF new
<1>5. \A s \in DOMAIN rec' : \/ rec'[s] = Now(db, s)
                             \/ \E j \in DOMAIN reqs \ {i} : Changes(reqs[j], s)
  <2> SUFFICES ASSUME NEW s \in DOMAIN rec'
               PROVE  rec'[s] = Now(db, s) \/ \E j \in DOMAIN reqs \ {i} : Changes(reqs[j], s)
    OBVIOUS
  <2>1. CASE Changes(r, s)
    <3>1. rec'[s] = Told(r, s) /\ Tells(r, s)
      BY <1>1, <1>3, <1>4, <2>1 DEF Put, Tells
    <3> QED BY <1>2, <3>1
  <2>2. CASE ~ Changes(r, s)
    <3>1. s \in DOMAIN rec /\ rec'[s] = rec[s]
      BY <1>1, <1>3, <2>2 DEF Put
    <3> QED BY <1>2, <2>2, <3>1
  <2> QED BY <2>1, <2>2
<1>6. \A s \in DOMAIN db.story : Reached(lists'[All], s) =>
        \/ s \in ToSet(lists'[All].edges)
        \/ \E j \in DOMAIN reqs \ {i} : reqs[j].op = "create" /\ Changes(reqs[j], s)
  <2> SUFFICES ASSUME NEW s \in DOMAIN db.story, Reached(lists'[All], s), s \notin ToSet(lists'[All].edges)
               PROVE  \E j \in DOMAIN reqs \ {i} : reqs[j].op = "create" /\ Changes(reqs[j], s)
    OBVIOUS
  <2>1. Reached(lists[All], s)
    BY <1>1 DEF Reached, Fields
  <2>2. PICK j \in DOMAIN reqs : reqs[j].op = "create" /\ Changes(reqs[j], s)
    BY <1>1, <1>2, <2>1 DEF Agree, ListAgrees
  <2>3. j # i
    BY <1>1, <1>3, <2>2 DEF r
  <2> QED BY <2>2, <2>3
<1>7. Agree(Without(i), db, rec', lists')
  <2>1. reqs[i].rank = 1
    BY <1>2 DEF r
  <2> DEFINE rc == rec'
             ks == lists'
  <2>2. /\ \A s \in DOMAIN rc : rc[s] = Now(db, s) \/ \E j \in DOMAIN reqs \ {i} : Changes(reqs[j], s)
        /\ All \in DOMAIN ks => \A s \in DOMAIN db.story : Reached(ks[All], s) =>
             \/ s \in ToSet(ks[All].edges)
             \/ \E j \in DOMAIN reqs \ {i} : reqs[j].op = "create" /\ Changes(reqs[j], s)
    BY <1>5, <1>6
  <2> HIDE DEF rc, ks
  <2>3. Agree(Without(i), db, rc, ks)
    BY <1>2, <2>1, <2>2, AgreeLeft
  <2> QED BY <2>3 DEF rc, ks
<1> QED BY <1>1, <1>2, <1>7

\* A page tells the store what no later answer will tell otherwise.
LEMMA AnswerListAgreed ==
  ASSUME Shape, Agreed, NEW i \in DOMAIN reqs, AnswerList(i)  PROVE Agreed'
<1> SUFFICES ASSUME ~ disturbed'  PROVE Agree(reqs', db', rec', lists')
  BY DEF Agreed
<1> DEFINE r == reqs[i]
           p == r.res
           l == lists[r.key]
           m == lists'[r.key]
<1>1. /\ r.op = "list" /\ r.rank > 0 /\ ListRequestOK(r, db.next, lists)
      /\ reqs' = Without(i) \/ reqs' = Append(Without(i), ListRequest(view, Null))
      /\ rec' = Known(p.stories)
      /\ DOMAIN lists' = DOMAIN lists \cup {r.key}
      /\ \A k \in DOMAIN lists \ {r.key} : lists'[k] = lists[k]
      /\ m.hasNextPage = p.hasNextPage
      /\ r.after = Null => /\ r.key \notin DOMAIN lists /\ ToSet(m.edges) = DOMAIN p.stories
                           /\ m.endCursor = p.endCursor
      /\ r.after # Null => /\ r.key \in DOMAIN lists /\ ToSet(m.edges) = ToSet(l.edges) \cup DOMAIN p.stories
                           /\ m.endCursor = IF p.endCursor = Null THEN l.endCursor ELSE p.endCursor
  BY AnswerListIs
<1>2. /\ r.rank = 1 /\ Agree(reqs, db, rec, lists) /\ db' = db
      /\ \A s : Tells(r, s) =>
           \/ Told(r, s) = Now(db, s)
           \/ \E j \in DOMAIN reqs \ {i} : Changes(reqs[j], s)
      /\ \A s \in DOMAIN rec : ~ Changes(r, s) =>
           \/ rec[s] = Now(db, s)
           \/ \E j \in DOMAIN reqs \ {i} : Changes(reqs[j], s)
  <2>1. Answered(i)
    BY DEF AnswerList
  <2> QED BY <2>1, InTurn
<1>3. \A s : ~ Changes(r, s)
  BY <1>1 DEF Changes
<1>4. \A s \in DOMAIN rec' : \/ rec'[s] = Now(db, s)
                             \/ \E j \in DOMAIN reqs \ {i} : Changes(reqs[j], s)
  <2> SUFFICES ASSUME NEW s \in DOMAIN rec'
               PROVE  rec'[s] = Now(db, s) \/ \E j \in DOMAIN reqs \ {i} : Changes(reqs[j], s)
    OBVIOUS
  <2>1. CASE s \in DOMAIN p.stories
    <3>1. rec'[s] = Told(r, s) /\ Tells(r, s)
      BY <1>1, <2>1 DEF Known, Tells, Told
    <3> QED BY <1>2, <3>1
  <2>2. CASE s \notin DOMAIN p.stories
    <3>1. s \in DOMAIN rec /\ rec'[s] = rec[s]
      BY <1>1, <2>2 DEF Known
    <3> QED BY <1>2, <1>3, <3>1
  <2> QED BY <2>1, <2>2
<1>5. ASSUME All \in DOMAIN lists', NEW s \in DOMAIN db.story, Reached(lists'[All], s),
             s \notin ToSet(lists'[All].edges)
      PROVE  \E j \in DOMAIN reqs \ {i} : reqs[j].op = "create" /\ Changes(reqs[j], s)
  <2>1. ASSUME All \in DOMAIN lists, Reached(lists[All], s), s \notin ToSet(lists[All].edges)
        PROVE  \E j \in DOMAIN reqs \ {i} : reqs[j].op = "create" /\ Changes(reqs[j], s)
    BY <1>1, <1>2, <2>1 DEF Agree, ListAgrees
  <2>2. CASE r.key # All
    <3>1. All \in DOMAIN lists /\ lists'[All] = lists[All]
      BY <1>1, <1>5, <2>2
    <3> QED BY <1>5, <2>1, <3>1
  <2>3. CASE r.key = All
    <3>1. Below(r, s) /\ Reached(p, s) => s \in DOMAIN p.stories
      BY <1>1, <1>2, <2>3 DEF Agree, PagesAgree
    <3>2. CASE r.after = Null
      BY <1>1, <1>5, <2>3, <3>1, <3>2 DEF Below, Reached
    <3>3. CASE r.after # Null
      <4>1. Reached(l, s) \/ (Below(r, s) /\ Reached(p, s))
        <5>1. s \in Nat
          BY StoriesUsed, ShapeIs DEF Shape
        <5> QED BY <1>1, <1>5, <2>3, <3>3, <5>1, ReachedBy
      <4>2. s \notin ToSet(l.edges) /\ s \notin DOMAIN p.stories /\ All \in DOMAIN lists
        BY <1>1, <1>5, <2>3, <3>3
      <4> QED BY <2>1, <2>3, <3>1, <4>1, <4>2
    <3> QED BY <3>2, <3>3
  <2> QED BY <2>2, <2>3
<1>6. Agree(Without(i), db, rec', lists')
  <2> DEFINE rc == rec'
             ks == lists'
  <2>1. /\ \A s \in DOMAIN rc : rc[s] = Now(db, s) \/ \E j \in DOMAIN reqs \ {i} : Changes(reqs[j], s)
        /\ All \in DOMAIN ks => \A s \in DOMAIN db.story : Reached(ks[All], s) =>
             \/ s \in ToSet(ks[All].edges)
             \/ \E j \in DOMAIN reqs \ {i} : reqs[j].op = "create" /\ Changes(reqs[j], s)
    BY <1>4, <1>5
  <2> HIDE DEF rc, ks
  <2>2. Agree(Without(i), db, rc, ks)
    BY <1>2, <1>3, <2>1, AgreeLeft
  <2> QED BY <2>2 DEF rc, ks
<1>7. Agree(reqs', db, rec', lists')
  <2> DEFINE a == ListRequest(view, Null)
             rc == rec'
             ks == lists'
             w == Without(i)
  <2>1. a.rank = 0 /\ (reqs' = w \/ reqs' = Append(w, a)) /\ Listed(w) /\ Agree(w, db, rc, ks)
    BY <1>1, <1>6, ListRequestIs, LeftAlone DEF QueueOK
  <2> HIDE DEF a, rc, ks, w
  <2>2. Agree(reqs', db, rc, ks)
    BY <2>1, AgreeMore
  <2> QED BY <2>2 DEF rc, ks
<1> QED BY <1>2, <1>7

\* What is lost without disturbing the page was not served, or is a page.
LEMMA LoseAgreed ==
  ASSUME Shape, Agreed, NEW i \in DOMAIN reqs, Lose(i)  PROVE Agreed'
<1> SUFFICES ASSUME ~ disturbed'  PROVE Agree(reqs', db', rec', lists')
  BY DEF Agreed
<1>1. /\ reqs' = Without(i) /\ UNCHANGED <<db, lists, rec>>
      /\ disturbed' = (disturbed \/ (reqs[i].op # "list" /\ reqs[i].rank > 0))
  BY DEF Lose
<1>2. \A s : ~ Changes(reqs[i], s)
  BY <1>1 DEF Changes
<1>3. Agree(reqs, db, rec, lists)
  BY <1>1 DEF Agreed
<1> QED BY <1>1, <1>2, <1>3, AgreeDropped

\* Every step keeps the agreement.
LEMMA AgreedStays == Shape /\ Agreed /\ [Next]_vars => Agreed'
<1> SUFFICES ASSUME Shape, Agreed, [Next]_vars  PROVE Agreed'
  OBVIOUS
<1>1. ASSUME NEW i \in DOMAIN reqs, ApiActs(i)  PROVE Agreed'
  BY <1>1, FindAgreed, ServeListAgreed, ServeCreateAgreed, ServeUpdateAgreed, ServeDeleteAgreed DEF ApiActs
<1>2. ASSUME NEW i \in DOMAIN reqs, NetworkActs(i)  PROVE Agreed'
  BY <1>2, AnswerListAgreed, AnswerCreateAgreed, AnswerUpdateAgreed, AnswerDeleteAgreed, LoseAgreed DEF NetworkActs
<1>3. CASE Elsewhere
  BY <1>3 DEF Elsewhere, Agreed
<1>4. CASE UNCHANGED vars
  BY <1>4 DEF vars, Agreed
<1> QED BY <1>1, <1>2, <1>3, <1>4, UserAgreed DEF Next

\* With nothing in flight, the agreement is that of the store with the server.
LEMMA AgreedIsQuiet == Shape /\ Agreed => QuietPageAgrees
<1> SUFFICES ASSUME Shape, Agreed, reqs = <<>>, ~ disturbed
             PROVE  /\ \A k \in DOMAIN lists : \A s \in ToSet(lists[k].edges) :
                         rec[s] = IF s \in DOMAIN db.story THEN FormatStory(db, s) ELSE Gone
                    /\ All \in DOMAIN lists => \A s \in DOMAIN db.story :
                         ~ lists[All].hasNextPage \/ s >= lists[All].endCursor => s \in ToSet(lists[All].edges)
  BY DEF QuietPageAgrees
<1>1. DOMAIN reqs = {} /\ Agree(reqs, db, rec, lists)
  BY DEF Agreed
<1>2. \A s \in DOMAIN rec : rec[s] = Now(db, s)
  BY <1>1 DEF Agree, StoreAgrees
<1>3. \A k \in DOMAIN lists : ToSet(lists[k].edges) \subseteq DOMAIN rec
  BY DEF Shape, StoreOK
<1>4. All \in DOMAIN lists => \A s \in DOMAIN db.story : Reached(lists[All], s) => s \in ToSet(lists[All].edges)
  BY <1>1 DEF Agree, ListAgrees
<1> QED BY <1>2, <1>3, <1>4 DEF Now, Reached

\* When nothing is in flight, a page whose answers came in turn shows every story
\* as the server has it, and all stories from its cursor on, for any number of
\* changes made while others are in flight (the mutations of Library.tsx).
THEOREM QuietPageAlwaysAgrees == Spec => []QuietPageAgrees
<1> QED BY InitShape, ShapeStays, InitAgreed, AgreedStays, AgreedIsQuiet, PTL DEF Spec
-----------------------------------------------------------------------------
(* The tag pages.  What the requests in flight look like. *)

\* The requests served have different ranks, none higher than their number.
Ranked(q) ==
  \A i \in DOMAIN q :
    /\ q[i].rank \in 0 .. Cardinality(Answerable(q))
    /\ \A j \in DOMAIN q : i # j /\ q[i].rank > 0 => q[i].rank # q[j].rank

\* p is r, perhaps of another rank.
Moved(p, r) == DOMAIN p = DOMAIN r /\ \A f \in DOMAIN r \ {"rank"} : p[f] = r[f]

\* w is q without its i-th request, the ranks closed up over it.
Less(w, q, i) ==
  /\ Listed(w) /\ Len(w) = Len(q) - 1
  /\ \A j \in DOMAIN w : /\ Old(i, j) \in DOMAIN q \ {i}
                         /\ Moved(w[j], q[Old(i, j)])
                         /\ w[j].rank = Closed(q[i].rank, q[Old(i, j)].rank)
  /\ \A k \in DOMAIN q \ {i} : \E j \in DOMAIN w : Old(i, j) = k

\* A request that is not served yet leaves the ranks as they are.
LEMMA RankedMore ==
  ASSUME NEW q, NEW r, Listed(q), Ranked(q), r.rank = 0
  PROVE  Ranked(Append(q, r)) /\ Answerable(Append(q, r)) = Answerable(q)
<1> DEFINE a == Append(q, r)
           n == Len(q)
<1>1. /\ n \in Nat /\ DOMAIN q = 1 .. n /\ DOMAIN a = 1 .. n + 1
      /\ \A i \in 1 .. n : a[i] = q[i]
      /\ a[n + 1] = r
  BY ListedIs, AppendIs
<1> HIDE DEF a
<1>2. Answerable(a) = Answerable(q)
  <2>1. \A i : i \in 1 .. n + 1 <=> i \in 1 .. n \/ i = n + 1
    BY <1>1
  <2>2. n + 1 \notin Answerable(a)
    BY <1>1 DEF Answerable
  <2>3. \A i \in 1 .. n : i \in Answerable(a) <=> i \in Answerable(q)
    BY <1>1, <2>1 DEF Answerable
  <2>4. Answerable(a) \subseteq 1 .. n + 1 /\ Answerable(q) \subseteq 1 .. n
    BY <1>1 DEF Answerable
  <2> QED BY <2>1, <2>2, <2>3, <2>4
<1>3. Cardinality(Answerable(q)) \in Nat
  BY AnswerableFinite
<1>4. \A i \in DOMAIN a : (i \in DOMAIN q /\ a[i] = q[i]) \/ (i = n + 1 /\ a[i] = r)
  BY <1>1
<1> HIDE DEF n
<1>5. \A i \in DOMAIN a : a[i].rank \in 0 .. Cardinality(Answerable(a))
  BY <1>2, <1>3, <1>4 DEF Ranked
<1>6. ASSUME NEW i \in DOMAIN a, NEW j \in DOMAIN a, i # j, a[i].rank > 0
      PROVE  a[i].rank # a[j].rank
  <2>1. CASE i \in DOMAIN q /\ a[i] = q[i] /\ j \in DOMAIN q /\ a[j] = q[j]
    BY <1>6, <2>1 DEF Ranked
  <2>2. CASE i \in DOMAIN q /\ a[i] = q[i] /\ a[j] = r
    BY <1>3, <1>6, <2>2 DEF Ranked
  <2>3. CASE a[i] = r
    BY <1>6, <2>3
  <2> QED BY <1>4, <1>6, <2>1, <2>2, <2>3
<1> QED BY <1>2, <1>5, <1>6 DEF Ranked, a

\* Ranks are closed up over a request that is dropped, and stay different.
LEMMA RankedLess ==
  ASSUME NEW q, NEW w, NEW i \in DOMAIN q, Listed(q), Ranked(q), Less(w, q, i)
  PROVE  /\ Ranked(w)
         /\ Cardinality(Answerable(w)) =
              IF q[i].rank > 0 THEN Cardinality(Answerable(q)) - 1 ELSE Cardinality(Answerable(q))
<1> DEFINE n == Len(q)
           N == Cardinality(Answerable(q))
<1>1. n \in Nat /\ DOMAIN q = 1 .. n /\ DOMAIN w = 1 .. n - 1
  BY ListedIs DEF Less
<1>2. /\ \A j \in DOMAIN w : /\ Old(i, j) \in DOMAIN q \ {i}
                             /\ w[j].rank = Closed(q[i].rank, q[Old(i, j)].rank)
      /\ \A k \in DOMAIN q \ {i} : \E j \in DOMAIN w : Old(i, j) = k
  BY DEF Less
<1>3. \A j, k \in DOMAIN w : Old(i, j) = Old(i, k) => j = k
  BY <1>1, OldIs
<1>4. IsFiniteSet(Answerable(q)) /\ N \in Nat
      /\ IsFiniteSet(Answerable(w)) /\ Cardinality(Answerable(w)) \in Nat
  BY AnswerableFinite DEF Less
<1>5. \A j \in DOMAIN q : q[j].rank \in 0 .. N
  BY DEF Ranked
<1> HIDE DEF n, N
<1>6. \A j \in DOMAIN w : /\ w[j].rank \in Nat
                          /\ w[j].rank > 0 <=> q[Old(i, j)].rank > 0
  BY <1>2, <1>4, <1>5 DEF Closed
<1> DEFINE f == [j \in Answerable(w) |-> Old(i, j)]
<1>7. f \in Bijection(Answerable(w), Answerable(q) \ {i})
  <2>1. f \in [Answerable(w) -> Answerable(q) \ {i}]
    BY <1>2, <1>6 DEF Answerable
  <2>2. \A j, k \in Answerable(w) : f[j] = f[k] => j = k
    BY <1>3 DEF Answerable
  <2>3. \A k \in Answerable(q) \ {i} : \E j \in Answerable(w) : f[j] = k
    BY <1>2, <1>6 DEF Answerable
  <2> HIDE DEF f
  <2> QED BY <2>1, <2>2, <2>3 DEF Bijection, Injection, IsInjective, Surjection
<1>8. Cardinality(Answerable(w)) = Cardinality(Answerable(q) \ {i})
  <2> HIDE DEF f
  <2>1. ExistsBijection(Answerable(w), Answerable(q) \ {i})
    BY <1>7 DEF ExistsBijection
  <2> QED BY <1>4, <2>1, FS_Bijection
<1> HIDE DEF f
<1>9. Cardinality(Answerable(w)) = IF q[i].rank > 0 THEN N - 1 ELSE N
  <2>1. Cardinality(Answerable(q) \ {i}) = IF i \in Answerable(q) THEN N - 1 ELSE N
    BY <1>4, FS_RemoveElement DEF N
  <2>2. i \in Answerable(q) <=> q[i].rank > 0
    BY DEF Answerable
  <2> QED BY <1>8, <2>1, <2>2
<1>10. ASSUME NEW j \in DOMAIN w  PROVE w[j].rank \in 0 .. Cardinality(Answerable(w))
  <2>1. /\ Old(i, j) \in DOMAIN q /\ Old(i, j) # i
        /\ w[j].rank = Closed(q[i].rank, q[Old(i, j)].rank)
        /\ q[i].rank \in 0 .. N /\ q[Old(i, j)].rank \in 0 .. N
    BY <1>2, <1>5
  <2>2. q[i].rank > 0 => q[i].rank # q[Old(i, j)].rank
    BY <2>1 DEF Ranked
  <2> QED BY <1>4, <1>9, <2>1, <2>2 DEF Closed
<1>11. ASSUME NEW j \in DOMAIN w, NEW k \in DOMAIN w, j # k, w[j].rank > 0
       PROVE  w[j].rank # w[k].rank
  <2>1. /\ Old(i, j) \in DOMAIN q /\ Old(i, k) \in DOMAIN q /\ Old(i, j) # Old(i, k)
        /\ Old(i, j) # i /\ Old(i, k) # i
    BY <1>2, <1>3, <1>11
  <2>2. /\ q[Old(i, j)].rank > 0 => q[Old(i, j)].rank # q[Old(i, k)].rank
        /\ q[i].rank > 0 => q[i].rank # q[Old(i, j)].rank /\ q[i].rank # q[Old(i, k)].rank
    BY <2>1 DEF Ranked
  <2>3. /\ w[j].rank = Closed(q[i].rank, q[Old(i, j)].rank) /\ w[k].rank = Closed(q[i].rank, q[Old(i, k)].rank)
        /\ q[i].rank \in 0 .. N /\ q[Old(i, j)].rank \in 0 .. N /\ q[Old(i, k)].rank \in 0 .. N
    BY <1>2, <1>5, <2>1
  <2> QED BY <1>4, <1>11, <2>2, <2>3 DEF Closed
<1> QED BY <1>9, <1>10, <1>11 DEF Ranked, N

\* A request that is served ranks after all those served before it.
LEMMA RankedServed ==
  ASSUME NEW q, NEW w, NEW i \in DOMAIN q, Listed(q), Ranked(q), DOMAIN w = DOMAIN q,
         q[i].rank = 0, w[i].rank = 1 + Cardinality(Answerable(q)),
         \A j \in DOMAIN q \ {i} : w[j] = q[j]
  PROVE  /\ Ranked(w) /\ Cardinality(Answerable(q)) \in Nat
         /\ Cardinality(Answerable(w)) = Cardinality(Answerable(q)) + 1
<1>1. IsFiniteSet(Answerable(q)) /\ Cardinality(Answerable(q)) \in Nat
  BY AnswerableFinite
<1>2. Answerable(w) = Answerable(q) \cup {i} /\ i \notin Answerable(q)
  BY <1>1 DEF Answerable
<1>3. Cardinality(Answerable(w)) = Cardinality(Answerable(q)) + 1
  BY <1>1, <1>2, FS_AddElement
<1>4. \A j \in DOMAIN q : q[j].rank \in 0 .. Cardinality(Answerable(q))
  BY DEF Ranked
<1>5. \A j \in DOMAIN w : w[j].rank \in 0 .. Cardinality(Answerable(w))
  BY <1>1, <1>3, <1>4
<1>6. ASSUME NEW j \in DOMAIN w, NEW k \in DOMAIN w, j # k, w[j].rank > 0
      PROVE  w[j].rank # w[k].rank
  <2>1. q[j].rank > 0 => q[j].rank # q[k].rank
    BY <1>6 DEF Ranked
  <2>2. CASE j = i
    BY <1>1, <1>4, <1>6, <2>1, <2>2
  <2>3. CASE k = i
    BY <1>1, <1>4, <1>6, <2>1, <2>3
  <2>4. CASE j # i /\ k # i
    BY <1>6, <2>1, <2>4
  <2> QED BY <2>2, <2>3, <2>4
<1> QED BY <1>1, <1>3, <1>5, <1>6 DEF Ranked

\* Rest drops the one request.
LEMMA RestIs ==
  ASSUME NEW i \in DOMAIN reqs, Listed(reqs),
         \A j \in DOMAIN reqs : "rank" \in DOMAIN reqs[j] /\ reqs[j].rank \in Nat
  PROVE  Less(Rest(i), reqs, i)
<1> DEFINE n == Len(reqs)
           q == reqs
           closed(r) == IF q[i].rank > 0 /\ r.rank > q[i].rank
                          THEN [r EXCEPT !.rank = r.rank - 1] ELSE r
           rest == [j \in 1 .. n - 1 |-> closed(q[Old(i, j)])]
<1>1. n \in Nat /\ DOMAIN reqs = 1 .. n
  BY ListedIs
<1>2. /\ n - 1 \in Nat
      /\ \A j \in 1 .. n - 1 : Old(i, j) \in (1 .. n) \ {i}
      /\ \A k \in (1 .. n) \ {i} : \E j \in 1 .. n - 1 : Old(i, j) = k
  BY <1>1, OldIs
<1>3. Rest(i) = rest
  BY DEF Rest, Old
<1>4. ASSUME NEW r, "rank" \in DOMAIN r, r.rank \in Nat
      PROVE  Moved(closed(r), r) /\ closed(r).rank = Closed(q[i].rank, r.rank)
  BY <1>1, <1>4 DEF Moved, Closed
<1> HIDE DEF closed
<1>5. \A j \in 1 .. n - 1 : /\ Moved(rest[j], q[Old(i, j)])
                            /\ rest[j].rank = Closed(q[i].rank, q[Old(i, j)].rank)
  BY <1>1, <1>2, <1>4
<1>6. rest = [j \in 1 .. n - 1 |-> rest[j]]
  OBVIOUS
<1> HIDE DEF rest
<1>7. Listed(rest) /\ Len(rest) = n - 1 /\ DOMAIN rest = 1 .. n - 1
  BY <1>2, <1>6, ListedFrom
<1> QED BY <1>1, <1>2, <1>3, <1>5, <1>7 DEF Less
-----------------------------------------------------------------------------
(* What the handlers of tags change *)

TagErrors == {"InvalidTagNameError", "InvalidTagColorError", "TagNameExistsError"}

\* A tag that is created gets the next id; a creation that is refused changes
\* nothing.
LEMMA CreateTagIs ==
  ASSUME NEW d, NEW name, NEW color, LibraryOK(d)
  PROVE  LET out == CreateTag(d, name, color) IN
         /\ LibraryOK(out.db) /\ d.next \in Nat \ {0}
         /\ \/ out.db = d /\ Failed(out.res)
            \/ /\ ~ Failed(out.res) /\ out.res.id = d.next /\ out.db.next = d.next + 1
               /\ name \in ValidNames /\ color \in ValidColors
               /\ out.res.tag.name = name /\ out.res.tag.color = color
               /\ DOMAIN out.db.tag = DOMAIN d.tag \cup {d.next}
               /\ out.db.tag[d.next].name = name /\ out.db.tag[d.next].color = color
               /\ \A u \in DOMAIN d.tag : u # d.next /\ out.db.tag[u] = d.tag[u]
<1> DEFINE t == d.next
           e == [d EXCEPT !.tag = Put(@, t, [name |-> name, color |-> color]), !.next = t + 1]
           created == name \in ValidNames /\ color \in ValidColors /\ ~ NameTaken(d, name, Null)
           out == CreateTag(d, name, color)
<1>0. LibraryOK(out.db) /\ d.next \in Nat \ {0}
  BY CreateTagOK DEF LibraryOK, IdsUsed
<1>1. CASE ~ created
  <2>2. PICK x \in TagErrors : out = Result(d, Failure(x))
    BY <1>1 DEF CreateTag, TagErrors
  <2>3. out.db = d /\ out.res = [failed |-> x]
    BY <2>2 DEF Result, Failure
  <2>4. [failed |-> x] # Null /\ "failed" \in DOMAIN [failed |-> x]
    BY TagPagesAssumption DEF TagErrors
  <2> QED BY <1>0, <2>3, <2>4 DEF Failed
<1>2. CASE created
  <2>1. out.db = e /\ out.res = [id |-> t, tag |-> TagView(e, t)]
    BY <1>2 DEF CreateTag, Result
  <2>2. e.tag = Put(d.tag, t, [name |-> name, color |-> color]) /\ e.next = t + 1
    BY DEF LibraryOK, WellFormed
  <2>3. /\ DOMAIN e.tag = DOMAIN d.tag \cup {t}
        /\ e.tag[t] = [name |-> name, color |-> color]
        /\ \A u \in DOMAIN d.tag : u # t => e.tag[u] = d.tag[u]
    BY <2>2 DEF Put
  <2> HIDE DEF e
  <2>4. t \notin DOMAIN d.tag
    BY DEF LibraryOK, IdsUsed
  <2>5. TagView(e, t).name = name /\ TagView(e, t).color = color
    BY <2>3 DEF TagView
  <2>6. "failed" \notin DOMAIN [id |-> t, tag |-> TagView(e, t)]
    OBVIOUS
  <2> QED BY <1>0, <1>2, <2>1, <2>2, <2>3, <2>4, <2>5, <2>6 DEF Failed
<1> QED BY <1>1, <1>2

\* A tag that is changed is the same tag; a change that is refused, or of a tag
\* that is gone, changes nothing.
LEMMA UpdateTagIs ==
  ASSUME NEW d, NEW t, NEW name, NEW color, LibraryOK(d)
  PROVE  LET out == UpdateTag(d, t, name, color) IN
         /\ LibraryOK(out.db) /\ out.db.next = d.next
         /\ \/ out.db = d /\ (out.res = Null \/ Failed(out.res))
            \/ /\ out.res # Null /\ ~ Failed(out.res) /\ t \in DOMAIN d.tag
               /\ out.res.name \in ValidNames /\ out.res.color \in ValidColors
               /\ DOMAIN out.db.tag = DOMAIN d.tag
               /\ out.db.tag[t].name = out.res.name /\ out.db.tag[t].color = out.res.color
               /\ \A u \in DOMAIN d.tag : u # t => out.db.tag[u] = d.tag[u]
<1> DEFINE new == [name  |-> IF name = Null THEN d.tag[t].name ELSE name,
                   color |-> IF color = Null THEN d.tag[t].color ELSE color]
           e == [d EXCEPT !.tag = Put(@, t, new)]
           updated == /\ name \in ValidNames \cup {Null} /\ color \in ValidColors \cup {Null}
                      /\ t \in DOMAIN d.tag
                      /\ name # Null => ~ NameTaken(d, name, t)
           out == UpdateTag(d, t, name, color)
<1>0. LibraryOK(out.db) /\ out.db.next = d.next
  BY UpdateTagOK, UpdateTagNext
<1>1. CASE ~ updated
  <2>1. out = Result(d, Null) \/ \E x \in TagErrors : out = Result(d, Failure(x))
    BY <1>1, LibraryAssumption DEF UpdateTag, TagErrors
  <2>2. CASE out = Result(d, Null)
    BY <1>0, <2>2 DEF Result
  <2>3. CASE out # Result(d, Null)
    <3>1. PICK x \in TagErrors : out = Result(d, Failure(x))
      BY <2>1, <2>3
    <3>2. out.db = d /\ out.res = [failed |-> x]
      BY <3>1 DEF Result, Failure
    <3>3. [failed |-> x] # Null /\ "failed" \in DOMAIN [failed |-> x]
      BY TagPagesAssumption DEF TagErrors
    <3> QED BY <1>0, <3>2, <3>3 DEF Failed
  <2> QED BY <2>1, <2>2, <2>3
<1>2. CASE updated
  <2>1. out.db = e /\ out.res = TagView(e, t)
    BY <1>2, LibraryAssumption DEF UpdateTag, Result
  <2>2. e.tag = Put(d.tag, t, new)
    BY DEF LibraryOK, WellFormed
  <2>3. /\ DOMAIN e.tag = DOMAIN d.tag
        /\ e.tag[t] = new
        /\ \A u \in DOMAIN d.tag : u # t => e.tag[u] = d.tag[u]
    BY <1>2, <2>2 DEF Put
  <2>4. new.name \in ValidNames /\ new.color \in ValidColors
    BY <1>2 DEF LibraryOK, WellFormed
  <2> HIDE DEF e, new
  <2>5. Cardinality(TaggedWith(e, t)) \in Nat
    <3>1. LibraryOK(e)
      BY <1>0, <2>1
    <3>2. e.next \in Nat \ {0} /\ TaggedWith(e, t) \in SUBSET (1 .. e.next - 1)
      BY <3>1 DEF LibraryOK, IdsUsed, Linked, TaggedWith
    <3>3. e.next - 1 \in Nat
      BY <3>2
    <3> QED BY <3>2, <3>3, IdsFinite
  <2>6. /\ TagView(e, t) \in [name : Names, color : Colors, storyCount : Nat]
        /\ TagView(e, t).name = new.name /\ TagView(e, t).color = new.color
        /\ "failed" \notin DOMAIN TagView(e, t)
    BY <2>3, <2>4, <2>5, LibraryAssumption DEF TagView
  <2>7. TagView(e, t) # Null
    BY <2>6, TagPagesAssumption
  <2> QED BY <1>0, <1>2, <2>1, <2>3, <2>4, <2>6, <2>7 DEF Failed
<1> QED BY <1>1, <1>2

\* A deletion tells whether there was the tag.
LEMMA DeleteTagIs ==
  ASSUME NEW d, NEW t, LibraryOK(d)
  PROVE  LET out == DeleteTag(d, t) IN
         /\ LibraryOK(out.db) /\ out.db.next = d.next
         /\ (out.res = TRUE /\ t \in DOMAIN d.tag) \/ (out.res = FALSE /\ t \notin DOMAIN d.tag)
         /\ DOMAIN out.db.tag = DOMAIN d.tag \ {t}
         /\ \A u \in DOMAIN d.tag : u # t => out.db.tag[u] = d.tag[u]
<1> DEFINE e == [d EXCEPT !.tag = Drop(@, {t}), !.links = {l \in @ : l[2] # t}]
           out == DeleteTag(d, t)
<1>0. LibraryOK(out.db)
  BY DeleteTagOK
<1>1. CASE t \notin DOMAIN d.tag
  <2>1. out.db = d /\ out.res = FALSE
    BY <1>1 DEF DeleteTag, Result
  <2> QED BY <1>0, <1>1, <2>1
<1>2. CASE t \in DOMAIN d.tag
  <2>1. out.db = e /\ out.res = TRUE
    BY <1>2 DEF DeleteTag, Result
  <2>2. e.tag = Drop(d.tag, {t}) /\ e.next = d.next
    BY DEF LibraryOK, WellFormed
  <2>3. DOMAIN e.tag = DOMAIN d.tag \ {t} /\ \A u \in DOMAIN e.tag : e.tag[u] = d.tag[u]
    BY <2>2 DEF Drop
  <2> HIDE DEF e
  <2> QED BY <1>0, <1>2, <2>1, <2>2, <2>3
<1> QED BY <1>1, <1>2

\* A story that is created leaves the tags alone.
LEMMA StoryLeavesTags ==
  ASSUME NEW d, NEW title \in Titles, NEW tagIds, LibraryOK(d)
  PROVE  LET e == CreateStory(d, TRUE, title, tagIds).db IN
         LibraryOK(e) /\ e.tag = d.tag /\ e.next = d.next + 1
<1> DEFINE s == d.next
           e == [d EXCEPT !.story = Put(@, s, title),
                          !.links = @ \cup {s} \X (tagIds \cap DOMAIN d.tag),
                          !.next = s + 1]
<1>1. CreateStory(d, TRUE, title, tagIds).db = e
  BY DEF CreateStory, Result
<1>2. e.tag = d.tag /\ e.next = s + 1
  BY DEF LibraryOK, WellFormed
<1> HIDE DEF e
<1> QED BY <1>1, <1>2, CreateStoryOK
-----------------------------------------------------------------------------
(* What the store, the form and the requests look like, when the next id is n. *)

TagRecords == [name : ValidNames, color : ValidColors, counted : BOOLEAN]

\* The chips of a form are different tags that the store has.
ChipsOK(s, rc) == s \in Seq(DOMAIN rc) /\ \A i, j \in DOMAIN s : s[i] = s[j] => i = j

\* A list of tags that was served tells of tags that there were.
ListAnswerOK(r, n) ==
  /\ "counted" \in DOMAIN r /\ r.counted \in BOOLEAN
  /\ r.rank > 0 => DOMAIN r.res \subseteq Used(n) /\ \A t \in DOMAIN r.res : r.res[t] \in TagRecords

\* A tag is created for a form with chips; it is none of them.
CreationOK(r, rc, n) ==
  /\ {"name", "color", "chosen"} \subseteq DOMAIN r /\ r.name \in Names /\ ChipsOK(r.chosen, rc)
  /\ r.rank > 0 /\ ~ Failed(r.res) =>
       /\ r.res.id \in Used(n) \ ToSet(r.chosen)
       /\ r.res.tag.name \in ValidNames /\ r.res.tag.color \in ValidColors

\* A change that was made is of a tag that there was.
ChangeOK(r, n) ==
  /\ {"id", "name", "color", "opt"} \subseteq DOMAIN r
  /\ r.rank > 0 /\ r.res # Null /\ ~ Failed(r.res) =>
       r.id \in Used(n) /\ r.res.name \in ValidNames /\ r.res.color \in ValidColors

\* A deletion that was made is of a tag that there was.
DeletionOK(r, n) ==
  "id" \in DOMAIN r /\ (r.rank > 0 => r.res \in BOOLEAN /\ (r.res => r.id \in Used(n)))

TagOps == {"tags", "create", "update", "delete", "story"}

\* What a request asks for, and its answer.
TagRequestOK(r, rc, n) ==
  /\ {"op", "here", "res", "rank"} \subseteq DOMAIN r /\ r.rank \in Nat
  /\ r.op \in TagOps
  /\ r.op = "tags" => ListAnswerOK(r, n)
  /\ r.op = "create" => CreationOK(r, rc, n)
  /\ r.op = "update" => ChangeOK(r, n)
  /\ r.op = "delete" => DeletionOK(r, n)
  /\ r.op = "story" => "chosen" \in DOMAIN r

TagQueueOK(q, rc, n) ==
  /\ Listed(q) /\ Len(q) <= MaxRequests /\ Ranked(q)
  /\ \A i \in DOMAIN q : TagRequestOK(q[i], rc, n)

\* The list has tags of the store, which are tags there were.
TagStoreOK(d, ts, rc) ==
  /\ LibraryOK(d) /\ DOMAIN rc \subseteq Used(d.next)
  /\ \A t \in DOMAIN rc : rc[t] \in TagRecords \cup {Gone}
  /\ ts = Null \/ ts \in Seq(DOMAIN rc)

FormOK(f, rc) ==
  /\ f \in [open : BOOLEAN, selected : Seq(DOMAIN rc), pending : Names \cup {Null}]
  /\ ChipsOK(f.selected, rc)

Modes == {"view", "rename", "color", "delete"}

RowStates == [1 .. MaxIds -> [mode : Modes, error : BOOLEAN]]

Wishes == [tags : SUBSET Nat, names : SUBSET Names, touched : BOOLEAN]

\* Before the first answer nothing is asked for but the tags, and no form is open.
Untouched(ts, f, a, q) ==
  ts = Null => f = EmptyForm /\ a = NoWishes /\ \A i \in DOMAIN q : q[i].op = "tags"

\* The inductive invariant.
TagShape ==
  /\ TagStoreOK(db, tags, rec) /\ TagQueueOK(reqs, rec, db.next)
  /\ FormOK(form, rec) /\ rows \in RowStates /\ asked \in Wishes
  /\ page \in {"library", "manage"} /\ crashed \in BOOLEAN
  /\ Untouched(tags, form, asked, reqs)
  /\ Broken => crashed
-----------------------------------------------------------------------------
(* What keeps the requests in order. *)

\* Requests stay what they are when the store grows and ids are given out.
LEMMA TagRequestGrows ==
  ASSUME NEW r, NEW rc, NEW sc, NEW n \in Nat, NEW m \in Nat, n <= m,
         DOMAIN rc \subseteq DOMAIN sc, TagRequestOK(r, rc, n)
  PROVE  TagRequestOK(r, sc, m)
<1>1. Used(n) \subseteq Used(m)
  BY DEF Used
<1>2. \A s : ChipsOK(s, rc) => ChipsOK(s, sc)
  BY DEF ChipsOK
<1>3. r.op = "tags" => ListAnswerOK(r, m)
  BY <1>1 DEF TagRequestOK, ListAnswerOK
<1>4. r.op = "create" => CreationOK(r, sc, m)
  BY <1>1, <1>2 DEF TagRequestOK, CreationOK
<1>5. r.op = "update" => ChangeOK(r, m)
  BY <1>1 DEF TagRequestOK, ChangeOK
<1>6. r.op = "delete" => DeletionOK(r, m)
  BY <1>1 DEF TagRequestOK, DeletionOK
<1> QED BY <1>3, <1>4, <1>5, <1>6 DEF TagRequestOK

\* Requests stay what they are when their rank or their page goes.
LEMMA TagRequestMoves ==
  ASSUME NEW p, NEW r, NEW rc, NEW n, TagRequestOK(r, rc, n), DOMAIN p = DOMAIN r,
         \A f \in DOMAIN r \ {"rank", "here"} : p[f] = r[f],
         p.rank \in Nat, p.rank > 0 => r.rank > 0
  PROVE  TagRequestOK(p, rc, n)
<1>1. p.op = r.op /\ p.res = r.res /\ {"op", "here", "res", "rank"} \subseteq DOMAIN p
  BY DEF TagRequestOK
<1>2. r.op = "tags" => ListAnswerOK(p, n)
  BY <1>1 DEF TagRequestOK, ListAnswerOK
<1>3. r.op = "create" => CreationOK(p, rc, n)
  <2> SUFFICES ASSUME r.op = "create" PROVE CreationOK(p, rc, n)
    OBVIOUS
  <2>1. CreationOK(r, rc, n)
    BY DEF TagRequestOK
  <2>2. p.name = r.name /\ p.chosen = r.chosen /\ {"name", "color", "chosen"} \subseteq DOMAIN p
    BY <2>1 DEF CreationOK
  <2> QED BY <1>1, <2>1, <2>2 DEF CreationOK
<1>4. r.op = "update" => ChangeOK(p, n)
  <2> SUFFICES ASSUME r.op = "update" PROVE ChangeOK(p, n)
    OBVIOUS
  <2>1. ChangeOK(r, n)
    BY DEF TagRequestOK
  <2>2. p.id = r.id /\ {"id", "name", "color", "opt"} \subseteq DOMAIN p
    BY <2>1 DEF ChangeOK
  <2> QED BY <1>1, <2>1, <2>2 DEF ChangeOK
<1>5. r.op = "delete" => DeletionOK(p, n)
  <2> SUFFICES ASSUME r.op = "delete" PROVE DeletionOK(p, n)
    OBVIOUS
  <2>1. DeletionOK(r, n)
    BY DEF TagRequestOK
  <2>2. p.id = r.id /\ "id" \in DOMAIN p
    BY <2>1 DEF DeletionOK
  <2> QED BY <1>1, <2>1, <2>2 DEF DeletionOK
<1> QED BY <1>1, <1>2, <1>3, <1>4, <1>5 DEF TagRequestOK

\* The queue grows.
LEMMA TagQueueGrows ==
  ASSUME NEW q, NEW rc, NEW sc, NEW n \in Nat, NEW m \in Nat, n <= m,
         DOMAIN rc \subseteq DOMAIN sc, TagQueueOK(q, rc, n)
  PROVE  TagQueueOK(q, sc, m)
  BY TagRequestGrows DEF TagQueueOK

\* A request is made.
LEMMA TagQueueMore ==
  ASSUME NEW q, NEW r, NEW rc, NEW n, TagQueueOK(q, rc, n), Len(q) < MaxRequests,
         TagRequestOK(r, rc, n), r.rank = 0
  PROVE  TagQueueOK(Append(q, r), rc, n)
<1> DEFINE a == Append(q, r)
<1>1. /\ Listed(a) /\ Len(a) = Len(q) + 1 /\ DOMAIN a = 1 .. Len(q) + 1
      /\ \A i \in DOMAIN q : a[i] = q[i]
      /\ a[Len(q) + 1] = r
  BY AppendIs DEF TagQueueOK
<1>2. Len(q) \in Nat /\ DOMAIN q = 1 .. Len(q)
  BY ListedIs DEF TagQueueOK
<1>3. Ranked(a)
  BY RankedMore DEF TagQueueOK
<1> HIDE DEF a
<1>4. \A i \in DOMAIN a : (i \in DOMAIN q /\ a[i] = q[i]) \/ a[i] = r
  BY <1>1, <1>2
<1>5. Len(a) <= MaxRequests
  BY <1>1, <1>2, LibrariesAssumption
<1> QED BY <1>1, <1>3, <1>4, <1>5 DEF TagQueueOK, a

\* A request is dropped.
LEMMA TagQueueLess ==
  ASSUME NEW q, NEW w, NEW i \in DOMAIN q, NEW rc, NEW n, TagQueueOK(q, rc, n), Less(w, q, i)
  PROVE  TagQueueOK(w, rc, n)
<1>1. Listed(w) /\ Len(w) = Len(q) - 1 /\ Ranked(w)
  BY RankedLess DEF Less, TagQueueOK
<1>2. Len(w) <= MaxRequests
  <2>1. Len(q) \in Nat /\ Len(w) \in Nat /\ Len(q) <= MaxRequests
    BY <1>1, ListedIs DEF TagQueueOK
  <2> QED BY <1>1, <2>1, LibrariesAssumption
<1>3. ASSUME NEW j \in DOMAIN w PROVE TagRequestOK(w[j], rc, n)
  <2> DEFINE r == q[Old(i, j)]
             p == w[j]
  <2>1. TagRequestOK(r, rc, n) /\ Moved(p, r) /\ p.rank = Closed(q[i].rank, r.rank)
    BY DEF Less, TagQueueOK
  <2>2. q[i].rank \in Nat /\ r.rank \in Nat
    BY <2>1 DEF TagQueueOK, TagRequestOK
  <2> HIDE DEF r, p
  <2>3. p.rank \in Nat /\ (p.rank > 0 => r.rank > 0)
    BY <2>1, <2>2 DEF Closed
  <2>4. TagRequestOK(p, rc, n)
    BY <2>1, <2>3, TagRequestMoves DEF Moved
  <2> QED BY <2>4 DEF p
<1> QED BY <1>1, <1>2, <1>3 DEF TagQueueOK

\* Rest of a queue in order.
LEMMA TagRest ==
  ASSUME NEW i \in DOMAIN reqs, NEW rc, NEW n, TagQueueOK(reqs, rc, n)
  PROVE  Less(Rest(i), reqs, i) /\ TagQueueOK(Rest(i), rc, n)
<1>1. Less(Rest(i), reqs, i)
  BY RestIs DEF TagQueueOK, TagRequestOK
<1> QED BY <1>1, TagQueueLess
-----------------------------------------------------------------------------
(* Chips *)

\* A chip is added.
LEMMA ChipAdded ==
  ASSUME NEW S, NEW s \in Seq(S), NEW x \in S, x \notin ToSet(s),
         \A i, j \in DOMAIN s : s[i] = s[j] => i = j
  PROVE  LET a == Append(s, x) IN
         /\ a \in Seq(S) /\ ToSet(a) = ToSet(s) \cup {x}
         /\ \A i, j \in DOMAIN a : a[i] = a[j] => i = j
<1> DEFINE a == Append(s, x)
           n == Len(s)
<1>1. /\ n \in Nat /\ DOMAIN s = 1 .. n /\ DOMAIN a = 1 .. n + 1 /\ a \in Seq(S)
      /\ (\A i \in 1 .. n : a[i] = s[i]) /\ a[n + 1] = x
  OBVIOUS
<1> HIDE DEF a, n
<1>2. \A i \in DOMAIN a : (i \in DOMAIN s /\ a[i] = s[i]) \/ (i = n + 1 /\ a[i] = x)
  BY <1>1
<1>3. \A i \in DOMAIN s : i \in DOMAIN a /\ a[i] = s[i] /\ s[i] # x
  BY <1>1 DEF ToSet
<1>4. n + 1 \in DOMAIN a
  BY <1>1
<1>5. ToSet(a) = ToSet(s) \cup {x}
  BY <1>1, <1>2, <1>3, <1>4 DEF ToSet
<1>6. ASSUME NEW i \in DOMAIN a, NEW j \in DOMAIN a, a[i] = a[j]  PROVE i = j
  BY <1>2, <1>3, <1>6
<1> QED BY <1>1, <1>5, <1>6 DEF a

\* A chip is removed.
LEMMA ChipRemoved ==
  ASSUME NEW S, NEW s \in Seq(S), NEW k \in DOMAIN s,
         \A i, j \in DOMAIN s : s[i] = s[j] => i = j
  PROVE  LET a == RemoveAt(s, k) IN
         /\ a \in Seq(S) /\ ToSet(a) = ToSet(s) \ {s[k]}
         /\ \A i, j \in DOMAIN a : a[i] = a[j] => i = j
<1> DEFINE a == RemoveAt(s, k)
           n == Len(s)
           l == SubSeq(s, 1, k - 1)
           r == SubSeq(s, k + 1, n)
<1>1. n \in Nat /\ DOMAIN s = 1 .. n /\ k \in 1 .. n
  OBVIOUS
<1>2. /\ l \in Seq(S) /\ Len(l) = k - 1 /\ \A i \in 1 .. k - 1 : l[i] = s[i]
      /\ r \in Seq(S) /\ Len(r) = n - k /\ \A i \in 1 .. n - k : r[i] = s[k + i]
  BY <1>1
<1> HIDE DEF n, l, r
<1>3. /\ l \o r \in Seq(S) /\ Len(l \o r) = Len(l) + Len(r)
      /\ \A i \in 1 .. Len(l) + Len(r) : (l \o r)[i] = IF i <= Len(l) THEN l[i] ELSE r[i - Len(l)]
  BY <1>2, ConcatProperties
<1>4. a = l \o r
  BY DEF RemoveAt, l, r, n
<1> HIDE DEF a
<1>5. a \in Seq(S) /\ DOMAIN a = 1 .. n - 1
  BY <1>1, <1>2, <1>3, <1>4
<1>6. \A i \in 1 .. n - 1 : a[i] = s[IF i < k THEN i ELSE i + 1]
  <2> SUFFICES ASSUME NEW i \in 1 .. n - 1 PROVE a[i] = s[IF i < k THEN i ELSE i + 1]
    OBVIOUS
  <2>1. CASE i < k
    <3>1. i \in 1 .. k - 1 /\ i <= k - 1 /\ i \in 1 .. Len(l) + Len(r)
      BY <1>1, <1>2, <2>1
    <3> QED BY <1>2, <1>3, <1>4, <2>1, <3>1
  <2>2. CASE ~ (i < k)
    <3>1. i - (k - 1) \in 1 .. n - k /\ ~ (i <= k - 1) /\ i \in 1 .. Len(l) + Len(r)
      BY <1>1, <1>2, <2>2
    <3>2. a[i] = r[i - (k - 1)]
      BY <1>2, <1>3, <1>4, <3>1
    <3>3. r[i - (k - 1)] = s[k + (i - (k - 1))] /\ k + (i - (k - 1)) = i + 1
      BY <1>1, <1>2, <3>1
    <3> QED BY <2>2, <3>2, <3>3
  <2> QED BY <2>1, <2>2
<1>7. \A i \in 1 .. n - 1 : Old(k, i) \in (1 .. n) \ {k} /\ a[i] = s[Old(k, i)]
  BY <1>1, <1>6, OldIs DEF Old
<1>8. \A m \in (1 .. n) \ {k} : \E i \in 1 .. n - 1 : Old(k, i) = m
  BY <1>1, OldIs
<1>9. \A i, j \in 1 .. n - 1 : Old(k, i) = Old(k, j) => i = j
  BY <1>1, OldIs
<1>10. ToSet(a) = ToSet(s) \ {s[k]}
  <2>1. \A i \in DOMAIN a : a[i] \in ToSet(s) /\ a[i] # s[k]
    BY <1>1, <1>5, <1>7 DEF ToSet
  <2>2. \A m \in DOMAIN s : s[m] # s[k] => \E i \in DOMAIN a : a[i] = s[m]
    <3> SUFFICES ASSUME NEW m \in DOMAIN s, s[m] # s[k]  PROVE \E i \in DOMAIN a : a[i] = s[m]
      OBVIOUS
    <3>1. PICK i \in 1 .. n - 1 : Old(k, i) = m
      BY <1>1, <1>8
    <3> QED BY <1>5, <1>7, <3>1
  <2> QED BY <2>1, <2>2 DEF ToSet
<1>11. \A i, j \in DOMAIN a : a[i] = a[j] => i = j
  BY <1>1, <1>5, <1>7, <1>9
<1> QED BY <1>5, <1>10, <1>11 DEF a

\* The effect of TagInput selects a tag that is offered and not selected.
LEMMA AutoSelectOK ==
  ASSUME NEW f, NEW rc, NEW offered, FormOK(f, rc), DOMAIN offered \subseteq DOMAIN rc
  PROVE  FormOK(AutoSelect(f, offered), rc)
<1> DEFINE match == {t \in DOMAIN offered : f.pending # Null /\ SameName(offered[t], f.pending)}
           new == CHOOSE t \in match : TRUE
<1>1. CASE match = {} \/ new \in ToSet(f.selected)
  BY <1>1 DEF AutoSelect
<1>2. CASE ~ (match = {} \/ new \in ToSet(f.selected))
  <2>1. new \in DOMAIN rc /\ new \notin ToSet(f.selected)
    BY <1>2
  <2>2. AutoSelect(f, offered) = [f EXCEPT !.selected = Append(f.selected, new), !.pending = Null]
    BY <1>2 DEF AutoSelect
  <2> HIDE DEF new, match
  <2>3. ChipsOK(Append(f.selected, new), rc)
    BY <2>1, ChipAdded DEF FormOK, ChipsOK
  <2>4. AutoSelect(f, offered) \in [open : BOOLEAN, selected : Seq(DOMAIN rc), pending : Names \cup {Null}]
        /\ AutoSelect(f, offered).selected = Append(f.selected, new)
    BY <2>2, <2>3 DEF FormOK, ChipsOK
  <2> QED BY <2>3, <2>4 DEF FormOK
<1> QED BY <1>1, <1>2

\* A chip is added to a form.
LEMMA FormAdds ==
  ASSUME NEW f, NEW rc, NEW t \in DOMAIN rc, FormOK(f, rc), t \notin ToSet(f.selected)
  PROVE  LET g == [f EXCEPT !.selected = Append(f.selected, t)] IN
         FormOK(g, rc) /\ ToSet(g.selected) = ToSet(f.selected) \cup {t}
<1>1. ChipsOK(Append(f.selected, t), rc) /\ ToSet(Append(f.selected, t)) = ToSet(f.selected) \cup {t}
  BY ChipAdded DEF FormOK, ChipsOK
<1> QED BY <1>1 DEF FormOK, ChipsOK

LEMMA EmptyFormOK == \A rc : FormOK(EmptyForm, rc)
<1> TAKE rc
<1>1. << >> \in Seq(DOMAIN rc) /\ DOMAIN << >> = {}
  OBVIOUS
<1> QED BY <1>1 DEF FormOK, EmptyForm, ChipsOK
-----------------------------------------------------------------------------
(* Every step keeps the shape *)

\* What the shape says, in the form that the steps below cite.
LEMMA TagShapeIs ==
  ASSUME TagShape
  PROVE  /\ db.next \in Nat \ {0} /\ Listed(reqs) /\ Len(reqs) \in Nat
         /\ DOMAIN reqs = 1 .. Len(reqs) /\ Ranked(reqs) /\ Len(reqs) <= MaxRequests
         /\ \A i \in DOMAIN reqs : TagRequestOK(reqs[i], rec, db.next)
<1>1. db.next \in Nat \ {0}
  BY DEF TagShape, TagStoreOK, LibraryOK, IdsUsed
<1> QED BY <1>1, ListedIs DEF TagShape, TagQueueOK

\* A render keeps the form in order, and unmounts a page that breaks.
LEMMA RenderShape ==
  ASSUME NEW f, Render(f), FormOK(f, rec'), crashed \in BOOLEAN,
         TagStoreOK(db', tags', rec'), TagQueueOK(reqs', rec', db'.next),
         rows' \in RowStates, asked' \in Wishes, page' \in {"library", "manage"},
         Untouched(tags', f, asked', reqs')
  PROVE  TagShape'
<1>1. DOMAIN Available' \subseteq DOMAIN rec'
  BY DEF Available, TagStoreOK, ToSet
<1>2. FormOK(form', rec')
  BY <1>1, AutoSelectOK DEF Render
<1>3. Untouched(tags', form', asked', reqs')
  BY DEF Render, Untouched, EmptyForm
<1>4. crashed' \in BOOLEAN /\ (Broken' => crashed')
  <2>1. crashed' = (crashed \/ Broken')
    BY DEF Render
  <2>2. Broken' \in BOOLEAN
    BY DEF Broken
  <2> QED BY <2>1, <2>2
<1> QED BY <1>2, <1>3, <1>4 DEF TagShape

\* A query for the tags is in order.
LEMMA TagsRequestOK ==
  \A counted \in BOOLEAN : \A rc, n :
    LET r == TagsRequest(counted) IN
    TagRequestOK(r, rc, n) /\ r.rank = 0 /\ r.op = "tags" /\ r.here /\ r.counted = counted
  BY DEF TagsRequest, TagRequestOK, ListAnswerOK, TagOps

\* So is a queue of nothing but a query.
LEMMA TagQueueOne ==
  ASSUME NEW counted \in BOOLEAN, NEW rc, NEW n
  PROVE  TagQueueOK(<<TagsRequest(counted)>>, rc, n)
<1> DEFINE r == TagsRequest(counted)
           q == <<r>>
<1>1. TagRequestOK(r, rc, n) /\ r.rank = 0
  BY TagsRequestOK
<1> HIDE DEF r
<1>2. q = [i \in 1 .. 1 |-> q[i]] /\ q[1] = r
  OBVIOUS
<1>3. Listed(q) /\ Len(q) = 1 /\ DOMAIN q = 1 .. 1
  BY <1>2, ListedFrom
<1> HIDE DEF q
<1>4. \A i \in DOMAIN q : i = 1 /\ q[i] = r
  BY <1>2, <1>3
<1>5. Cardinality(Answerable(q)) \in Nat
  BY <1>3, AnswerableFinite
<1>6. Ranked(q)
  BY <1>1, <1>4, <1>5 DEF Ranked
<1>7. Len(q) <= MaxRequests
  BY <1>3, LibrariesAssumption
<1> QED BY <1>1, <1>3, <1>4, <1>6, <1>7 DEF TagQueueOK, q, r

\* The rows of a tags page that is shown for the first time.
LEMMA NewRows == [t \in 1 .. MaxIds |-> ViewRow] \in RowStates
  BY DEF RowStates, ViewRow, Modes

LEMMA NoWishesOK == NoWishes \in Wishes
  BY DEF NoWishes, Wishes

\* A window that is loaded shows nothing yet.
LEMMA LoadedShape ==
  ASSUME LibraryOK(db), NEW counted \in BOOLEAN, reqs = <<TagsRequest(counted)>>, tags = Null, rec = EmptyMap,
         page \in {"library", "manage"}, crashed = FALSE,
         form = EmptyForm, rows = [t \in 1 .. MaxIds |-> ViewRow], asked = NoWishes
  PROVE  TagShape
<1>1. DOMAIN rec = {}
  BY DEF EmptyMap
<1>2. TagStoreOK(db, tags, rec)
  BY <1>1 DEF TagStoreOK
<1>3. TagQueueOK(reqs, rec, db.next)
  BY TagQueueOne
<1>4. FormOK(form, rec) /\ rows \in RowStates /\ asked \in Wishes
  BY EmptyFormOK, NewRows, NoWishesOK
<1>5. Untouched(tags, form, asked, reqs)
  <2>1. TagsRequest(counted).op = "tags"
    BY TagsRequestOK
  <2>2. \A i \in DOMAIN reqs : reqs[i] = TagsRequest(counted)
    OBVIOUS
  <2> QED BY <2>1, <2>2 DEF Untouched
<1>6. ~ Broken
  BY DEF Broken, Suspended
<1> QED BY <1>2, <1>3, <1>4, <1>5, <1>6 DEF TagShape

LEMMA TagsInitShape == TagsInit => TagShape
  BY LoadedShape, LibrariesAssumption DEF TagsInit

\* Nothing is asked for of a window without tags but the tags.
LEMMA TagsHere ==
  ASSUME TagShape, tags # Null
  PROVE  /\ tags \in Seq(DOMAIN rec) /\ ToSet(tags) \subseteq DOMAIN rec
         /\ DOMAIN Available \subseteq DOMAIN rec /\ DOMAIN rec \subseteq Nat
<1>1. tags \in Seq(DOMAIN rec) /\ db.next \in Nat /\ DOMAIN rec \subseteq Used(db.next)
  BY TagShapeIs DEF TagShape, TagStoreOK
<1> QED BY <1>1 DEF ToSet, Available, Used

\* The user does something to a page: neither the server nor the store changes.
LEMMA PageActs ==
  ASSUME NEW f, TagShape, Render(f), FormOK(f, rec), tags # Null,
         UNCHANGED <<db, tags, rec, page>>, asked' \in Wishes, rows' \in RowStates,
         TagQueueOK(reqs', rec, db.next)
  PROVE  TagShape'
<1>1. FormOK(f, rec') /\ TagStoreOK(db', tags', rec') /\ TagQueueOK(reqs', rec', db'.next)
  BY DEF TagShape
<1>2. Untouched(tags', f, asked', reqs') /\ page' \in {"library", "manage"} /\ crashed \in BOOLEAN
  BY DEF TagShape, Untouched
<1> QED BY <1>1, <1>2, RenderShape

\* And asks the server for nothing.
LEMMA PageActsAlone ==
  ASSUME NEW f, TagShape, Render(f), FormOK(f, rec), tags # Null,
         UNCHANGED <<db, reqs, tags, rec, page>>, asked' \in Wishes, rows' \in RowStates
  PROVE  TagShape'
<1>1. TagQueueOK(reqs', rec, db.next)
  BY DEF TagShape
<1> QED BY <1>1, PageActs

\* Or makes a request.
LEMMA PageAsks ==
  ASSUME NEW f, NEW r, TagShape, Render(f), FormOK(f, rec), tags # Null, CanRequest,
         UNCHANGED <<db, tags, rec, page>>, asked' \in Wishes, rows' \in RowStates,
         reqs' = Append(reqs, r), TagRequestOK(r, rec, db.next), r.rank = 0
  PROVE  TagShape'
<1>1. TagQueueOK(reqs', rec, db.next)
  BY TagQueueMore DEF TagShape, CanRequest
<1> QED BY <1>1, PageActs

LEMMA ExpandShape == TagShape /\ Expand => TagShape'
<1> SUFFICES ASSUME TagShape, Expand PROVE TagShape'
  OBVIOUS
<1> DEFINE f == [form EXCEPT !.open = TRUE]
<1>1. FormOK(f, rec)
  BY DEF TagShape, FormOK
<1>2. asked' \in Wishes /\ rows' \in RowStates /\ tags # Null
  BY DEF TagShape, Expand, OnPage, Suspended
<1>3. Render(f) /\ UNCHANGED <<db, reqs, tags, rec, page>>
  BY DEF Expand
<1> QED BY <1>1, <1>2, <1>3, PageActsAlone

LEMMA CancelShape == TagShape /\ Cancel => TagShape'
<1> SUFFICES ASSUME TagShape, Cancel PROVE TagShape'
  OBVIOUS
<1>1. asked' \in Wishes
  BY DEF Cancel, NoWishes, Wishes, Meddles
<1>2. rows' \in RowStates /\ tags # Null
  BY DEF TagShape, Cancel, OnForm, OnPage, Suspended
<1>3. Render(EmptyForm) /\ UNCHANGED <<db, reqs, tags, rec, page>>
  BY DEF Cancel
<1> QED BY <1>1, <1>2, <1>3, EmptyFormOK, PageActsAlone

LEMMA PickShape ==
  ASSUME NEW t \in DOMAIN Available, TagShape, Pick(t)  PROVE TagShape'
<1> DEFINE f == [form EXCEPT !.selected = Append(form.selected, t)]
<1>1. rows' \in RowStates /\ tags # Null
  BY DEF TagShape, Pick, OnForm, OnPage, Suspended
<1>2. t \in DOMAIN rec /\ t \in Nat
  BY <1>1, TagsHere
<1>3. FormOK(f, rec)
  BY <1>2, FormAdds DEF Pick, TagShape
<1>4. asked' \in Wishes
  <2>1. Meddles \in BOOLEAN /\ asked \in Wishes
    BY DEF Meddles, TagShape
  <2>2. asked' = [asked EXCEPT !.tags = asked.tags \cup {t}, !.touched = asked.touched \/ Meddles]
    BY DEF Pick
  <2> QED BY <1>2, <2>1, <2>2 DEF Wishes
<1>5. Render(f) /\ UNCHANGED <<db, reqs, tags, rec, page>>
  BY DEF Pick
<1> QED BY <1>1, <1>3, <1>4, <1>5, PageActsAlone

LEMMA RemoveChipShape ==
  ASSUME NEW i \in DOMAIN form.selected, TagShape, RemoveChip(i)  PROVE TagShape'
<1> DEFINE s == RemoveAt(form.selected, i)
           f == [form EXCEPT !.selected = s]
<1>1. rows' \in RowStates /\ tags # Null
  BY DEF TagShape, RemoveChip, OnForm, OnPage, Suspended
<1>2. ChipsOK(s, rec)
  BY ChipRemoved DEF TagShape, FormOK, ChipsOK
<1>3. FormOK(f, rec)
  <2> HIDE DEF s
  <2> QED BY <1>2 DEF TagShape, FormOK, ChipsOK
<1>4. asked' \in Wishes
  <2>1. Meddles \in BOOLEAN /\ asked \in Wishes /\ \A t : Bears(t, form.pending) \in BOOLEAN
    BY DEF Meddles, TagShape, Bears
  <2>2. asked' = [tags |-> asked.tags \ {form.selected[i]},
                  names |-> {n \in asked.names : ~ Bears(form.selected[i], n)},
                  touched |-> asked.touched \/ Meddles \/ Bears(form.selected[i], form.pending)]
    BY DEF RemoveChip
  <2> QED BY <2>1, <2>2 DEF Wishes
<1>5. Render(f) /\ UNCHANGED <<db, reqs, tags, rec, page>>
  BY DEF RemoveChip
<1> QED BY <1>1, <1>3, <1>4, <1>5, PageActsAlone

LEMMA EnterNameShape ==
  ASSUME NEW name \in Names, NEW color \in Colors, TagShape, EnterName(name, color)  PROVE TagShape'
<1> DEFINE f == [form EXCEPT !.pending = name]
           r == CreateTagRequest(name, color, form.selected)
<1>1. rows' \in RowStates /\ tags # Null /\ CanRequest
  BY DEF TagShape, EnterName, OnForm, OnPage, Suspended, CanChange
<1>2. FormOK(f, rec) /\ ChipsOK(form.selected, rec)
  BY DEF TagShape, FormOK
<1>3. TagRequestOK(r, rec, db.next) /\ r.rank = 0
  BY <1>2 DEF CreateTagRequest, TagRequestOK, CreationOK, TagOps
<1>4. asked' \in Wishes
  <2>1. asked \in Wishes
    BY DEF TagShape
  <2> DEFINE b == asked.touched \/ InFlight("create") \cup InFlight("update") # {}
  <2>2. b \in BOOLEAN /\ asked' = [asked EXCEPT !.names = asked.names \cup {name}, !.touched = b]
    BY DEF EnterName
  <2> HIDE DEF b
  <2> QED BY <2>1, <2>2 DEF Wishes
<1>5. Render(f) /\ UNCHANGED <<db, tags, rec, page>> /\ reqs' = Append(reqs, r)
  BY DEF EnterName
<1> HIDE DEF r, f
<1> QED BY <1>1, <1>2, <1>3, <1>4, <1>5, PageAsks

LEMMA SubmitTagsShape == TagShape /\ Submit => TagShape'
<1> SUFFICES ASSUME TagShape, Submit PROVE TagShape'
  OBVIOUS
<1> DEFINE r == StoryRequest(ToSet(form.selected))
<1>1. rows' \in RowStates /\ tags # Null /\ CanRequest /\ FormOK(form, rec) /\ asked' \in Wishes
  BY DEF TagShape, Submit, OnForm, OnPage, Suspended, CanChange
<1>2. TagRequestOK(r, rec, db.next) /\ r.rank = 0
  BY DEF StoryRequest, TagRequestOK, TagOps
<1>3. Render(form) /\ UNCHANGED <<db, tags, rec, page>> /\ reqs' = Append(reqs, r)
  BY DEF Submit
<1> HIDE DEF r
<1> QED BY <1>1, <1>2, <1>3, PageAsks

LEMMA RefreshShape == TagShape /\ Refresh => TagShape'
<1> SUFFICES ASSUME TagShape, Refresh PROVE TagShape'
  OBVIOUS
<1> DEFINE r == TagsRequest(FALSE)
<1>1. rows' \in RowStates /\ tags # Null /\ CanRequest /\ FormOK(form, rec) /\ asked' \in Wishes
  BY DEF TagShape, Refresh, OnPage, Suspended
<1>2. TagRequestOK(r, rec, db.next) /\ r.rank = 0
  BY TagsRequestOK
<1>3. Render(form) /\ UNCHANGED <<db, tags, rec, page>> /\ reqs' = Append(reqs, r)
  BY DEF Refresh
<1> HIDE DEF r
<1> QED BY <1>1, <1>2, <1>3, PageAsks

\* The rows stay rows.
LEMMA RowsStay ==
  ASSUME NEW s \in RowStates, NEW t
  PROVE  /\ \A mode \in Modes : [s EXCEPT ![t].mode = mode] \in RowStates
         /\ [s EXCEPT ![t].error = FALSE] \in RowStates
         /\ [s EXCEPT ![t] = ViewRow] \in RowStates
  BY DEF RowStates, Modes, ViewRow

LEMMA RowShape ==
  ASSUME NEW t \in 1 .. MaxIds, TagShape,
         (\E mode \in {"rename", "color", "delete"} : OpenRow(t, mode)) \/ CloseRow(t)
  PROVE  TagShape'
<1>1. tags # Null /\ FormOK(form, rec) /\ asked' \in Wishes
  BY DEF TagShape, OpenRow, CloseRow, OnRow, OnPage, Suspended
<1>2. rows' \in RowStates
  <2>1. rows \in RowStates /\ {"view", "rename", "color", "delete"} \subseteq Modes
    BY DEF TagShape, Modes
  <2>2. \E mode \in Modes : rows' = [rows EXCEPT ![t].mode = mode]
    BY <2>1 DEF OpenRow, CloseRow
  <2>3. PICK mode \in Modes : rows' = [rows EXCEPT ![t].mode = mode]
    BY <2>2
  <2> QED BY <2>1, <2>3 DEF RowStates, Modes
<1>3. Render(form) /\ UNCHANGED <<db, reqs, tags, rec, page>>
  BY DEF OpenRow, CloseRow
<1> QED BY <1>1, <1>2, <1>3, PageActsAlone

\* A change of a tag is in order.
LEMMA UpdateTagRequestOK ==
  \A t, name, color, opt, rc, n :
    LET r == UpdateTagRequest(t, name, color, opt) IN TagRequestOK(r, rc, n) /\ r.rank = 0
  BY DEF UpdateTagRequest, TagRequestOK, ChangeOK, TagOps

LEMMA RenameShape ==
  ASSUME NEW t \in 1 .. MaxIds, NEW name \in Names, TagShape, Rename(t, name)  PROVE TagShape'
<1>1. tags # Null /\ FormOK(form, rec) /\ asked' \in Wishes /\ CanRequest
  BY DEF TagShape, Rename, OnRow, OnPage, Suspended, CanChange
<1>2. rows' \in RowStates
  BY RowsStay DEF TagShape, Rename
<1>3. PICK opt : reqs' = Append(reqs, UpdateTagRequest(t, name, Null, opt))
  BY DEF Rename, Send
<1>4. Render(form) /\ UNCHANGED <<db, tags, rec, page>>
  BY DEF Rename
<1> DEFINE r == UpdateTagRequest(t, name, Null, opt)
<1>5. reqs' = Append(reqs, r) /\ TagRequestOK(r, rec, db.next) /\ r.rank = 0
  BY <1>3, UpdateTagRequestOK
<1> HIDE DEF r
<1> QED BY <1>1, <1>2, <1>4, <1>5, PageAsks

LEMMA RecolorShape ==
  ASSUME NEW t \in 1 .. MaxIds, NEW color \in Colors, TagShape, Recolor(t, color)  PROVE TagShape'
<1>1. tags # Null /\ FormOK(form, rec) /\ asked' \in Wishes /\ CanRequest
  BY DEF TagShape, Recolor, OnRow, OnPage, Suspended, CanChange
<1>2. rows' \in RowStates
  BY RowsStay DEF TagShape, Recolor
<1>3. PICK opt : reqs' = Append(reqs, UpdateTagRequest(t, Null, color, opt))
  BY DEF Recolor, Send
<1>4. Render(form) /\ UNCHANGED <<db, tags, rec, page>>
  BY DEF Recolor
<1> DEFINE r == UpdateTagRequest(t, Null, color, opt)
<1>5. reqs' = Append(reqs, r) /\ TagRequestOK(r, rec, db.next) /\ r.rank = 0
  BY <1>3, UpdateTagRequestOK
<1> HIDE DEF r
<1> QED BY <1>1, <1>2, <1>4, <1>5, PageAsks

LEMMA DeleteRowShape ==
  ASSUME NEW t \in 1 .. MaxIds, TagShape, Delete(t)  PROVE TagShape'
<1> DEFINE r == DeleteTagRequest(t)
<1>1. tags # Null /\ FormOK(form, rec) /\ asked' \in Wishes /\ CanRequest
  BY DEF TagShape, Delete, OnRow, OnPage, Suspended, CanChange
<1>2. rows' \in RowStates
  BY RowsStay DEF TagShape, Delete
<1>3. TagRequestOK(r, rec, db.next) /\ r.rank = 0
  BY DEF DeleteTagRequest, TagRequestOK, DeletionOK, TagOps
<1>4. Render(form) /\ UNCHANGED <<db, tags, rec, page>> /\ reqs' = Append(reqs, r)
  BY DEF Delete
<1> HIDE DEF r
<1> QED BY <1>1, <1>2, <1>3, <1>4, PageAsks

\* Requests of the same ranks are ranked alike.
LEMMA RankedAlike ==
  ASSUME NEW q, NEW w, DOMAIN w = DOMAIN q, \A i \in DOMAIN q : w[i].rank = q[i].rank, Ranked(q)
  PROVE  Ranked(w) /\ Answerable(w) = Answerable(q)
<1>1. Answerable(w) = Answerable(q)
  BY DEF Answerable
<1> QED BY <1>1 DEF Ranked

\* p is r, of a page that is perhaps left.
Left(p, r) == DOMAIN p = DOMAIN r /\ \A f \in DOMAIN r \ {"here"} : p[f] = r[f]

\* Pages are left.
LEMMA TagQueueLeft ==
  ASSUME NEW q, NEW w, NEW rc, NEW n, TagQueueOK(q, rc, n), Listed(w), DOMAIN w = DOMAIN q,
         \A i \in DOMAIN q : Left(w[i], q[i])
  PROVE  TagQueueOK(w, rc, n) /\ Len(w) = Len(q)
<1>1. Len(w) = Len(q)
  BY ListedIs DEF TagQueueOK
<1>2. \A i \in DOMAIN q : w[i].rank = q[i].rank /\ TagRequestOK(q[i], rc, n)
  BY DEF Left, TagQueueOK, TagRequestOK
<1>3. Ranked(w)
  BY <1>2, RankedAlike DEF TagQueueOK
<1>4. ASSUME NEW i \in DOMAIN w PROVE TagRequestOK(w[i], rc, n)
  <2> DEFINE p == w[i]
             r == q[i]
  <2>1. TagRequestOK(r, rc, n) /\ Left(p, r) /\ p.rank = r.rank
    BY <1>2
  <2> HIDE DEF p, r
  <2>2. r.rank \in Nat
    BY <2>1 DEF TagRequestOK
  <2>3. TagRequestOK(p, rc, n)
    BY <2>1, <2>2, TagRequestMoves DEF Left
  <2> QED BY <2>3 DEF p
<1> QED BY <1>1, <1>3, <1>4 DEF TagQueueOK

\* The requests when the page is left for another.
GoneTo(q, need, counted) ==
  [i \in DOMAIN q |-> [q[i] EXCEPT !.here = need /\ q[i].op = "tags" /\ q[i].counted = counted]]

Need(p) == tags = Null \/ (p = "manage" /\ \E t \in ToSet(tags) :
                              ShownTag(t) # Gone /\ ~ ShownTag(t).counted)

LEMMA GotoIs ==
  ASSUME TagShape, NEW p, Goto(p)
  PROVE  LET w == GoneTo(reqs, Need(p), p = "manage") IN
         /\ Listed(w) /\ DOMAIN w = DOMAIN reqs /\ Len(w) = Len(reqs)
         /\ \A i \in DOMAIN reqs :
              /\ Left(w[i], reqs[i])
              /\ w[i].here = (Need(p) /\ reqs[i].op = "tags" /\ reqs[i].counted = (p = "manage"))
         /\ reqs' = w \/ (Len(w) < MaxRequests /\ reqs' = Append(w, TagsRequest(p = "manage")))
         /\ TagQueueOK(w, rec, db.next)
<1> DEFINE w == GoneTo(reqs, Need(p), p = "manage")
<1>1. /\ Len(reqs) \in Nat /\ DOMAIN reqs = 1 .. Len(reqs)
      /\ \A i \in DOMAIN reqs : "here" \in DOMAIN reqs[i]
  BY TagShapeIs DEF TagRequestOK
<1>2. DOMAIN w = DOMAIN reqs /\ w = [i \in 1 .. Len(reqs) |-> w[i]]
  BY <1>1 DEF GoneTo
<1>3. \A i \in DOMAIN reqs :
        /\ Left(w[i], reqs[i])
        /\ w[i].here = (Need(p) /\ reqs[i].op = "tags" /\ reqs[i].counted = (p = "manage"))
  BY <1>1 DEF GoneTo, Left
<1>4. reqs' = w \/ reqs' = Append(w, TagsRequest(p = "manage"))
  BY DEF Goto, GoneTo, Need
<1>5. Len(reqs') <= MaxRequests
  BY DEF Goto
<1> HIDE DEF w
<1>6. Listed(w) /\ Len(w) = Len(reqs)
  BY <1>1, <1>2, ListedFrom
<1>7. TagQueueOK(w, rec, db.next)
  BY <1>2, <1>3, <1>6, TagQueueLeft DEF TagShape
<1>8. ASSUME reqs' # w  PROVE Len(w) < MaxRequests
  <2>1. reqs' = Append(w, TagsRequest(p = "manage"))
    BY <1>4, <1>8
  <2>2. Len(reqs') = Len(w) + 1
    BY <1>6, <2>1, AppendIs
  <2> QED BY <1>1, <1>5, <1>6, <2>2, LibrariesAssumption
<1> QED BY <1>2, <1>3, <1>4, <1>6, <1>7, <1>8 DEF w

LEMMA GotoShape ==
  ASSUME NEW p \in {"library", "manage"}, TagShape, Goto(p)  PROVE TagShape'
<1> DEFINE w == GoneTo(reqs, Need(p), p = "manage")
           r == TagsRequest(p = "manage")
<1>1. /\ DOMAIN w = DOMAIN reqs /\ Listed(w)
      /\ \A i \in DOMAIN reqs : Left(w[i], reqs[i])
      /\ reqs' = w \/ (Len(w) < MaxRequests /\ reqs' = Append(w, r))
      /\ TagQueueOK(w, rec, db.next)
  BY GotoIs
<1>2. TagRequestOK(r, rec, db.next) /\ r.rank = 0 /\ r.op = "tags"
  <2>1. (p = "manage") \in BOOLEAN
    OBVIOUS
  <2> QED BY <2>1, TagsRequestOK
<1> HIDE DEF w, r
<1>3. UNCHANGED <<db, tags, rec>>
  BY DEF Goto
<1>4. TagQueueOK(reqs', rec', db'.next)
  BY <1>1, <1>2, <1>3, TagQueueMore
<1>5. FormOK(form', rec') /\ rows' \in RowStates /\ asked' \in Wishes
  BY EmptyFormOK, NewRows, NoWishesOK DEF Goto
<1>6. TagStoreOK(db', tags', rec') /\ page' \in {"library", "manage"}
  BY <1>3 DEF TagShape, Goto
<1>7. Untouched(tags', form', asked', reqs')
  <2> SUFFICES ASSUME tags = Null PROVE \A i \in DOMAIN reqs' : reqs'[i].op = "tags"
    BY <1>3 DEF Untouched, Goto
  <2>1. \A i \in DOMAIN w : w[i].op = "tags"
    <3>1. \A i \in DOMAIN reqs : reqs[i].op = "tags" /\ "op" \in DOMAIN reqs[i]
      BY TagShapeIs DEF TagShape, Untouched, TagRequestOK
    <3> QED BY <1>1, <3>1 DEF Left
  <2>2. CASE reqs' = w
    BY <2>1, <2>2
  <2>3. CASE reqs' = Append(w, r)
    <3> DEFINE a == Append(w, r)
    <3>1. /\ DOMAIN a = 1 .. Len(w) + 1 /\ \A i \in DOMAIN w : a[i] = w[i]
          /\ a[Len(w) + 1] = r
      BY <1>1, AppendIs
    <3>2. Len(w) \in Nat /\ DOMAIN w = 1 .. Len(w)
      BY <1>1, ListedIs
    <3> HIDE DEF a
    <3>3. \A i \in DOMAIN a : a[i].op = "tags"
      BY <1>2, <2>1, <3>1, <3>2
    <3> QED BY <2>3, <3>3 DEF a
  <2> QED BY <1>1, <2>2, <2>3
<1>8. crashed' \in BOOLEAN /\ (Broken' => crashed')
  BY DEF Goto, Broken
<1> QED BY <1>4, <1>5, <1>6, <1>7, <1>8 DEF TagShape

LEMMA ReloadTagsShape == TagShape /\ ReloadTags => TagShape'
<1> SUFFICES ASSUME TagShape, ReloadTags PROVE TagShape'
  OBVIOUS
<1> DEFINE counted == page = "manage"
<1>1. LibraryOK(db') /\ page' \in {"library", "manage"}
  BY DEF TagShape, TagStoreOK, ReloadTags
<1>2. /\ reqs' = <<TagsRequest(counted)>> /\ tags' = Null /\ rec' = EmptyMap /\ crashed' = FALSE
      /\ form' = EmptyForm /\ rows' = [t \in 1 .. MaxIds |-> ViewRow] /\ asked' = NoWishes
  BY DEF ReloadTags
<1>0. counted \in BOOLEAN
  OBVIOUS
<1> HIDE DEF counted
<1>3. TagStoreOK(db', tags', rec')
  BY <1>1, <1>2 DEF TagStoreOK, EmptyMap
<1>4. TagQueueOK(reqs', rec', db'.next)
  BY <1>0, <1>2, TagQueueOne
<1>5. FormOK(form', rec') /\ rows' \in RowStates /\ asked' \in Wishes
  BY <1>2, EmptyFormOK, NewRows, NoWishesOK
<1>6. Untouched(tags', form', asked', reqs')
  <2>1. TagsRequest(counted).op = "tags"
    BY <1>0, TagsRequestOK
  <2>2. \A i \in DOMAIN reqs' : reqs'[i] = TagsRequest(counted)
    BY <1>2
  <2> QED BY <1>2, <2>1, <2>2 DEF Untouched
<1>7. ~ Broken'
  BY <1>2 DEF Broken, Suspended
<1> QED BY <1>1, <1>2, <1>3, <1>4, <1>5, <1>6, <1>7 DEF TagShape

LEMMA TagsUserShape == TagShape /\ TagUserActs => TagShape'
  BY ExpandShape, CancelShape, SubmitTagsShape, RefreshShape, ReloadTagsShape, PickShape,
     RemoveChipShape, EnterNameShape, GotoShape, RowShape, RenameShape, RecolorShape,
     DeleteRowShape DEF TagUserActs
-----------------------------------------------------------------------------
(* The API *)

\* A request is served.
LEMMA TagServed ==
  ASSUME TagShape, NEW i \in DOMAIN reqs, NEW res, Unserved(i)
  PROVE  LET q == Served(i, res) IN
         /\ Listed(q) /\ DOMAIN q = DOMAIN reqs /\ Len(q) = Len(reqs)
         /\ \A j \in DOMAIN reqs \ {i} : q[j] = reqs[j]
         /\ DOMAIN q[i] = DOMAIN reqs[i] /\ \A f \in DOMAIN reqs[i] \ {"rank", "res"} : q[i][f] = reqs[i][f]
         /\ q[i].res = res /\ q[i].rank = 1 + Cardinality(Answerable(reqs))
         /\ Ranked(q) /\ Cardinality(Answerable(reqs)) \in Nat
         /\ Cardinality(Answerable(q)) = Cardinality(Answerable(reqs)) + 1
<1> DEFINE q == Served(i, res)
<1>1. /\ Listed(reqs) /\ Len(reqs) \in Nat /\ DOMAIN reqs = 1 .. Len(reqs) /\ Ranked(reqs)
      /\ {"op", "here", "res", "rank"} \subseteq DOMAIN reqs[i] /\ reqs[i].rank = 0
  BY TagShapeIs DEF TagRequestOK, Unserved
<1>2. NextRank = 1 + Cardinality(Answerable(reqs))
  BY DEF NextRank, Answerable
<1>3. /\ q = [j \in 1 .. Len(reqs) |-> q[j]] /\ DOMAIN q = DOMAIN reqs
      /\ \A j \in DOMAIN reqs \ {i} : q[j] = reqs[j]
      /\ q[i] = [reqs[i] EXCEPT !.res = res, !.rank = NextRank]
  BY <1>1 DEF Served
<1> HIDE DEF q
<1>4. Listed(q) /\ Len(q) = Len(reqs)
  BY <1>1, <1>3, ListedFrom
<1>5. /\ DOMAIN q[i] = DOMAIN reqs[i] /\ \A f \in DOMAIN reqs[i] \ {"rank", "res"} : q[i][f] = reqs[i][f]
      /\ q[i].res = res /\ q[i].rank = 1 + Cardinality(Answerable(reqs))
  BY <1>1, <1>2, <1>3
<1>6. /\ Ranked(q) /\ Cardinality(Answerable(reqs)) \in Nat
      /\ Cardinality(Answerable(q)) = Cardinality(Answerable(reqs)) + 1
  BY <1>1, <1>3, <1>5, RankedServed
<1> QED BY <1>3, <1>4, <1>5, <1>6 DEF q

\* What is shown does not depend on what was answered.
LEMMA ServedShows ==
  ASSUME TagShape, NEW i \in DOMAIN reqs, NEW res, Unserved(i), reqs' = Served(i, res),
         UNCHANGED <<tags, rec, page>>
  PROVE  /\ \A op : InFlight(op)' = InFlight(op)
         /\ \A t : Overlays(t)' = Overlays(t) /\ ShownTag(t)' = ShownTag(t)
         /\ Available' = Available /\ Suspended' = Suspended /\ Broken' = Broken
<1> DEFINE q == Served(i, res)
<1>1. /\ DOMAIN q = DOMAIN reqs
      /\ \A j \in DOMAIN reqs \ {i} : q[j] = reqs[j]
      /\ DOMAIN q[i] = DOMAIN reqs[i] /\ \A f \in DOMAIN reqs[i] \ {"rank", "res"} : q[i][f] = reqs[i][f]
  BY TagServed
<1> HIDE DEF q
<1>2. \A j \in DOMAIN reqs : \A f \in DOMAIN reqs[j] \ {"rank", "res"} : reqs'[j][f] = reqs[j][f]
  BY <1>1 DEF q
<1>3. \A j \in DOMAIN reqs : {"op", "here"} \subseteq DOMAIN reqs[j] /\ TagRequestOK(reqs[j], rec, db.next)
  BY TagShapeIs DEF TagRequestOK
<1>4. DOMAIN reqs' = DOMAIN reqs /\ \A j \in DOMAIN reqs : reqs'[j].op = reqs[j].op /\ reqs'[j].here = reqs[j].here
  BY <1>1, <1>2, <1>3 DEF q
<1>5. ASSUME NEW op PROVE InFlight(op)' = InFlight(op)
  BY <1>4 DEF InFlight
<1>6. \A j \in InFlight("update") : reqs'[j].id = reqs[j].id /\ reqs'[j].opt = reqs[j].opt
  BY <1>2, <1>3 DEF InFlight, TagRequestOK, ChangeOK
<1>7. \A j \in InFlight("delete") : reqs'[j].id = reqs[j].id
  BY <1>2, <1>3 DEF InFlight, TagRequestOK, DeletionOK
<1>8. ASSUME NEW t PROVE Overlays(t)' = Overlays(t) /\ ShownTag(t)' = ShownTag(t)
  <2>1. InFlight("update")' = InFlight("update") /\ InFlight("delete")' = InFlight("delete")
    BY <1>5
  <2>2. Overlays(t)' = Overlays(t)
    BY <1>6, <1>7, <2>1 DEF Overlays
  <2>3. CASE Overlays(t) = {}
    BY <2>2, <2>3 DEF ShownTag
  <2>4. CASE Overlays(t) # {}
    <3> DEFINE m == Max(Overlays(t))
    <3>1. m \in InFlight("update") \cup InFlight("delete")
      <4>1. Overlays(t) \in SUBSET (1 .. Len(reqs)) /\ Len(reqs) \in Nat
        BY TagShapeIs DEF Overlays, InFlight
      <4>2. \E k \in Overlays(t) : \A s \in Overlays(t) : s <= k
        BY <2>4, <4>1, GreatestId
      <4>3. m \in Overlays(t)
        BY <4>1, <4>2 DEF Max
      <4> QED BY <4>3 DEF Overlays
    <3>2. Max(Overlays(t))' = m
      BY <2>2
    <3>3. reqs[m].op \in {"update", "delete"} /\ m \in DOMAIN reqs
      BY <3>1 DEF InFlight
    <3> HIDE DEF m
    <3>4. reqs'[m].op = reqs[m].op /\ (reqs[m].op # "delete" => reqs'[m].opt = reqs[m].opt)
      BY <1>4, <1>6, <3>1, <3>3 DEF InFlight
    <3>5. ShownTag(t) = IF reqs[m].op = "delete" THEN Gone ELSE reqs[m].opt
      BY <2>4 DEF ShownTag, m
    <3>6. ShownTag(t)' = IF reqs'[m].op = "delete" THEN Gone ELSE reqs'[m].opt
      BY <2>2, <2>4, <3>2 DEF ShownTag, m
    <3> QED BY <2>2, <3>4, <3>5, <3>6
  <2> QED BY <2>2, <2>3, <2>4
<1>9. Available' = Available
  BY <1>8 DEF Available
<1>10. Suspended' = Suspended
  BY <1>4, <1>5 DEF Suspended, InFlight
<1>11. Broken' = Broken
  BY <1>8, <1>10 DEF Broken
<1> QED BY <1>5, <1>8, <1>9, <1>10, <1>11

\* What is left to show of each request that is served: that it stays in order.
LEMMA TagServedShape ==
  ASSUME TagShape, NEW i \in DOMAIN reqs, NEW res, Unserved(i), reqs' = Served(i, res),
         UNCHANGED <<tags, rec, page, crashed, form, rows, changes, asked, disturbed>>,
         LibraryOK(db'), db.next <= db'.next,
         \A p : DOMAIN p = DOMAIN reqs[i] /\ (\A f \in DOMAIN reqs[i] \ {"rank", "res"} : p[f] = reqs[i][f])
                  /\ p.res = res /\ p.rank \in Nat => TagRequestOK(p, rec, db'.next)
  PROVE  TagShape'
<1>1. /\ Listed(reqs') /\ DOMAIN reqs' = DOMAIN reqs /\ Len(reqs') = Len(reqs)
      /\ \A j \in DOMAIN reqs \ {i} : reqs'[j] = reqs[j]
      /\ DOMAIN reqs'[i] = DOMAIN reqs[i] /\ \A f \in DOMAIN reqs[i] \ {"rank", "res"} : reqs'[i][f] = reqs[i][f]
      /\ reqs'[i].res = res /\ reqs'[i].rank \in Nat
      /\ Ranked(reqs')
  <2>1. 1 + Cardinality(Answerable(reqs)) \in Nat
    BY TagServed
  <2> QED BY <2>1, TagServed
<1>2. db.next \in Nat /\ db'.next \in Nat
  BY TagShapeIs DEF LibraryOK, IdsUsed
<1>3. \A j \in DOMAIN reqs : TagRequestOK(reqs[j], rec, db.next)
  BY TagShapeIs
<1>4. TagQueueOK(reqs', rec', db'.next)
  <2>1. \A j \in DOMAIN reqs \ {i} : TagRequestOK(reqs'[j], rec, db'.next)
    BY <1>1, <1>2, <1>3, TagRequestGrows
  <2>2. TagRequestOK(reqs'[i], rec, db'.next)
    BY <1>1
  <2>3. Len(reqs') <= MaxRequests
    BY <1>1, TagShapeIs
  <2> QED BY <1>1, <2>1, <2>2, <2>3 DEF TagQueueOK
<1>5. TagStoreOK(db', tags', rec')
  <2>1. Used(db.next) \subseteq Used(db'.next)
    BY <1>2 DEF Used
  <2> QED BY <2>1 DEF TagShape, TagStoreOK
<1>6. Untouched(tags', form', asked', reqs')
  <2>1. \A j \in DOMAIN reqs : reqs'[j].op = reqs[j].op
    BY <1>1, <1>3 DEF TagRequestOK
  <2> QED BY <1>1, <2>1 DEF TagShape, Untouched
<1>7. Broken' => crashed'
  BY ServedShows DEF TagShape
<1> QED BY <1>4, <1>5, <1>6, <1>7 DEF TagShape

\* The tags as the server has them.
LEMMA TagViewOK ==
  ASSUME NEW d, LibraryOK(d), NEW counted
  PROVE  LET res == [t \in DOMAIN ListTags(d) |-> Record(ListTags(d)[t], counted)] IN
         /\ DOMAIN res = DOMAIN d.tag /\ DOMAIN d.tag \subseteq Used(d.next)
         /\ \A t \in DOMAIN d.tag : /\ res[t].name = d.tag[t].name /\ res[t].color = d.tag[t].color
                                    /\ counted \in BOOLEAN => res[t] \in TagRecords
<1>1. /\ DOMAIN ListTags(d) = DOMAIN d.tag
      /\ \A t \in DOMAIN d.tag : ListTags(d)[t].name = d.tag[t].name /\ ListTags(d)[t].color = d.tag[t].color
  BY DEF ListTags, TagView
<1>2. \A t \in DOMAIN d.tag : d.tag[t].name \in ValidNames /\ d.tag[t].color \in ValidColors
  BY DEF LibraryOK, WellFormed
<1>3. DOMAIN d.tag \subseteq Used(d.next)
  BY DEF LibraryOK, IdsUsed, Used
<1> QED BY <1>1, <1>2, <1>3 DEF Record, TagRecords

LEMMA ServeTagsShape ==
  ASSUME TagShape, NEW i \in DOMAIN reqs, ServeTags(i),
         UNCHANGED <<tags, rec, page, crashed, form, rows, changes, asked, disturbed>>
  PROVE  TagShape'
<1> DEFINE r == reqs[i]
           res == [t \in DOMAIN ListTags(db) |-> Record(ListTags(db)[t], r.counted)]
<1>1. r.op = "tags" /\ Unserved(i) /\ reqs' = Served(i, res) /\ db' = db
  BY DEF ServeTags
<1>2. LibraryOK(db) /\ db.next \in Nat /\ TagRequestOK(r, rec, db.next)
  BY TagShapeIs DEF TagShape, TagStoreOK
<1>3. "counted" \in DOMAIN r /\ r.counted \in BOOLEAN
  BY <1>1, <1>2 DEF TagRequestOK, ListAnswerOK
<1>4. DOMAIN res \subseteq Used(db.next) /\ \A t \in DOMAIN res : res[t] \in TagRecords
  BY <1>2, <1>3, TagViewOK
<1> HIDE DEF res, r
<1>5. ASSUME NEW p, DOMAIN p = DOMAIN r, \A f \in DOMAIN r \ {"rank", "res"} : p[f] = r[f],
             p.res = res, p.rank \in Nat
      PROVE  TagRequestOK(p, rec, db.next)
  <2>1. p.op = "tags" /\ {"op", "here", "res", "rank"} \subseteq DOMAIN p
    BY <1>1, <1>2, <1>5 DEF TagRequestOK
  <2>2. p.counted = r.counted
    BY <1>3, <1>5
  <2> QED BY <1>3, <1>4, <1>5, <2>1, <2>2 DEF TagRequestOK, ListAnswerOK, TagOps
<1> QED BY <1>1, <1>2, <1>5, TagServedShape DEF r

LEMMA ServeCreateTagShape ==
  ASSUME TagShape, NEW i \in DOMAIN reqs, ServeCreateTag(i),
         UNCHANGED <<tags, rec, page, crashed, form, rows, changes, asked, disturbed>>
  PROVE  TagShape'
<1> DEFINE r == reqs[i]
           out == CreateTag(db, r.name, r.color)
<1>1. r.op = "create" /\ Unserved(i) /\ reqs' = Served(i, out.res) /\ db' = out.db
  BY DEF ServeCreateTag
<1>2. LibraryOK(db) /\ db.next \in Nat \ {0} /\ TagRequestOK(r, rec, db.next) /\ DOMAIN rec \subseteq Used(db.next)
  BY TagShapeIs DEF TagShape, TagStoreOK
<1>3. {"name", "color", "chosen"} \subseteq DOMAIN r /\ r.name \in Names /\ ChipsOK(r.chosen, rec)
  BY <1>1, <1>2 DEF TagRequestOK, CreationOK
<1>4. /\ LibraryOK(out.db)
      /\ \/ out.db = db /\ Failed(out.res)
         \/ /\ ~ Failed(out.res) /\ out.res.id = db.next /\ out.db.next = db.next + 1
            /\ out.res.tag.name \in ValidNames /\ out.res.tag.color \in ValidColors
  BY <1>2, CreateTagIs
<1> HIDE DEF out
<1>5. db.next <= db'.next /\ LibraryOK(db')
  BY <1>1, <1>2, <1>4
<1>6. ~ Failed(out.res) => out.res.id \in Used(db'.next) \ ToSet(r.chosen)
  <2>1. ToSet(r.chosen) \subseteq DOMAIN rec
    BY <1>3 DEF ChipsOK, ToSet
  <2>2. db.next \notin Used(db.next) /\ db.next \in Used(db.next + 1)
    BY <1>2 DEF Used
  <2>3. ~ Failed(out.res) => out.res.id = db.next /\ db'.next = db.next + 1
    BY <1>1, <1>4
  <2> QED BY <1>2, <2>1, <2>2, <2>3
<1> HIDE DEF r
<1>7. ASSUME NEW p, DOMAIN p = DOMAIN r, \A f \in DOMAIN r \ {"rank", "res"} : p[f] = r[f],
             p.res = out.res, p.rank \in Nat
      PROVE  TagRequestOK(p, rec, db'.next)
  <2>1. p.op = "create" /\ {"op", "here", "res", "rank"} \subseteq DOMAIN p
    BY <1>1, <1>2, <1>7 DEF TagRequestOK, r
  <2>2. p.name = r.name /\ p.chosen = r.chosen
    BY <1>3, <1>7
  <2>3. CreationOK(p, rec, db'.next)
    BY <1>3, <1>4, <1>6, <1>7, <2>2 DEF CreationOK
  <2> QED BY <1>7, <2>1, <2>3 DEF TagRequestOK, TagOps
<1> QED BY <1>1, <1>5, <1>7, TagServedShape DEF r

LEMMA ServeUpdateTagShape ==
  ASSUME TagShape, NEW i \in DOMAIN reqs, ServeUpdateTag(i),
         UNCHANGED <<tags, rec, page, crashed, form, rows, changes, asked, disturbed>>
  PROVE  TagShape'
<1> DEFINE r == reqs[i]
           out == UpdateTag(db, r.id, r.name, r.color)
<1>1. r.op = "update" /\ Unserved(i) /\ reqs' = Served(i, out.res) /\ db' = out.db
  BY DEF ServeUpdateTag
<1>2. LibraryOK(db) /\ db.next \in Nat \ {0} /\ TagRequestOK(r, rec, db.next)
  BY TagShapeIs DEF TagShape, TagStoreOK
<1>3. {"id", "name", "color", "opt"} \subseteq DOMAIN r
  BY <1>1, <1>2 DEF TagRequestOK, ChangeOK
<1>4. /\ LibraryOK(out.db) /\ out.db.next = db.next
      /\ out.res # Null /\ ~ Failed(out.res) =>
           r.id \in DOMAIN db.tag /\ out.res.name \in ValidNames /\ out.res.color \in ValidColors
  BY <1>2, UpdateTagIs DEF Failed
<1> HIDE DEF out
<1>5. DOMAIN db.tag \subseteq Used(db.next)
  BY <1>2, TagViewOK
<1>6. db.next <= db'.next /\ LibraryOK(db') /\ db'.next = db.next
  BY <1>1, <1>2, <1>4
<1> HIDE DEF r
<1>7. ASSUME NEW p, DOMAIN p = DOMAIN r, \A f \in DOMAIN r \ {"rank", "res"} : p[f] = r[f],
             p.res = out.res, p.rank \in Nat
      PROVE  TagRequestOK(p, rec, db'.next)
  <2>1. p.op = "update" /\ {"op", "here", "res", "rank"} \subseteq DOMAIN p
    BY <1>1, <1>2, <1>7 DEF TagRequestOK, r
  <2>2. p.id = r.id
    BY <1>3, <1>7
  <2>3. ChangeOK(p, db'.next)
    BY <1>3, <1>4, <1>5, <1>6, <1>7, <2>2 DEF ChangeOK
  <2> QED BY <1>7, <2>1, <2>3 DEF TagRequestOK, TagOps
<1> QED BY <1>1, <1>6, <1>7, TagServedShape DEF r

LEMMA ServeDeleteTagShape ==
  ASSUME TagShape, NEW i \in DOMAIN reqs, ServeDeleteTag(i),
         UNCHANGED <<tags, rec, page, crashed, form, rows, changes, asked, disturbed>>
  PROVE  TagShape'
<1> DEFINE r == reqs[i]
           out == DeleteTag(db, r.id)
<1>1. r.op = "delete" /\ Unserved(i) /\ reqs' = Served(i, out.res) /\ db' = out.db
  BY DEF ServeDeleteTag
<1>2. LibraryOK(db) /\ db.next \in Nat \ {0} /\ TagRequestOK(r, rec, db.next)
  BY TagShapeIs DEF TagShape, TagStoreOK
<1>3. "id" \in DOMAIN r
  BY <1>1, <1>2 DEF TagRequestOK, DeletionOK
<1>4. /\ LibraryOK(out.db) /\ out.db.next = db.next
      /\ out.res \in BOOLEAN /\ (out.res => r.id \in DOMAIN db.tag)
  BY <1>2, DeleteTagIs
<1> HIDE DEF out
<1>5. DOMAIN db.tag \subseteq Used(db.next)
  BY <1>2, TagViewOK
<1>6. db.next <= db'.next /\ LibraryOK(db') /\ db'.next = db.next
  BY <1>1, <1>2, <1>4
<1> HIDE DEF r
<1>7. ASSUME NEW p, DOMAIN p = DOMAIN r, \A f \in DOMAIN r \ {"rank", "res"} : p[f] = r[f],
             p.res = out.res, p.rank \in Nat
      PROVE  TagRequestOK(p, rec, db'.next)
  <2>1. p.op = "delete" /\ {"op", "here", "res", "rank"} \subseteq DOMAIN p
    BY <1>1, <1>2, <1>7 DEF TagRequestOK, r
  <2>2. p.id = r.id
    BY <1>3, <1>7
  <2>3. DeletionOK(p, db'.next)
    BY <1>3, <1>4, <1>5, <1>6, <1>7, <2>2 DEF DeletionOK
  <2> QED BY <1>7, <2>1, <2>3 DEF TagRequestOK, TagOps
<1> QED BY <1>1, <1>6, <1>7, TagServedShape DEF r

\* The title of a story whose title is left out.
AnyTitle == CHOOSE title \in Titles : TRUE

LEMMA ServeStoryShape ==
  ASSUME TagShape, NEW i \in DOMAIN reqs, ServeStory(i),
         UNCHANGED <<tags, rec, page, crashed, form, rows, changes, asked, disturbed>>
  PROVE  TagShape'
<1> DEFINE r == reqs[i]
           out == CreateStory(db, TRUE, AnyTitle, r.chosen)
<1>1. r.op = "story" /\ Unserved(i) /\ reqs' = Served(i, out.res) /\ db' = out.db
  BY DEF ServeStory, AnyTitle
<1>2. LibraryOK(db) /\ db.next \in Nat \ {0} /\ TagRequestOK(r, rec, db.next)
  BY TagShapeIs DEF TagShape, TagStoreOK
<1>3. LibraryOK(out.db) /\ out.db.next = db.next + 1
  <2>1. AnyTitle \in Titles
    BY TagPagesAssumption DEF AnyTitle
  <2> QED BY <1>2, <2>1, StoryLeavesTags
<1> HIDE DEF out
<1>4. db.next <= db'.next /\ LibraryOK(db')
  BY <1>1, <1>2, <1>3
<1> HIDE DEF r
<1>5. ASSUME NEW p, DOMAIN p = DOMAIN r, \A f \in DOMAIN r \ {"rank", "res"} : p[f] = r[f],
             p.res = out.res, p.rank \in Nat
      PROVE  TagRequestOK(p, rec, db'.next)
  <2>1. p.op = "story" /\ {"op", "here", "res", "rank"} \subseteq DOMAIN p
    BY <1>1, <1>2, <1>5 DEF TagRequestOK, r
  <2>2. "chosen" \in DOMAIN p
    BY <1>1, <1>2, <1>5 DEF TagRequestOK, r
  <2> QED BY <1>5, <2>1, <2>2 DEF TagRequestOK, TagOps
<1> QED BY <1>1, <1>4, <1>5, TagServedShape DEF r

LEMMA TagApiShape ==
  ASSUME TagShape, NEW i \in DOMAIN reqs, TagApiActs(i)  PROVE TagShape'
<1>1. UNCHANGED <<tags, rec, page, crashed, form, rows, changes, asked, disturbed>>
  BY DEF TagApiActs
<1> QED BY <1>1, ServeTagsShape, ServeCreateTagShape, ServeUpdateTagShape, ServeDeleteTagShape,
           ServeStoryShape DEF TagApiActs
-----------------------------------------------------------------------------
(* The answers *)

\* An answer: what is left in flight is in order in a store that has grown.
LEMMA AnsweredShape ==
  ASSUME NEW f, TagShape, NEW i \in DOMAIN reqs, reqs' = Rest(i), Render(f), FormOK(f, rec'),
         UNCHANGED <<db, page>>, rows' \in RowStates, asked' \in Wishes,
         TagStoreOK(db, tags', rec'), DOMAIN rec \subseteq DOMAIN rec',
         tags' # Null \/ (tags = Null /\ f = EmptyForm /\ asked' = asked)
  PROVE  TagShape'
<1>1. /\ db.next \in Nat /\ db.next <= db.next
      /\ TagQueueOK(Rest(i), rec, db.next) /\ Less(Rest(i), reqs, i)
  BY TagShapeIs, TagRest DEF TagShape
<1>2. TagQueueOK(reqs', rec', db'.next)
  BY <1>1, TagQueueGrows
<1>3. Untouched(tags', f, asked', reqs')
  <2> SUFFICES ASSUME tags = Null, f = EmptyForm, asked' = asked
               PROVE  asked = NoWishes /\ \A j \in DOMAIN reqs' : reqs'[j].op = "tags"
    BY DEF Untouched
  <2>1. asked = NoWishes /\ \A j \in DOMAIN reqs : reqs[j].op = "tags" /\ "op" \in DOMAIN reqs[j]
    BY TagShapeIs DEF TagShape, Untouched, TagRequestOK
  <2> QED BY <1>1, <2>1 DEF Less, Moved
<1>4. TagStoreOK(db', tags', rec') /\ page' \in {"library", "manage"} /\ crashed \in BOOLEAN
  BY DEF TagShape
<1> QED BY <1>2, <1>3, <1>4, RenderShape

\* A form's chips are still in a store that has grown.
LEMMA FormGrows ==
  ASSUME NEW f, NEW rc, NEW sc, FormOK(f, rc), DOMAIN rc \subseteq DOMAIN sc  PROVE FormOK(f, sc)
<1>1. Seq(DOMAIN rc) \subseteq Seq(DOMAIN sc)
  OBVIOUS
<1>2. ChipsOK(f.selected, sc)
  BY <1>1 DEF FormOK, ChipsOK
<1>3. f \in [open : BOOLEAN, selected : Seq(DOMAIN sc), pending : Names \cup {Null}]
  BY <1>1 DEF FormOK
<1> QED BY <1>2, <1>3 DEF FormOK

\* A query has been served before it is answered.
LEMMA AnswerTagsIs ==
  ASSUME TagShape, NEW i \in DOMAIN reqs, AnswerTags(i)
  PROVE  LET res == reqs[i].res IN
         /\ DOMAIN res \in SUBSET (1 .. db.next - 1) /\ db.next - 1 \in Nat
         /\ \A t \in DOMAIN res : res[t] \in TagRecords
         /\ tags' \in Seq(DOMAIN res) /\ ToSet(tags') = DOMAIN res
         /\ \A j, k \in DOMAIN tags' : tags'[j] = tags'[k] => j = k
         /\ DOMAIN rec' = DOMAIN rec \cup DOMAIN res
         /\ \A t \in DOMAIN res : /\ rec'[t] \in TagRecords
                                  /\ rec'[t].name = res[t].name /\ rec'[t].color = res[t].color
         /\ \A t \in DOMAIN rec \ DOMAIN res : rec'[t] = rec[t]
<1> DEFINE r == reqs[i]
           res == r.res
           known(t) == t \in DOMAIN rec /\ rec[t] # Gone /\ rec[t].counted
<1>1. /\ r.op = "tags" /\ r.rank # 0 /\ tags' = Descending(DOMAIN res)
      /\ rec' = [t \in DOMAIN rec \cup DOMAIN res |->
                  IF t \in DOMAIN res THEN [res[t] EXCEPT !.counted = res[t].counted \/ known(t)] ELSE rec[t]]
  BY DEF AnswerTags, TagAnswered, Unserved
<1>2. db.next \in Nat \ {0} /\ TagRequestOK(r, rec, db.next)
      /\ \A t \in DOMAIN rec : rec[t] \in TagRecords \cup {Gone}
  BY TagShapeIs DEF TagShape, TagStoreOK
<1>3. DOMAIN res \subseteq 1 .. db.next - 1 /\ \A t \in DOMAIN res : res[t] \in TagRecords
  BY <1>1, <1>2 DEF TagRequestOK, ListAnswerOK, Used
<1>4. db.next - 1 \in Nat
  BY <1>2
<1> HIDE DEF res
<1>5. /\ tags' \in Seq(DOMAIN res) /\ ToSet(tags') = DOMAIN res
      /\ \A j, k \in DOMAIN tags' : j < k => tags'[j] > tags'[k]
  BY <1>1, <1>3, <1>4, DescendingIs
<1>6. \A j, k \in DOMAIN tags' : tags'[j] = tags'[k] => j = k
  <2> SUFFICES ASSUME NEW j \in DOMAIN tags', NEW k \in DOMAIN tags', tags'[j] = tags'[k], j # k
               PROVE  FALSE
    OBVIOUS
  <2>1. tags'[j] \in Nat /\ j \in Nat /\ k \in Nat
    BY <1>3, <1>5
  <2> QED BY <1>5, <2>1
<1>7. ASSUME NEW t \in DOMAIN res
      PROVE  rec'[t] \in TagRecords /\ rec'[t].name = res[t].name /\ rec'[t].color = res[t].color
  <2>1. known(t) \in BOOLEAN /\ res[t] \in TagRecords
    BY <1>2, <1>3 DEF TagRecords
  <2>2. rec'[t] = [res[t] EXCEPT !.counted = res[t].counted \/ known(t)]
    BY <1>1
  <2> HIDE DEF known
  <2> QED BY <2>1, <2>2 DEF TagRecords
<1>8. DOMAIN rec' = DOMAIN rec \cup DOMAIN res /\ \A t \in DOMAIN rec \ DOMAIN res : rec'[t] = rec[t]
  BY <1>1
<1> QED BY <1>3, <1>4, <1>5, <1>6, <1>7, <1>8 DEF res, r

LEMMA AnswerTagsShape ==
  ASSUME TagShape, NEW i \in DOMAIN reqs, AnswerTags(i), UNCHANGED <<db, page, changes>>
  PROVE  TagShape'
<1> DEFINE res == reqs[i].res
<1>1. /\ DOMAIN res \in SUBSET (1 .. db.next - 1)
      /\ tags' \in Seq(DOMAIN res)
      /\ DOMAIN rec' = DOMAIN rec \cup DOMAIN res
      /\ \A t \in DOMAIN res : rec'[t] \in TagRecords
      /\ \A t \in DOMAIN rec \ DOMAIN res : rec'[t] = rec[t]
  BY AnswerTagsIs
<1> HIDE DEF res
<1>2. TagStoreOK(db, tags, rec) /\ FormOK(form, rec) /\ rows \in RowStates /\ asked \in Wishes
  BY DEF TagShape
<1>3. TagStoreOK(db, tags', rec')
  <2>1. tags' \in Seq(DOMAIN rec')
    BY <1>1
  <2>2. \A t \in DOMAIN rec' : rec'[t] \in TagRecords \cup {Gone}
    BY <1>1, <1>2 DEF TagStoreOK
  <2> QED BY <1>1, <1>2, <2>1, <2>2 DEF TagStoreOK, Used
<1>4. FormOK(form, rec')
  BY <1>1, <1>2, FormGrows
<1>5. tags' # Null
  <2>1. db.next \in Nat
    BY TagShapeIs
  <2>2. Seq(DOMAIN res) \subseteq Seq(Nat)
    BY <1>1, <2>1
  <2> QED BY <1>1, <2>2, TagPagesAssumption
<1>6. Render(form) /\ reqs' = Rest(i) /\ rows' = rows /\ asked' = asked
  BY DEF AnswerTags, TagAnswered
<1> QED BY <1>1, <1>2, <1>3, <1>4, <1>5, <1>6, AnsweredShape

\* Nothing is asked for but the tags before they are there.
LEMMA TagsThere ==
  ASSUME TagShape, NEW i \in DOMAIN reqs, reqs[i].op # "tags"  PROVE tags # Null
  BY DEF TagShape, Untouched

\* The store stays in order when records are put into it.
LEMMA StoreKeeps ==
  ASSUME NEW d, NEW ts, NEW rc, NEW sc, TagStoreOK(d, ts, rc), DOMAIN rc \subseteq DOMAIN sc,
         DOMAIN sc \subseteq Used(d.next), \A u \in DOMAIN sc : sc[u] \in TagRecords \cup {Gone}
  PROVE  TagStoreOK(d, ts, sc)
<1>1. ts = Null \/ ts \in Seq(DOMAIN sc)
  BY DEF TagStoreOK
<1> QED BY <1>1 DEF TagStoreOK

\* A tag that was created is known afterwards.
LEMMA AnswerCreateTagIs ==
  ASSUME TagShape, NEW i \in DOMAIN reqs, AnswerCreateTag(i)
  PROVE  LET r == reqs[i] IN
         /\ r.op = "create" /\ r.rank > 0 /\ tags # Null /\ ChipsOK(r.chosen, rec)
         /\ Failed(r.res) => tags' = tags /\ rec' = rec /\ Render(form)
         /\ ~ Failed(r.res) =>
              /\ r.res.id \in Used(db.next) \ ToSet(r.chosen)
              /\ tags' = Append(tags, r.res.id)
              /\ DOMAIN rec' = DOMAIN rec \cup {r.res.id}
              /\ rec'[r.res.id] \in TagRecords
              /\ rec'[r.res.id].name = r.res.tag.name /\ rec'[r.res.id].color = r.res.tag.color
              /\ \A u \in DOMAIN rec \ {r.res.id} : rec'[u] = rec[u]
              /\ TagStoreOK(db, tags, rec')
              /\ Render(IF r.here THEN [form EXCEPT !.selected = Append(r.chosen, r.res.id)] ELSE form)
<1> DEFINE r == reqs[i]
<1>1. r.op = "create" /\ r.rank # 0
  BY DEF AnswerCreateTag, TagAnswered, Unserved
<1>2. TagRequestOK(r, rec, db.next) /\ tags # Null /\ TagStoreOK(db, tags, rec)
  BY <1>1, TagShapeIs, TagsThere DEF TagShape
<1>3. r.rank > 0 /\ CreationOK(r, rec, db.next)
  BY <1>1, <1>2 DEF TagRequestOK
<1>4. CASE Failed(r.res)
  <2>1. tags' = tags /\ rec' = rec /\ Render(form)
    BY <1>4 DEF AnswerCreateTag
  <2> QED BY <1>1, <1>2, <1>3, <1>4, <2>1 DEF CreationOK
<1>5. CASE ~ Failed(r.res)
  <2> DEFINE v == Record(r.res.tag, FALSE)
  <2>1. /\ tags' = Append(tags, r.res.id) /\ rec' = Put(rec, r.res.id, v)
        /\ Render(IF r.here THEN [form EXCEPT !.selected = Append(r.chosen, r.res.id)] ELSE form)
    BY <1>2, <1>5 DEF AnswerCreateTag
  <2>2. r.res.id \in Used(db.next) \ ToSet(r.chosen)
        /\ r.res.tag.name \in ValidNames /\ r.res.tag.color \in ValidColors
    BY <1>3, <1>5 DEF CreationOK
  <2>3. v \in TagRecords /\ v.name = r.res.tag.name /\ v.color = r.res.tag.color
    BY <2>2 DEF Record, TagRecords
  <2> HIDE DEF v
  <2>4. /\ TagStoreOK(db, tags, rec') /\ DOMAIN rec' = DOMAIN rec \cup {r.res.id}
        /\ rec'[r.res.id] = v /\ \A u \in DOMAIN rec \ {r.res.id} : rec'[u] = rec[u]
    <3>1. /\ DOMAIN rec' = DOMAIN rec \cup {r.res.id} /\ rec'[r.res.id] = v
          /\ \A u \in DOMAIN rec \ {r.res.id} : rec'[u] = rec[u]
      BY <2>1 DEF Put
    <3>2. DOMAIN rec \subseteq DOMAIN rec' /\ DOMAIN rec' \subseteq Used(db.next)
      BY <1>2, <2>2, <2>3, <3>1 DEF TagStoreOK
    <3>3. \A u \in DOMAIN rec' : rec'[u] \in TagRecords \cup {Gone}
      BY <1>2, <2>2, <2>3, <3>1 DEF TagStoreOK
    <3> QED BY <1>2, <2>2, <2>3, <3>1, <3>2, <3>3, StoreKeeps
  <2> QED BY <1>1, <1>2, <1>3, <1>5, <2>1, <2>2, <2>3, <2>4 DEF CreationOK
<1> QED BY <1>4, <1>5

LEMMA AnswerCreateTagShape ==
  ASSUME TagShape, NEW i \in DOMAIN reqs, AnswerCreateTag(i), UNCHANGED <<db, page, changes>>
  PROVE  TagShape'
<1> DEFINE r == reqs[i]
           id == r.res.id
           f == IF r.here THEN [form EXCEPT !.selected = Append(r.chosen, id)] ELSE form
<1>1. reqs' = Rest(i) /\ rows' = rows /\ asked' = asked
  BY DEF AnswerCreateTag, TagAnswered
<1>2. TagStoreOK(db, tags, rec) /\ FormOK(form, rec) /\ rows \in RowStates /\ asked \in Wishes
  BY DEF TagShape
<1>3. tags # Null /\ ChipsOK(r.chosen, rec)
  BY AnswerCreateTagIs
<1>4. CASE Failed(r.res)
  <2>1. tags' = tags /\ rec' = rec /\ Render(form)
    BY <1>4, AnswerCreateTagIs
  <2>2. FormOK(form, rec') /\ TagStoreOK(db, tags', rec') /\ DOMAIN rec \subseteq DOMAIN rec' /\ tags' # Null
    BY <1>2, <1>3, <2>1
  <2> QED BY <1>1, <1>2, <2>1, <2>2, AnsweredShape
<1>5. CASE ~ Failed(r.res)
  <2>1. /\ id \in Used(db.next) \ ToSet(r.chosen) /\ tags' = Append(tags, id)
        /\ DOMAIN rec' = DOMAIN rec \cup {id} /\ TagStoreOK(db, tags, rec') /\ Render(f)
    BY <1>5, AnswerCreateTagIs
  <2> HIDE DEF id
  <2>2. tags \in Seq(DOMAIN rec')
    BY <1>3, <2>1 DEF TagStoreOK
  <2>3. tags' \in Seq(DOMAIN rec')
    BY <2>1, <2>2
  <2>4. TagStoreOK(db, tags', rec')
    BY <2>1, <2>3 DEF TagStoreOK
  <2>5. tags' # Null
    <3>1. db.next \in Nat /\ DOMAIN rec' \subseteq Used(db.next)
      BY <2>4, TagShapeIs DEF TagStoreOK
    <3>2. DOMAIN rec' \subseteq Nat
      BY <3>1 DEF Used
    <3>3. tags' \in Seq(Nat)
      BY <2>3, <3>2
    <3> QED BY <3>3, TagPagesAssumption
  <2>6. FormOK(form, rec')
    BY <1>2, <2>1, FormGrows
  <2>7. r.chosen \in Seq(DOMAIN rec') /\ \A j, k \in DOMAIN r.chosen : r.chosen[j] = r.chosen[k] => j = k
    BY <1>3, <2>1 DEF ChipsOK
  <2>8. ChipsOK(Append(r.chosen, id), rec')
    BY <2>1, <2>7, ChipAdded DEF ChipsOK
  <2>9. FormOK(f, rec')
    BY <2>6, <2>8 DEF FormOK, ChipsOK
  <2> HIDE DEF f
  <2> QED BY <1>1, <1>2, <2>1, <2>4, <2>5, <2>9, AnsweredShape
<1> QED BY <1>4, <1>5

\* The row of a change shows its outcome.
LEMMA OutcomeRows == \A r : rows \in RowStates => FailedRow(r) \in RowStates /\ ClosedRow(r) \in RowStates
<1> SUFFICES ASSUME NEW r, rows \in RowStates PROVE FailedRow(r) \in RowStates /\ ClosedRow(r) \in RowStates
  OBVIOUS
<1>1. FailedRow(r) \in RowStates
  BY DEF FailedRow, RowStates, Modes
<1>2. ClosedRow(r) \in RowStates
  BY DEF ClosedRow, RowStates, Modes
<1> QED BY <1>1, <1>2

LEMMA AnswerUpdateTagIs ==
  ASSUME TagShape, NEW i \in DOMAIN reqs, AnswerUpdateTag(i)
  PROVE  LET r == reqs[i] IN
         /\ r.op = "update" /\ r.rank > 0 /\ tags # Null /\ tags' = tags /\ Render(form)
         /\ TagStoreOK(db, tags, rec') /\ DOMAIN rec \subseteq DOMAIN rec'
         /\ r.res = Null \/ Failed(r.res) => rec' = rec
         /\ ~ (r.res = Null \/ Failed(r.res)) =>
              /\ DOMAIN rec' = DOMAIN rec \cup {r.id} /\ rec'[r.id] \in TagRecords
              /\ rec'[r.id].name = r.res.name /\ rec'[r.id].color = r.res.color
              /\ \A u \in DOMAIN rec \ {r.id} : rec'[u] = rec[u]
<1> DEFINE r == reqs[i]
<1>1. r.op = "update" /\ r.rank # 0 /\ tags' = tags /\ Render(form)
  BY DEF AnswerUpdateTag, TagAnswered, Unserved
<1>2. TagRequestOK(r, rec, db.next) /\ tags # Null /\ TagStoreOK(db, tags, rec)
  BY <1>1, TagShapeIs, TagsThere DEF TagShape
<1>3. r.rank > 0 /\ ChangeOK(r, db.next)
  BY <1>1, <1>2 DEF TagRequestOK
<1>4. CASE r.res = Null \/ Failed(r.res)
  <2>1. rec' = rec
    BY <1>4 DEF AnswerUpdateTag
  <2> QED BY <1>1, <1>2, <1>3, <1>4, <2>1
<1>5. CASE ~ (r.res = Null \/ Failed(r.res))
  <2> DEFINE v == Record(r.res, TRUE)
  <2>1. rec' = Put(rec, r.id, v)
    BY <1>5 DEF AnswerUpdateTag
  <2>2. r.id \in Used(db.next) /\ r.res.name \in ValidNames /\ r.res.color \in ValidColors
    BY <1>3, <1>5 DEF ChangeOK
  <2>3. v \in TagRecords /\ v.name = r.res.name /\ v.color = r.res.color
    BY <2>2 DEF Record, TagRecords
  <2> HIDE DEF v
  <2>4. /\ TagStoreOK(db, tags, rec') /\ DOMAIN rec' = DOMAIN rec \cup {r.id}
        /\ rec'[r.id] = v /\ \A u \in DOMAIN rec \ {r.id} : rec'[u] = rec[u]
    <3>1. /\ DOMAIN rec' = DOMAIN rec \cup {r.id} /\ rec'[r.id] = v
          /\ \A u \in DOMAIN rec \ {r.id} : rec'[u] = rec[u]
      BY <2>1 DEF Put
    <3>2. DOMAIN rec \subseteq DOMAIN rec' /\ DOMAIN rec' \subseteq Used(db.next)
      BY <1>2, <2>2, <2>3, <3>1 DEF TagStoreOK
    <3>3. \A u \in DOMAIN rec' : rec'[u] \in TagRecords \cup {Gone}
      BY <1>2, <2>2, <2>3, <3>1 DEF TagStoreOK
    <3> QED BY <1>2, <2>2, <2>3, <3>1, <3>2, <3>3, StoreKeeps
  <2> QED BY <1>1, <1>2, <1>3, <1>5, <2>1, <2>2, <2>3, <2>4
<1> QED BY <1>4, <1>5

LEMMA AnswerUpdateTagShape ==
  ASSUME TagShape, NEW i \in DOMAIN reqs, AnswerUpdateTag(i), UNCHANGED <<db, page, changes>>
  PROVE  TagShape'
<1>1. /\ tags # Null /\ tags' = tags /\ Render(form)
      /\ TagStoreOK(db, tags, rec') /\ DOMAIN rec \subseteq DOMAIN rec'
  BY AnswerUpdateTagIs
<1>2. reqs' = Rest(i) /\ asked' \in Wishes /\ FormOK(form, rec)
  BY DEF AnswerUpdateTag, TagAnswered, TagShape
<1>3. rows' \in RowStates
  BY OutcomeRows DEF AnswerUpdateTag, TagShape
<1>4. FormOK(form, rec')
  BY <1>1, <1>2, FormGrows
<1> QED BY <1>1, <1>2, <1>3, <1>4, AnsweredShape

LEMMA AnswerDeleteTagIs ==
  ASSUME TagShape, NEW i \in DOMAIN reqs, AnswerDeleteTag(i)
  PROVE  LET r == reqs[i] IN
         /\ r.op = "delete" /\ r.rank > 0 /\ tags # Null /\ tags' = tags /\ Render(form)
         /\ r.res \in BOOLEAN
         /\ TagStoreOK(db, tags, rec') /\ DOMAIN rec \subseteq DOMAIN rec'
         /\ ~ r.res => rec' = rec
         /\ r.res => /\ DOMAIN rec' = DOMAIN rec \cup {r.id} /\ rec'[r.id] = Gone
                     /\ \A u \in DOMAIN rec \ {r.id} : rec'[u] = rec[u]
<1> DEFINE r == reqs[i]
<1>1. r.op = "delete" /\ r.rank # 0 /\ tags' = tags /\ Render(form)
  BY DEF AnswerDeleteTag, TagAnswered, Unserved
<1>2. TagRequestOK(r, rec, db.next) /\ tags # Null /\ TagStoreOK(db, tags, rec)
  BY <1>1, TagShapeIs, TagsThere DEF TagShape
<1>3. r.rank > 0 /\ DeletionOK(r, db.next)
  BY <1>1, <1>2 DEF TagRequestOK
<1>4. r.res \in BOOLEAN /\ (r.res => r.id \in Used(db.next))
  BY <1>3 DEF DeletionOK
<1>5. CASE ~ r.res
  <2>1. rec' = rec
    BY <1>5 DEF AnswerDeleteTag
  <2> QED BY <1>1, <1>2, <1>3, <1>4, <1>5, <2>1
<1>6. CASE r.res
  <2>1. rec' = Put(rec, r.id, Gone)
    BY <1>6 DEF AnswerDeleteTag
  <2>2. /\ TagStoreOK(db, tags, rec') /\ DOMAIN rec' = DOMAIN rec \cup {r.id}
        /\ rec'[r.id] = Gone /\ \A u \in DOMAIN rec \ {r.id} : rec'[u] = rec[u]
    <3>1. /\ DOMAIN rec' = DOMAIN rec \cup {r.id} /\ rec'[r.id] = Gone
          /\ \A u \in DOMAIN rec \ {r.id} : rec'[u] = rec[u]
      BY <2>1 DEF Put
    <3>2. DOMAIN rec \subseteq DOMAIN rec' /\ DOMAIN rec' \subseteq Used(db.next)
      BY <1>2, <1>4, <1>6, <3>1 DEF TagStoreOK
    <3>3. \A u \in DOMAIN rec' : rec'[u] \in TagRecords \cup {Gone}
      BY <1>2, <1>4, <1>6, <3>1 DEF TagStoreOK
    <3> QED BY <1>2, <1>4, <1>6, <3>1, <3>2, <3>3, StoreKeeps
  <2> QED BY <1>1, <1>2, <1>3, <1>4, <1>6, <2>2
<1> QED BY <1>5, <1>6

LEMMA AnswerDeleteTagShape ==
  ASSUME TagShape, NEW i \in DOMAIN reqs, AnswerDeleteTag(i), UNCHANGED <<db, page, changes>>
  PROVE  TagShape'
<1>1. /\ tags # Null /\ tags' = tags /\ Render(form)
      /\ TagStoreOK(db, tags, rec') /\ DOMAIN rec \subseteq DOMAIN rec'
  BY AnswerDeleteTagIs
<1>2. reqs' = Rest(i) /\ asked' \in Wishes /\ FormOK(form, rec)
  BY DEF AnswerDeleteTag, TagAnswered, TagShape
<1>3. rows' \in RowStates
  BY OutcomeRows DEF AnswerDeleteTag, TagShape
<1>4. FormOK(form, rec')
  BY <1>1, <1>2, FormGrows
<1> QED BY <1>1, <1>2, <1>3, <1>4, AnsweredShape

LEMMA AnswerStoryShape ==
  ASSUME TagShape, NEW i \in DOMAIN reqs, AnswerStory(i), UNCHANGED <<db, page, changes>>
  PROVE  TagShape'
<1> DEFINE f == IF reqs[i].here THEN EmptyForm ELSE form
<1>1. tags # Null
  BY TagsThere DEF AnswerStory
<1>2. Render(f) /\ UNCHANGED <<tags, rec, rows>> /\ reqs' = Rest(i)
  BY DEF AnswerStory, TagAnswered
<1>3. FormOK(f, rec) /\ rows \in RowStates /\ TagStoreOK(db, tags, rec)
  BY EmptyFormOK DEF TagShape
<1>4. asked' \in Wishes
  BY DEF AnswerStory, NoWishes, Wishes, Meddles, TagShape
<1> HIDE DEF f
<1>5. FormOK(f, rec') /\ rows' \in RowStates /\ TagStoreOK(db, tags', rec') /\ tags' # Null
      /\ DOMAIN rec \subseteq DOMAIN rec'
  BY <1>1, <1>2, <1>3
<1> QED BY <1>2, <1>4, <1>5, AnsweredShape

LEMMA LoseTagShape ==
  ASSUME TagShape, NEW i \in DOMAIN reqs, LoseTagRequest(i)  PROVE TagShape'
<1> DEFINE r == reqs[i]
<1>1. reqs' = Rest(i) /\ UNCHANGED <<db, tags, rec, page, changes, asked>>
  BY DEF LoseTagRequest
<1>2. rows' \in RowStates
  BY OutcomeRows DEF LoseTagRequest, TagShape
<1>3. FormOK(form, rec') /\ TagStoreOK(db, tags', rec') /\ asked' \in Wishes /\ DOMAIN rec \subseteq DOMAIN rec'
  BY <1>1 DEF TagShape
<1>4. tags' # Null \/ (tags = Null /\ form = EmptyForm /\ asked' = asked)
  BY <1>1 DEF TagShape, Untouched
<1>5. CASE r.op = "tags" /\ r.here
  <2>1. crashed' = TRUE /\ form' = form
    BY <1>5 DEF LoseTagRequest
  <2>2. /\ db.next \in Nat /\ db.next <= db.next
        /\ TagQueueOK(Rest(i), rec, db.next) /\ Less(Rest(i), reqs, i)
    BY TagShapeIs, TagRest DEF TagShape
  <2>3. Untouched(tags', form', asked', reqs')
    <3>1. \A j \in DOMAIN reqs : "op" \in DOMAIN reqs[j]
      BY TagShapeIs DEF TagRequestOK
    <3> QED BY <1>1, <2>1, <2>2, <3>1 DEF TagShape, Untouched, Less, Moved
  <2> QED BY <1>1, <1>2, <1>3, <2>1, <2>2, <2>3 DEF TagShape
<1>6. CASE ~ (r.op = "tags" /\ r.here)
  <2>1. Render(form)
    BY <1>6 DEF LoseTagRequest
  <2> QED BY <1>1, <1>2, <1>3, <1>4, <2>1, AnsweredShape
<1> QED BY <1>5, <1>6

LEMMA ElsewhereTagsShape == TagShape /\ ChangeTagsElsewhere => TagShape'
<1> SUFFICES ASSUME TagShape, ChangeTagsElsewhere PROVE TagShape'
  OBVIOUS
<1>1. UNCHANGED <<reqs, tags, rec, page, crashed, form, rows, asked>>
  BY DEF ChangeTagsElsewhere
<1>2. LibraryOK(db) /\ db.next \in Nat
  BY TagShapeIs DEF TagShape, TagStoreOK
<1>3. LibraryOK(db') /\ db.next <= db'.next
  <2>1. PICK t \in DOMAIN db.tag, name \in Names, color \in Colors :
          db' \in {CreateTag(db, name, color).db, UpdateTag(db, t, name, color).db, DeleteTag(db, t).db}
    BY DEF ChangeTagsElsewhere
  <2>2. CASE db' = CreateTag(db, name, color).db
    <3>1. LibraryOK(db') /\ (db' = db \/ db'.next = db.next + 1)
      BY <1>2, <2>2, CreateTagIs
    <3> QED BY <1>2, <3>1
  <2>3. CASE db' = UpdateTag(db, t, name, color).db
    <3>1. LibraryOK(db') /\ db'.next = db.next
      BY <1>2, <2>3, UpdateTagIs
    <3> QED BY <1>2, <3>1
  <2>4. CASE db' = DeleteTag(db, t).db
    <3>1. LibraryOK(db') /\ db'.next = db.next
      BY <1>2, <2>4, DeleteTagIs
    <3> QED BY <1>2, <3>1
  <2> QED BY <2>1, <2>2, <2>3, <2>4
<1>4. db'.next \in Nat
  BY <1>3 DEF LibraryOK, IdsUsed
<1>5. TagQueueOK(reqs', rec', db'.next)
  BY <1>1, <1>2, <1>3, <1>4, TagQueueGrows DEF TagShape
<1>6. TagStoreOK(db', tags', rec')
  <2>1. Used(db.next) \subseteq Used(db'.next)
    BY <1>2, <1>3, <1>4 DEF Used
  <2> QED BY <1>1, <1>3, <2>1 DEF TagShape, TagStoreOK
<1>7. Broken' = Broken
  <2>1. \A op : InFlight(op)' = InFlight(op)
    BY <1>1 DEF InFlight
  <2>2. \A t : ShownTag(t)' = ShownTag(t)
    BY <1>1 DEF ShownTag, Overlays, InFlight
  <2>3. Suspended' = Suspended
    BY <1>1, <2>1 DEF Suspended
  <2> QED BY <1>1, <2>2, <2>3 DEF Broken
<1> QED BY <1>1, <1>5, <1>6, <1>7 DEF TagShape, Untouched

LEMMA TagAnswersShape ==
  ASSUME TagShape, NEW i \in DOMAIN reqs, Answers(i)  PROVE TagShape'
  BY AnswerTagsShape, AnswerCreateTagShape, AnswerUpdateTagShape, AnswerDeleteTagShape,
     AnswerStoryShape, LoseTagShape DEF Answers

LEMMA TagShapeStays == TagShape /\ [TagsNext]_tagsVars => TagShape'
<1> SUFFICES ASSUME TagShape, [TagsNext]_tagsVars PROVE TagShape'
  OBVIOUS
<1>1. CASE TagsNext
  BY <1>1, TagsUserShape, TagApiShape, TagAnswersShape, ElsewhereTagsShape DEF TagsNext
<1>2. CASE UNCHANGED tagsVars
  <2>1. UNCHANGED <<db, reqs, tags, rec, page, crashed, form, rows, asked>>
    BY <1>2 DEF tagsVars
  <2>2. Broken' = Broken
    BY <2>1 DEF Broken, Suspended, ShownTag, Overlays, InFlight
  <2> QED BY <2>1, <2>2 DEF TagShape
<1> QED BY <1>1, <1>2

LEMMA TagShapeIsSound == TagShape => PagesSound
<1> SUFFICES ASSUME TagShape PROVE PagesSound
  OBVIOUS
<1>1. LibraryOK(db) /\ Len(reqs) <= MaxRequests /\ page \in {"library", "manage"}
  BY TagShapeIs DEF TagShape, TagStoreOK
<1>2. tags # Null => ToSet(tags) \subseteq DOMAIN rec
  BY DEF TagShape, TagStoreOK, ToSet
<1>3. \A t \in DOMAIN rec : rec[t] = Gone \/
        (rec[t].name \in ValidNames /\ rec[t].color \in ValidColors /\ rec[t].counted \in BOOLEAN)
  BY DEF TagShape, TagStoreOK, TagRecords
<1>4. ToSet(form.selected) \subseteq DOMAIN rec /\ form.pending \in Names \cup {Null}
  BY DEF TagShape, FormOK, ToSet
<1>5. \A t \in 1 .. MaxIds : rows[t].mode \in {"view", "rename", "color", "delete"}
  BY DEF TagShape, RowStates, Modes
<1>6. NoChipTwice
  BY DEF TagShape, FormOK, ChipsOK, NoChipTwice
<1> QED BY <1>1, <1>2, <1>3, <1>4, <1>5, <1>6 DEF PagesSound, TagsTypeOK

\* The two pages refer to tags that the store has, and the form has no chip
\* twice, after every answer and every change of page, for any number of tags,
\* names and requests in flight (Library.tsx, TagInput.tsx, TagManagement.tsx).
THEOREM PagesStaySound == TagsSpec => []PagesSound
<1> QED BY TagsInitShape, TagShapeStays, TagShapeIsSound, PTL DEF TagsSpec
-----------------------------------------------------------------------------
(* The server as the answers on their way leave it *)

\* The request r was served when the library was d, which became e.
Serves(r, d, e) ==
  /\ r.op = "tags" =>
       e = d /\ r.res = [t \in DOMAIN ListTags(d) |-> Record(ListTags(d)[t], r.counted)]
  /\ r.op = "create" => Result(e, r.res) = CreateTag(d, r.name, r.color)
  /\ r.op = "update" => Result(e, r.res) = UpdateTag(d, r.id, r.name, r.color)
  /\ r.op = "delete" => Result(e, r.res) = DeleteTag(d, r.id)
  /\ r.op = "story" => Result(e, r.res) = CreateStory(d, TRUE, AnyTitle, r.chosen)

\* P has the libraries that the requests served have gone through, from that
\* before the first of them to d.
Chain(q, P, d) ==
  /\ \A k \in 0 .. Cardinality(Answerable(q)) : LibraryOK(P[k])
  /\ P[Cardinality(Answerable(q))] = d
  /\ \A i \in Answerable(q) : Serves(q[i], P[q[i].rank - 1], P[q[i].rank])

\* The store has the tags of d, each once, and of others that they are gone.
Mirrors(d, ts, rc) ==
  /\ \A i, j \in DOMAIN ts : ts[i] = ts[j] => i = j
  /\ DOMAIN d.tag \subseteq ToSet(ts) /\ ToSet(ts) \subseteq Used(d.next)
  /\ \A t \in ToSet(ts) :
       IF t \in DOMAIN d.tag
         THEN rc[t] # Gone /\ rc[t].name = d.tag[t].name /\ rc[t].color = d.tag[t].color
         ELSE rc[t] = Gone

\* What the store has is what the server had before the answers on their way.
TagsAgreed ==
  ~ disturbed => \E P : Chain(reqs, P, db) /\ (tags # Null => Mirrors(P[0], tags, rec))

\* p is r, perhaps of another rank, and of a page that is perhaps left.
Copies(p, r) == DOMAIN p = DOMAIN r /\ \A f \in DOMAIN r \ {"rank", "here"} : p[f] = r[f]

\* How a request was served does not depend on its rank and its page.
LEMMA ServesCopies ==
  ASSUME NEW p, NEW r, NEW rc, NEW n, NEW d, NEW e, TagRequestOK(r, rc, n), Copies(p, r), Serves(r, d, e)
  PROVE  Serves(p, d, e)
<1>1. p.op = r.op /\ p.res = r.res /\ r.op \in TagOps
  BY DEF TagRequestOK, Copies
<1>2. CASE r.op = "tags"
  <2>1. p.counted = r.counted
    BY <1>2 DEF TagRequestOK, ListAnswerOK, Copies
  <2> QED BY <1>1, <1>2, <2>1 DEF Serves
<1>3. CASE r.op = "create"
  <2>1. p.name = r.name /\ p.color = r.color
    BY <1>3 DEF TagRequestOK, CreationOK, Copies
  <2> QED BY <1>1, <1>3, <2>1 DEF Serves
<1>4. CASE r.op = "update"
  <2>1. p.id = r.id /\ p.name = r.name /\ p.color = r.color
    BY <1>4 DEF TagRequestOK, ChangeOK, Copies
  <2> QED BY <1>1, <1>4, <2>1 DEF Serves
<1>5. CASE r.op = "delete"
  <2>1. p.id = r.id
    BY <1>5 DEF TagRequestOK, DeletionOK, Copies
  <2> QED BY <1>1, <1>5, <2>1 DEF Serves
<1>6. CASE r.op = "story"
  <2>1. p.chosen = r.chosen
    BY <1>6 DEF TagRequestOK, Copies
  <2> QED BY <1>1, <1>6, <2>1 DEF Serves
<1> QED BY <1>1, <1>2, <1>3, <1>4, <1>5, <1>6 DEF TagOps

\* The server does not move when a request is made.
LEMMA ChainMore ==
  ASSUME NEW q, NEW r, NEW P, NEW d, Listed(q), Ranked(q), r.rank = 0, Chain(q, P, d)
  PROVE  Chain(Append(q, r), P, d)
<1> DEFINE a == Append(q, r)
<1>1. Answerable(a) = Answerable(q) /\ \A i \in DOMAIN q : a[i] = q[i]
  BY RankedMore, AppendIs
<1> HIDE DEF a
<1>2. \A i \in Answerable(a) : Serves(a[i], P[a[i].rank - 1], P[a[i].rank])
  BY <1>1 DEF Chain, Answerable
<1> QED BY <1>1, <1>2 DEF Chain, a

\* Nor when pages are left.
LEMMA ChainLeft ==
  ASSUME NEW q, NEW w, NEW P, NEW d, NEW rc, NEW n, TagQueueOK(q, rc, n), Chain(q, P, d),
         DOMAIN w = DOMAIN q, \A i \in DOMAIN q : Left(w[i], q[i])
  PROVE  Chain(w, P, d)
<1>1. \A i \in DOMAIN q : TagRequestOK(q[i], rc, n) /\ w[i].rank = q[i].rank /\ Copies(w[i], q[i])
  BY DEF TagQueueOK, TagRequestOK, Left, Copies
<1>2. Answerable(w) = Answerable(q)
  BY <1>1, RankedAlike DEF TagQueueOK
<1>3. ASSUME NEW i \in Answerable(w) PROVE Serves(w[i], P[w[i].rank - 1], P[w[i].rank])
  <2>1. i \in DOMAIN q /\ i \in Answerable(q)
    BY <1>2 DEF Answerable
  <2>2. Serves(q[i], P[q[i].rank - 1], P[q[i].rank])
    BY <2>1 DEF Chain
  <2>3. TagRequestOK(q[i], rc, n) /\ w[i].rank = q[i].rank /\ Copies(w[i], q[i])
    BY <1>1, <2>1
  <2>4. Serves(w[i], P[q[i].rank - 1], P[q[i].rank])
    BY <2>2, <2>3, ServesCopies
  <2> QED BY <2>3, <2>4
<1> QED BY <1>2, <1>3 DEF Chain

\* The first of the requests served may be dropped, and one that has changed
\* nothing.
LEMMA ChainLess ==
  ASSUME NEW q, NEW w, NEW i \in DOMAIN q, NEW P, NEW d, NEW rc, NEW n,
         TagQueueOK(q, rc, n), Less(w, q, i), Chain(q, P, d),
         q[i].rank > 1 => P[q[i].rank - 1] = P[q[i].rank]
  PROVE  \E R : Chain(w, R, d) /\ R[0] = P[IF q[i].rank = 1 THEN 1 ELSE 0]
<1> DEFINE N == Cardinality(Answerable(q))
           k == q[i].rank
           R == [m \in Nat |-> IF k = 0 \/ m < k - 1 THEN P[m] ELSE P[m + 1]]
<1>1. /\ N \in Nat /\ k \in 0 .. N
      /\ Cardinality(Answerable(w)) = IF k > 0 THEN N - 1 ELSE N
  BY AnswerableFinite, RankedLess DEF TagQueueOK, Ranked
<1>2. /\ \A m \in 0 .. N : LibraryOK(P[m])
      /\ P[N] = d
      /\ \A j \in Answerable(q) : Serves(q[j], P[q[j].rank - 1], P[q[j].rank])
  BY DEF Chain
<1>3. k > 1 => P[k - 1] = P[k]
  OBVIOUS
<1> HIDE DEF N
<1>4. \A m \in 0 .. Cardinality(Answerable(w)) : LibraryOK(R[m])
  BY <1>1, <1>2
<1>5. R[Cardinality(Answerable(w))] = d
  BY <1>1, <1>2
<1>6. R[0] = P[IF k = 1 THEN 1 ELSE 0]
  BY <1>1
<1>7. ASSUME NEW j \in Answerable(w)  PROVE Serves(w[j], R[w[j].rank - 1], R[w[j].rank])
  <2> DEFINE o == q[Old(i, j)]
             b == o.rank
  <2>1. /\ Old(i, j) \in DOMAIN q \ {i} /\ Moved(w[j], o)
        /\ w[j].rank = Closed(k, b)
        /\ w[j].rank > 0
    BY DEF Less, Answerable
  <2>2. b \in 0 .. N /\ (k > 0 => b # k)
    BY <1>1, <2>1 DEF TagQueueOK, Ranked, N
  <2>3. b > 0
    BY <1>1, <2>1, <2>2 DEF Closed
  <2>4. Serves(o, P[b - 1], P[b])
    BY <1>2, <2>1, <2>3 DEF Answerable
  <2>5. TagRequestOK(o, rc, n) /\ Copies(w[j], o)
    BY <2>1 DEF TagQueueOK, Moved, Copies
  <2>6. Serves(w[j], P[b - 1], P[b])
    BY <2>4, <2>5, ServesCopies
  <2> DEFINE c == w[j].rank
  <2>7. R[c - 1] = P[b - 1] /\ R[c] = P[b]
    <3> HIDE DEF o
    <3> HIDE DEF b, c
    <3>0. c = Closed(k, b)
      BY <2>1 DEF c
    <3> HIDE DEF k
    <3>1. CASE k = 0
      <4>1. c = b
        BY <3>0, <3>1 DEF Closed
      <4> QED BY <1>1, <2>2, <2>3, <3>1, <4>1
    <3>2. CASE k > 0 /\ b < k
      <4>1. c = b
        BY <1>1, <2>2, <3>0, <3>2 DEF Closed
      <4>2. R[c - 1] = P[b - 1]
        BY <1>1, <2>2, <2>3, <3>2, <4>1
      <4>3. CASE b < k - 1
        BY <1>1, <2>2, <2>3, <3>2, <4>1, <4>2, <4>3
      <4>4. CASE b = k - 1
        <5>1. R[c] = P[b + 1] /\ b + 1 = k /\ k > 1
          BY <1>1, <2>2, <2>3, <3>2, <4>1, <4>4
        <5> QED BY <1>3, <4>2, <4>4, <5>1
      <4> QED BY <1>1, <2>2, <3>2, <4>3, <4>4
    <3>3. CASE k > 0 /\ b > k
      <4>1. c = b - 1
        BY <1>1, <2>2, <3>0, <3>3 DEF Closed
      <4>2. R[c - 1] = P[(c - 1) + 1] /\ (c - 1) + 1 = b - 1
        BY <1>1, <2>2, <3>3, <4>1
      <4>3. R[c] = P[c + 1] /\ c + 1 = b
        BY <1>1, <2>2, <3>3, <4>1
      <4> QED BY <4>2, <4>3
    <3> QED BY <1>1, <2>2, <3>1, <3>2, <3>3
  <2> QED BY <2>6, <2>7
<1> HIDE DEF R
<1>8. Chain(w, R, d)
  BY <1>4, <1>5, <1>7 DEF Chain
<1> QED BY <1>6, <1>8 DEF k

\* A request that is served takes the server one step further.
LEMMA ChainServed ==
  ASSUME NEW q, NEW w, NEW i \in DOMAIN q, NEW P, NEW d, NEW e, Chain(q, P, d), LibraryOK(e),
         DOMAIN w = DOMAIN q, \A j \in DOMAIN q \ {i} : w[j] = q[j],
         q[i].rank = 0, w[i].rank = 1 + Cardinality(Answerable(q)), Listed(q), Ranked(q),
         Serves(w[i], d, e)
  PROVE  \E R : Chain(w, R, e) /\ R[0] = P[0]
<1> DEFINE N == Cardinality(Answerable(q))
           R == [m \in Nat |-> IF m <= N THEN P[m] ELSE e]
<1>1. N \in Nat /\ Cardinality(Answerable(w)) = N + 1 /\ w[i].rank = N + 1
  BY RankedServed
<1>2. /\ \A m \in 0 .. N : LibraryOK(P[m])
      /\ P[N] = d
      /\ \A j \in Answerable(q) : Serves(q[j], P[q[j].rank - 1], P[q[j].rank])
  BY DEF Chain
<1>3. \A j \in DOMAIN q : q[j].rank \in 0 .. N
  BY DEF Ranked
<1> HIDE DEF N
<1>4. \A m \in 0 .. N + 1 : LibraryOK(R[m])
  BY <1>1, <1>2
<1>5. R[N + 1] = e /\ R[N] = d /\ R[0] = P[0] /\ \A m \in 0 .. N : R[m] = P[m]
  BY <1>1, <1>2
<1> HIDE DEF R
<1>6. ASSUME NEW j \in Answerable(w)  PROVE Serves(w[j], R[w[j].rank - 1], R[w[j].rank])
  <2>1. CASE j = i
    <3>1. w[j].rank - 1 = N /\ w[j].rank = N + 1
      BY <1>1, <2>1
    <3> QED BY <1>5, <2>1, <3>1
  <2>2. CASE j # i
    <3>1. j \in Answerable(q) /\ w[j] = q[j] /\ j \in DOMAIN q
      BY <2>2 DEF Answerable
    <3>2. q[j].rank \in 0 .. N /\ q[j].rank > 0
      BY <1>3, <3>1 DEF Answerable
    <3>3. q[j].rank - 1 \in 0 .. N
      BY <1>1, <3>2
    <3>4. R[q[j].rank] = P[q[j].rank] /\ R[q[j].rank - 1] = P[q[j].rank - 1]
      BY <1>5, <3>2, <3>3
    <3> QED BY <1>2, <3>1, <3>4
  <2> QED BY <2>1, <2>2
<1>7. Chain(w, R, e)
  BY <1>1, <1>4, <1>5, <1>6 DEF Chain
<1> QED BY <1>5, <1>7
-----------------------------------------------------------------------------
(* Every step keeps to it *)

LEMMA AgreedAsked ==
  ASSUME TagShape, TagsAgreed, UNCHANGED <<db, tags, rec, disturbed>>,
         reqs' = reqs \/ \E r : r.rank = 0 /\ reqs' = Append(reqs, r)
  PROVE  TagsAgreed'
<1> SUFFICES ASSUME ~ disturbed
             PROVE  \E P : Chain(reqs', P, db') /\ (tags' # Null => Mirrors(P[0], tags', rec'))
  BY DEF TagsAgreed
<1>1. PICK P : Chain(reqs, P, db) /\ (tags # Null => Mirrors(P[0], tags, rec))
  BY DEF TagsAgreed
<1>2. Chain(reqs', P, db)
  BY <1>1, ChainMore DEF TagShape, TagQueueOK
<1> QED BY <1>1, <1>2

LEMMA GotoAgreed ==
  ASSUME NEW p \in {"library", "manage"}, TagShape, TagsAgreed, Goto(p)  PROVE TagsAgreed'
<1> DEFINE w == GoneTo(reqs, Need(p), p = "manage")
           r == TagsRequest(p = "manage")
<1>1. /\ DOMAIN w = DOMAIN reqs /\ Listed(w) /\ TagQueueOK(w, rec, db.next)
      /\ \A i \in DOMAIN reqs : Left(w[i], reqs[i])
      /\ reqs' = w \/ reqs' = Append(w, r)
  BY GotoIs
<1>2. r.rank = 0
  BY DEF TagsRequest
<1> HIDE DEF w, r
<1>3. UNCHANGED <<db, tags, rec, disturbed>>
  BY DEF Goto
<1> SUFFICES ASSUME ~ disturbed
             PROVE  \E P : Chain(reqs', P, db') /\ (tags' # Null => Mirrors(P[0], tags', rec'))
  BY <1>3 DEF TagsAgreed
<1>4. PICK P : Chain(reqs, P, db) /\ (tags # Null => Mirrors(P[0], tags, rec))
  BY DEF TagsAgreed
<1>5. Chain(w, P, db)
  BY <1>1, <1>4, ChainLeft DEF TagShape
<1>6. Chain(reqs', P, db)
  BY <1>1, <1>2, <1>5, ChainMore DEF TagQueueOK
<1> QED BY <1>3, <1>4, <1>6

\* A window that is loaded has nothing to agree with yet.
LEMMA LoadedAgreed ==
  ASSUME LibraryOK(db), NEW counted \in BOOLEAN, reqs = <<TagsRequest(counted)>>, tags = Null
  PROVE  TagsAgreed
<1> DEFINE P == [k \in {0} |-> db]
<1>1. \A i \in DOMAIN reqs : reqs[i].rank = 0
  BY TagsRequestOK
<1>2. Answerable(reqs) = {}
  BY <1>1 DEF Answerable
<1>3. Cardinality(Answerable(reqs)) = 0
  BY <1>2, FS_EmptySet
<1>4. Chain(reqs, P, db)
  BY <1>2, <1>3 DEF Chain
<1> QED BY <1>4 DEF TagsAgreed

LEMMA TagsInitAgreed == TagsInit => TagsAgreed
  BY LoadedAgreed, LibrariesAssumption DEF TagsInit

LEMMA ReloadAgreed == TagShape /\ ReloadTags => TagsAgreed'
<1> SUFFICES ASSUME TagShape, ReloadTags PROVE TagsAgreed'
  OBVIOUS
<1> DEFINE counted == page = "manage"
           P == [k \in {0} |-> db']
<1>1. LibraryOK(db') /\ reqs' = <<TagsRequest(counted)>> /\ tags' = Null /\ counted \in BOOLEAN
  BY DEF TagShape, TagStoreOK, ReloadTags
<1> HIDE DEF counted
<1>2. \A i \in DOMAIN reqs' : reqs'[i].rank = 0
  BY <1>1, TagsRequestOK
<1>3. Answerable(reqs') = {}
  BY <1>2 DEF Answerable
<1>4. Cardinality(Answerable(reqs')) = 0
  BY <1>3, FS_EmptySet
<1>5. Chain(reqs', P, db')
  BY <1>1, <1>3, <1>4 DEF Chain
<1> QED BY <1>1, <1>5 DEF TagsAgreed

LEMMA TagsUserAgreed ==
  ASSUME TagShape, TagsAgreed, TagUserActs  PROVE TagsAgreed'
<1>1. CASE Expand \/ Cancel \/ (\E t \in DOMAIN Available : Pick(t))
             \/ (\E i \in DOMAIN form.selected : RemoveChip(i))
  BY <1>1, AgreedAsked DEF Expand, Cancel, Pick, RemoveChip
<1>2. CASE Submit \/ Refresh \/ \E name \in Names, color \in Colors : EnterName(name, color)
  <2>1. UNCHANGED <<db, tags, rec, disturbed>>
    BY <1>2 DEF Submit, Refresh, EnterName
  <2>2. \E r : r.rank = 0 /\ reqs' = Append(reqs, r)
    BY <1>2 DEF Submit, Refresh, EnterName, StoryRequest, TagsRequest, CreateTagRequest
  <2> QED BY <2>1, <2>2, AgreedAsked
<1>3. CASE ReloadTags \/ \E p \in {"library", "manage"} : Goto(p)
  BY <1>3, ReloadAgreed, GotoAgreed
<1>4. ASSUME NEW t \in 1 .. MaxIds,
             (\E mode \in {"rename", "color", "delete"} : OpenRow(t, mode)) \/ CloseRow(t) \/ Delete(t)
               \/ (\E name \in Names : Rename(t, name)) \/ (\E color \in Colors : Recolor(t, color))
      PROVE  TagsAgreed'
  <2>1. UNCHANGED <<db, tags, rec, disturbed>>
    BY <1>4 DEF OpenRow, CloseRow, Delete, Rename, Recolor
  <2>2. reqs' = reqs \/ \E r : r.rank = 0 /\ reqs' = Append(reqs, r)
    BY <1>4 DEF OpenRow, CloseRow, Delete, Rename, Recolor, Send, DeleteTagRequest, UpdateTagRequest
  <2> QED BY <2>1, <2>2, AgreedAsked
<1> QED BY <1>1, <1>2, <1>3, <1>4 DEF TagUserActs

\* A request is served as its handler does.
LEMMA ServedAgreed ==
  ASSUME TagShape, TagsAgreed, NEW i \in DOMAIN reqs, NEW res, Unserved(i), reqs' = Served(i, res),
         UNCHANGED <<tags, rec, disturbed>>, LibraryOK(db'),
         \A p : DOMAIN p = DOMAIN reqs[i] /\ (\A f \in DOMAIN reqs[i] \ {"rank", "res"} : p[f] = reqs[i][f])
                  /\ p.res = res => Serves(p, db, db')
  PROVE  TagsAgreed'
<1> SUFFICES ASSUME ~ disturbed
             PROVE  \E P : Chain(reqs', P, db') /\ (tags' # Null => Mirrors(P[0], tags', rec'))
  BY DEF TagsAgreed
<1>1. PICK P : Chain(reqs, P, db) /\ (tags # Null => Mirrors(P[0], tags, rec))
  BY DEF TagsAgreed
<1>2. /\ DOMAIN reqs' = DOMAIN reqs
      /\ \A j \in DOMAIN reqs \ {i} : reqs'[j] = reqs[j]
      /\ DOMAIN reqs'[i] = DOMAIN reqs[i] /\ \A f \in DOMAIN reqs[i] \ {"rank", "res"} : reqs'[i][f] = reqs[i][f]
      /\ reqs'[i].res = res /\ reqs'[i].rank = 1 + Cardinality(Answerable(reqs))
  BY TagServed
<1>3. Serves(reqs'[i], db, db')
  BY <1>2
<1>4. reqs[i].rank = 0 /\ Listed(reqs) /\ Ranked(reqs)
  BY TagShapeIs DEF Unserved
<1>5. \E R : Chain(reqs', R, db') /\ R[0] = P[0]
  BY <1>1, <1>2, <1>3, <1>4, ChainServed
<1> QED BY <1>1, <1>5

LEMMA TagApiAgreed ==
  ASSUME TagShape, TagsAgreed, NEW i \in DOMAIN reqs, TagApiActs(i)  PROVE TagsAgreed'
<1> DEFINE r == reqs[i]
<1>1. UNCHANGED <<tags, rec, disturbed>>
  BY DEF TagApiActs
<1>2. LibraryOK(db') /\ TagRequestOK(r, rec, db.next)
  <2>1. TagShape'
    BY TagApiShape
  <2> QED BY <2>1, TagShapeIs DEF TagShape, TagStoreOK
<1> DEFINE IsServed(p, res) ==
             /\ DOMAIN p = DOMAIN r /\ (\A f \in DOMAIN r \ {"rank", "res"} : p[f] = r[f])
             /\ p.res = res
<1>3. ASSUME NEW p, NEW res, IsServed(p, res)
      PROVE  /\ p.op = r.op
             /\ r.op = "tags" => p.counted = r.counted
             /\ r.op = "create" => p.name = r.name /\ p.color = r.color
             /\ r.op = "update" => p.id = r.id /\ p.name = r.name /\ p.color = r.color
             /\ r.op = "delete" => p.id = r.id
             /\ r.op = "story" => p.chosen = r.chosen
  <2> HIDE DEF r
  <2>1. p.op = r.op
    BY <1>2, <1>3 DEF TagRequestOK
  <2>2. r.op = "tags" => p.counted = r.counted
    BY <1>2, <1>3 DEF TagRequestOK, ListAnswerOK
  <2>3. r.op = "create" => p.name = r.name /\ p.color = r.color
    BY <1>2, <1>3 DEF TagRequestOK, CreationOK
  <2>4. r.op = "update" => p.id = r.id /\ p.name = r.name /\ p.color = r.color
    BY <1>2, <1>3 DEF TagRequestOK, ChangeOK
  <2>5. r.op = "delete" => p.id = r.id
    BY <1>2, <1>3 DEF TagRequestOK, DeletionOK
  <2>6. r.op = "story" => p.chosen = r.chosen
    BY <1>2, <1>3 DEF TagRequestOK
  <2> QED BY <2>1, <2>2, <2>3, <2>4, <2>5, <2>6
<1>4. CASE ServeTags(i)
  <2> DEFINE res == [t \in DOMAIN ListTags(db) |-> Record(ListTags(db)[t], r.counted)]
  <2>1. r.op = "tags" /\ Unserved(i) /\ reqs' = Served(i, res) /\ db' = db
    BY <1>4 DEF ServeTags
  <2>2. ASSUME NEW p, IsServed(p, res) PROVE Serves(p, db, db')
    <3>1. p.op = "tags" /\ p.counted = r.counted /\ p.res = res
      BY <1>3, <2>1, <2>2
    <3> HIDE DEF IsServed
    <3> QED BY <2>1, <3>1 DEF Serves
  <2> HIDE DEF res
  <2> QED BY <1>1, <1>2, <2>1, <2>2, ServedAgreed
<1>5. CASE ServeCreateTag(i)
  <2> DEFINE out == CreateTag(db, r.name, r.color)
  <2>1. r.op = "create" /\ Unserved(i) /\ reqs' = Served(i, out.res) /\ db' = out.db /\ out = Result(out.db, out.res)
    BY <1>5 DEF ServeCreateTag, CreateTag, Result
  <2>2. ASSUME NEW p, IsServed(p, out.res) PROVE Serves(p, db, db')
    <3>1. p.op = "create" /\ p.name = r.name /\ p.color = r.color /\ p.res = out.res
      BY <1>3, <2>1, <2>2
    <3>2. Result(db', p.res) = CreateTag(db, p.name, p.color)
      BY <2>1, <3>1
    <3> QED BY <3>1, <3>2 DEF Serves
  <2> HIDE DEF out
  <2> QED BY <1>1, <1>2, <2>1, <2>2, ServedAgreed
<1>6. CASE ServeUpdateTag(i)
  <2> DEFINE out == UpdateTag(db, r.id, r.name, r.color)
  <2>1. r.op = "update" /\ Unserved(i) /\ reqs' = Served(i, out.res) /\ db' = out.db
    BY <1>6 DEF ServeUpdateTag
  <2>2. out = Result(out.db, out.res)
    BY DEF UpdateTag, Result
  <2>3. ASSUME NEW p, IsServed(p, out.res) PROVE Serves(p, db, db')
    <3>1. p.op = "update" /\ p.id = r.id /\ p.name = r.name /\ p.color = r.color /\ p.res = out.res
      BY <1>3, <2>1, <2>3
    <3>2. Result(db', p.res) = UpdateTag(db, p.id, p.name, p.color)
      BY <2>1, <2>2, <3>1
    <3> QED BY <3>1, <3>2 DEF Serves
  <2> HIDE DEF out
  <2> QED BY <1>1, <1>2, <2>1, <2>3, ServedAgreed
<1>7. CASE ServeDeleteTag(i)
  <2> DEFINE out == DeleteTag(db, r.id)
  <2>1. r.op = "delete" /\ Unserved(i) /\ reqs' = Served(i, out.res) /\ db' = out.db
    BY <1>7 DEF ServeDeleteTag
  <2>2. out = Result(out.db, out.res)
    BY DEF DeleteTag, Result
  <2>3. ASSUME NEW p, IsServed(p, out.res) PROVE Serves(p, db, db')
    <3>1. p.op = "delete" /\ p.id = r.id /\ p.res = out.res
      BY <1>3, <2>1, <2>3
    <3>2. Result(db', p.res) = DeleteTag(db, p.id)
      BY <2>1, <2>2, <3>1
    <3> QED BY <3>1, <3>2 DEF Serves
  <2> HIDE DEF out
  <2> QED BY <1>1, <1>2, <2>1, <2>3, ServedAgreed
<1>8. CASE ServeStory(i)
  <2> DEFINE out == CreateStory(db, TRUE, AnyTitle, r.chosen)
  <2>1. r.op = "story" /\ Unserved(i) /\ reqs' = Served(i, out.res) /\ db' = out.db
    BY <1>8 DEF ServeStory, AnyTitle
  <2>2. out = Result(out.db, out.res)
    BY DEF CreateStory, Result
  <2>3. ASSUME NEW p, IsServed(p, out.res) PROVE Serves(p, db, db')
    <3>1. p.op = "story" /\ p.chosen = r.chosen /\ p.res = out.res
      BY <1>3, <2>1, <2>3
    <3>2. Result(db', p.res) = CreateStory(db, TRUE, AnyTitle, p.chosen)
      BY <2>1, <2>2, <3>1
    <3> QED BY <3>1, <3>2 DEF Serves
  <2> HIDE DEF out
  <2> QED BY <1>1, <1>2, <2>1, <2>3, ServedAgreed
<1> QED BY <1>4, <1>5, <1>6, <1>7, <1>8 DEF TagApiActs

\* An answer in turn, of a request that was served when the library was d.
LEMMA AnsweredAgreed ==
  ASSUME TagShape, TagsAgreed, NEW i \in DOMAIN reqs, TagAnswered(i), db' = db,
         \A d, e : /\ LibraryOK(d) /\ LibraryOK(e) /\ Serves(reqs[i], d, e)
                   /\ tags # Null => Mirrors(d, tags, rec)
                   /\ tags' # Null
                   => Mirrors(e, tags', rec')
  PROVE  TagsAgreed'
<1> SUFFICES ASSUME ~ disturbed'
             PROVE  \E P : Chain(reqs', P, db') /\ (tags' # Null => Mirrors(P[0], tags', rec'))
  BY DEF TagsAgreed
<1>1. ~ disturbed /\ ~ (reqs[i].rank > 1) /\ reqs' = Rest(i) /\ reqs[i].rank # 0
  BY DEF TagAnswered, Overtakes, Unserved
<1>2. PICK P : Chain(reqs, P, db) /\ (tags # Null => Mirrors(P[0], tags, rec))
  BY <1>1 DEF TagsAgreed
<1>3. reqs[i].rank \in Nat /\ Listed(reqs) /\ Ranked(reqs)
  BY TagShapeIs DEF TagRequestOK
<1>4. reqs[i].rank = 1 /\ i \in Answerable(reqs)
  BY <1>1, <1>3 DEF Answerable
<1>5. Cardinality(Answerable(reqs)) \in Nat /\ 1 \in 0 .. Cardinality(Answerable(reqs))
  BY <1>3, <1>4, AnswerableFinite DEF Ranked
<1>6. LibraryOK(P[0]) /\ LibraryOK(P[1]) /\ Serves(reqs[i], P[0], P[1])
  <2>1. 0 \in 0 .. Cardinality(Answerable(reqs)) /\ 1 - 1 = 0
    BY <1>5
  <2> QED BY <1>2, <1>4, <1>5, <2>1 DEF Chain
<1>7. TagQueueOK(reqs, rec, db.next) /\ Less(Rest(i), reqs, i)
  BY TagRest DEF TagShape
<1>8. \E R : Chain(Rest(i), R, db) /\ R[0] = P[1]
  <2>1. ~ (reqs[i].rank > 1)
    BY <1>1
  <2> QED BY <1>2, <1>4, <1>7, <2>1, ChainLess
<1> QED BY <1>1, <1>2, <1>6, <1>8

LEMMA AnswerTagsAgreed ==
  ASSUME TagShape, TagsAgreed, NEW i \in DOMAIN reqs, AnswerTags(i), UNCHANGED <<db, page, changes>>
  PROVE  TagsAgreed'
<1> DEFINE r == reqs[i]
<1>1. r.op = "tags" /\ TagAnswered(i) /\ TagRequestOK(r, rec, db.next)
  BY TagShapeIs DEF AnswerTags
<1>2. ASSUME NEW d, NEW e, LibraryOK(d), LibraryOK(e), Serves(r, d, e)
      PROVE  Mirrors(e, tags', rec')
  <2>1. /\ tags' \in Seq(DOMAIN r.res) /\ ToSet(tags') = DOMAIN r.res
        /\ \A j, k \in DOMAIN tags' : tags'[j] = tags'[k] => j = k
        /\ \A t \in DOMAIN r.res : /\ rec'[t] \in TagRecords
                                   /\ rec'[t].name = r.res[t].name /\ rec'[t].color = r.res[t].color
    BY AnswerTagsIs
  <2>2. e = d /\ r.res = [t \in DOMAIN ListTags(d) |-> Record(ListTags(d)[t], r.counted)]
    BY <1>1, <1>2 DEF Serves
  <2>3. /\ DOMAIN r.res = DOMAIN d.tag /\ DOMAIN d.tag \subseteq Used(d.next)
        /\ \A t \in DOMAIN d.tag : r.res[t].name = d.tag[t].name /\ r.res[t].color = d.tag[t].color
    BY <1>2, <2>2, TagViewOK
  <2>4. Gone \notin TagRecords
    BY TagPagesAssumption, LibraryAssumption DEF TagRecords
  <2> HIDE DEF r
  <2> QED BY <2>1, <2>2, <2>3, <2>4 DEF Mirrors
<1> QED BY <1>1, <1>2, AnsweredAgreed

LEMMA AnswerCreateTagAgreed ==
  ASSUME TagShape, TagsAgreed, NEW i \in DOMAIN reqs, AnswerCreateTag(i), UNCHANGED <<db, page, changes>>
  PROVE  TagsAgreed'
<1> DEFINE r == reqs[i]
<1>1. r.op = "create" /\ TagAnswered(i)
  BY DEF AnswerCreateTag
<1>2. /\ tags # Null
      /\ Failed(r.res) => tags' = tags /\ rec' = rec
      /\ ~ Failed(r.res) =>
           /\ tags' = Append(tags, r.res.id)
           /\ rec'[r.res.id] \in TagRecords
           /\ rec'[r.res.id].name = r.res.tag.name /\ rec'[r.res.id].color = r.res.tag.color
           /\ \A u \in DOMAIN rec \ {r.res.id} : rec'[u] = rec[u]
  BY AnswerCreateTagIs
<1>3. ASSUME NEW d, NEW e, LibraryOK(d), LibraryOK(e), Serves(r, d, e), Mirrors(d, tags, rec)
      PROVE  Mirrors(e, tags', rec')
  <2> DEFINE out == CreateTag(d, r.name, r.color)
             id == d.next
  <2>1. out.db = e /\ out.res = r.res
    BY <1>1, <1>3 DEF Serves, Result
  <2>2. /\ id \in Nat \ {0}
        /\ \/ out.db = d /\ Failed(out.res)
           \/ /\ ~ Failed(out.res) /\ out.res.id = id /\ out.db.next = id + 1
              /\ out.res.tag.name = r.name /\ out.res.tag.color = r.color
              /\ DOMAIN out.db.tag = DOMAIN d.tag \cup {id}
              /\ out.db.tag[id].name = r.name /\ out.db.tag[id].color = r.color
              /\ \A u \in DOMAIN d.tag : u # id /\ out.db.tag[u] = d.tag[u]
    BY <1>3, CreateTagIs
  <2> HIDE DEF out, id
  <2>3. CASE Failed(r.res)
    BY <1>2, <1>3, <2>1, <2>2, <2>3
  <2>4. CASE ~ Failed(r.res)
    <3>1. /\ r.res.id = id /\ e.next = id + 1 /\ id = d.next
          /\ r.res.tag.name = r.name /\ r.res.tag.color = r.color
          /\ DOMAIN e.tag = DOMAIN d.tag \cup {id}
          /\ e.tag[id].name = r.name /\ e.tag[id].color = r.color
          /\ \A u \in DOMAIN d.tag : u # id /\ e.tag[u] = d.tag[u]
      BY <2>1, <2>2, <2>4 DEF id
    <3>2. /\ tags' = Append(tags, id) /\ rec'[id] \in TagRecords
          /\ rec'[id].name = r.name /\ rec'[id].color = r.color
          /\ \A u \in DOMAIN rec \ {id} : rec'[u] = rec[u]
      BY <1>2, <2>4, <3>1
    <3> HIDE DEF r
    <3>3. id \notin ToSet(tags) /\ Used(e.next) = Used(d.next) \cup {id}
      BY <1>3, <2>2, <3>1 DEF Mirrors, Used
    <3>4. tags \in Seq(DOMAIN rec) /\ ToSet(tags) \subseteq DOMAIN rec
      BY <1>2, TagsHere
    <3>5. tags \in Seq(DOMAIN rec \cup {id})
      BY <3>4
    <3>6. /\ ToSet(tags') = ToSet(tags) \cup {id}
          /\ \A j, k \in DOMAIN tags' : tags'[j] = tags'[k] => j = k
      BY <1>3, <3>2, <3>3, <3>5, ChipAdded DEF Mirrors
    <3>7. Gone \notin TagRecords
      BY TagPagesAssumption, LibraryAssumption DEF TagRecords
    <3>8. \A t \in ToSet(tags') :
            IF t \in DOMAIN e.tag
              THEN rec'[t] # Gone /\ rec'[t].name = e.tag[t].name /\ rec'[t].color = e.tag[t].color
              ELSE rec'[t] = Gone
      BY <1>3, <3>1, <3>2, <3>3, <3>4, <3>6, <3>7 DEF Mirrors
    <3>9. DOMAIN e.tag \subseteq ToSet(tags') /\ ToSet(tags') \subseteq Used(e.next)
      BY <1>3, <3>1, <3>3, <3>6 DEF Mirrors
    <3> QED BY <3>6, <3>8, <3>9 DEF Mirrors
  <2> QED BY <2>3, <2>4
<1> QED BY <1>1, <1>2, <1>3, AnsweredAgreed

LEMMA AnswerUpdateTagAgreed ==
  ASSUME TagShape, TagsAgreed, NEW i \in DOMAIN reqs, AnswerUpdateTag(i), UNCHANGED <<db, page, changes>>
  PROVE  TagsAgreed'
<1> DEFINE r == reqs[i]
<1>1. r.op = "update" /\ TagAnswered(i)
  BY DEF AnswerUpdateTag
<1>2. /\ tags # Null /\ tags' = tags
      /\ r.res = Null \/ Failed(r.res) => rec' = rec
      /\ ~ (r.res = Null \/ Failed(r.res)) =>
           /\ rec'[r.id] \in TagRecords
           /\ rec'[r.id].name = r.res.name /\ rec'[r.id].color = r.res.color
           /\ \A u \in DOMAIN rec \ {r.id} : rec'[u] = rec[u]
  BY AnswerUpdateTagIs
<1>3. ASSUME NEW d, NEW e, LibraryOK(d), LibraryOK(e), Serves(r, d, e), Mirrors(d, tags, rec)
      PROVE  Mirrors(e, tags', rec')
  <2> DEFINE out == UpdateTag(d, r.id, r.name, r.color)
             t == r.id
  <2>1. out.db = e /\ out.res = r.res
    BY <1>1, <1>3 DEF Serves, Result
  <2>2. /\ out.db.next = d.next
        /\ \/ out.db = d /\ (out.res = Null \/ Failed(out.res))
           \/ /\ out.res # Null /\ ~ Failed(out.res) /\ t \in DOMAIN d.tag
              /\ DOMAIN out.db.tag = DOMAIN d.tag
              /\ out.db.tag[t].name = out.res.name /\ out.db.tag[t].color = out.res.color
              /\ \A u \in DOMAIN d.tag : u # t => out.db.tag[u] = d.tag[u]
    BY <1>3, UpdateTagIs
  <2> HIDE DEF out, t
  <2>3. CASE r.res = Null \/ Failed(r.res)
    BY <1>2, <1>3, <2>1, <2>2, <2>3
  <2>4. CASE ~ (r.res = Null \/ Failed(r.res))
    <3>1. /\ e.next = d.next /\ t \in DOMAIN d.tag /\ DOMAIN e.tag = DOMAIN d.tag
          /\ e.tag[t].name = r.res.name /\ e.tag[t].color = r.res.color
          /\ \A u \in DOMAIN d.tag : u # t => e.tag[u] = d.tag[u]
      BY <2>1, <2>2, <2>4
    <3>2. /\ tags' = tags /\ rec'[t] \in TagRecords
          /\ rec'[t].name = r.res.name /\ rec'[t].color = r.res.color
          /\ \A u \in DOMAIN rec \ {t} : rec'[u] = rec[u]
      BY <1>2, <2>4 DEF t
    <3> HIDE DEF r
    <3>3. ToSet(tags) \subseteq DOMAIN rec
      BY <1>2, TagsHere
    <3>4. Gone \notin TagRecords
      BY TagPagesAssumption, LibraryAssumption DEF TagRecords
    <3> QED BY <1>3, <3>1, <3>2, <3>3, <3>4 DEF Mirrors
  <2> QED BY <2>3, <2>4
<1> QED BY <1>1, <1>2, <1>3, AnsweredAgreed

LEMMA AnswerDeleteTagAgreed ==
  ASSUME TagShape, TagsAgreed, NEW i \in DOMAIN reqs, AnswerDeleteTag(i), UNCHANGED <<db, page, changes>>
  PROVE  TagsAgreed'
<1> DEFINE r == reqs[i]
<1>1. r.op = "delete" /\ TagAnswered(i)
  BY DEF AnswerDeleteTag
<1>2. /\ tags # Null /\ tags' = tags
      /\ ~ r.res => rec' = rec
      /\ r.res => rec'[r.id] = Gone /\ \A u \in DOMAIN rec \ {r.id} : rec'[u] = rec[u]
  BY AnswerDeleteTagIs
<1>3. ASSUME NEW d, NEW e, LibraryOK(d), LibraryOK(e), Serves(r, d, e), Mirrors(d, tags, rec)
      PROVE  Mirrors(e, tags', rec')
  <2> DEFINE out == DeleteTag(d, r.id)
             t == r.id
  <2>1. out.db = e /\ out.res = r.res
    BY <1>1, <1>3 DEF Serves, Result
  <2>2. /\ out.db.next = d.next
        /\ (out.res = TRUE /\ t \in DOMAIN d.tag) \/ (out.res = FALSE /\ t \notin DOMAIN d.tag)
        /\ DOMAIN out.db.tag = DOMAIN d.tag \ {t}
        /\ \A u \in DOMAIN d.tag : u # t => out.db.tag[u] = d.tag[u]
    BY <1>3, DeleteTagIs
  <2> HIDE DEF out
  <2>3. /\ e.next = d.next /\ DOMAIN e.tag = DOMAIN d.tag \ {t}
        /\ \A u \in DOMAIN d.tag : u # t => e.tag[u] = d.tag[u]
        /\ (r.res /\ t \in DOMAIN d.tag) \/ (~ r.res /\ t \notin DOMAIN d.tag)
    BY <2>1, <2>2
  <2>4. CASE ~ r.res
    <3>1. rec' = rec /\ t \notin DOMAIN d.tag
      BY <1>2, <2>3, <2>4
    <3> HIDE DEF t, r
    <3> QED BY <1>2, <1>3, <2>3, <3>1 DEF Mirrors
  <2>5. CASE r.res
    <3>1. rec'[t] = Gone /\ (\A u \in DOMAIN rec \ {t} : rec'[u] = rec[u])
      BY <1>2, <2>5
    <3>2. ToSet(tags) \subseteq DOMAIN rec
      BY <1>2, TagsHere
    <3> HIDE DEF t, r
    <3> QED BY <1>2, <1>3, <2>3, <3>1, <3>2 DEF Mirrors
  <2> QED BY <2>4, <2>5
<1> QED BY <1>1, <1>2, <1>3, AnsweredAgreed

LEMMA AnswerStoryAgreed ==
  ASSUME TagShape, TagsAgreed, NEW i \in DOMAIN reqs, AnswerStory(i), UNCHANGED <<db, page, changes>>
  PROVE  TagsAgreed'
<1> DEFINE r == reqs[i]
<1>1. r.op = "story" /\ TagAnswered(i) /\ tags' = tags /\ rec' = rec /\ tags # Null
  BY TagsThere DEF AnswerStory
<1>2. ASSUME NEW d, NEW e, LibraryOK(d), LibraryOK(e), Serves(r, d, e), Mirrors(d, tags, rec)
      PROVE  Mirrors(e, tags', rec')
  <2>1. e = CreateStory(d, TRUE, AnyTitle, r.chosen).db
    <3>1. Result(e, r.res) = CreateStory(d, TRUE, AnyTitle, r.chosen)
      BY <1>1, <1>2 DEF Serves
    <3>2. Result(e, r.res).db = e
      BY DEF Result
    <3> QED BY <3>1, <3>2
  <2>2. AnyTitle \in Titles
    BY TagPagesAssumption DEF AnyTitle
  <2>3. e.tag = d.tag /\ e.next = d.next + 1 /\ d.next \in Nat
    BY <1>2, <2>1, <2>2, StoryLeavesTags DEF LibraryOK, IdsUsed
  <2>4. Used(d.next) \subseteq Used(e.next)
    BY <2>3 DEF Used
  <2> QED BY <1>1, <1>2, <2>3, <2>4 DEF Mirrors
<1> QED BY <1>1, <1>2, AnsweredAgreed

\* What is lost in turn has changed nothing.
LEMMA LoseTagAgreed ==
  ASSUME TagShape, TagsAgreed, NEW i \in DOMAIN reqs, LoseTagRequest(i)  PROVE TagsAgreed'
<1> DEFINE r == reqs[i]
<1> SUFFICES ASSUME ~ disturbed'
             PROVE  \E P : Chain(reqs', P, db') /\ (tags' # Null => Mirrors(P[0], tags', rec'))
  BY DEF TagsAgreed
<1>1. /\ ~ disturbed /\ (r.op = "tags" \/ r.rank = 0) /\ reqs' = Rest(i)
      /\ UNCHANGED <<db, tags, rec>>
  BY DEF LoseTagRequest, Unserved
<1>2. PICK P : Chain(reqs, P, db) /\ (tags # Null => Mirrors(P[0], tags, rec))
  BY <1>1 DEF TagsAgreed
<1>3. TagQueueOK(reqs, rec, db.next) /\ Less(Rest(i), reqs, i) /\ r.rank \in Nat
  BY TagRest, TagShapeIs DEF TagShape, TagRequestOK
<1>4. r.rank > 0 => P[r.rank] = P[r.rank - 1]
  <2> SUFFICES ASSUME r.rank > 0 PROVE P[r.rank] = P[r.rank - 1]
    OBVIOUS
  <2>1. r.op = "tags" /\ i \in Answerable(reqs)
    BY <1>1 DEF Answerable
  <2>2. Serves(r, P[r.rank - 1], P[r.rank])
    BY <1>2, <2>1 DEF Chain
  <2> QED BY <2>1, <2>2 DEF Serves
<1>5. \E R : Chain(Rest(i), R, db) /\ R[0] = P[IF r.rank = 1 THEN 1 ELSE 0]
  <2>1. r.rank > 1 => P[r.rank - 1] = P[r.rank]
    BY <1>3, <1>4
  <2> QED BY <1>2, <1>3, <2>1, ChainLess
<1>6. P[IF r.rank = 1 THEN 1 ELSE 0] = P[0]
  <2> HIDE DEF r
  <2>1. r.rank = 1 => r.rank > 0 /\ r.rank - 1 = 0
    BY <1>3
  <2> QED BY <1>4, <2>1
<1> QED BY <1>1, <1>2, <1>5, <1>6

LEMMA TagsAgreedStay == TagShape /\ TagsAgreed /\ [TagsNext]_tagsVars => TagsAgreed'
<1> SUFFICES ASSUME TagShape, TagsAgreed, [TagsNext]_tagsVars PROVE TagsAgreed'
  OBVIOUS
<1>1. CASE TagUserActs
  BY <1>1, TagsUserAgreed
<1>2. ASSUME NEW i \in DOMAIN reqs, TagApiActs(i) PROVE TagsAgreed'
  BY <1>2, TagApiAgreed
<1>3. ASSUME NEW i \in DOMAIN reqs, Answers(i) PROVE TagsAgreed'
  BY <1>3, AnswerTagsAgreed, AnswerCreateTagAgreed, AnswerUpdateTagAgreed, AnswerDeleteTagAgreed,
     AnswerStoryAgreed, LoseTagAgreed DEF Answers
<1>4. CASE ChangeTagsElsewhere
  BY <1>4 DEF ChangeTagsElsewhere, TagsAgreed
<1>5. CASE UNCHANGED tagsVars
  BY <1>5, AgreedAsked DEF tagsVars
<1> QED BY <1>1, <1>2, <1>3, <1>4, <1>5 DEF TagsNext

LEMMA AgreedIsListed == TagsAgreed => TagsListedOnce
  BY DEF TagsAgreed, TagsListedOnce, Mirrors

LEMMA AgreedIsQuietTags == TagsAgreed => TagsAgree
<1> SUFFICES ASSUME TagsAgreed, reqs = << >>, ~ disturbed, tags # Null
             PROVE  /\ DOMAIN db.tag \subseteq ToSet(tags)
                    /\ \A t \in ToSet(tags) :
                         IF t \in DOMAIN db.tag
                           THEN rec[t] # Gone /\ rec[t].name = db.tag[t].name /\ rec[t].color = db.tag[t].color
                           ELSE rec[t] = Gone
  BY DEF TagsAgree
<1>1. PICK P : Chain(reqs, P, db) /\ Mirrors(P[0], tags, rec)
  BY DEF TagsAgreed
<1>2. Answerable(reqs) = {}
  BY DEF Answerable
<1>3. P[0] = db
  BY <1>1, <1>2, FS_EmptySet DEF Chain
<1> QED BY <1>1, <1>3 DEF Mirrors

\* While the window's own changes are answered in turn, its list has no tag
\* twice: not after a query that crosses a creation, nor after one that is lost
\* (the updater of handleCreateTag in Library.tsx).
THEOREM TagsAlwaysListedOnce == TagsSpec => []TagsListedOnce
<1> QED BY TagsInitShape, TagShapeStays, TagsInitAgreed, TagsAgreedStay, AgreedIsListed, PTL DEF TagsSpec

\* When nothing is in flight, a window that alone has changed tags, and was
\* answered in turn, has every tag as the server has it, for any number of tags
\* and of changes in flight, refused or lost (Library.tsx, TagManagement.tsx).
THEOREM TagsAlwaysAgree == TagsSpec => []TagsAgree
<1> QED BY TagsInitShape, TagShapeStays, TagsInitAgreed, TagsAgreedStay, AgreedIsQuietTags, PTL DEF TagsSpec
-----------------------------------------------------------------------------
(* The chips of the form *)

\* ShownTag of requests q and records rc.
Overlaid(q, t) == {i \in DOMAIN q : q[i].op \in {"update", "delete"} /\ q[i].id = t}

ShownIn(q, rc, t) ==
  IF Overlaid(q, t) = {} THEN rc[t]
  ELSE LET r == q[Max(Overlaid(q, t))] IN IF r.op = "delete" THEN Gone ELSE r.opt

\* The tags of the list that have one of the names.
Bearers(ts, rc, names) == {t \in ToSet(ts) : \E n \in names : SameName(rc[t].name, n)}

\* The form has the tags picked and those of the names entered; no two tags
\* have a name that was entered.
FormFits(f, a, ts, rc) ==
  /\ f.pending \in a.names \cup {Null}
  /\ ~ f.open => a.names = {}
  /\ ToSet(f.selected) = a.tags \cup Bearers(ts, rc, a.names)
  /\ \A n \in a.names : \A t, u \in Bearers(ts, rc, {n}) : t = u

\* While names are entered no tag is changed, and none created but for the form;
\* a tag that is created for it is of a name entered that no tag has, and the
\* form has the chips that it had.
QueueFits(q, f, a, ts, rc) ==
  /\ a.names # {} => \A i \in DOMAIN q : q[i].op # "update" /\ (q[i].op = "create" => q[i].here)
  /\ \A i \in DOMAIN q : q[i].op = "create" /\ q[i].here =>
       /\ q[i].name \in a.names /\ q[i].chosen = f.selected /\ Bearers(ts, rc, {q[i].name}) = {}
       /\ \A j \in DOMAIN q : q[j].op = "create" => j = i

\* The window's own changes are answered in turn, and the user does nothing
\* that the form cannot cope with.
Orderly == page = "library" /\ ~ crashed /\ tags # Null /\ ~ asked.touched /\ ~ disturbed

ChipsFit == Orderly => FormFits(form, asked, tags, rec) /\ QueueFits(reqs, form, asked, tags, rec)

LEMMA ShownTagIs ==
  /\ \A t : Overlays(t) = Overlaid(reqs, t) /\ ShownTag(t) = ShownIn(reqs, rec, t)
  /\ \A t : Overlays(t)' = Overlaid(reqs', t) /\ ShownTag(t)' = ShownIn(reqs', rec', t)
<1>1. \A t : Overlays(t) = Overlaid(reqs, t)
  BY DEF Overlays, InFlight, Overlaid
<1>2. \A t : Overlays(t)' = Overlaid(reqs', t)
  BY DEF Overlays, InFlight, Overlaid
<1>3. \A t : ShownTag(t) = ShownIn(reqs, rec, t)
  BY <1>1 DEF ShownTag, ShownIn
<1>4. \A t : ShownTag(t)' = ShownIn(reqs', rec', t)
  BY <1>2 DEF ShownTag, ShownIn
<1> QED BY <1>1, <1>2, <1>3, <1>4

\* While no tag is changed, a tag that is not deleted is shown as the store has
\* it.
LEMMA ShownPlain ==
  ASSUME NEW q, NEW rc, NEW t, Listed(q), \A i \in DOMAIN q : q[i].op # "update", ShownIn(q, rc, t) # Gone
  PROVE  Overlaid(q, t) = {} /\ ShownIn(q, rc, t) = rc[t]
<1> DEFINE S == Overlaid(q, t)
<1>1. S = {}
  <2> SUFFICES ASSUME S # {} PROVE FALSE
    OBVIOUS
  <2>1. Len(q) \in Nat /\ S \in SUBSET (1 .. Len(q))
    BY ListedIs DEF Overlaid
  <2>2. \E m \in S : \A s \in S : s <= m
    BY <2>1, GreatestId
  <2>3. Max(S) \in S
    BY <2>1, <2>2 DEF Max
  <2>4. q[Max(S)].op = "delete"
    BY <2>3 DEF Overlaid
  <2> QED BY <2>4 DEF ShownIn
<1> QED BY <1>1 DEF ShownIn

\* A page that is shown has only tags that are there.
LEMMA TagsPlain ==
  ASSUME TagShape, page = "library", ~ crashed, tags # Null,
         \A i \in DOMAIN reqs : reqs[i].op # "update"
  PROVE  /\ DOMAIN Available = ToSet(tags)
         /\ \A t \in ToSet(tags) : /\ rec[t] # Gone /\ Overlaid(reqs, t) = {}
                                   /\ Available[t] = rec[t].name
<1>1. ~ Suspended /\ ~ Broken
  BY DEF Suspended, TagShape
<1>2. \A t \in ToSet(tags) : ShownTag(t) # Gone
  BY <1>1 DEF Broken
<1>3. \A t \in ToSet(tags) : Overlaid(reqs, t) = {} /\ ShownTag(t) = rec[t]
  BY <1>2, TagShapeIs, ShownTagIs, ShownPlain
<1>4. DOMAIN Available = ToSet(tags) /\ \A t \in ToSet(tags) : Available[t] = ShownTag(t).name
  BY <1>2 DEF Available
<1> QED BY <1>2, <1>3, <1>4

\* The effect of TagInput finds nothing to do in a form that fits.
LEMMA RenderFits ==
  ASSUME NEW f, TagShape', Render(f), Orderly',
         FormFits(f, asked', tags', rec'), QueueFits(reqs', f, asked', tags', rec')
  PROVE  form' = f
<1> SUFFICES ASSUME f.open PROVE AutoSelect(f, Available') = f
  BY DEF Render
<1> DEFINE match == {t \in DOMAIN Available' : f.pending # Null /\ SameName((Available')[t], f.pending)}
           new == CHOOSE t \in match : TRUE
<1>1. CASE match = {}
  BY <1>1 DEF AutoSelect
<1>2. CASE match # {}
  <2>1. new \in DOMAIN Available' /\ f.pending # Null /\ SameName((Available')[new], f.pending)
    BY <1>2
  <2> HIDE DEF new
  <2>2. PICK t \in DOMAIN Available' : t = new
    BY <2>1
  <2>3. f.pending \in (asked').names
    BY <2>1 DEF FormFits
  <2>4. Listed(reqs') /\ \A i \in DOMAIN reqs' : reqs'[i].op # "update"
    BY <2>3 DEF QueueFits, TagShape, TagQueueOK
  <2>5. t \in ToSet(tags') /\ ShownTag(t)' # Gone /\ (Available')[t] = ShownTag(t)'.name
    BY DEF Available, Orderly
  <2>6. ShownTag(t)' = rec'[t]
    BY <2>4, <2>5, ShownTagIs, ShownPlain
  <2>7. t \in ToSet(f.selected)
    BY <2>1, <2>2, <2>3, <2>5, <2>6 DEF FormFits, Bearers
  <2> QED BY <2>2, <2>7 DEF AutoSelect, new
<1> QED BY <1>1, <1>2

LEMMA FitsRendered ==
  ASSUME NEW f, TagShape', Render(f),
         Orderly' => FormFits(f, asked', tags', rec') /\ QueueFits(reqs', f, asked', tags', rec')
  PROVE  ChipsFit'
  BY RenderFits DEF ChipsFit

\* The requests of w are among those of q, but for one that concerns no form.
Among(w, q) ==
  \A i \in DOMAIN w :
    w[i].op \in {"create", "update"} =>
      \E j \in DOMAIN q :
        /\ w[i].op = q[j].op /\ w[i].here = q[j].here
        /\ w[i].op = "create" => w[i].name = q[j].name /\ w[i].chosen = q[j].chosen
        /\ \A k \in DOMAIN w : w[k].op = "create" /\ k # i => \E l \in DOMAIN q : l # j /\ q[l].op = "create"

LEMMA QueueFitsAmong ==
  ASSUME NEW w, NEW q, NEW f, NEW a, NEW ts, NEW rc, Among(w, q), QueueFits(q, f, a, ts, rc)
  PROVE  QueueFits(w, f, a, ts, rc)
<1>1. ASSUME a.names # {}, NEW i \in DOMAIN w
      PROVE  w[i].op # "update" /\ (w[i].op = "create" => w[i].here)
  BY <1>1 DEF Among, QueueFits
<1>2. ASSUME NEW i \in DOMAIN w, w[i].op = "create", w[i].here
      PROVE  /\ w[i].name \in a.names /\ w[i].chosen = f.selected /\ Bearers(ts, rc, {w[i].name}) = {}
             /\ \A j \in DOMAIN w : w[j].op = "create" => j = i
  <2>1. PICK j \in DOMAIN q :
          /\ w[i].op = q[j].op /\ w[i].here = q[j].here
          /\ w[i].op = "create" => w[i].name = q[j].name /\ w[i].chosen = q[j].chosen
          /\ \A k \in DOMAIN w : w[k].op = "create" /\ k # i => \E l \in DOMAIN q : l # j /\ q[l].op = "create"
    BY <1>2 DEF Among
  <2>2. q[j].op = "create" /\ q[j].here
    BY <1>2, <2>1
  <2>3. /\ q[j].name \in a.names /\ q[j].chosen = f.selected /\ Bearers(ts, rc, {q[j].name}) = {}
        /\ \A l \in DOMAIN q : q[l].op = "create" => l = j
    BY <2>2 DEF QueueFits
  <2>4. w[i].name = q[j].name /\ w[i].chosen = q[j].chosen
    BY <1>2, <2>1
  <2> QED BY <2>1, <2>3, <2>4
<1> QED BY <1>1, <1>2 DEF QueueFits

\* A request is made that is none of the form's.
LEMMA AmongMore ==
  ASSUME NEW q, NEW r, Listed(q), r.op \notin {"create", "update"}
  PROVE  Among(Append(q, r), q)
<1> DEFINE a == Append(q, r)
<1>1. /\ DOMAIN a = 1 .. Len(q) + 1 /\ \A i \in DOMAIN q : a[i] = q[i]
      /\ a[Len(q) + 1] = r /\ Len(q) \in Nat /\ DOMAIN q = 1 .. Len(q)
  BY AppendIs, ListedIs
<1> HIDE DEF a
<1>2. \A i \in DOMAIN a : a[i].op \in {"create", "update"} => i \in DOMAIN q /\ a[i] = q[i]
  BY <1>1
<1>3. \A k \in DOMAIN a : a[k].op = "create" => k \in DOMAIN q /\ q[k].op = "create"
  BY <1>2
<1> QED BY <1>2, <1>3 DEF Among, a

\* A request is dropped.
LEMMA AmongLess ==
  ASSUME NEW q, NEW w, NEW i \in DOMAIN q, NEW rc, NEW n, TagQueueOK(q, rc, n), Less(w, q, i)
  PROVE  Among(w, q)
<1>1. Len(q) \in Nat /\ DOMAIN q = 1 .. Len(q) /\ DOMAIN w = 1 .. Len(q) - 1
  BY ListedIs DEF TagQueueOK, Less
<1>2. \A j, k \in DOMAIN w : Old(i, j) = Old(i, k) => j = k
  BY <1>1, OldIs
<1>3. ASSUME NEW j \in DOMAIN w
      PROVE  /\ Old(i, j) \in DOMAIN q /\ w[j].op = q[Old(i, j)].op /\ w[j].here = q[Old(i, j)].here
             /\ w[j].op = "create" => w[j].name = q[Old(i, j)].name /\ w[j].chosen = q[Old(i, j)].chosen
  <2> DEFINE r == q[Old(i, j)]
  <2>1. Old(i, j) \in DOMAIN q /\ Moved(w[j], r) /\ TagRequestOK(r, rc, n)
    BY DEF Less, TagQueueOK
  <2> HIDE DEF r
  <2>2. w[j].op = r.op /\ w[j].here = r.here
    BY <2>1 DEF Moved, TagRequestOK
  <2>3. w[j].op = "create" => w[j].name = r.name /\ w[j].chosen = r.chosen
    BY <2>1, <2>2 DEF Moved, TagRequestOK, CreationOK
  <2> QED BY <2>1, <2>2, <2>3 DEF r
<1> QED BY <1>2, <1>3 DEF Among

\* The form is emptied while nothing is created for it.
LEMMA EmptyFits ==
  ASSUME NEW q, NEW a, NEW ts, NEW rc, a.tags = {}, a.names = {},
         \A i \in DOMAIN q : ~ (q[i].op = "create" /\ q[i].here)
  PROVE  FormFits(EmptyForm, a, ts, rc) /\ QueueFits(q, EmptyForm, a, ts, rc)
<1>1. EmptyForm.pending = Null /\ ToSet(EmptyForm.selected) = {}
  BY DEF EmptyForm, ToSet
<1>2. Bearers(ts, rc, a.names) = {}
  BY DEF Bearers
<1> QED BY <1>1, <1>2 DEF FormFits, QueueFits

\* Without names the list does not matter.
LEMMA NamelessFits ==
  ASSUME NEW q, NEW f, NEW a, NEW ts, NEW rc, NEW us, NEW sc, a.names = {},
         FormFits(f, a, ts, rc), QueueFits(q, f, a, ts, rc)
  PROVE  FormFits(f, a, us, sc) /\ QueueFits(q, f, a, us, sc)
<1>1. Bearers(ts, rc, a.names) = {} /\ Bearers(us, sc, a.names) = {}
  BY DEF Bearers
<1> QED BY <1>1 DEF FormFits, QueueFits
-----------------------------------------------------------------------------
(* Every step keeps the chips in order *)

\* A step that leaves the form and the list alone.
LEMMA FitsAlone ==
  ASSUME TagShape', ChipsFit, Render(form), UNCHANGED <<tags, rec, page, asked>>,
         disturbed => disturbed', Among(reqs', reqs)
  PROVE  ChipsFit'
<1>1. Orderly' => Orderly
  BY DEF Orderly, Render
<1>2. Orderly' => FormFits(form, asked', tags', rec') /\ QueueFits(reqs', form, asked', tags', rec')
  BY <1>1, QueueFitsAmong DEF ChipsFit
<1> QED BY <1>2, FitsRendered

LEMMA AmongItself == \A q : Among(q, q)
  BY DEF Among

LEMMA ExpandFits == TagShape' /\ ChipsFit /\ Expand => ChipsFit'
<1> SUFFICES ASSUME TagShape', ChipsFit, Expand PROVE ChipsFit'
  OBVIOUS
<1> DEFINE f == [form EXCEPT !.open = TRUE]
<1>1. Render(f) /\ UNCHANGED <<reqs, tags, rec, page, asked, disturbed>>
  BY DEF Expand
<1>2. Orderly' => Orderly
  BY <1>1 DEF Orderly, Render
<1>3. FormFits(form, asked, tags, rec) => FormFits(f, asked, tags, rec)
  BY DEF FormFits
<1>4. QueueFits(reqs, form, asked, tags, rec) => QueueFits(reqs, f, asked, tags, rec)
  BY DEF QueueFits
<1> HIDE DEF f
<1> QED BY <1>1, <1>2, <1>3, <1>4, FitsRendered DEF ChipsFit

\* While names are entered every tag of the list is shown as the store has it.
LEMMA NamesPlain ==
  ASSUME TagShape, ChipsFit, Orderly, asked.names # {}
  PROVE  /\ DOMAIN Available = ToSet(tags)
         /\ \A t \in ToSet(tags) : /\ rec[t] # Gone /\ Overlaid(reqs, t) = {}
                                   /\ Available[t] = rec[t].name
  BY TagsPlain DEF ChipsFit, Orderly, QueueFits

LEMMA CancelFits == TagShape' /\ ChipsFit /\ Cancel => ChipsFit'
<1> SUFFICES ASSUME TagShape', Cancel PROVE ChipsFit'
  OBVIOUS
<1>1. /\ Render(EmptyForm) /\ reqs' = reqs
      /\ (asked').tags = {} /\ (asked').names = {} /\ (asked').touched = Meddles
  BY DEF Cancel, NoWishes
<1>2. Orderly' => \A i \in DOMAIN reqs' : ~ (reqs'[i].op = "create" /\ reqs'[i].here)
  BY <1>1 DEF Orderly, Meddles, InFlight
<1>3. Orderly' => FormFits(EmptyForm, asked', tags', rec') /\ QueueFits(reqs', EmptyForm, asked', tags', rec')
  BY <1>1, <1>2, EmptyFits
<1> QED BY <1>1, <1>3, FitsRendered

LEMMA PickFits ==
  ASSUME NEW t \in DOMAIN Available, TagShape, TagShape', ChipsFit, Pick(t)  PROVE ChipsFit'
<1> DEFINE f == [form EXCEPT !.selected = Append(form.selected, t)]
<1>1. /\ Render(f) /\ UNCHANGED <<reqs, tags, rec, page, disturbed>>
      /\ asked' = [asked EXCEPT !.tags = asked.tags \cup {t}, !.touched = asked.touched \/ Meddles]
      /\ OnForm /\ t \notin ToSet(form.selected)
  BY DEF Pick
<1>2. /\ (asked').tags = asked.tags \cup {t} /\ (asked').names = asked.names
      /\ (asked').touched = (asked.touched \/ Meddles)
  BY <1>1 DEF TagShape, Wishes
<1>3. Orderly' => Orderly /\ ~ Meddles
  BY <1>1, <1>2 DEF Orderly, Render
<1>4. f.pending = form.pending /\ f.open = form.open /\ ToSet(f.selected) = ToSet(form.selected) \cup {t}
  <2>1. t \in DOMAIN rec /\ FormOK(form, rec)
    BY <1>1, TagsHere DEF OnForm, OnPage, Suspended, TagShape
  <2> QED BY <1>1, <2>1, FormAdds DEF FormOK
<1> HIDE DEF f
<1>5. FormFits(form, asked, tags, rec) => FormFits(f, asked', tags', rec')
  BY <1>1, <1>2, <1>4 DEF FormFits
<1>6. QueueFits(reqs, form, asked, tags, rec) /\ ~ Meddles => QueueFits(reqs', f, asked', tags', rec')
  BY <1>1, <1>2 DEF QueueFits, Meddles, InFlight
<1> QED BY <1>1, <1>3, <1>5, <1>6, FitsRendered DEF ChipsFit

\* The tag whose chip is removed takes its names along; no other has them.
LEMMA RemoveChipFits ==
  ASSUME NEW i \in DOMAIN form.selected, TagShape, TagShape', ChipsFit, RemoveChip(i)  PROVE ChipsFit'
<1> DEFINE t == form.selected[i]
           s == RemoveAt(form.selected, i)
           f == [form EXCEPT !.selected = s]
<1>1. /\ Render(f) /\ UNCHANGED <<reqs, tags, rec, page, disturbed>> /\ OnForm
      /\ (asked').tags = asked.tags \ {t}
      /\ (asked').names = {n \in asked.names : ~ Bears(t, n)}
      /\ (asked').touched = (asked.touched \/ Meddles \/ Bears(t, form.pending))
  BY DEF RemoveChip
<1>2. Orderly' => Orderly /\ ~ Meddles /\ ~ Bears(t, form.pending)
  BY <1>1 DEF Orderly, Render
<1>3. f.pending = form.pending /\ f.open = form.open /\ ToSet(f.selected) = ToSet(form.selected) \ {t}
  <2>1. FormOK(form, rec)
    BY DEF TagShape
  <2>2. ToSet(s) = ToSet(form.selected) \ {t}
    BY <2>1, ChipRemoved DEF FormOK, ChipsOK
  <2> HIDE DEF s
  <2> QED BY <2>1, <2>2 DEF FormOK
<1> HIDE DEF t, f
<1>4. ASSUME Orderly, FormFits(form, asked, tags, rec)
      PROVE  Bearers(tags, rec, (asked').names) = Bearers(tags, rec, asked.names) \ {t}
  <2>1. CASE asked.names = {}
    BY <1>1, <2>1 DEF Bearers
  <2>2. CASE asked.names # {}
    <3>1. /\ DOMAIN Available = ToSet(tags)
          /\ \A u \in ToSet(tags) : Available[u] = rec[u].name
      BY <1>4, <2>2, NamesPlain
    <3>2. \A n \in asked.names : n # Null
      BY LibraryAssumption DEF TagShape, Wishes
    <3>3. \A n \in asked.names : Bears(t, n) <=> t \in Bearers(tags, rec, {n})
      BY <3>1, <3>2 DEF Bears, Bearers
    <3>4. \A n \in asked.names : \A u \in Bearers(tags, rec, {n}) : Bears(t, n) => u = t
      BY <1>4, <3>3 DEF FormFits
    <3>5. \A u, M : u \in Bearers(tags, rec, M) <=> \E n \in M : u \in Bearers(tags, rec, {n})
      BY DEF Bearers
    <3>6. ASSUME NEW u PROVE u \in Bearers(tags, rec, (asked').names) <=> u \in Bearers(tags, rec, asked.names) /\ u # t
      <4> DEFINE has(n) == u \in Bearers(tags, rec, {n})
      <4>1. \A n \in asked.names : Bears(t, n) /\ has(n) => u = t
        BY <3>4
      <4>2. \A n \in asked.names : u = t => (Bears(t, n) <=> has(n))
        BY <3>3
      <4>3. u \in Bearers(tags, rec, asked.names) <=> \E n \in asked.names : has(n)
        BY <3>5
      <4>4. u \in Bearers(tags, rec, (asked').names) <=> \E n \in asked.names : ~ Bears(t, n) /\ has(n)
        BY <1>1, <3>5
      <4> HIDE DEF has
      <4> QED BY <4>1, <4>2, <4>3, <4>4
    <3> QED BY <3>6
  <2> QED BY <2>1, <2>2
<1>5. Orderly /\ FormFits(form, asked, tags, rec) /\ ~ Bears(t, form.pending) => FormFits(f, asked', tags', rec')
  BY <1>1, <1>3, <1>4 DEF FormFits
<1>6. QueueFits(reqs, form, asked, tags, rec) /\ ~ Meddles => QueueFits(reqs', f, asked', tags', rec')
  BY <1>1 DEF QueueFits, Meddles, InFlight
<1> QED BY <1>1, <1>2, <1>5, <1>6, FitsRendered DEF ChipsFit

\* A name that no tag has is entered.
LEMMA EnterNameFits ==
  ASSUME NEW name \in Names, NEW color \in Colors, TagShape, TagShape', ChipsFit, EnterName(name, color)
  PROVE  ChipsFit'
<1> DEFINE f == [form EXCEPT !.pending = name]
           r == CreateTagRequest(name, color, form.selected)
           busy == InFlight("create") \cup InFlight("update") # {}
<1>1. /\ Render(f) /\ UNCHANGED <<tags, rec, page, disturbed>> /\ OnForm /\ reqs' = Append(reqs, r)
      /\ asked' = [asked EXCEPT !.names = asked.names \cup {name}, !.touched = asked.touched \/ busy]
      /\ \A t \in DOMAIN Available : ~ SameName(Available[t], name)
  BY DEF EnterName
<1>2. /\ (asked').tags = asked.tags /\ (asked').names = asked.names \cup {name}
      /\ (asked').touched = (asked.touched \/ busy)
  <2>1. asked \in Wishes
    BY DEF TagShape
  <2> HIDE DEF busy
  <2> QED BY <1>1, <2>1 DEF Wishes
<1>3. Orderly' => Orderly /\ ~ busy
  BY <1>1, <1>2 DEF Orderly, Render
<1>4. f.pending = name /\ f.open /\ f.selected = form.selected
  BY <1>1 DEF OnForm, TagShape, FormOK
<1>5. r.op = "create" /\ r.here /\ r.name = name /\ r.chosen = form.selected
  BY DEF CreateTagRequest
<1> HIDE DEF f, r
<1>6. ~ busy => \A i \in DOMAIN reqs : reqs[i].op \notin {"create", "update"}
  BY DEF InFlight
<1> HIDE DEF busy
<1>7. Orderly' => Bearers(tags, rec, {name}) = {}
  <2> SUFFICES ASSUME Orderly' PROVE Bearers(tags, rec, {name}) = {}
    OBVIOUS
  <2>1. /\ DOMAIN Available = ToSet(tags)
        /\ \A t \in ToSet(tags) : Available[t] = rec[t].name
    BY <1>3, <1>6, TagsPlain DEF Orderly
  <2> QED BY <1>1, <2>1 DEF Bearers
<1>8. Bearers(tags, rec, asked.names \cup {name}) = Bearers(tags, rec, asked.names) \cup Bearers(tags, rec, {name})
  BY DEF Bearers
<1>9. Orderly' /\ FormFits(form, asked, tags, rec) => FormFits(f, asked', tags', rec')
  BY <1>1, <1>2, <1>4, <1>7, <1>8 DEF FormFits
<1>10. Orderly' => QueueFits(reqs', f, asked', tags', rec')
  <2> SUFFICES ASSUME Orderly' PROVE QueueFits(reqs', f, asked', tags', rec')
    OBVIOUS
  <2> DEFINE a == Append(reqs, r)
             n == Len(reqs)
  <2>1. /\ n \in Nat /\ DOMAIN reqs = 1 .. n /\ DOMAIN a = 1 .. n + 1
        /\ \A i \in DOMAIN reqs : a[i] = reqs[i]
        /\ a[n + 1] = r
    BY TagShapeIs, AppendIs
  <2> HIDE DEF a, n
  <2>2. \A i \in DOMAIN a : a[i].op \notin {"create", "update"} \/ (i = n + 1 /\ a[i] = r)
    BY <1>3, <1>6, <2>1
  <2>3. reqs' = a
    BY <1>1 DEF a
  <2> QED BY <1>1, <1>2, <1>4, <1>5, <1>7, <2>2, <2>3 DEF QueueFits
<1> QED BY <1>1, <1>3, <1>9, <1>10, FitsRendered DEF ChipsFit

LEMMA SubmitFits == TagShape /\ TagShape' /\ ChipsFit /\ Submit => ChipsFit'
<1> SUFFICES ASSUME TagShape, TagShape', ChipsFit, Submit PROVE ChipsFit'
  OBVIOUS
<1> DEFINE r == StoryRequest(ToSet(form.selected))
<1>1. Render(form) /\ UNCHANGED <<tags, rec, page, asked, disturbed>> /\ reqs' = Append(reqs, r)
  BY DEF Submit
<1>2. r.op \notin {"create", "update"} /\ Listed(reqs)
  BY TagShapeIs DEF StoryRequest
<1> HIDE DEF r
<1>3. Among(reqs', reqs)
  BY <1>1, <1>2, AmongMore
<1> QED BY <1>1, <1>3, FitsAlone

LEMMA RefreshFits == TagShape /\ TagShape' /\ ChipsFit /\ Refresh => ChipsFit'
<1> SUFFICES ASSUME TagShape, TagShape', ChipsFit, Refresh PROVE ChipsFit'
  OBVIOUS
<1> DEFINE r == TagsRequest(FALSE)
<1>1. Render(form) /\ UNCHANGED <<tags, rec, page, asked, disturbed>> /\ reqs' = Append(reqs, r)
  BY DEF Refresh
<1>2. r.op \notin {"create", "update"} /\ Listed(reqs)
  BY TagShapeIs DEF TagsRequest
<1> HIDE DEF r
<1>3. Among(reqs', reqs)
  BY <1>1, <1>2, AmongMore
<1> QED BY <1>1, <1>3, FitsAlone

\* A page that is left takes its form along.
LEMMA GotoFits ==
  ASSUME NEW p \in {"library", "manage"}, TagShape, Goto(p)  PROVE ChipsFit'
<1> DEFINE w == GoneTo(reqs, Need(p), p = "manage")
           r == TagsRequest(p = "manage")
<1>1. /\ Listed(w) /\ DOMAIN w = DOMAIN reqs
      /\ \A i \in DOMAIN reqs : /\ Left(w[i], reqs[i])
                                /\ w[i].here = (Need(p) /\ reqs[i].op = "tags" /\ reqs[i].counted = (p = "manage"))
      /\ reqs' = w \/ reqs' = Append(w, r)
  BY GotoIs
<1>2. r.op = "tags"
  BY DEF TagsRequest
<1>3. \A i \in DOMAIN reqs : "op" \in DOMAIN reqs[i]
  BY TagShapeIs DEF TagRequestOK
<1> HIDE DEF w, r
<1>4. \A i \in DOMAIN w : ~ (w[i].op = "create" /\ w[i].here)
  BY <1>1, <1>3 DEF Left
<1>5. \A i \in DOMAIN reqs' : ~ (reqs'[i].op = "create" /\ reqs'[i].here)
  <2>1. CASE reqs' = w
    BY <1>4, <2>1
  <2>2. CASE reqs' = Append(w, r)
    <3> DEFINE a == Append(w, r)
    <3>1. /\ DOMAIN a = 1 .. Len(w) + 1 /\ \A i \in DOMAIN w : a[i] = w[i]
          /\ a[Len(w) + 1] = r /\ Len(w) \in Nat /\ DOMAIN w = 1 .. Len(w)
      BY <1>1, AppendIs, ListedIs
    <3> HIDE DEF a
    <3>2. \A i \in DOMAIN a : ~ (a[i].op = "create" /\ a[i].here)
      BY <1>2, <1>4, <3>1
    <3> QED BY <2>2, <3>2 DEF a
  <2> QED BY <1>1, <2>1, <2>2
<1>6. form' = EmptyForm /\ (asked').tags = {} /\ (asked').names = {}
  BY DEF Goto, NoWishes
<1>7. FormFits(form', asked', tags', rec') /\ QueueFits(reqs', form', asked', tags', rec')
  BY <1>5, <1>6, EmptyFits
<1> QED BY <1>7 DEF ChipsFit

LEMMA TagsUserFits ==
  ASSUME TagShape, TagShape', ChipsFit, TagUserActs  PROVE ChipsFit'
<1>1. CASE Expand \/ Cancel \/ Submit \/ Refresh
  BY <1>1, ExpandFits, CancelFits, SubmitFits, RefreshFits
<1>2. CASE ReloadTags
  BY <1>2 DEF ReloadTags, ChipsFit, Orderly
<1>3. ASSUME NEW t \in DOMAIN Available, Pick(t) PROVE ChipsFit'
  BY <1>3, PickFits
<1>4. ASSUME NEW i \in DOMAIN form.selected, RemoveChip(i) PROVE ChipsFit'
  BY <1>4, RemoveChipFits
<1>5. ASSUME NEW name \in Names, NEW color \in Colors, EnterName(name, color) PROVE ChipsFit'
  BY <1>5, EnterNameFits
<1>6. ASSUME NEW p \in {"library", "manage"}, Goto(p) PROVE ChipsFit'
  BY <1>6, GotoFits
<1>7. ASSUME NEW t \in 1 .. MaxIds,
             (\E mode \in {"rename", "color", "delete"} : OpenRow(t, mode)) \/ CloseRow(t) \/ Delete(t)
               \/ (\E name \in Names : Rename(t, name)) \/ (\E color \in Colors : Recolor(t, color))
      PROVE  ChipsFit'
  <2>1. page' = "manage"
    BY <1>7 DEF OpenRow, CloseRow, Delete, Rename, Recolor, OnRow, OnPage
  <2> QED BY <2>1 DEF ChipsFit, Orderly
<1> QED BY <1>1, <1>2, <1>3, <1>4, <1>5, <1>6, <1>7 DEF TagUserActs
-----------------------------------------------------------------------------
(* The API and the answers keep them too *)

\* Being served changes nothing that the form sees.
LEMMA ApiFits ==
  ASSUME TagShape, ChipsFit, NEW i \in DOMAIN reqs, TagApiActs(i)  PROVE ChipsFit'
<1>1. UNCHANGED <<tags, rec, page, crashed, form, asked, disturbed>> /\ Unserved(i)
      /\ \E res : reqs' = Served(i, res)
  BY DEF TagApiActs, ServeTags, ServeCreateTag, ServeUpdateTag, ServeDeleteTag, ServeStory
<1>2. PICK res : reqs' = Served(i, res)
  BY <1>1
<1>3. /\ DOMAIN reqs' = DOMAIN reqs /\ \A j \in DOMAIN reqs \ {i} : reqs'[j] = reqs[j]
      /\ \A f \in DOMAIN reqs[i] \ {"rank", "res"} : reqs'[i][f] = reqs[i][f]
  BY <1>1, <1>2, TagServed
<1>4. ASSUME NEW j \in DOMAIN reqs'
      PROVE  /\ j \in DOMAIN reqs /\ reqs'[j].op = reqs[j].op /\ reqs'[j].here = reqs[j].here
             /\ reqs'[j].op = "create" => reqs'[j].name = reqs[j].name /\ reqs'[j].chosen = reqs[j].chosen
  <2>1. CASE j # i
    BY <1>3, <2>1
  <2>2. CASE j = i
    <3>1. reqs'[j].op = reqs[j].op /\ reqs'[j].here = reqs[j].here
      BY <1>3, <2>2, TagShapeIs DEF TagRequestOK
    <3>2. reqs[j].op = "create" => {"name", "chosen"} \subseteq DOMAIN reqs[j]
      BY <2>2, TagShapeIs DEF TagRequestOK, CreationOK
    <3> QED BY <1>3, <2>2, <3>1, <3>2
  <2> QED BY <2>1, <2>2
<1>5. Among(reqs', reqs)
  <2>1. \A k \in DOMAIN reqs' : k \in DOMAIN reqs /\ reqs'[k].op = reqs[k].op
    BY <1>4
  <2> QED BY <1>4, <2>1 DEF Among
<1>6. Orderly' = Orderly
  BY <1>1 DEF Orderly
<1> QED BY <1>1, <1>5, <1>6, QueueFitsAmong DEF ChipsFit

\* What an answer leaves in flight was there before.
LEMMA RestAmong ==
  ASSUME TagShape, NEW i \in DOMAIN reqs
  PROVE  /\ Among(Rest(i), reqs) /\ Listed(Rest(i))
         /\ \A j \in DOMAIN Rest(i) : \E k \in DOMAIN reqs \ {i} :
              Rest(i)[j].op = reqs[k].op /\ Rest(i)[j].here = reqs[k].here
<1>1. TagQueueOK(reqs, rec, db.next) /\ Less(Rest(i), reqs, i)
  BY TagRest DEF TagShape
<1>2. \A k \in DOMAIN reqs : "op" \in DOMAIN reqs[k] /\ "here" \in DOMAIN reqs[k]
  BY TagShapeIs DEF TagRequestOK
<1>3. ASSUME NEW j \in DOMAIN Rest(i)
      PROVE  \E k \in DOMAIN reqs \ {i} : Rest(i)[j].op = reqs[k].op /\ Rest(i)[j].here = reqs[k].here
  BY <1>1, <1>2 DEF Less, Moved
<1> QED BY <1>1, <1>3, AmongLess DEF Less

\* A step that leaves the form alone while no name is entered.
LEMMA FitsNameless ==
  ASSUME TagShape', ChipsFit, Render(form), UNCHANGED <<page, asked>>, tags # Null, asked.names = {},
         disturbed => disturbed', Among(reqs', reqs)
  PROVE  ChipsFit'
<1>1. Orderly' => Orderly
  BY DEF Orderly, Render
<1>2. Orderly' => FormFits(form, asked', tags', rec') /\ QueueFits(reqs', form, asked', tags', rec')
  BY <1>1, NamelessFits, QueueFitsAmong DEF ChipsFit
<1> QED BY <1>2, FitsRendered

\* An answer in turn is of a request that was served when the server had what
\* the store has.
LEMMA AnsweredInTurn ==
  ASSUME TagShape, TagsAgreed, NEW i \in DOMAIN reqs, TagAnswered(i), ~ disturbed'
  PROVE  \E d, e : /\ LibraryOK(d) /\ LibraryOK(e) /\ Serves(reqs[i], d, e)
                   /\ tags # Null => Mirrors(d, tags, rec)
<1>1. ~ disturbed /\ ~ (reqs[i].rank > 1) /\ reqs[i].rank # 0
  BY DEF TagAnswered, Overtakes, Unserved
<1>2. PICK P : Chain(reqs, P, db) /\ (tags # Null => Mirrors(P[0], tags, rec))
  BY <1>1 DEF TagsAgreed
<1>3. reqs[i].rank \in Nat /\ Listed(reqs) /\ Ranked(reqs)
  BY TagShapeIs DEF TagRequestOK
<1>4. reqs[i].rank = 1 /\ i \in Answerable(reqs)
  BY <1>1, <1>3 DEF Answerable
<1>5. Cardinality(Answerable(reqs)) \in Nat /\ 1 \in 0 .. Cardinality(Answerable(reqs))
  BY <1>3, <1>4, AnswerableFinite DEF Ranked
<1>6. 0 \in 0 .. Cardinality(Answerable(reqs)) /\ 1 - 1 = 0
  BY <1>5
<1>7. LibraryOK(P[0]) /\ LibraryOK(P[1]) /\ Serves(reqs[i], P[0], P[1])
  BY <1>2, <1>4, <1>5, <1>6 DEF Chain
<1> QED BY <1>2, <1>7

\* Append adds one to what a list has.
LEMMA AppendSet ==
  ASSUME NEW S, NEW x \in S, NEW s \in Seq(S)
  PROVE  ToSet(Append(s, x)) = ToSet(s) \cup {x}
<1> DEFINE a == Append(s, x)
           n == Len(s)
<1>1. /\ n \in Nat /\ DOMAIN s = 1 .. n /\ DOMAIN a = 1 .. n + 1
      /\ (\A i \in 1 .. n : a[i] = s[i]) /\ a[n + 1] = x
  OBVIOUS
<1> HIDE DEF a, n
<1>2. \A i \in DOMAIN a : (i \in DOMAIN s /\ a[i] = s[i]) \/ (i = n + 1 /\ a[i] = x)
  BY <1>1
<1>3. \A i \in DOMAIN s : i \in DOMAIN a /\ a[i] = s[i]
  BY <1>1
<1>4. n + 1 \in DOMAIN a
  BY <1>1
<1>5. ToSet(a) = ToSet(s) \cup {x}
  BY <1>1, <1>2, <1>3, <1>4 DEF ToSet
<1> QED BY <1>5 DEF a

\* A form fits another list of the same tags.
LEMMA FitsAlike ==
  ASSUME NEW q, NEW f, NEW a, NEW ts, NEW rc, NEW us, NEW sc, ToSet(us) = ToSet(ts),
         \A t \in ToSet(ts) : sc[t].name = rc[t].name,
         FormFits(f, a, ts, rc), QueueFits(q, f, a, ts, rc)
  PROVE  FormFits(f, a, us, sc) /\ QueueFits(q, f, a, us, sc)
<1>1. \A M : Bearers(us, sc, M) = Bearers(ts, rc, M)
  BY DEF Bearers
<1> QED BY <1>1 DEF FormFits, QueueFits

LEMMA AnswerTagsFits ==
  ASSUME TagShape, TagShape', TagsAgreed, ChipsFit, NEW i \in DOMAIN reqs, AnswerTags(i), page' = page
  PROVE  ChipsFit'
<1> DEFINE r == reqs[i]
<1>1. /\ r.op = "tags" /\ TagAnswered(i) /\ Render(form) /\ asked' = asked /\ reqs' = Rest(i)
      /\ disturbed => disturbed'
  BY DEF AnswerTags, TagAnswered
<1>2. Among(reqs', reqs)
  BY <1>1, RestAmong
<1>3. CASE tags = Null
  <2>1. form = EmptyForm /\ asked = NoWishes /\ \A j \in DOMAIN reqs : reqs[j].op = "tags"
    BY <1>3 DEF TagShape, Untouched
  <2>2. \A j \in DOMAIN reqs' : ~ (reqs'[j].op = "create" /\ reqs'[j].here)
    BY <1>1, <2>1, RestAmong
  <2>3. (asked').tags = {} /\ (asked').names = {}
    BY <1>1, <2>1 DEF NoWishes
  <2>4. FormFits(form, asked', tags', rec') /\ QueueFits(reqs', form, asked', tags', rec')
    BY <2>1, <2>2, <2>3, EmptyFits
  <2> QED BY <1>1, <2>4, FitsRendered
<1>4. CASE tags # Null /\ asked.names = {}
  BY <1>1, <1>2, <1>4, FitsNameless
<1>5. CASE tags # Null /\ asked.names # {}
  <2> SUFFICES ASSUME Orderly'
               PROVE  FormFits(form, asked', tags', rec') /\ QueueFits(reqs', form, asked', tags', rec')
    BY <1>1, FitsRendered
  <2>1. Orderly /\ ~ disturbed'
    BY <1>1, <1>5 DEF Orderly, Render
  <2>2. \A t \in ToSet(tags) : rec[t] # Gone
    BY <1>5, <2>1, NamesPlain
  <2>3. PICK d, e : LibraryOK(d) /\ Serves(r, d, e) /\ Mirrors(d, tags, rec)
    BY <1>1, <1>5, <2>1, AnsweredInTurn
  <2>4. ToSet(tags) = DOMAIN d.tag /\ \A t \in ToSet(tags) : rec[t].name = d.tag[t].name
    BY <2>2, <2>3 DEF Mirrors
  <2>5. /\ ToSet(tags') = DOMAIN r.res
        /\ \A t \in DOMAIN r.res : rec'[t].name = r.res[t].name
    BY AnswerTagsIs
  <2>6. r.res = [t \in DOMAIN ListTags(d) |-> Record(ListTags(d)[t], r.counted)]
    BY <1>1, <2>3 DEF Serves
  <2>7. /\ DOMAIN r.res = DOMAIN d.tag
        /\ \A t \in DOMAIN d.tag : r.res[t].name = d.tag[t].name
    BY <2>3, <2>6, TagViewOK
  <2> HIDE DEF r
  <2>8. ToSet(tags') = ToSet(tags) /\ \A t \in ToSet(tags) : rec'[t].name = rec[t].name
    BY <2>4, <2>5, <2>7
  <2>9. FormFits(form, asked, tags, rec) /\ QueueFits(reqs', form, asked, tags, rec)
    BY <1>2, <2>1, QueueFitsAmong DEF ChipsFit
  <2> QED BY <1>1, <2>8, <2>9, FitsAlike
<1> QED BY <1>3, <1>4, <1>5

\* The tag that is created gets its chip, and no other has its name.
LEMMA AnswerCreateTagFits ==
  ASSUME TagShape, TagShape', TagsAgreed, ChipsFit, NEW i \in DOMAIN reqs, AnswerCreateTag(i), page' = page
  PROVE  ChipsFit'
<1> DEFINE r == reqs[i]
<1>1. /\ r.op = "create" /\ TagAnswered(i) /\ asked' = asked /\ reqs' = Rest(i)
      /\ disturbed => disturbed'
  BY DEF AnswerCreateTag, TagAnswered
<1>2. Among(reqs', reqs)
  BY <1>1, RestAmong
<1>3. tags # Null /\ (Failed(r.res) => tags' = tags /\ rec' = rec /\ Render(form))
  BY AnswerCreateTagIs
<1>4. CASE Failed(r.res)
  BY <1>1, <1>2, <1>3, <1>4, FitsAlone
<1>5. CASE ~ Failed(r.res)
  <2> DEFINE id == r.res.id
             f == IF r.here THEN [form EXCEPT !.selected = Append(r.chosen, id)] ELSE form
  <2>1. /\ tags' = Append(tags, id) /\ rec'[id].name = r.res.tag.name
        /\ \A u \in DOMAIN rec \ {id} : rec'[u] = rec[u]
        /\ id \notin ToSet(r.chosen) /\ ChipsOK(r.chosen, rec)
        /\ Render(f)
    BY <1>5, AnswerCreateTagIs
  <2> SUFFICES ASSUME Orderly'
               PROVE  FormFits(f, asked', tags', rec') /\ QueueFits(reqs', f, asked', tags', rec')
    BY <2>1, FitsRendered
  <2>2. Orderly /\ ~ disturbed'
    BY <1>1, <1>3, <2>1 DEF Orderly, Render
  <2>3. FormFits(form, asked, tags, rec) /\ QueueFits(reqs, form, asked, tags, rec)
    BY <2>2 DEF ChipsFit
  <2>4. CASE ~ r.here
    <3>1. asked.names = {} /\ f = form
      BY <1>1, <2>3, <2>4 DEF QueueFits
    <3>2. FormFits(form, asked, tags', rec') /\ QueueFits(reqs, form, asked, tags', rec')
      BY <2>3, <3>1, NamelessFits
    <3> HIDE DEF f
    <3> QED BY <1>1, <1>2, <3>1, <3>2, QueueFitsAmong
  <2>5. CASE r.here
    <3>1. /\ r.name \in asked.names /\ r.chosen = form.selected /\ Bearers(tags, rec, {r.name}) = {}
          /\ \A j \in DOMAIN reqs : reqs[j].op = "create" => j = i
      BY <1>1, <2>3, <2>5 DEF QueueFits
    <3>2. PICK d, e : LibraryOK(d) /\ Serves(r, d, e) /\ Mirrors(d, tags, rec)
      BY <1>1, <1>3, <2>2, AnsweredInTurn
    <3> DEFINE out == CreateTag(d, r.name, r.color)
    <3>3. out.res = r.res
      BY <1>1, <3>2 DEF Serves, Result
    <3>4. /\ d.next \in Nat
          /\ Failed(out.res) \/ (out.res.id = d.next /\ out.res.tag.name = r.name)
      BY <3>2, CreateTagIs
    <3> HIDE DEF out
    <3>5. id = d.next /\ rec'[id].name = r.name
      BY <1>5, <2>1, <3>3, <3>4
    <3>6. id \notin ToSet(tags)
      BY <3>2, <3>4, <3>5 DEF Mirrors, Used
    <3>7. f.selected = Append(form.selected, id) /\ f.open = form.open /\ f.pending = form.pending
      BY <2>5, <3>1 DEF TagShape, FormOK
    <3> HIDE DEF f, id
    <3>8. ToSet(tags) \subseteq DOMAIN rec /\ tags \in Seq(DOMAIN rec) /\ form.selected \in Seq(DOMAIN rec)
      BY <1>3, TagsHere DEF TagShape, FormOK, ChipsOK
    <3>9. ToSet(tags') = ToSet(tags) \cup {id} /\ ToSet(f.selected) = ToSet(form.selected) \cup {id}
      <4>1. \A s : s \in Seq(DOMAIN rec) => s \in Seq(DOMAIN rec \cup {id})
        OBVIOUS
      <4> QED BY <2>1, <3>7, <3>8, <4>1, AppendSet
    <3>10. \A u \in ToSet(tags) : u # id /\ rec'[u] = rec[u]
      BY <2>1, <3>6, <3>8
    <3>11. ASSUME NEW M PROVE Bearers(tags', rec', M) = Bearers(tags, rec, M)
                                 \cup IF \E n \in M : SameName(r.name, n) THEN {id} ELSE {}
      BY <3>5, <3>9, <3>10 DEF Bearers
    <3>12. \A n : SameName(r.name, n) => Bearers(tags, rec, {n}) = {}
      <4>1. \A t \in ToSet(tags) : ~ SameName(rec[t].name, r.name)
        BY <3>1 DEF Bearers
      <4> QED BY <4>1 DEF Bearers, SameName
    <3>13. SameName(r.name, r.name)
      BY DEF SameName
    <3> HIDE DEF r
    <3>14. Bearers(tags', rec', asked.names) = Bearers(tags, rec, asked.names) \cup {id}
      BY <3>1, <3>11, <3>13
    <3>15. ASSUME NEW n \in asked.names, NEW t \in Bearers(tags', rec', {n}), NEW u \in Bearers(tags', rec', {n})
           PROVE  t = u
      <4>1. CASE SameName(r.name, n)
        <5>1. Bearers(tags', rec', {n}) = {id}
          BY <3>11, <3>12, <4>1
        <5> QED BY <5>1
      <4>2. CASE ~ SameName(r.name, n)
        <5>1. Bearers(tags', rec', {n}) = Bearers(tags, rec, {n})
          BY <3>11, <4>2
        <5> QED BY <2>3, <5>1 DEF FormFits
      <4> QED BY <4>1, <4>2
    <3>16. FormFits(f, asked, tags', rec')
      BY <2>3, <3>7, <3>9, <3>14, <3>15 DEF FormFits
    <3>17. QueueFits(reqs', f, asked, tags', rec')
      <4>1. \A j \in DOMAIN reqs' : \E k \in DOMAIN reqs \ {i} : reqs'[j].op = reqs[k].op
        BY <1>1, RestAmong
      <4>2. \A j \in DOMAIN reqs' : reqs'[j].op \notin {"create", "update"}
        BY <2>3, <3>1, <4>1 DEF QueueFits
      <4> QED BY <4>2 DEF QueueFits
    <3> QED BY <1>1, <3>16, <3>17
  <2> QED BY <2>4, <2>5
<1> QED BY <1>4, <1>5

LEMMA AnswerUpdateTagFits ==
  ASSUME TagShape, TagShape', ChipsFit, NEW i \in DOMAIN reqs, AnswerUpdateTag(i), page' = page
  PROVE  ChipsFit'
<1>1. /\ reqs[i].op = "update" /\ Render(form) /\ asked' = asked /\ reqs' = Rest(i)
      /\ disturbed => disturbed'
  BY DEF AnswerUpdateTag, TagAnswered
<1>2. Among(reqs', reqs) /\ tags # Null
  BY <1>1, RestAmong, AnswerUpdateTagIs
<1>3. CASE asked.names = {}
  BY <1>1, <1>2, <1>3, FitsNameless
<1>4. CASE asked.names # {}
  <2>1. ~ Orderly
    BY <1>1, <1>4 DEF ChipsFit, QueueFits
  <2>2. ~ Orderly'
    BY <1>1, <1>2, <2>1 DEF Orderly, Render
  <2> QED BY <2>2 DEF ChipsFit
<1> QED BY <1>3, <1>4

LEMMA AnswerDeleteTagFits ==
  ASSUME TagShape, TagShape', TagsAgreed, ChipsFit, NEW i \in DOMAIN reqs, AnswerDeleteTag(i), page' = page
  PROVE  ChipsFit'
<1> DEFINE r == reqs[i]
<1>1. /\ r.op = "delete" /\ TagAnswered(i) /\ Render(form) /\ asked' = asked /\ reqs' = Rest(i)
      /\ disturbed => disturbed'
  BY DEF AnswerDeleteTag, TagAnswered
<1>2. Among(reqs', reqs)
  BY <1>1, RestAmong
<1>3. tags # Null /\ tags' = tags /\ (~ r.res => rec' = rec) /\ r.res \in BOOLEAN
  BY AnswerDeleteTagIs
<1>4. CASE ~ r.res
  BY <1>1, <1>2, <1>3, <1>4, FitsAlone
<1>5. CASE asked.names = {}
  BY <1>1, <1>2, <1>3, <1>5, FitsNameless
<1>6. CASE r.res /\ asked.names # {}
  <2> SUFFICES ASSUME Orderly' PROVE FALSE
    BY DEF ChipsFit
  <2>1. Orderly /\ ~ disturbed'
    BY <1>1, <1>3 DEF Orderly, Render
  <2>2. \A t \in ToSet(tags) : Overlaid(reqs, t) = {}
    BY <1>6, <2>1, NamesPlain
  <2>3. PICK d, e : LibraryOK(d) /\ Serves(r, d, e) /\ Mirrors(d, tags, rec)
    BY <1>1, <1>3, <2>1, AnsweredInTurn
  <2> DEFINE out == DeleteTag(d, r.id)
  <2>4. out.res = r.res
    BY <1>1, <2>3 DEF Serves, Result
  <2>5. (out.res = TRUE /\ r.id \in DOMAIN d.tag) \/ out.res = FALSE
    BY <2>3, DeleteTagIs
  <2> HIDE DEF out
  <2>6. r.id \in ToSet(tags)
    BY <1>6, <2>3, <2>4, <2>5 DEF Mirrors
  <2>7. i \in Overlaid(reqs, r.id)
    BY <1>1 DEF Overlaid
  <2> QED BY <2>2, <2>6, <2>7
<1> QED BY <1>3, <1>4, <1>5, <1>6

LEMMA AnswerStoryFits ==
  ASSUME TagShape, TagShape', ChipsFit, NEW i \in DOMAIN reqs, AnswerStory(i), page' = page
  PROVE  ChipsFit'
<1>1. /\ UNCHANGED <<tags, rec, page>> /\ reqs' = Rest(i)
      /\ disturbed => disturbed'
  BY DEF AnswerStory, TagAnswered
<1>2. CASE ~ reqs[i].here
  <2>1. Render(form) /\ asked' = asked
    BY <1>2 DEF AnswerStory
  <2>2. Among(reqs', reqs)
    BY <1>1, RestAmong
  <2> QED BY <1>1, <2>1, <2>2, FitsAlone
<1>3. CASE reqs[i].here
  <2>1. /\ Render(EmptyForm)
        /\ (asked').tags = {} /\ (asked').names = {} /\ (asked').touched = Meddles
    BY <1>3 DEF AnswerStory, NoWishes
  <2>2. Orderly' => \A j \in DOMAIN reqs' : ~ (reqs'[j].op = "create" /\ reqs'[j].here)
    <3>1. Orderly' => \A k \in DOMAIN reqs : ~ (reqs[k].op = "create" /\ reqs[k].here)
      BY <2>1 DEF Orderly, Meddles, InFlight
    <3> QED BY <1>1, <3>1, RestAmong
  <2>3. Orderly' => FormFits(EmptyForm, asked', tags', rec') /\ QueueFits(reqs', EmptyForm, asked', tags', rec')
    BY <2>1, <2>2, EmptyFits
  <2> QED BY <2>1, <2>3, FitsRendered
<1> QED BY <1>2, <1>3

LEMMA LoseTagFits ==
  ASSUME TagShape, TagShape', ChipsFit, NEW i \in DOMAIN reqs, LoseTagRequest(i)  PROVE ChipsFit'
<1>1. UNCHANGED <<tags, rec, page, asked>> /\ reqs' = Rest(i) /\ (disturbed => disturbed')
  BY DEF LoseTagRequest
<1>2. Among(reqs', reqs)
  BY <1>1, RestAmong
<1>3. crashed' = TRUE \/ Render(form)
  BY DEF LoseTagRequest
<1>4. CASE crashed' = TRUE
  BY <1>4 DEF ChipsFit, Orderly
<1>5. CASE Render(form)
  BY <1>1, <1>2, <1>5, FitsAlone
<1> QED BY <1>3, <1>4, <1>5

LEMMA TagsInitFits == TagsInit => ChipsFit
  BY DEF TagsInit, ChipsFit, Orderly

LEMMA ChipsFitStays == TagShape /\ TagShape' /\ TagsAgreed /\ ChipsFit /\ [TagsNext]_tagsVars => ChipsFit'
<1> SUFFICES ASSUME TagShape, TagShape', TagsAgreed, ChipsFit, [TagsNext]_tagsVars PROVE ChipsFit'
  OBVIOUS
<1>1. CASE TagUserActs
  BY <1>1, TagsUserFits
<1>2. ASSUME NEW i \in DOMAIN reqs, TagApiActs(i) PROVE ChipsFit'
  BY <1>2, ApiFits
<1>3. ASSUME NEW i \in DOMAIN reqs, Answers(i) PROVE ChipsFit'
  BY <1>3, AnswerTagsFits, AnswerCreateTagFits, AnswerUpdateTagFits, AnswerDeleteTagFits,
     AnswerStoryFits, LoseTagFits DEF Answers
<1>4. CASE ChangeTagsElsewhere
  BY <1>4 DEF ChangeTagsElsewhere, ChipsFit, Orderly
<1>5. CASE UNCHANGED tagsVars
  BY <1>5 DEF tagsVars, ChipsFit, Orderly
<1> QED BY <1>1, <1>2, <1>3, <1>4, <1>5 DEF TagsNext

LEMMA FitIsAsked == TagShape /\ ChipsFit => ChipsAsAsked
<1> SUFFICES ASSUME ChipsFit, reqs = << >>, Orderly
             PROVE  ToSet(form.selected) = asked.tags \cup
                      {t \in ToSet(tags) : \E n \in asked.names : SameName(ShownTag(t).name, n)}
  BY DEF ChipsAsAsked, Orderly
<1>1. \A t : ShownTag(t) = rec[t]
  BY ShownTagIs DEF Overlaid, ShownIn
<1> QED BY <1>1 DEF ChipsFit, FormFits, Bearers

\* When nothing is in flight the form has the tags picked and those of the names
\* entered, for any number of tags, names and requests, as long as the user does
\* nothing that the closure of handleCreateTag or the effect of TagInput cannot
\* cope with (Library.tsx, TagInput.tsx).
THEOREM ChipsAlwaysAsAsked == TagsSpec => []ChipsAsAsked
<1>1. TagsInit => TagShape /\ TagsAgreed /\ ChipsFit
  BY TagsInitShape, TagsInitAgreed, TagsInitFits
<1>2. (TagShape /\ TagsAgreed /\ ChipsFit) /\ [TagsNext]_tagsVars => (TagShape /\ TagsAgreed /\ ChipsFit)'
  BY TagShapeStays, TagsAgreedStay, ChipsFitStays
<1> QED BY <1>1, <1>2, FitIsAsked, PTL DEF TagsSpec
=============================================================================
