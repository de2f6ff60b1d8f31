--------------------------- MODULE WormholeProofs ---------------------------
(***************************************************************************)
(* Proofs about the WormholeServer object, for every number of windows,    *)
(* panes, sessions, sockets, channels and concurrent handlers; and, at the *)
(* end, about the channel map it keeps, under any sequence of calls.       *)
(***************************************************************************)
EXTENDS WormholeServer, ChannelMapSpec, ServerLemmas, FiniteSetTheorems
-----------------------------------------------------------------------------
TabType(T, K) == [id : T, panes : Seq(K)]

\* What a layout is made of.
LEMMA LayoutParts ==
  ASSUME NEW T, NEW K, NEW l \in LayoutType(T, K)
  PROVE  /\ l = [tabs |-> l.tabs, active |-> l.active]
         /\ l.tabs \in Seq(TabType(T, K)) /\ Len(l.tabs) \in Nat
         /\ DOMAIN l.tabs = 1 .. Len(l.tabs) /\ l.active \in 1 .. Len(l.tabs)
         /\ \A i \in 1 .. Len(l.tabs) :
              /\ l.tabs[i] \in TabType(T, K) /\ l.tabs[i].id \in T
              /\ l.tabs[i].panes \in Seq(K) /\ l.tabs[i].panes # << >>
<1>1. l.tabs \in Seq(TabType(T, K)) /\ l.active \in DOMAIN l.tabs
  BY DEF LayoutType, TabType
<1>2. DOMAIN l.tabs = 1 .. Len(l.tabs) /\ Len(l.tabs) \in Nat
  BY <1>1
<1>3. \A i \in 1 .. Len(l.tabs) : l.tabs[i] \in TabType(T, K)
  BY <1>1, <1>2
<1>4. \A i \in 1 .. Len(l.tabs) : l.tabs[i].panes # << >>
  BY <1>2 DEF LayoutType
<1>5. l = [tabs |-> l.tabs, active |-> l.active]
  BY DEF LayoutType
<1>6. \A i \in 1 .. Len(l.tabs) : l.tabs[i].id \in T /\ l.tabs[i].panes \in Seq(K)
  BY <1>3 DEF TabType
<1>7. QED BY <1>1, <1>2, <1>3, <1>4, <1>5, <1>6

\* Such tabs, one of them active, make a layout.
LEMMA LayoutOf ==
  ASSUME NEW T, NEW K, NEW tabs \in Seq(TabType(T, K)), NEW active \in 1 .. Len(tabs),
         \A i \in 1 .. Len(tabs) : tabs[i].panes # << >>
  PROVE  [tabs |-> tabs, active |-> active] \in LayoutType(T, K)
<1>1. DOMAIN tabs = 1 .. Len(tabs) /\ active \in Nat
  OBVIOUS
<1>2. QED BY <1>1 DEF LayoutType, TabType

\* findIndex finds a tab with the id, if there is one.
LEMMA TabFound ==
  ASSUME NEW T, NEW K, NEW l \in LayoutType(T, K), l # Null, NEW t
  PROVE  /\ TabIndex(l, t) # 0 =>
              TabIndex(l, t) \in 1 .. Len(l.tabs) /\ l.tabs[TabIndex(l, t)].id = t
         /\ TabIndex(l, t) = 0 => \A i \in 1 .. Len(l.tabs) : l.tabs[i].id # t
<1> DEFINE I == {i \in 1 .. Len(l.tabs) : l.tabs[i].id = t}
<1>1. TabIndex(l, t) = IF I # {} THEN Min(I) ELSE 0
  BY DEF TabIndex, SelectInSeq
<1>2. I \in SUBSET Nat
  OBVIOUS
<1>3. I # {} => Min(I) \in I
  <2> HIDE DEF I
  <2>1. QED BY <1>2, LeastElement
<1>4. CASE I # {}
  BY <1>1, <1>3, <1>4
<1>5. CASE I = {}
  BY <1>1, <1>5
<1>6. QED BY <1>4, <1>5

\* The panes of a tab are PTY ids, whether or not there is such a tab.
LEMMA KeysTyped ==
  ASSUME NEW T, NEW K, NEW l, l = Null \/ l \in LayoutType(T, K), NEW t
  PROVE  KeysOf(l, t) \in Seq(K)
<1>1. CASE TabIndex(l, t) = 0
  BY <1>1 DEF KeysOf
<1>2. CASE TabIndex(l, t) # 0
  <2>1. l # Null /\ l \in LayoutType(T, K)
    BY <1>2 DEF TabIndex
  <2>2. TabIndex(l, t) \in 1 .. Len(l.tabs)
    BY <1>2, <2>1, TabFound
  <2>3. l.tabs[TabIndex(l, t)].panes \in Seq(K)
    BY <2>1, <2>2, LayoutParts
  <2>4. QED BY <1>2, <2>3 DEF KeysOf
<1>3. QED BY <1>1, <1>2

\* What splice(i, 1) leaves.
LEMMA RemoveAtIs ==
  ASSUME NEW S, NEW s \in Seq(S), NEW i \in 1 .. Len(s)
  PROVE  /\ RemoveAt(s, i) \in Seq(S) /\ Len(RemoveAt(s, i)) = Len(s) - 1
         /\ \A j \in 1 .. Len(s) - 1 :
              RemoveAt(s, i)[j] = IF j < i THEN s[j] ELSE s[j + 1]
<1> DEFINE p == SubSeq(s, 1, i - 1)
           q == SubSeq(s, i + 1, Len(s))
<1>1. Len(s) \in Nat /\ i \in Nat /\ 1 <= i /\ i <= Len(s)
  OBVIOUS
<1>2. p \in Seq(S) /\ Len(p) = i - 1 /\ \A j \in 1 .. i - 1 : p[j] = s[j]
  BY <1>1
<1>3. q \in Seq(S) /\ Len(q) = Len(s) - i /\ \A j \in 1 .. Len(s) - i : q[j] = s[i + j]
  BY <1>1
<1>4. RemoveAt(s, i) = p \o q
  BY DEF RemoveAt
<1> HIDE DEF p, q
<1>5. /\ p \o q \in Seq(S) /\ Len(p \o q) = Len(p) + Len(q)
      /\ \A j \in 1 .. Len(p) + Len(q) :
           (p \o q)[j] = IF j <= Len(p) THEN p[j] ELSE q[j - Len(p)]
  BY <1>2, <1>3, ConcatProperties
<1>6. ASSUME NEW j \in 1 .. Len(s) - 1
      PROVE  (p \o q)[j] = IF j < i THEN s[j] ELSE s[j + 1]
  <2>1. CASE j < i
    BY <1>1, <1>2, <1>3, <1>5, <2>1
  <2>2. CASE ~ (j < i)
    <3>1. j \in 1 .. Len(p) + Len(q) /\ ~ (j <= Len(p)) /\ j - Len(p) \in 1 .. Len(s) - i
          /\ i + (j - Len(p)) = j + 1
      BY <1>1, <1>2, <1>3, <2>2
    <3>2. QED BY <1>3, <1>5, <2>2, <3>1
  <2>3. QED BY <2>1, <2>2
<1>7. QED BY <1>1, <1>2, <1>3, <1>4, <1>5, <1>6

\* Removing one occurrence adds nothing and shortens by at most one.
LEMMA RemoveFirstIs ==
  ASSUME NEW S, NEW s \in Seq(S), NEW e
  PROVE  /\ RemoveFirst(s, e) \in Seq(S)
         /\ ToSet(RemoveFirst(s, e)) \subseteq ToSet(s)
         /\ Len(RemoveFirst(s, e)) \in {Len(s), Len(s) - 1}
         /\ Len(RemoveFirst(s, e)) <= Len(s)
<1>1. CASE \E i \in 1 .. Len(s) : s[i] = e
  <2> DEFINE I == {i \in 1 .. Len(s) : s[i] = e}
             r == RemoveAt(s, Min(I))
  <2>1. RemoveFirst(s, e) = r
    BY <1>1 DEF RemoveFirst, SelectInSeq
  <2>2. I \in SUBSET Nat /\ I # {}
    BY <1>1
  <2>3. Min(I) \in 1 .. Len(s)
    <3>1. Min(I) \in I
      <4> HIDE DEF I
      <4>1. QED BY <2>2, LeastElement
    <3>2. QED BY <3>1
  <2> HIDE DEF I
  <2>4. /\ r \in Seq(S) /\ Len(r) = Len(s) - 1 /\ Len(s) \in Nat
        /\ \A j \in 1 .. Len(s) - 1 : r[j] = IF j < Min(I) THEN s[j] ELSE s[j + 1]
    BY <2>3, RemoveAtIs
  <2> HIDE DEF r
  <2>5. DOMAIN r = 1 .. Len(s) - 1 /\ DOMAIN s = 1 .. Len(s)
    BY <2>4
  <2>6. ToSet(r) \subseteq ToSet(s)
    <3>1. ASSUME NEW j \in DOMAIN r PROVE r[j] \in ToSet(s)
      <4>1. j \in DOMAIN s /\ j + 1 \in DOMAIN s
        BY <2>4, <2>5
      <4>2. QED BY <2>4, <2>5, <4>1 DEF ToSet
    <3>2. QED BY <3>1 DEF ToSet
  <2>7. QED BY <2>1, <2>4, <2>6
<1>2. CASE ~ \E i \in 1 .. Len(s) : s[i] = e
  BY <1>2 DEF RemoveFirst
<1>3. QED BY <1>1, <1>2

\* What splice(i, 0, e) makes is not empty.
LEMMA InsertAtTyped ==
  ASSUME NEW S, NEW s \in Seq(S), NEW i \in 1 .. Len(s) + 1, NEW e \in S
  PROVE  InsertAt(s, i, e) \in Seq(S) /\ InsertAt(s, i, e) # << >>
<1> DEFINE p == SubSeq(s, 1, i - 1)
           q == SubSeq(s, i, Len(s))
<1>1. p \in Seq(S) /\ <<e>> \in Seq(S) /\ q \in Seq(S) /\ Len(<<e>>) = 1
  OBVIOUS
<1>2. InsertAt(s, i, e) = p \o <<e>> \o q
  BY DEF InsertAt
<1> HIDE DEF p, q
<1>3. p \o <<e>> \in Seq(S) /\ Len(p \o <<e>>) = Len(p) + 1 /\ Len(p) \in Nat
  BY <1>1
<1>4. p \o <<e>> \o q \in Seq(S) /\ Len(p \o <<e>> \o q) = Len(p) + 1 + Len(q) /\ Len(q) \in Nat
  BY <1>1, <1>3
<1>5. p \o <<e>> \o q # << >>
  BY <1>3, <1>4
<1>6. QED BY <1>2, <1>4, <1>5
-----------------------------------------------------------------------------
\* The tabs of l have different ids, of those given out so far.
DistinctTabs(l) ==
  \A i, j \in DOMAIN l.tabs : l.tabs[i].id = l.tabs[j].id => i = j

Numbered(l, n) == DistinctTabs(l) /\ \A i \in DOMAIN l.tabs : l.tabs[i].id \in 1 .. n

\* m has no tab that l has not, and the same one is active, or gone.
NoOtherTab(m, l) ==
  \A i \in DOMAIN m.tabs : \E j \in DOMAIN l.tabs : m.tabs[i].id = l.tabs[j].id

StaysActive(m, id) == TabIndex(m, id) = 0 \/ ActiveTab(m).id = id

\* createTab with the next tab id keeps a layout one, with ids given out.
LEMMA CreateTabIs ==
  ASSUME NEW T, NEW K, NEW l, l = Null \/ l \in LayoutType(T, K), NEW n \in Nat,
         n + 1 \in T, NEW key \in K, l # Null => Numbered(l, n)
  PROVE  /\ CreateTab(l, n + 1, key) \in LayoutType(T, K)
         /\ Numbered(CreateTab(l, n + 1, key), n + 1)
<1> DEFINE tab == [id |-> n + 1, panes |-> <<key>>]
<1>1. <<key>> \in Seq(K) /\ <<key>> # << >>
  OBVIOUS
<1>2. tab \in TabType(T, K) /\ tab.id = n + 1 /\ tab.panes # << >>
  BY <1>1 DEF TabType
<1> HIDE DEF tab
<1>3. CASE l = Null
  <2> DEFINE tabs == <<tab>>
             m == [tabs |-> tabs, active |-> 1]
  <2>1. CreateTab(l, n + 1, key) = m
    BY <1>3 DEF CreateTab, tab
  <2>2. /\ tabs \in Seq(TabType(T, K)) /\ Len(tabs) = 1 /\ tabs[1] = tab
        /\ DOMAIN tabs = {1}
    BY <1>2
  <2> HIDE DEF tabs
  <2>3. m \in LayoutType(T, K)
    <3>1. 1 \in 1 .. Len(tabs) /\ \A i \in 1 .. Len(tabs) : tabs[i].panes # << >>
      BY <1>2, <2>2
    <3>2. QED BY <2>2, <3>1, LayoutOf
  <2>4. m.tabs = tabs
    OBVIOUS
  <2>5. Numbered(m, n + 1)
    BY <1>2, <2>2, <2>4 DEF Numbered, DistinctTabs
  <2>6. QED BY <2>1, <2>3, <2>5
<1>4. CASE l # Null
  <2> DEFINE tabs == Append(l.tabs, tab)
             m == [tabs |-> tabs, active |-> Len(l.tabs) + 1]
  <2>1. CreateTab(l, n + 1, key) = m
    BY <1>4 DEF CreateTab, tab
  <2>2. /\ l.tabs \in Seq(TabType(T, K)) /\ Len(l.tabs) \in Nat
        /\ DOMAIN l.tabs = 1 .. Len(l.tabs)
        /\ \A i \in 1 .. Len(l.tabs) : l.tabs[i].panes # << >>
    BY <1>4, LayoutParts
  <2>3. /\ tabs \in Seq(TabType(T, K)) /\ Len(tabs) = Len(l.tabs) + 1
        /\ \A i \in 1 .. Len(l.tabs) : tabs[i] = l.tabs[i]
        /\ tabs[Len(l.tabs) + 1] = tab /\ DOMAIN tabs = 1 .. Len(tabs)
    BY <1>2, <2>2
  <2> HIDE DEF tabs
  <2>4. \A i \in 1 .. Len(tabs) : i = Len(l.tabs) + 1 \/ i \in 1 .. Len(l.tabs)
    BY <2>2, <2>3
  <2>5. \A i \in 1 .. Len(tabs) : tabs[i].panes # << >>
    BY <1>2, <2>2, <2>3, <2>4
  <2>6. m \in LayoutType(T, K)
    BY <2>2, <2>3, <2>5, LayoutOf
  <2>7. m.tabs = tabs
    OBVIOUS
  <2> HIDE DEF m
  <2>8. \A i \in DOMAIN l.tabs : l.tabs[i].id \in 1 .. n
    BY <1>4 DEF Numbered
  <2>9. \A i \in DOMAIN m.tabs : m.tabs[i].id \in 1 .. n + 1
    BY <1>2, <2>2, <2>3, <2>4, <2>7, <2>8
  <2>10. DistinctTabs(m)
    BY <1>2, <1>4, <2>2, <2>3, <2>4, <2>7, <2>8 DEF Numbered, DistinctTabs
  <2>11. QED BY <2>1, <2>6, <2>9, <2>10 DEF Numbered
<1>5. QED BY <1>3, <1>4

WithPanes(l, panes) == [l EXCEPT !.tabs[l.active].panes = panes]

\* A change of the panes of the active tab leaves the tabs as they are.
LEMMA PanesChanged ==
  ASSUME NEW T, NEW K, NEW l \in LayoutType(T, K), NEW panes \in Seq(K), panes # << >>
  PROVE  /\ WithPanes(l, panes) \in LayoutType(T, K)
         /\ \A n : Numbered(l, n) => Numbered(WithPanes(l, panes), n)
<1> DEFINE tab == [l.tabs[l.active] EXCEPT !.panes = panes]
           tabs == [l.tabs EXCEPT ![l.active] = tab]
           m == WithPanes(l, panes)
<1>1. /\ l.tabs \in Seq(TabType(T, K)) /\ Len(l.tabs) \in Nat
      /\ DOMAIN l.tabs = 1 .. Len(l.tabs) /\ l.active \in 1 .. Len(l.tabs)
      /\ \A i \in 1 .. Len(l.tabs) :
           l.tabs[i] \in TabType(T, K) /\ l.tabs[i].panes # << >>
      /\ l = [tabs |-> l.tabs, active |-> l.active]
  BY LayoutParts
<1>2. /\ tab \in TabType(T, K) /\ tab.id = l.tabs[l.active].id /\ tab.panes = panes
  <2>1. l.tabs[l.active] \in TabType(T, K)
    BY <1>1
  <2>2. QED BY <2>1 DEF TabType
<1>3. m = [tabs |-> tabs, active |-> l.active]
  BY <1>1 DEF WithPanes
<1> HIDE DEF tab
<1>4. /\ tabs \in Seq(TabType(T, K)) /\ Len(tabs) = Len(l.tabs)
      /\ DOMAIN tabs = DOMAIN l.tabs /\ tabs[l.active] = tab
      /\ \A i \in 1 .. Len(l.tabs) : i # l.active => tabs[i] = l.tabs[i]
  BY <1>1, <1>2, ExceptSeq
<1> HIDE DEF tabs
<1>5. \A i \in 1 .. Len(tabs) : tabs[i].panes # << >> /\ tabs[i].id = l.tabs[i].id
  BY <1>1, <1>2, <1>4
<1>6. [tabs |-> tabs, active |-> l.active] \in LayoutType(T, K)
  BY <1>1, <1>4, <1>5, LayoutOf
<1>7. m.tabs = tabs
  BY <1>3
<1> HIDE DEF m
<1>8. \A n : Numbered(l, n) => Numbered(m, n)
  BY <1>1, <1>4, <1>5, <1>7 DEF Numbered, DistinctTabs
<1>9. QED BY <1>3, <1>6, <1>8 DEF m

\* splitPane and closePane keep a layout a layout, with the tabs it has:
\* closePane never leaves a tab without panes.
LEMMA SplitPaneIs ==
  ASSUME NEW T, NEW K, NEW l \in LayoutType(T, K), NEW target, NEW key \in K
  PROVE  /\ SplitPane(l, target, key) \in LayoutType(T, K)
         /\ \A n : Numbered(l, n) => Numbered(SplitPane(l, target, key), n)
<1> DEFINE old == l.tabs[l.active].panes
           I == {i \in 1 .. Len(old) : old[i] = target}
           at == IF I # {} THEN Min(I) ELSE 0
<1>1. SplitPane(l, target, key) =
        IF at = 0 THEN l
        ELSE WithPanes(l, InsertAt(old, at + 1, key))
  <2>1. l = [tabs |-> l.tabs, active |-> l.active] /\ l.active \in DOMAIN l.tabs
        /\ l.tabs[l.active] \in TabType(T, K)
    BY LayoutParts
  <2>2. at = SelectInSeq(ActiveTab(l).panes, LAMBDA k : k = target)
    BY DEF ActiveTab, SelectInSeq
  <2> HIDE DEF at
  <2>3. QED BY <2>1, <2>2 DEF SplitPane, TabType, WithPanes
<1>2. old \in Seq(K) /\ Len(old) \in Nat
  BY LayoutParts
<1>3. at # 0 => at \in 1 .. Len(old)
  <2>1. I \in SUBSET Nat
    BY <1>2
  <2>2. I # {} => Min(I) \in I
    <3> HIDE DEF I
    <3>1. QED BY <2>1, LeastElement
  <2>3. QED BY <2>2
<1> HIDE DEF at, old
<1>4. CASE at = 0
  BY <1>1, <1>4
<1>5. CASE at # 0
  <2>1. at + 1 \in 1 .. Len(old) + 1
    BY <1>2, <1>3, <1>5
  <2> DEFINE new == InsertAt(old, at + 1, key)
  <2>2. new \in Seq(K) /\ new # << >>
    BY <1>2, <2>1, InsertAtTyped
  <2>3. SplitPane(l, target, key) = WithPanes(l, new)
    BY <1>1, <1>5
  <2> HIDE DEF new
  <2>4. QED BY <2>2, <2>3, PanesChanged
<1>6. QED BY <1>4, <1>5

\* closePane leaves a single pane where it is.
LEMMA ClosePaneIs ==
  ASSUME NEW T, NEW K, NEW l \in LayoutType(T, K), NEW key
  PROVE  /\ ClosePane(l, key) \in LayoutType(T, K)
         /\ \A n : Numbered(l, n) => Numbered(ClosePane(l, key), n)
<1> DEFINE old == l.tabs[l.active].panes
           new == RemoveFirst(old, key)
<1>1. ClosePane(l, key) =
        IF Len(old) = 1 THEN l ELSE WithPanes(l, new)
  <2>1. l = [tabs |-> l.tabs, active |-> l.active] /\ l.active \in DOMAIN l.tabs
        /\ l.tabs[l.active] \in TabType(T, K)
    BY LayoutParts
  <2>2. QED BY <2>1 DEF ClosePane, ActiveTab, TabType, WithPanes
<1>2. old \in Seq(K) /\ old # << >> /\ Len(old) \in Nat
  BY LayoutParts
<1> HIDE DEF old
<1>3. Len(old) # 0
  BY <1>2
<1>4. new \in Seq(K) /\ Len(new) \in {Len(old), Len(old) - 1}
  BY <1>2, RemoveFirstIs
<1> HIDE DEF new
<1>5. CASE Len(old) = 1
  BY <1>1, <1>5
<1>6. CASE Len(old) # 1
  <2>1. Len(new) # 0
    <3>1. \A n \in Nat : n # 0 /\ n # 1 => n # 0 /\ n - 1 # 0
      OBVIOUS
    <3>2. QED BY <1>2, <1>3, <1>4, <1>6, <3>1
  <2>2. new # << >>
    BY <2>1
  <2>3. QED BY <1>1, <1>4, <1>6, <2>2, PanesChanged
<1>7. QED BY <1>5, <1>6

\* switchTab changes nothing but which tab is active.
LEMMA SwitchTabIs ==
  ASSUME NEW T, NEW K, NEW l \in LayoutType(T, K), NEW i \in 1 .. Len(l.tabs)
  PROVE  /\ SwitchTab(l, i) \in LayoutType(T, K)
         /\ \A n : Numbered(l, n) => Numbered(SwitchTab(l, i), n)
<1>1. /\ l = [tabs |-> l.tabs, active |-> l.active] /\ l.tabs \in Seq(TabType(T, K))
      /\ \A j \in 1 .. Len(l.tabs) : l.tabs[j].panes # << >>
  BY LayoutParts
<1>2. SwitchTab(l, i) = [tabs |-> l.tabs, active |-> i]
  BY <1>1 DEF SwitchTab
<1>3. [tabs |-> l.tabs, active |-> i] \in LayoutType(T, K)
  BY <1>1, LayoutOf
<1>4. SwitchTab(l, i).tabs = l.tabs
  BY <1>2
<1>5. QED BY <1>2, <1>3, <1>4 DEF Numbered, DistinctTabs

\* closeTab removes one tab, and the active one stays active unless it is
\* that one.
LEMMA CloseTabIs ==
  ASSUME NEW T, NEW K, NEW l \in LayoutType(T, K), l # Null,
         Null \notin LayoutType(T, K), NEW i \in 1 .. Len(l.tabs),
         DistinctTabs(l)
  PROVE  LET m == CloseTab(l, i)
         IN  /\ m \in LayoutType(T, K) /\ DistinctTabs(m) /\ NoOtherTab(m, l)
             /\ StaysActive(m, ActiveTab(l).id)
<1> DEFINE m == CloseTab(l, i)
           tabs == RemoveAt(l.tabs, i)
           active == IF i < l.active \/ l.active = Len(l.tabs)
                     THEN l.active - 1 ELSE l.active
<1>1. /\ l.tabs \in Seq(TabType(T, K)) /\ Len(l.tabs) \in Nat
      /\ DOMAIN l.tabs = 1 .. Len(l.tabs) /\ l.active \in 1 .. Len(l.tabs)
      /\ \A j \in 1 .. Len(l.tabs) : l.tabs[j].panes # << >>
  BY LayoutParts
<1>2. CASE Len(l.tabs) = 1
  BY <1>2 DEF CloseTab, StaysActive, NoOtherTab
<1>3. CASE Len(l.tabs) # 1
  <2>1. m = [tabs |-> tabs, active |-> active]
    BY <1>3 DEF CloseTab
  <2>2. m.tabs = tabs /\ m.active = active
    BY <2>1
  <2>3. /\ tabs \in Seq(TabType(T, K)) /\ Len(tabs) = Len(l.tabs) - 1
        /\ \A j \in 1 .. Len(l.tabs) - 1 :
             tabs[j] = IF j < i THEN l.tabs[j] ELSE l.tabs[j + 1]
    BY <1>1, RemoveAtIs
  <2> HIDE DEF tabs
  <2>4. DOMAIN tabs = 1 .. Len(l.tabs) - 1
    BY <2>3
  <2> HIDE DEF m
  <2>5. active \in 1 .. Len(tabs)
    <3>1. l.active \in Nat /\ i \in Nat /\ i >= 1 /\ l.active <= Len(l.tabs)
          /\ i <= Len(l.tabs) /\ l.active >= 1
      BY <1>1
    <3>2. \A n, a, k \in Nat :
             1 <= k /\ 1 <= a /\ a <= n /\ n # 1 =>
               (IF k < a \/ a = n THEN a - 1 ELSE a) \in 1 .. n - 1
      OBVIOUS
    <3>3. active \in 1 .. Len(l.tabs) - 1
      BY <1>1, <1>3, <3>1, <3>2
    <3>4. QED BY <2>3, <3>3
  <2>6. \A j \in 1 .. Len(tabs) : tabs[j].panes # << >>
    BY <1>1, <2>3
  <2>7. m \in LayoutType(T, K) /\ m # Null
    BY <2>1, <2>3, <2>5, <2>6, LayoutOf
  <2>8. \A j \in DOMAIN tabs : /\ j \in DOMAIN l.tabs /\ j + 1 \in DOMAIN l.tabs
                               /\ j < i => tabs[j] = l.tabs[j]
                               /\ ~ (j < i) => tabs[j] = l.tabs[j + 1]
    BY <1>1, <2>3, <2>4
  <2>9. NoOtherTab(m, l)
    BY <2>2, <2>8 DEF NoOtherTab
  <2>10. DistinctTabs(m)
    <3> SUFFICES ASSUME NEW j \in DOMAIN tabs, NEW k \in DOMAIN tabs,
                        tabs[j].id = tabs[k].id
                 PROVE  j = k
      BY <2>2 DEF DistinctTabs
    <3>1. /\ j < i /\ k < i => j = k
          /\ j < i /\ ~ (k < i) => j = k + 1
          /\ ~ (j < i) /\ k < i => j + 1 = k
          /\ ~ (j < i) /\ ~ (k < i) => j + 1 = k + 1
      BY <2>8 DEF DistinctTabs
    <3>2. j \in Nat /\ k \in Nat /\ i \in Nat
      BY <1>1, <2>4
    <3>3. QED BY <3>1, <3>2
  <2>11. StaysActive(m, ActiveTab(l).id)
    <3> DEFINE a == l.active
    <3>1. CASE i = a
      <4>1. ASSUME NEW j \in DOMAIN tabs PROVE tabs[j].id # l.tabs[a].id
        <5>1. j \in Nat /\ i \in Nat
          BY <1>1, <2>4
        <5>2. CASE j < i
          BY <2>8, <3>1, <5>1, <5>2 DEF DistinctTabs
        <5>3. CASE ~ (j < i)
          BY <2>8, <3>1, <5>1, <5>3 DEF DistinctTabs
        <5>4. QED BY <5>2, <5>3
      <4>2. TabIndex(m, l.tabs[a].id) # 0 =>
              /\ TabIndex(m, l.tabs[a].id) \in 1 .. Len(tabs)
              /\ tabs[TabIndex(m, l.tabs[a].id)].id = l.tabs[a].id
        BY <2>2, <2>7, TabFound
      <4>3. TabIndex(m, l.tabs[a].id) = 0
        BY <2>3, <2>4, <4>1, <4>2
      <4>4. QED BY <4>3 DEF StaysActive, ActiveTab
    <3>2. CASE i # a
      <4>1. tabs[active] = l.tabs[a]
        <5>1. CASE i < a
          <6>1. active = a - 1 /\ ~ (active < i) /\ active + 1 = a
            BY <1>1, <5>1
          <6>2. QED BY <2>3, <2>4, <2>5, <2>8, <6>1
        <5>2. CASE ~ (i < a)
          <6>1. active = a /\ active < i
            BY <1>1, <3>2, <5>2
          <6>2. QED BY <2>3, <2>4, <2>5, <2>8, <6>1
        <5>3. QED BY <5>1, <5>2
      <4>2. ActiveTab(m).id = ActiveTab(l).id
        BY <2>2, <4>1 DEF ActiveTab
      <4>3. QED BY <4>2 DEF StaysActive
    <3>3. QED BY <3>1, <3>2
  <2>12. QED BY <2>7, <2>9, <2>10, <2>11 DEF m
<1>4. QED BY <1>2, <1>3
-----------------------------------------------------------------------------
-----------------------------------------------------------------------------
\* The loop of handleSessionDestroy over the tabs of a session leaves a layout
\* with fewer tabs of the same kind.
Reduced(done, from) ==
  /\ done.layout \in Layouts /\ done.panes \in Seq(PtyIds)
  /\ DistinctTabs(done.layout) /\ NoOtherTab(done.layout, from)
  /\ StaysActive(done.layout, ActiveTab(from).id)

\* One iteration of that loop.
LEMMA CloseOwnTabReduces ==
  ASSUME NEW done, NEW from, Reduced(done, from), NEW s, NEW t
  PROVE  Reduced(CloseOwnTab(done, s, t), from)
<1> DEFINE l == done.layout
           i == TabIndex(l, t)
           m == CloseTab(l, i)
           id == ActiveTab(from).id
           more == CloseOwnTab(done, s, t)
<1>1. CASE ~ (t \in DOMAIN tabToSession /\ tabToSession[t] = s /\ i # 0)
  BY <1>1 DEF CloseOwnTab
<1>2. CASE t \in DOMAIN tabToSession /\ tabToSession[t] = s /\ i # 0
  <2>1. more.layout = m /\ more.panes = done.panes \o KeysOf(l, t)
    BY <1>2 DEF CloseOwnTab
  <2>2. /\ l \in Layouts /\ l # Null /\ DistinctTabs(l) /\ NoOtherTab(l, from)
        /\ StaysActive(l, id) /\ done.panes \in Seq(PtyIds)
    BY NullAssumption DEF Reduced
  <2> HIDE DEF l, m, more
  <2>3. i \in 1 .. Len(l.tabs)
    BY <1>2, <2>2, TabFound DEF Layouts
  <2>4. /\ m \in Layouts /\ DistinctTabs(m) /\ NoOtherTab(m, l)
        /\ StaysActive(m, ActiveTab(l).id)
    <3> HIDE DEF i
    <3>1. QED BY <2>2, <2>3, NullAssumption, CloseTabIs DEF Layouts, m
  <2>5. more.panes \in Seq(PtyIds)
    <3>1. KeysOf(l, t) \in Seq(PtyIds)
      BY <2>2, KeysTyped DEF Layouts
    <3>2. QED BY <2>1, <2>2, <3>1
  <2>6. NoOtherTab(m, from)
    BY <2>2, <2>4 DEF NoOtherTab
  <2>7. StaysActive(m, id)
    <3>1. CASE ActiveTab(l).id = id
      BY <2>4, <3>1
    <3>2. CASE TabIndex(l, id) = 0
      <4>1. \A j \in 1 .. Len(l.tabs) : l.tabs[j].id # id
        BY <2>2, <3>2, TabFound DEF Layouts
      <4>2. DOMAIN l.tabs = 1 .. Len(l.tabs) /\ DOMAIN m.tabs = 1 .. Len(m.tabs)
        BY <2>2, <2>4, LayoutParts DEF Layouts
      <4>3. \A j \in 1 .. Len(m.tabs) : m.tabs[j].id # id
        BY <2>4, <4>1, <4>2 DEF NoOtherTab
      <4>4. m # Null
        BY <2>4, NullAssumption
      <4>5. TabIndex(m, id) = 0
        BY <2>4, <4>3, <4>4, TabFound DEF Layouts
      <4>6. QED BY <4>5 DEF StaysActive
    <3>3. QED BY <2>2, <3>1, <3>2 DEF StaysActive
  <2>8. Reduced(more, from)
    BY <2>1, <2>4, <2>5, <2>6, <2>7 DEF Reduced
  <2>9. QED BY <2>8 DEF more
<1>3. QED BY <1>1, <1>2

\* The whole loop, by counting its iterations.
LEMMA CloseTabsReduces ==
  ASSUME layout \in Layouts, DistinctTabs(layout), NEW s
  PROVE  Reduced(CloseTabsOf(s), layout)
<1> DEFINE base == [layout |-> layout, panes |-> << >>]
           D == {d \in [layout : Layouts, panes : Seq(PtyIds)] : Reduced(d, layout)}
           step == [t \in 1 .. MaxPtys |-> [d \in D |-> CloseOwnTab(d, s, t)]]
           body(f) == [t \in 0 .. MaxPtys |->
                         IF t = 0 THEN base ELSE CloseOwnTab(f[t - 1], s, t)]
           after == CHOOSE f : f = body(f)
<1>1. MaxPtys \in Nat
  BY WormholeAssumption
<1>2. base \in D
  <2>1. << >> \in Seq(PtyIds) /\ base.layout = layout /\ base.panes = << >>
    OBVIOUS
  <2>2. Reduced(base, layout)
    BY <2>1 DEF Reduced, NoOtherTab, StaysActive
  <2>3. QED BY <2>1, <2>2
<1>3. ASSUME NEW d \in D, NEW t PROVE CloseOwnTab(d, s, t) \in D
  <2> DEFINE e == CloseOwnTab(d, s, t)
  <2>1. Reduced(e, layout)
    BY CloseOwnTabReduces
  <2>2. e = d \/ e = [layout |-> e.layout, panes |-> e.panes]
    BY DEF CloseOwnTab
  <2> HIDE DEF e
  <2>3. e \in [layout : Layouts, panes : Seq(PtyIds)]
    BY <2>1, <2>2 DEF Reduced
  <2>4. QED BY <2>1, <2>3 DEF e
<1> HIDE DEF base, D
<1>4. StepsIn(step, MaxPtys, D)
  BY <1>3 DEF StepsIn
<1>5. \A t \in 1 .. MaxPtys, d \in D : step[t][d] = CloseOwnTab(d, s, t)
  OBVIOUS
<1> HIDE DEF step
<1>6. PICK f : Recursive(f, step, MaxPtys, D, base)
  BY <1>1, <1>2, <1>4, Recursion
<1>7. \A t \in 1 .. MaxPtys : f[t] = CloseOwnTab(f[t - 1], s, t)
  <2>1. ASSUME NEW t \in 1 .. MaxPtys PROVE f[t] = CloseOwnTab(f[t - 1], s, t)
    <3>1. t - 1 \in 0 .. MaxPtys /\ f[t - 1] \in D
      BY <1>1, <1>6 DEF Recursive
    <3>2. QED BY <1>5, <1>6, <3>1 DEF Recursive
  <2>2. QED BY <2>1
<1>8. f = body(f)
  <2>1. f \in [0 .. MaxPtys -> D] /\ f[0] = base
    BY <1>6 DEF Recursive
  <2>2. QED BY <1>1, <1>7, <2>1
<1>9. after = body(after)
  BY <1>8
<1>10. CloseTabsOf(s) = after[MaxPtys]
  BY DEF CloseTabsOf, base
<1> HIDE DEF after
<1>11. after[0] = base /\ \A t \in 1 .. MaxPtys : after[t] = CloseOwnTab(after[t - 1], s, t)
  BY <1>1, <1>9
<1> DEFINE S == {t \in 0 .. MaxPtys : after[t] \in D}
<1>12. 0 \in S
  BY <1>1, <1>2, <1>11
<1>13. ASSUME NEW t \in 1 .. MaxPtys, t - 1 \in S PROVE t \in S
  BY <1>1, <1>3, <1>11, <1>13
<1>14. MaxPtys \in S
  <2> HIDE DEF S
  <2>1. \A t \in 0 .. MaxPtys : t \in S
    BY <1>1, <1>12, <1>13, UpTo
  <2>2. QED BY <1>1, <2>1
<1>15. QED BY <1>10, <1>14 DEF D
-----------------------------------------------------------------------------
\* The loop of reconnectAllTerminals is at no session yet, or at one.
Place(cur) ==
  /\ cur.rest \in Seq(PtyIds) /\ cur.index \in 0 .. MaxSessions
  /\ \/ cur.session \in SessionIds /\ cur.index # 0 /\ cur.tab \in TabIds
     \/ cur.session = 0 /\ cur.rest = << >>

\* The loop stops at a pane of the tab it is at.
LEMMA FirstDeadTyped ==
  ASSUME NEW cur, NEW live, Place(cur), ~ ToSet(cur.rest) \subseteq live
  PROVE  AtFirstDead(cur, live) \in CursorType
<1> DEFINE I == {i \in 1 .. Len(cur.rest) : cur.rest[i] \notin live}
           left == SubSeq(cur.rest, Min(I) + 1, Len(cur.rest))
<1>1. /\ cur.rest \in Seq(PtyIds) /\ Len(cur.rest) \in Nat
      /\ DOMAIN cur.rest = 1 .. Len(cur.rest)
  BY DEF Place
<1>2. I # {} /\ I \in SUBSET Nat
  BY <1>1 DEF ToSet
<1>3. Min(I) \in 1 .. Len(cur.rest)
  <2>1. Min(I) \in I
    <3> HIDE DEF I
    <3>1. QED BY <1>2, LeastElement
  <2>2. QED BY <2>1
<1>4. AtFirstDead(cur, live) =
        [kind |-> "connect", pty |-> cur.rest[Min(I)], session |-> cur.session,
         index |-> cur.index, tab |-> cur.tab, rest |-> left]
  BY <1>2 DEF AtFirstDead, SelectInSeq
<1> HIDE DEF I
<1>5. cur.rest[Min(I)] \in PtyIds /\ left \in Seq(PtyIds)
  BY <1>1, <1>3
<1> HIDE DEF left
<1>6. cur.rest # << >>
  BY <1>1, <1>3
<1>7. /\ cur.session \in SessionIds /\ cur.index \in 1 .. MaxSessions
      /\ cur.tab \in TabIds
  BY <1>6, WormholeAssumption DEF Place
<1>8. QED BY <1>4, <1>5, <1>7 DEF CursorType

\* The next iteration, if any, is at a tab of a session of the object.
LEMMA NextDeadTyped ==
  ASSUME NEW cur, NEW live, Place(cur), layout = Null \/ layout \in Layouts,
         sessions \in Seq(SessionIds), Len(sessions) <= MaxSessions,
         tabToSession \in PartialFcn(TabIds, SessionIds)
  PROVE  NextDead(cur, live) = Null \/ NextDead(cur, live) \in CursorType
<1> DEFINE ahead == Ahead(cur, live)
           first(x) == \A y \in ahead : x[1] < y[1] \/ (x[1] = y[1] /\ x[2] <= y[2])
           place == CHOOSE x \in ahead : first(x)
           next == [session |-> tabToSession[place[2]], index |-> place[1],
                    tab |-> place[2], rest |-> KeysOf(layout, place[2])]
<1>1. CASE ~ ToSet(cur.rest) \subseteq live
  BY <1>1, FirstDeadTyped DEF NextDead
<1>2. CASE ToSet(cur.rest) \subseteq live /\ ahead = {}
  BY <1>2 DEF NextDead
<1>3. CASE ToSet(cur.rest) \subseteq live /\ ahead # {}
  <2>1. /\ DOMAIN sessions = 1 .. Len(sessions) /\ Len(sessions) \in Nat
        /\ cur.index \in Nat
    BY DEF Place
  <2>2. DOMAIN tabToSession \subseteq TabIds /\ \A t \in DOMAIN tabToSession : tabToSession[t] \in SessionIds
    BY DEF PartialFcn
  <2>3. ASSUME NEW x \in ahead
        PROVE  /\ x = <<x[1], x[2]>> /\ x[1] \in Nat /\ x[2] \in TabIds /\ x[2] \in Nat
               /\ x[1] \in 1 .. MaxSessions /\ tabToSession[x[2]] \in SessionIds
               /\ ~ ToSet(KeysOf(layout, x[2])) \subseteq live
    <3>1. PICK i \in DOMAIN sessions \cup {cur.index}, t \in DOMAIN tabToSession :
            /\ x = <<i, t>> /\ ~ ToSet(KeysOf(layout, t)) \subseteq live
            /\ i = cur.index => i > cur.index \/ tabToSession[t] = cur.session
      BY <2>1 DEF Ahead
    <3>2. t \in TabIds /\ t \in Nat /\ tabToSession[t] \in SessionIds
      BY <2>2 DEF TabIds
    <3>3. i \in 1 .. MaxSessions
      <4>1. CASE i \in DOMAIN sessions
        BY <2>1, <4>1, WormholeAssumption
      <4>2. CASE i = cur.index
        <5>1. tabToSession[t] = cur.session
          BY <2>1, <3>1, <4>2
        <5>2. cur.session # 0
          BY <3>2, <5>1 DEF SessionIds
        <5>3. cur.index # 0 /\ cur.index \in 0 .. MaxSessions
          BY <5>2 DEF Place
        <5>4. QED BY <4>2, <5>3, WormholeAssumption
      <4>3. QED BY <4>1, <4>2
    <3>4. QED BY <3>1, <3>2, <3>3
  <2>4. \E x \in ahead : first(x)
    <3> DEFINE I == {x[1] : x \in ahead}
               J == {x[2] : x \in {y \in ahead : y[1] = Min(I)}}
    <3> HIDE DEF ahead
    <3>1. I \in SUBSET Nat /\ I # {}
      BY <1>3, <2>3
    <3>2. Min(I) \in I /\ \A n \in I : Min(I) <= n
      <4> HIDE DEF I
      <4>1. QED BY <3>1, LeastElement, MinIsLeast
    <3>3. J \in SUBSET Nat /\ J # {}
      BY <2>3, <3>2
    <3>4. Min(J) \in J /\ \A n \in J : Min(J) <= n
      <4> HIDE DEF J
      <4>1. QED BY <3>3, LeastElement, MinIsLeast
    <3>5. PICK x \in ahead : x[1] = Min(I) /\ x[2] = Min(J)
      BY <3>4
    <3>6. ASSUME NEW y \in ahead
          PROVE  x[1] < y[1] \/ (x[1] = y[1] /\ x[2] <= y[2])
      <4>1. x[1] <= y[1] /\ x[1] \in Nat /\ y[1] \in Nat
        BY <2>3, <3>2, <3>5
      <4>2. x[1] = y[1] => x[2] <= y[2]
        BY <3>4, <3>5
      <4>3. QED BY <4>1, <4>2
    <3>7. QED BY <3>6
  <2>5. place \in ahead
    BY <2>4
  <2>6. NextDead(cur, live) = AtFirstDead(next, live)
    BY <1>3 DEF NextDead
  <2> HIDE DEF ahead, place
  <2>7. /\ place[1] \in 1 .. MaxSessions /\ place[2] \in TabIds
        /\ tabToSession[place[2]] \in SessionIds
        /\ ~ ToSet(KeysOf(layout, place[2])) \subseteq live
    BY <2>3, <2>5
  <2>8. KeysOf(layout, place[2]) \in Seq(PtyIds)
    BY KeysTyped DEF Layouts
  <2>9. /\ next.session = tabToSession[place[2]] /\ next.index = place[1]
        /\ next.tab = place[2] /\ next.rest = KeysOf(layout, place[2])
    OBVIOUS
  <2> HIDE DEF next
  <2>10. Place(next) /\ ~ ToSet(next.rest) \subseteq live
    BY <2>7, <2>8, <2>9, WormholeAssumption DEF Place
  <2>11. QED BY <2>6, <2>10, FirstDeadTyped
<1>4. QED BY <1>1, <1>2, <1>3
-----------------------------------------------------------------------------
\* Sessions that were created, each at most once.
SessionSeq(q, n) == q \in Seq(1 .. n) /\ Len(q) <= n

CreatesTab(op) == op.kind \in {"session_create", "tab_create"}

\* The handlers that will add a tab.
Creating == {o \in DOMAIN ops : CreatesTab(ops[o])}

OpOK(op, n) == op \in OpType /\ (CreatesTab(op) => op.session <= n)

MemoryOK ==
  /\ SessionSeq(sessions, created.session)
  /\ layout = Null \/ (layout \in Layouts /\ Numbered(layout, created.tab))
  /\ tabToSession \in PartialFcn(TabIds, 1 .. created.session)

StoredOK ==
  /\ \/ stored = Null
     \/ stored \in StoredType /\ SessionSeq(stored.sessions, created.session)
  /\ DurableLayout

OpsOK ==
  DOMAIN ops \subseteq OpIds /\ \A o \in DOMAIN ops : OpOK(ops[o], created.session)

\* No more tabs are there or under way than panes were created.
CreatedOK ==
  /\ created \in [pty : 0 .. MaxPtys, session : 0 .. MaxSessions, tab : 0 .. MaxPtys]
  /\ created.tab + Cardinality(Creating) <= created.pty

SocketType == [pty : PtyIds, channel : Channels, state : {"open", "closing"}]

BridgesOK ==
  /\ Sound(channels)
  /\ terminals \in PartialFcn(PtyIds, SocketIds)
  /\ sockets \in PartialFcn(SocketIds, SocketType)

WindowsOK ==
  /\ reconnecting \subseteq PtyIds /\ clients \subseteq Clients
  /\ phase \in [Clients -> {"closed", "greeting", "ready"}]

\* What the handlers read and write fits together.
Coherent == MemoryOK /\ StoredOK /\ OpsOK /\ CreatedOK /\ BridgesOK /\ WindowsOK
-----------------------------------------------------------------------------
\* A handler that awaits its fetch takes a slot that no other one has.
LEMMA StartFresh ==
  ASSUME NEW op, Start(op)
  PROVE  \E o \in OpIds : o \notin DOMAIN ops /\ ops' = Put(ops, o, op)
<1> DEFINE free == OpIds \ DOMAIN ops
<1>1. free # {} /\ ops' = Put(ops, Min(free), op)
  BY DEF Start
<1>2. free \in SUBSET Nat
  BY DEF OpIds
<1> HIDE DEF free
<1>3. Min(free) \in free
  BY <1>1, <1>2, LeastElement
<1>4. QED BY <1>1, <1>3 DEF free

\* The handlers that will add a tab can be counted.
LEMMA CreatingFinite ==
  ASSUME OpsOK
  PROVE  IsFiniteSet(Creating) /\ Cardinality(Creating) \in Nat
<1>1. IsFiniteSet(OpIds)
  BY WormholeAssumption, FS_Interval DEF OpIds
<1>2. Creating \subseteq OpIds
  BY DEF Creating, OpsOK
<1>3. QED BY <1>1, <1>2, FS_Subset, FS_CardinalityType

\* A handler that awaits its fetch is one more.
LEMMA StartOps ==
  ASSUME NEW op, OpsOK, CreatedOK, Start(op), OpOK(op, created'.session),
         created'.session \in Nat, created.session <= created'.session
  PROVE  /\ OpsOK'
         /\ Cardinality(Creating)' \in Nat
         /\ Cardinality(Creating)' <= Cardinality(Creating) + 1
         /\ ~ CreatesTab(op) => Cardinality(Creating)' = Cardinality(Creating)
<1>1. PICK o \in OpIds : o \notin DOMAIN ops /\ ops' = Put(ops, o, op)
  BY StartFresh
<1>2. /\ DOMAIN ops' = DOMAIN ops \cup {o} /\ ops'[o] = op
      /\ \A x \in DOMAIN ops : ops'[x] = ops[x]
  BY <1>1 DEF Put
<1>3. created.session \in Nat
  BY DEF CreatedOK
<1>4. ASSUME NEW x \in DOMAIN ops PROVE OpOK(ops'[x], created'.session)
  <2>1. OpOK(ops[x], created.session)
    BY DEF OpsOK
  <2>2. CreatesTab(ops[x]) => ops[x].session \in Nat
    BY <2>1 DEF OpOK, OpType, CursorType, CreatesTab, SessionIds
  <2>3. QED BY <1>2, <1>3, <2>1, <2>2 DEF OpOK
<1>5. OpsOK'
  BY <1>1, <1>2, <1>4 DEF OpsOK
<1>6. Creating' = IF CreatesTab(op) THEN Creating \cup {o} ELSE Creating
  BY <1>2 DEF Creating
<1>7. IsFiniteSet(Creating) /\ Cardinality(Creating) \in Nat /\ o \notin Creating
  BY <1>1, CreatingFinite DEF Creating
<1>8. Cardinality(Creating \cup {o}) = Cardinality(Creating) + 1
  BY <1>7, FS_AddElement
<1>9. QED BY <1>5, <1>6, <1>7, <1>8

\* One that ends is one less.
LEMMA FinishOps ==
  ASSUME NEW o \in DOMAIN ops, OpsOK, Finish(o), created'.session = created.session
  PROVE  /\ OpsOK'
         /\ Cardinality(Creating)' \in Nat
         /\ Cardinality(Creating)' <= Cardinality(Creating)
         /\ CreatesTab(ops[o]) => Cardinality(Creating)' + 1 = Cardinality(Creating)
<1>1. DOMAIN ops' = DOMAIN ops \ {o} /\ \A x \in DOMAIN ops' : ops'[x] = ops[x]
  BY DEF Finish, Drop
<1>2. OpsOK'
  BY <1>1 DEF OpsOK
<1>3. Creating' = Creating \ {o}
  BY <1>1 DEF Creating
<1>4. IsFiniteSet(Creating) /\ Cardinality(Creating) \in Nat
  BY CreatingFinite
<1>5. CASE o \in Creating
  <2>1. Cardinality(Creating \ {o}) = Cardinality(Creating) - 1 /\ IsFiniteSet(Creating \ {o})
    BY <1>4, <1>5, FS_RemoveElement
  <2>2. Cardinality(Creating \ {o}) \in Nat
    BY <2>1, FS_CardinalityType
  <2>3. QED BY <1>2, <1>3, <1>4, <2>1, <2>2
<1>6. CASE o \notin Creating
  <2>1. Creating' = Creating /\ ~ CreatesTab(ops[o])
    BY <1>3, <1>6 DEF Creating
  <2>2. QED BY <1>2, <1>4, <2>1
<1>7. QED BY <1>5, <1>6

\* The loop of a connect goes on to its next fetch.
LEMMA AdvanceOps ==
  ASSUME NEW o \in DOMAIN ops, OpsOK, CreatedOK, ops[o].kind = "connect",
         NEW cur \in CursorType, ops' = [ops EXCEPT ![o] = cur], created' = created
  PROVE  OpsOK' /\ CreatedOK'
<1>1. DOMAIN ops' = DOMAIN ops /\ ops'[o] = cur /\ \A x \in DOMAIN ops \ {o} : ops'[x] = ops[x]
  OBVIOUS
<1>2. cur \in OpType /\ ~ CreatesTab(cur)
  BY DEF CursorType, OpType, CreatesTab
<1>3. OpsOK'
  BY <1>1, <1>2 DEF OpsOK, OpOK
<1>4. Creating' = Creating
  BY <1>1, <1>2 DEF Creating, CreatesTab
<1>5. QED BY <1>3, <1>4 DEF CreatedOK
-----------------------------------------------------------------------------
\* Every way of changing the bridges keeps them well typed and the channel map
\* sound.
LEMMA CloseTerminalsOK ==
  ASSUME NEW ps \in Seq(PtyIds), BridgesOK, CloseTerminals(ps)
  PROVE  BridgesOK'
<1>1. Sound(channels')
  BY ReleaseAllKeeps DEF CloseTerminals, BridgesOK
<1>2. terminals' \in PartialFcn(PtyIds, SocketIds)
  BY DropType DEF CloseTerminals, BridgesOK
<1>3. PICK D \in SUBSET SocketIds : sockets \in [D -> SocketType]
  BY DEF BridgesOK, PartialFcn
<1>4. DOMAIN sockets' = D
  BY <1>3 DEF CloseTerminals
<1>5. ASSUME NEW k \in D PROVE sockets'[k] \in SocketType
  <2>1. sockets[k] \in SocketType
    BY <1>3
  <2>2. sockets'[k] = sockets[k] \/ sockets'[k] = [sockets[k] EXCEPT !.state = "closing"]
    BY <1>3 DEF CloseTerminals
  <2>3. QED BY <2>1, <2>2 DEF SocketType
<1>6. sockets' = [k \in D |-> sockets'[k]]
  BY <1>3 DEF CloseTerminals
<1>7. sockets' \in [D -> SocketType]
  BY <1>5, <1>6
<1>8. QED BY <1>1, <1>2, <1>3, <1>7 DEF BridgesOK, PartialFcn

\* The answer to a fetch keeps the bridges sound, even with no channel left.
LEMMA BridgeOK ==
  ASSUME NEW p \in PtyIds, NEW outcome, BridgesOK, Bridge(p, outcome)
  PROVE  BridgesOK'
<1> DEFINE m == Assign(channels, p)
<1>1. CASE UNCHANGED bridges
  BY <1>1 DEF bridges, BridgesOK
<1>2. CASE terminals' = Drop(terminals, {p}) /\ UNCHANGED <<channels, sockets>>
  BY <1>2, DropType DEF BridgesOK
<1>3. ASSUME HasChannel(m, p),
             NEW k \in SocketIds \ DOMAIN sockets,
             terminals' = Put(terminals, p, k),
             channels' = m,
             sockets' = Put(sockets, k, [pty |-> p, state |-> "open",
                                         channel |-> m.ptyToChannel[p]])
      PROVE  BridgesOK'
  <2>1. Sound(m)
    BY WormholeAssumption, AssignSound DEF BridgesOK
  <2> HIDE DEF m
  <2>2. m.ptyToChannel[p] \in Channels
    BY <1>3, <2>1 DEF HasChannel, Sound, ChannelMapType, PartialFcn
  <2> DEFINE socket == [pty |-> p, state |-> "open", channel |-> m.ptyToChannel[p]]
  <2>3. socket \in SocketType
    BY <2>2 DEF SocketType
  <2> HIDE DEF socket
  <2>4. sockets' = Put(sockets, k, socket)
    BY <1>3 DEF socket
  <2>5. QED BY <1>3, <2>1, <2>3, <2>4, PutType DEF BridgesOK
<1>4. QED BY <1>1, <1>2, <1>3 DEF Bridge

\* An object that was constructed anew has no bridges.
LEMMA HydrateBridges ==
  ASSUME Hydrate, sockets' = EmptyMap
  PROVE  BridgesOK'
BY NewSound, EmptyType DEF Hydrate, BridgesOK
-----------------------------------------------------------------------------
\* A map into a set is one into a larger set.
LEMMA PartialMono ==
  ASSUME NEW S, NEW T, NEW U, T \subseteq U, NEW m \in PartialFcn(S, T)
  PROVE  m \in PartialFcn(S, U)
<1>1. PICK D \in SUBSET S : m \in [D -> T]
  BY DEF PartialFcn
<1>2. m \in [D -> U]
  BY <1>1
<1>3. QED BY <1>1, <1>2 DEF PartialFcn

\* The ids given out so far are ids.
LEMMA CreatedIds ==
  ASSUME CreatedOK
  PROVE  /\ created.session \in Nat /\ created.tab \in Nat /\ created.pty \in Nat
         /\ created.pty <= MaxPtys /\ created.tab <= MaxPtys
         /\ created.session <= MaxSessions
         /\ 1 .. created.session \subseteq SessionIds
         /\ created = [pty |-> created.pty, session |-> created.session, tab |-> created.tab]
BY WormholeAssumption DEF CreatedOK, SessionIds

\* The sessions are no more than were ever created.
LEMMA SessionSeqTyped ==
  ASSUME CreatedOK, NEW q, SessionSeq(q, created.session)
  PROVE  q \in Seq(SessionIds) /\ Len(q) \in Nat /\ Len(q) <= MaxSessions
<1>1. /\ created.session \in Nat /\ created.session <= MaxSessions
      /\ 1 .. created.session \subseteq SessionIds /\ MaxSessions \in Nat
  BY CreatedIds, WormholeAssumption
<1>2. q \in Seq(SessionIds)
  BY <1>1, SeqMonotonic DEF SessionSeq
<1>3. QED BY <1>1, <1>2 DEF SessionSeq

\* A step that leaves a part alone keeps what is true of it.
LEMMA MemoryKept ==
  ASSUME MemoryOK, UNCHANGED memory, created'.session = created.session,
         created'.tab = created.tab
  PROVE  MemoryOK'
BY DEF MemoryOK, memory

\* The stored state follows memory when neither changes.
LEMMA StoredKept ==
  ASSUME StoredOK, UNCHANGED memory, UNCHANGED stored,
         created'.session = created.session
  PROVE  StoredOK'
BY DEF StoredOK, memory, DurableLayout

\* What persist writes is what is in memory.
LEMMA PersistOK ==
  ASSUME MemoryOK', CreatedOK', StoredOK, Persist, layout' = Null => layout = Null
  PROVE  StoredOK'
<1>1. CASE layout' = Null
  <2>1. stored' = Null
    BY <1>1 DEF Persist, StoredOK, DurableLayout
  <2>2. DurableLayout'
    BY <1>1, <2>1 DEF DurableLayout
  <2>3. QED BY <2>1, <2>2 DEF StoredOK
<1>2. CASE layout' # Null
  <2> DEFINE r == [sessions |-> sessions', layout |-> layout',
                   tabToSession |-> tabToSession']
  <2>1. stored' = r
    BY <1>2 DEF Persist
  <2>2. /\ r.sessions = sessions' /\ r.layout = layout' /\ r.tabToSession = tabToSession'
    OBVIOUS
  <2>3. r \in StoredType
    <3>1. sessions' \in Seq(SessionIds)
      <4>1. 1 .. created'.session \subseteq SessionIds
        BY WormholeAssumption DEF CreatedOK, SessionIds
      <4>2. QED BY <4>1, SeqMonotonic DEF MemoryOK, SessionSeq
    <3>2. layout' \in Layouts
      BY <1>2 DEF MemoryOK
    <3>3. tabToSession' \in PartialFcn(TabIds, SessionIds)
      <4>1. 1 .. created'.session \subseteq SessionIds
        BY WormholeAssumption DEF CreatedOK, SessionIds
      <4>2. QED BY <4>1, PartialMono DEF MemoryOK
    <3>4. QED BY <3>1, <3>2, <3>3 DEF StoredType
  <2>4. r # Null
    BY <2>3, NullAssumption
  <2> HIDE DEF r
  <2>5. DurableLayout'
    BY <1>2, <2>1, <2>2, <2>4 DEF DurableLayout
  <2>6. SessionSeq(stored'.sessions, created'.session)
    BY <2>1, <2>2 DEF MemoryOK
  <2>7. QED BY <2>1, <2>3, <2>5, <2>6 DEF StoredOK
<1>3. QED BY <1>1, <1>2

\* A step that leaves layout, sessions and counts alone keeps the invariant
\* when it keeps the rest of it.
LEMMA QuietStep ==
  ASSUME Coherent, UNCHANGED memory, UNCHANGED stored \/ Persist,
         created'.session = created.session, created'.tab = created.tab,
         OpsOK', CreatedOK', BridgesOK', WindowsOK'
  PROVE  Coherent'
<1>1. MemoryOK'
  BY MemoryKept DEF Coherent
<1>2. StoredOK'
  <2>1. CASE UNCHANGED stored
    BY <2>1, StoredKept DEF Coherent
  <2>2. CASE Persist
    BY <1>1, <2>2, PersistOK DEF Coherent, memory
  <2>3. QED BY <2>1, <2>2
<1>3. QED BY <1>1, <1>2 DEF Coherent

\* The handlers under way, when none starts or ends.
LEMMA OpsKept ==
  ASSUME OpsOK, CreatedOK, UNCHANGED <<ops, created>>
  PROVE  OpsOK' /\ CreatedOK'
BY DEF OpsOK, CreatedOK, Creating

\* The bridges, when no step touches them.
LEMMA BridgesKept == ASSUME BridgesOK, UNCHANGED bridges PROVE BridgesOK'
BY DEF BridgesOK, bridges

\* The windows, and the marks of lazy reconnects.
LEMMA WindowsKept ==
  ASSUME WindowsOK, UNCHANGED browser, reconnecting' \subseteq PtyIds
  PROVE  WindowsOK'
BY DEF WindowsOK, browser

\* A handler that awaits a fetch for a new pane.
LEMMA StartPane ==
  ASSUME Coherent, created.pty < MaxPtys, NEW op, Start(op), OpOK(op, created'.session),
         NEW n \in {created.session, created.session + 1}, n <= MaxSessions,
         created' = [created EXCEPT !.session = n, !.pty = @ + 1]
  PROVE  OpsOK' /\ CreatedOK'
<1>1. OpsOK /\ CreatedOK
  BY DEF Coherent
<1>2. /\ created.session \in Nat /\ created.tab \in Nat /\ created.pty \in Nat
      /\ created.tab <= MaxPtys /\ MaxPtys \in Nat /\ MaxSessions \in Nat
      /\ created = [pty |-> created.pty, session |-> created.session, tab |-> created.tab]
  BY <1>1, CreatedIds, WormholeAssumption
<1>3. created' = [pty |-> created.pty + 1, session |-> n, tab |-> created.tab]
  BY <1>2
<1>4. created'.pty = created.pty + 1 /\ created'.session = n /\ created'.tab = created.tab
  BY <1>3
<1>5. /\ OpsOK' /\ Cardinality(Creating)' \in Nat
      /\ Cardinality(Creating)' <= Cardinality(Creating) + 1
  BY <1>1, <1>2, <1>4, StartOps
<1>6. Cardinality(Creating) \in Nat /\ created.tab + Cardinality(Creating) <= created.pty
  BY <1>1, CreatingFinite DEF CreatedOK
<1>7. created'.tab + Cardinality(Creating)' <= created'.pty
  BY <1>2, <1>4, <1>5, <1>6
<1>8. created' \in [pty : 0 .. MaxPtys, session : 0 .. MaxSessions, tab : 0 .. MaxPtys]
  BY <1>2, <1>3
<1>9. QED BY <1>5, <1>7, <1>8 DEF CreatedOK
-----------------------------------------------------------------------------
\* Every handler keeps the object coherent.  A window joins.
LEMMA JoinStep == ASSUME Coherent, NEW c \in Clients, Join(c) PROVE Coherent'
<1>1. /\ UNCHANGED <<memory, bridges, stored, ops, created>>
      /\ reconnecting' = reconnecting
      /\ clients' = clients \cup {c} /\ phase' = [phase EXCEPT ![c] = "greeting"]
  BY DEF Join
<1>2. WindowsOK'
  BY <1>1 DEF Coherent, WindowsOK
<1>3. QED BY <1>1, <1>2, OpsKept, BridgesKept, QuietStep DEF Coherent

\* The last window that leaves makes the object persist.
LEMMA LeaveStep == ASSUME Coherent, NEW c \in Clients, Leave(c) PROVE Coherent'
<1>1. /\ UNCHANGED <<memory, bridges, ops, created>>
      /\ reconnecting' = reconnecting /\ (UNCHANGED stored \/ Persist)
      /\ clients' = clients \ {c} /\ phase' = [phase EXCEPT ![c] = "closed"]
  BY DEF Leave
<1>2. WindowsOK'
  BY <1>1 DEF Coherent, WindowsOK
<1>3. QED BY <1>1, <1>2, OpsKept, BridgesKept, QuietStep DEF Coherent

\* The operation of a connect is typed.
LEMMA NextDeadOK ==
  ASSUME Coherent, NEW cur, Place(cur), NEW live, NextDead(cur, live) # Null
  PROVE  NextDead(cur, live) \in CursorType
<1>1. MemoryOK /\ CreatedOK
  BY DEF Coherent
<1>2. sessions \in Seq(SessionIds) /\ Len(sessions) <= MaxSessions
  BY <1>1, SessionSeqTyped DEF MemoryOK
<1>3. tabToSession \in PartialFcn(TabIds, SessionIds)
  BY <1>1, CreatedIds, PartialMono DEF MemoryOK
<1>4. QED BY <1>1, <1>2, <1>3, NextDeadTyped DEF MemoryOK

\* connect starts the reconnect loop, or is answered at once.
LEMMA ConnectStep == ASSUME Coherent, NEW c \in Clients, Connect(c) PROVE Coherent'
<1> DEFINE cur == NextDead(LoopStart, DOMAIN terminals)
<1>1. /\ UNCHANGED <<memory, bridges, clients, reconnecting, stored, created>>
      /\ phase' = [phase EXCEPT ![c] = "ready"]
      /\ (UNCHANGED ops \/ (cur # Null /\ Start(cur)))
  BY DEF Connect
<1>2. WindowsOK'
  BY <1>1 DEF Coherent, WindowsOK
<1>3. Place(LoopStart)
  BY WormholeAssumption DEF Place, LoopStart
<1>4. OpsOK' /\ CreatedOK'
  <2>1. CASE UNCHANGED ops
    BY <1>1, <2>1, OpsKept DEF Coherent
  <2>2. CASE cur # Null /\ Start(cur)
    <3>1. cur \in CursorType
      BY <1>3, <2>2, NextDeadOK
    <3> HIDE DEF cur
    <3>2. OpOK(cur, created'.session) /\ ~ CreatesTab(cur)
      BY <3>1 DEF OpOK, OpType, CursorType, CreatesTab
    <3>3. OpsOK /\ CreatedOK /\ created.session \in Nat
      BY CreatedIds DEF Coherent
    <3>4. OpsOK' /\ Cardinality(Creating)' = Cardinality(Creating)
      BY <1>1, <2>2, <3>2, <3>3, StartOps
    <3>5. QED BY <1>1, <3>3, <3>4 DEF CreatedOK
  <2>3. QED BY <1>1, <2>1, <2>2
<1>5. QED BY <1>1, <1>2, <1>4, BridgesKept, QuietStep DEF Coherent

\* Input for a dead pane starts a lazy reconnect.
LEMMA HandleInputStep == ASSUME Coherent, NEW ch, HandleInput(ch) PROVE Coherent'
<1> DEFINE p == channels.channelToPty[ch]
           op == [kind |-> "reconnect", pty |-> p]
<1>1. /\ UNCHANGED <<memory, bridges, stored, created>> /\ UNCHANGED browser
      /\ reconnecting' = reconnecting \cup {p} /\ Start(op)
      /\ ch \in DOMAIN channels.channelToPty
  BY DEF HandleInput
<1>2. p \in PtyIds
  BY <1>1, WormholeAssumption DEF Coherent, BridgesOK, Sound, ChannelMapType, PartialFcn
<1> HIDE DEF p
<1>3. OpOK(op, created'.session) /\ ~ CreatesTab(op)
  BY <1>2 DEF OpOK, OpType, CreatesTab
<1> HIDE DEF op
<1>4. OpsOK /\ CreatedOK /\ created.session \in Nat
  BY CreatedIds DEF Coherent
<1>5. OpsOK' /\ Cardinality(Creating)' = Cardinality(Creating)
  BY <1>1, <1>3, <1>4, StartOps
<1>6. CreatedOK'
  BY <1>1, <1>4, <1>5 DEF CreatedOK
<1>7. WindowsOK'
  BY <1>1, <1>2, WindowsKept DEF Coherent, WindowsOK
<1>8. QED BY <1>1, <1>5, <1>6, <1>7, BridgesKept, QuietStep DEF Coherent

\* A pane is asked for: its id is taken before the fetch.
LEMMA TabCreateStep == ASSUME Coherent, NEW s, TabCreate(s) PROVE Coherent'
<1> DEFINE op == [kind |-> "tab_create", pty |-> FreshPty, session |-> s]
<1>1. /\ UNCHANGED <<memory, bridges, stored>> /\ UNCHANGED browser
      /\ reconnecting' = reconnecting /\ Start(op) /\ created.pty < MaxPtys
      /\ created' = [created EXCEPT !.pty = @ + 1] /\ s \in ToSet(sessions)
  BY DEF TabCreate
<1>2. CreatedOK /\ MemoryOK
  BY DEF Coherent
<1>3. /\ created.session \in Nat /\ created.pty \in Nat /\ MaxPtys \in Nat
      /\ created.session <= MaxSessions /\ 1 .. created.session \subseteq SessionIds
      /\ created = [pty |-> created.pty, session |-> created.session, tab |-> created.tab]
  BY <1>2, CreatedIds, WormholeAssumption
<1>4. /\ created'.session = created.session /\ created'.tab = created.tab
      /\ created' = [created EXCEPT !.session = created.session, !.pty = @ + 1]
  BY <1>1, <1>3
<1>5. s \in 1 .. created.session
  <2>1. sessions \in Seq(1 .. created.session)
    BY <1>2 DEF MemoryOK, SessionSeq
  <2>2. PICK i \in DOMAIN sessions : s = sessions[i]
    BY <1>1 DEF ToSet
  <2>3. QED BY <2>1, <2>2, ElementOfSeq, LenProperties
<1>6. OpOK(op, created'.session)
  BY <1>1, <1>3, <1>4, <1>5 DEF OpOK, OpType, FreshPty, PtyIds
<1> HIDE DEF op
<1>7. OpsOK' /\ CreatedOK'
  BY <1>1, <1>3, <1>4, <1>6, StartPane
<1>8. WindowsOK'
  BY <1>1, WindowsKept DEF Coherent, WindowsOK
<1>9. QED BY <1>1, <1>4, <1>7, <1>8, BridgesKept, QuietStep DEF Coherent

\* A split asks for a pane but for no tab.
LEMMA PaneSplitStep == ASSUME Coherent, NEW p \in PtyIds, PaneSplit(p) PROVE Coherent'
<1> DEFINE op == [kind |-> "pane_split", pty |-> FreshPty, pane |-> p]
<1>1. /\ UNCHANGED <<memory, bridges, stored>> /\ UNCHANGED browser
      /\ reconnecting' = reconnecting /\ Start(op) /\ created.pty < MaxPtys
      /\ created' = [created EXCEPT !.pty = @ + 1]
  BY DEF PaneSplit
<1>2. CreatedOK
  BY DEF Coherent
<1>3. /\ created.session \in Nat /\ created.pty \in Nat /\ MaxPtys \in Nat
      /\ created.session <= MaxSessions
      /\ created = [pty |-> created.pty, session |-> created.session, tab |-> created.tab]
  BY <1>2, CreatedIds, WormholeAssumption
<1>4. /\ created'.session = created.session /\ created'.tab = created.tab
      /\ created' = [created EXCEPT !.session = created.session, !.pty = @ + 1]
  BY <1>1, <1>3
<1>5. OpOK(op, created'.session)
  BY <1>1, <1>3, <1>4 DEF OpOK, OpType, FreshPty, PtyIds, CreatesTab
<1> HIDE DEF op
<1>6. OpsOK' /\ CreatedOK'
  BY <1>1, <1>3, <1>4, <1>5, StartPane
<1>7. WindowsOK'
  BY <1>1, WindowsKept DEF Coherent, WindowsOK
<1>8. QED BY <1>1, <1>4, <1>6, <1>7, BridgesKept, QuietStep DEF Coherent

\* A session exists before its terminal does, and without a tab it may be
\* lost in a restart, but nothing that is shown names it.
LEMMA SessionCreateStep == ASSUME Coherent, SessionCreate PROVE Coherent'
<1> DEFINE n == created.session + 1
           op == [kind |-> "session_create", pty |-> FreshPty, session |-> n]
<1>1. CreatedOK /\ MemoryOK /\ StoredOK
  BY DEF Coherent
<1>2. /\ created.session \in Nat /\ created.pty \in Nat /\ MaxPtys \in Nat
      /\ MaxSessions \in Nat
      /\ created = [pty |-> created.pty, session |-> created.session, tab |-> created.tab]
  BY <1>1, CreatedIds, WormholeAssumption
<1>3. created' = [created EXCEPT !.session = n, !.pty = @ + 1]
  BY DEF SessionCreate
<1>4. created'.session = n /\ created'.tab = created.tab
  BY <1>2, <1>3
<1>5. /\ UNCHANGED <<layout, tabToSession, stored>> /\ UNCHANGED bridges
      /\ UNCHANGED browser /\ reconnecting' = reconnecting /\ Start(op)
      /\ created.pty < MaxPtys /\ created.session < MaxSessions
      /\ sessions' = Append(sessions, n)
  BY <1>4 DEF SessionCreate
<1>6. OpOK(op, created'.session)
  BY <1>2, <1>4, <1>5 DEF OpOK, OpType, FreshPty, PtyIds, SessionIds
<1> HIDE DEF op
<1>7. OpsOK' /\ CreatedOK'
  BY <1>2, <1>3, <1>4, <1>5, <1>6, StartPane
<1>8. WindowsOK'
  BY <1>5, WindowsKept DEF Coherent, WindowsOK
<1>9. BridgesOK'
  BY <1>5, BridgesKept DEF Coherent
<1>10. /\ sessions \in Seq(1 .. n) /\ Len(sessions) \in Nat /\ Len(sessions) <= created.session
       /\ n \in 1 .. n /\ n \in Nat
  <2>1. /\ sessions \in Seq(1 .. created.session) /\ Len(sessions) <= created.session
        /\ 1 .. created.session \subseteq 1 .. n
    BY <1>1, <1>2 DEF MemoryOK, SessionSeq
  <2>2. QED BY <1>2, <2>1, SeqMonotonic
<1> HIDE DEF n
<1>11. SessionSeq(sessions', n)
  <2>1. sessions' \in Seq(1 .. n) /\ Len(sessions') = Len(sessions) + 1
    BY <1>5, <1>10
  <2>2. QED BY <1>2, <1>10, <2>1 DEF SessionSeq, n
<1>12. MemoryOK'
  <2>1. tabToSession \in PartialFcn(TabIds, 1 .. n)
    <3>1. 1 .. created.session \subseteq 1 .. n
      BY <1>2 DEF n
    <3>2. QED BY <1>1, <3>1, PartialMono DEF MemoryOK
  <2>2. QED BY <1>1, <1>4, <1>5, <1>11, <2>1 DEF MemoryOK
<1>13. DurableLayout'
  <2>1. CASE layout = Null
    BY <1>1, <1>5, <2>1 DEF StoredOK, DurableLayout
  <2>2. CASE layout # Null
    <3>1. /\ stored # Null /\ stored.layout = layout /\ stored.tabToSession = tabToSession
          /\ ToSet(stored.sessions) \subseteq ToSet(sessions)
          /\ \A s \in ToSet(sessions) \ ToSet(stored.sessions) :
               \A t \in DOMAIN tabToSession : tabToSession[t] # s
      BY <1>1, <2>2 DEF StoredOK, DurableLayout
    <3>2. ToSet(sessions') = ToSet(sessions) \cup {n}
      <4>1. /\ DOMAIN sessions = 1 .. Len(sessions)
            /\ DOMAIN sessions' = 1 .. Len(sessions) + 1
            /\ \A i \in 1 .. Len(sessions) : sessions'[i] = sessions[i]
            /\ sessions'[Len(sessions) + 1] = n
        BY <1>5, <1>10
      <4>2. 1 .. Len(sessions) + 1 = (1 .. Len(sessions)) \cup {Len(sessions) + 1}
        BY <1>10
      <4>3. QED BY <4>1, <4>2 DEF ToSet
    <3>3. \A t \in DOMAIN tabToSession : tabToSession[t] # n
      <4>1. \A t \in DOMAIN tabToSession : tabToSession[t] \in 1 .. created.session
        BY <1>1 DEF MemoryOK, PartialFcn
      <4>2. QED BY <1>2, <4>1 DEF n
    <3>4. QED BY <1>5, <2>2, <3>1, <3>2, <3>3 DEF DurableLayout
  <2>3. QED BY <2>1, <2>2
<1>14. StoredOK'
  <2>1. ASSUME stored # Null
        PROVE  stored \in StoredType /\ SessionSeq(stored.sessions, n)
    <3>1. stored \in StoredType /\ SessionSeq(stored.sessions, created.session)
      BY <1>1, <2>1 DEF StoredOK
    <3>2. 1 .. created.session \subseteq 1 .. n
      BY <1>2 DEF n
    <3>3. stored.sessions \in Seq(1 .. n)
      BY <3>1, <3>2, SeqMonotonic DEF SessionSeq
    <3>4. Len(stored.sessions) \in Nat /\ Len(stored.sessions) <= created.session
      BY <3>1, <3>3 DEF SessionSeq
    <3>5. Len(stored.sessions) <= n
      BY <1>2, <3>4 DEF n
    <3>6. QED BY <3>1, <3>3, <3>5 DEF SessionSeq
  <2>2. QED BY <1>4, <1>5, <1>13, <2>1 DEF StoredOK
<1>15. QED BY <1>7, <1>8, <1>9, <1>12, <1>14 DEF Coherent

\* A handler that changes the layout and persists it.
LEMMA LayoutStep ==
  ASSUME Coherent, Persist, UNCHANGED browser, reconnecting' \subseteq reconnecting,
         OpsOK', CreatedOK', BridgesOK',
         created'.session = created.session,
         SessionSeq(sessions', created.session),
         layout' \in Layouts, Numbered(layout', created'.tab),
         tabToSession' \in PartialFcn(TabIds, 1 .. created.session)
  PROVE  Coherent'
<1>1. MemoryOK'
  BY DEF MemoryOK
<1>2. StoredOK'
  BY <1>1, NullAssumption, PersistOK DEF Coherent
<1>3. WindowsOK'
  BY WindowsKept DEF Coherent, WindowsOK
<1>4. QED BY <1>1, <1>2, <1>3 DEF Coherent

\* Removing a session leaves a sequence of sessions.
LEMMA SessionRemoved ==
  ASSUME NEW q, NEW n \in Nat, SessionSeq(q, n), NEW s
  PROVE  SessionSeq(RemoveFirst(q, s), n)
<1>1. q \in Seq(1 .. n) /\ Len(q) <= n /\ Len(q) \in Nat
  BY DEF SessionSeq
<1>2. /\ RemoveFirst(q, s) \in Seq(1 .. n) /\ Len(RemoveFirst(q, s)) <= Len(q)
      /\ Len(RemoveFirst(q, s)) \in Nat
  BY <1>1, RemoveFirstIs
<1>3. QED BY <1>1, <1>2 DEF SessionSeq

\* A session is destroyed with the tabs that are its own.
LEMMA SessionDestroyStep == ASSUME Coherent, NEW s, SessionDestroy(s) PROVE Coherent'
<1>1. /\ UNCHANGED browser /\ UNCHANGED <<reconnecting, ops, created>>
      /\ Persist /\ sessions' = RemoveFirst(sessions, s)
  BY DEF SessionDestroy
<1>2. OpsOK' /\ CreatedOK'
  BY <1>1, OpsKept DEF Coherent
<1>3. SessionSeq(sessions', created.session)
  <2>1. SessionSeq(sessions, created.session) /\ created.session \in Nat
    BY CreatedIds DEF Coherent, MemoryOK
  <2>2. QED BY <1>1, <2>1, SessionRemoved
<1>4. CASE layout = Null
  <2>1. UNCHANGED <<layout, tabToSession>> /\ UNCHANGED bridges
    BY <1>4 DEF SessionDestroy
  <2>2. MemoryOK'
    BY <1>1, <1>3, <2>1 DEF Coherent, MemoryOK
  <2>3. StoredOK'
    BY <1>1, <1>2, <1>4, <2>1, <2>2, PersistOK DEF Coherent
  <2>4. BridgesOK' /\ WindowsOK'
    BY <1>1, <2>1, BridgesKept, WindowsKept DEF Coherent, WindowsOK
  <2>5. QED BY <1>2, <2>2, <2>3, <2>4 DEF Coherent
<1>5. CASE layout # Null
  <2> DEFINE done == CloseTabsOf(s)
  <2>1. /\ CloseTerminals(done.panes) /\ layout' = done.layout
        /\ \E ts : tabToSession' = Drop(tabToSession, ts)
    BY <1>5 DEF SessionDestroy
  <2>2. layout \in Layouts /\ Numbered(layout, created.tab)
    BY <1>5 DEF Coherent, MemoryOK
  <2>3. Reduced(done, layout)
    BY <2>2, CloseTabsReduces DEF Numbered
  <2> HIDE DEF done
  <2>4. BridgesOK'
    BY <2>1, <2>3, CloseTerminalsOK DEF Coherent, Reduced
  <2>5. Numbered(layout', created.tab)
    BY <2>1, <2>2, <2>3 DEF Reduced, Numbered, NoOtherTab
  <2>6. tabToSession' \in PartialFcn(TabIds, 1 .. created.session)
    BY <2>1, DropType DEF Coherent, MemoryOK
  <2>7. layout' \in Layouts
    BY <2>1, <2>3 DEF Reduced
  <2>8. QED BY <1>1, <1>2, <1>3, <2>4, <2>5, <2>6, <2>7, LayoutStep
<1>6. QED BY <1>4, <1>5

\* A tab that is found is one of the layout.
LEMMA FoundInLayout ==
  ASSUME Coherent, NEW t, TabIndex(layout, t) # 0
  PROVE  /\ layout \in Layouts /\ layout # Null /\ Numbered(layout, created.tab)
         /\ TabIndex(layout, t) \in 1 .. Len(layout.tabs)
         /\ layout.tabs[TabIndex(layout, t)].id = t
<1>1. layout # Null
  BY DEF TabIndex
<1>2. layout \in Layouts /\ Numbered(layout, created.tab)
  BY <1>1 DEF Coherent, MemoryOK
<1>3. QED BY <1>1, <1>2, TabFound DEF Layouts

\* The tab that is closed is one of several.
LEMMA TabCloseStep == ASSUME Coherent, NEW t, TabClose(t) PROVE Coherent'
<1>1. /\ UNCHANGED browser /\ UNCHANGED <<sessions, reconnecting, ops, created>>
      /\ Persist /\ TabIndex(layout, t) # 0
      /\ CloseTerminals(KeysOf(layout, t))
      /\ layout' = CloseTab(layout, TabIndex(layout, t))
      /\ tabToSession' = Drop(tabToSession, {t})
  BY DEF TabClose
<1>2. OpsOK' /\ CreatedOK'
  BY <1>1, OpsKept DEF Coherent
<1> DEFINE i == TabIndex(layout, t)
<1>3. /\ layout \in Layouts /\ layout # Null /\ Numbered(layout, created.tab)
      /\ i \in 1 .. Len(layout.tabs)
  BY <1>1, FoundInLayout
<1>4. BridgesOK'
  <2>1. KeysOf(layout, t) \in Seq(PtyIds)
    BY <1>3, KeysTyped DEF Layouts
  <2>2. QED BY <1>1, <2>1, CloseTerminalsOK DEF Coherent
<1>5. layout' = CloseTab(layout, i)
  BY <1>1
<1> HIDE DEF i
<1>6. layout' \in Layouts /\ DistinctTabs(layout') /\ NoOtherTab(layout', layout)
  BY <1>3, <1>5, NullAssumption, CloseTabIs DEF Layouts, Numbered
<1>7. Numbered(layout', created.tab)
  BY <1>3, <1>6 DEF Numbered, NoOtherTab
<1>8. tabToSession' \in PartialFcn(TabIds, 1 .. created.session)
  BY <1>1, DropType DEF Coherent, MemoryOK
<1>9. SessionSeq(sessions', created.session)
  BY <1>1 DEF Coherent, MemoryOK
<1>10. QED BY <1>1, <1>2, <1>4, <1>6, <1>7, <1>8, <1>9, LayoutStep

\* The user moves to another tab.
LEMMA TabSwitchStep == ASSUME Coherent, NEW t, TabSwitch(t) PROVE Coherent'
<1>1. /\ UNCHANGED browser /\ UNCHANGED <<sessions, tabToSession, reconnecting, ops, created>>
      /\ UNCHANGED bridges
      /\ Persist /\ TabIndex(layout, t) # 0
      /\ layout' = SwitchTab(layout, TabIndex(layout, t))
  BY DEF TabSwitch
<1>2. OpsOK' /\ CreatedOK' /\ BridgesOK'
  BY <1>1, OpsKept, BridgesKept DEF Coherent
<1> DEFINE i == TabIndex(layout, t)
<1>3. /\ layout \in Layouts /\ Numbered(layout, created.tab)
      /\ i \in 1 .. Len(layout.tabs)
  BY <1>1, FoundInLayout
<1>4. layout' = SwitchTab(layout, i)
  BY <1>1
<1> HIDE DEF i
<1>5. layout' \in Layouts /\ Numbered(layout', created.tab)
  BY <1>3, <1>4, SwitchTabIs DEF Layouts
<1>6. /\ SessionSeq(sessions', created.session)
      /\ tabToSession' \in PartialFcn(TabIds, 1 .. created.session)
  BY <1>1 DEF Coherent, MemoryOK
<1>7. QED BY <1>1, <1>2, <1>5, <1>6, LayoutStep

\* A pane that is not in the active tab only loses its terminal.
LEMMA PaneCloseStep == ASSUME Coherent, NEW p \in PtyIds, PaneClose(p) PROVE Coherent'
<1>1. /\ UNCHANGED browser /\ UNCHANGED <<sessions, tabToSession, reconnecting, ops, created>>
      /\ CloseTerminals(<<p>>) /\ layout # Null
      /\ \/ layout' = ClosePane(layout, p) /\ Persist
         \/ UNCHANGED <<layout, stored>>
  BY DEF PaneClose
<1>2. OpsOK' /\ CreatedOK'
  BY <1>1, OpsKept DEF Coherent
<1>3. BridgesOK'
  <2>1. <<p>> \in Seq(PtyIds)
    OBVIOUS
  <2>2. QED BY <1>1, <2>1, CloseTerminalsOK DEF Coherent
<1>4. WindowsOK'
  BY <1>1, WindowsKept DEF Coherent, WindowsOK
<1>5. CASE UNCHANGED <<layout, stored>>
  BY <1>1, <1>2, <1>3, <1>4, <1>5, QuietStep DEF memory
<1>6. CASE layout' = ClosePane(layout, p) /\ Persist
  <2>1. layout \in Layouts /\ Numbered(layout, created.tab)
    BY <1>1 DEF Coherent, MemoryOK
  <2>2. layout' \in Layouts /\ Numbered(layout', created.tab)
    BY <1>6, <2>1, ClosePaneIs DEF Layouts
  <2>3. /\ SessionSeq(sessions', created.session)
        /\ tabToSession' \in PartialFcn(TabIds, 1 .. created.session)
    BY <1>1 DEF Coherent, MemoryOK
  <2>4. QED BY <1>1, <1>2, <1>3, <1>6, <2>2, <2>3, LayoutStep
<1>7. QED BY <1>1, <1>5, <1>6

\* A rename or a focus changes nothing that is modelled, but is persisted.
LEMMA RenameOrFocusStep == ASSUME Coherent, RenameOrFocus PROVE Coherent'
<1>1. /\ UNCHANGED <<memory, bridges, reconnecting, ops, created>> /\ UNCHANGED browser
      /\ Persist
  BY DEF RenameOrFocus
<1>2. WindowsOK'
  BY <1>1, WindowsKept DEF Coherent, WindowsOK
<1>3. QED BY <1>1, <1>2, OpsKept, BridgesKept, QuietStep DEF Coherent
-----------------------------------------------------------------------------
\* The inductive invariant: a split is under way only once there is a tab.
SplitsOK == layout = Null => \A o \in DOMAIN ops : ops[o].kind # "pane_split"

IInv == Coherent /\ SplitsOK

\* An operation knows a PTY of the object.
LEMMA OpPty ==
  ASSUME OpsOK, NEW o \in DOMAIN ops
  PROVE  ops[o] \in OpType /\ ops[o].pty \in PtyIds
<1>1. ops[o] \in OpType
  BY DEF OpsOK, OpOK
<1>2. QED BY <1>1 DEF OpType, CursorType

\* The answer to a fetch adds a tab: its id is no larger than that of a pane,
\* since every tab was created for one.
LEMMA TabOpenedStep ==
  ASSUME Coherent, NEW o \in DOMAIN ops, NEW outcome, TabOpened(o, outcome)
  PROVE  Coherent'
<1> DEFINE n == created.tab
           p == ops[o].pty
           s == ops[o].session
<1>1. OpsOK /\ CreatedOK /\ BridgesOK /\ MemoryOK
  BY DEF Coherent
<1>2. /\ created.session \in Nat /\ n \in Nat /\ created.pty \in Nat
      /\ created.pty <= MaxPtys /\ MaxPtys \in Nat
      /\ created = [pty |-> created.pty, session |-> created.session, tab |-> n]
  BY <1>1, CreatedIds, WormholeAssumption
<1>3. created' = [created EXCEPT !.tab = @ + 1]
  BY DEF TabOpened
<1>4. /\ created' = [pty |-> created.pty, session |-> created.session, tab |-> n + 1]
      /\ created'.tab = n + 1 /\ created'.pty = created.pty
      /\ created'.session = created.session
  BY <1>2, <1>3
<1>5. /\ CreatesTab(ops[o]) /\ Bridge(p, outcome) /\ Finish(o)
      /\ layout' = CreateTab(layout, n + 1, p)
      /\ tabToSession' = Put(tabToSession, n + 1, s)
      /\ sessions' = sessions /\ UNCHANGED browser /\ reconnecting' = reconnecting
      /\ Persist
  BY <1>4 DEF TabOpened, CreatesTab
<1>6. p \in PtyIds /\ s \in 1 .. created.session
  <2>1. OpOK(ops[o], created.session) /\ p \in PtyIds
    BY <1>1, OpPty DEF OpsOK
  <2>2. s \in SessionIds /\ s <= created.session
    BY <1>5, <2>1 DEF OpOK, OpType, CursorType, CreatesTab
  <2>3. QED BY <1>2, <2>1, <2>2 DEF SessionIds
<1> HIDE DEF p, s
<1>7. /\ OpsOK' /\ Cardinality(Creating)' \in Nat
      /\ Cardinality(Creating)' + 1 = Cardinality(Creating)
  BY <1>1, <1>4, <1>5, FinishOps
<1>8. n + Cardinality(Creating) <= created.pty
  BY <1>1 DEF CreatedOK
<1> HIDE DEF n
<1>9. n + 1 + Cardinality(Creating)' <= created.pty /\ n + 1 \in TabIds
  BY <1>2, <1>7, <1>8 DEF TabIds
<1>10. CreatedOK'
  <2>1. created' \in [pty : 0 .. MaxPtys, session : 0 .. MaxSessions, tab : 0 .. MaxPtys]
    <3>1. n + 1 \in 0 .. MaxPtys
      BY <1>2, <1>9 DEF TabIds
    <3>2. created.pty \in 0 .. MaxPtys /\ created.session \in 0 .. MaxSessions
      BY <1>1 DEF CreatedOK
    <3>3. QED BY <1>4, <3>1, <3>2
  <2>2. QED BY <1>4, <1>9, <2>1 DEF CreatedOK
<1>11. BridgesOK'
  BY <1>1, <1>5, <1>6, BridgeOK
<1>12. layout' \in Layouts /\ Numbered(layout', n + 1)
  <2>1. /\ layout = Null \/ layout \in LayoutType(TabIds, PtyIds)
        /\ layout # Null => Numbered(layout, n)
    BY <1>1 DEF MemoryOK, Layouts, n
  <2>2. QED BY <1>2, <1>5, <1>6, <1>9, <2>1, CreateTabIs DEF Layouts
<1>13. tabToSession' \in PartialFcn(TabIds, 1 .. created.session)
  BY <1>1, <1>5, <1>6, <1>9, PutType DEF MemoryOK
<1>14. SessionSeq(sessions', created.session)
  BY <1>1, <1>5 DEF MemoryOK
<1>15. QED BY <1>4, <1>5, <1>7, <1>10, <1>11, <1>12, <1>13, <1>14, LayoutStep

\* A handler that ends leaves the count of tabs to come no larger.
LEMMA FinishKept ==
  ASSUME OpsOK, CreatedOK, NEW o \in DOMAIN ops, Finish(o), created' = created
  PROVE  OpsOK' /\ CreatedOK'
<1>1. created.session \in Nat /\ created.tab \in Nat /\ created.pty \in Nat
  BY CreatedIds
<1>2. /\ OpsOK' /\ Cardinality(Creating)' \in Nat
      /\ Cardinality(Creating)' <= Cardinality(Creating)
  BY FinishOps
<1>3. Cardinality(Creating) \in Nat /\ created.tab + Cardinality(Creating) <= created.pty
  BY CreatingFinite DEF CreatedOK
<1>4. created'.tab + Cardinality(Creating)' <= created'.pty
  BY <1>1, <1>2, <1>3
<1>5. QED BY <1>2, <1>4 DEF CreatedOK

\* A pane is added to the active tab, which exists: this needs SplitsOK.
LEMMA PaneOpenedStep ==
  ASSUME IInv, NEW o \in DOMAIN ops, NEW outcome, PaneOpened(o, outcome)
  PROVE  Coherent'
<1> DEFINE p == ops[o].pty
<1>1. OpsOK /\ CreatedOK /\ BridgesOK /\ MemoryOK /\ layout # Null /\ Coherent
  BY DEF IInv, Coherent, SplitsOK, PaneOpened
<1>2. /\ Bridge(p, outcome) /\ Finish(o)
      /\ layout' = SplitPane(layout, ops[o].pane, p)
      /\ UNCHANGED <<sessions, tabToSession, created>> /\ UNCHANGED browser
      /\ reconnecting' = reconnecting /\ Persist
  BY DEF PaneOpened
<1>3. p \in PtyIds
  BY <1>1, OpPty
<1> HIDE DEF p
<1>4. OpsOK' /\ CreatedOK' /\ BridgesOK'
  BY <1>1, <1>2, <1>3, FinishKept, BridgeOK
<1>5. layout' \in Layouts /\ Numbered(layout', created.tab)
  BY <1>1, <1>2, <1>3, SplitPaneIs DEF MemoryOK, Layouts
<1>6. /\ SessionSeq(sessions', created.session)
      /\ tabToSession' \in PartialFcn(TabIds, 1 .. created.session)
  BY <1>1, <1>2 DEF MemoryOK
<1>7. QED BY <1>1, <1>2, <1>4, <1>5, <1>6, LayoutStep

\* A lazy reconnect ends.
LEMMA ReconnectedStep ==
  ASSUME Coherent, NEW o \in DOMAIN ops, NEW outcome, Reconnected(o, outcome)
  PROVE  Coherent'
<1>1. /\ Bridge(ops[o].pty, outcome) /\ Finish(o)
      /\ UNCHANGED <<memory, stored, created>> /\ UNCHANGED browser
      /\ reconnecting' \subseteq reconnecting
  BY DEF Reconnected
<1>2. OpsOK' /\ CreatedOK'
  BY <1>1, FinishKept DEF Coherent
<1>3. BridgesOK'
  BY <1>1, OpPty, BridgeOK DEF Coherent
<1>4. WindowsOK'
  BY <1>1, WindowsKept DEF Coherent, WindowsOK
<1>5. QED BY <1>1, <1>2, <1>3, <1>4, QuietStep

\* The loop of a connect goes on to its next pane, or ends.
LEMMA ConnectNextStep ==
  ASSUME Coherent, NEW o \in DOMAIN ops, NEW outcome, ConnectNext(o, outcome)
  PROVE  Coherent'
<1> DEFINE live == DOMAIN terminals'
           cur == NextDead(ops[o], live)
<1>1. /\ ops[o].kind = "connect" /\ Bridge(ops[o].pty, outcome)
      /\ UNCHANGED <<memory, stored, created>> /\ UNCHANGED browser
      /\ reconnecting' = reconnecting
      /\ Finish(o) \/ (cur # Null /\ ops' = [ops EXCEPT ![o] = cur])
  BY DEF ConnectNext
<1>2. OpsOK' /\ CreatedOK'
  <2>1. OpsOK /\ CreatedOK
    BY DEF Coherent
  <2>2. CASE Finish(o)
    BY <1>1, <2>1, <2>2, FinishKept
  <2>3. CASE cur # Null /\ ops' = [ops EXCEPT ![o] = cur]
    <3>1. Place(ops[o])
      <4>1. ops[o] \in CursorType
        BY <1>1, <2>1, OpPty DEF OpType
      <4>2. QED BY <4>1, WormholeAssumption DEF CursorType, Place
    <3> HIDE DEF live
    <3>2. cur \in CursorType
      BY <2>3, <3>1, NextDeadOK
    <3> HIDE DEF cur
    <3>3. QED BY <1>1, <2>1, <2>3, <3>2, AdvanceOps
  <2>4. QED BY <1>1, <2>2, <2>3
<1>3. BridgesOK'
  BY <1>1, OpPty, BridgeOK DEF Coherent
<1>4. WindowsOK'
  BY <1>1, WindowsKept DEF Coherent, WindowsOK
<1>5. QED BY <1>1, <1>2, <1>3, <1>4, QuietStep

\* A fetch throws.
LEMMA AbortedStep ==
  ASSUME Coherent, NEW o \in DOMAIN ops, NEW outcome, Aborted(o, outcome)
  PROVE  Coherent'
<1>1. /\ Finish(o) /\ UNCHANGED <<memory, stored, created>> /\ UNCHANGED browser
      /\ UNCHANGED bridges /\ reconnecting' = reconnecting
  BY DEF Aborted
<1>2. OpsOK' /\ CreatedOK' /\ BridgesOK'
  BY <1>1, FinishKept, BridgesKept DEF Coherent
<1>3. WindowsOK'
  BY <1>1, WindowsKept DEF Coherent, WindowsOK
<1>4. QED BY <1>1, <1>2, <1>3, QuietStep

\* A terminal socket closes: its entry goes, whichever socket it names.
LEMMA SocketClosedStep ==
  ASSUME Coherent, NEW k, SocketClosed(k)
  PROVE  Coherent'
<1>1. /\ UNCHANGED <<memory, channels, stored, ops, created>> /\ UNCHANGED browser
      /\ reconnecting' = reconnecting
      /\ terminals' = Drop(terminals, {sockets[k].pty}) /\ sockets' = Drop(sockets, {k})
  BY DEF SocketClosed
<1>2. BridgesOK'
  BY <1>1, DropType DEF Coherent, BridgesOK
<1>3. WindowsOK'
  BY <1>1, WindowsKept DEF Coherent, WindowsOK
<1>4. QED BY <1>1, <1>2, <1>3, OpsKept, QuietStep DEF Coherent
-----------------------------------------------------------------------------
\* What hydrate reads back is what persist wrote.
LEMMA Hydrated ==
  ASSUME Coherent, Hydrate, UNCHANGED <<stored, created>>
  PROVE  MemoryOK' /\ StoredOK' /\ layout' = layout
<1>1. StoredOK /\ MemoryOK /\ created' = created /\ stored' = stored
  BY DEF Coherent
<1>2. CASE layout = Null
  <2>1. stored = Null
    BY <1>1, <1>2 DEF StoredOK, DurableLayout
  <2>2. sessions' = << >> /\ layout' = Null /\ tabToSession' = EmptyMap
    BY <2>1 DEF Hydrate
  <2>3. SessionSeq(<< >>, created.session)
    <3>1. created.session \in Nat
      BY CreatedIds DEF Coherent
    <3>2. << >> \in Seq(1 .. created.session) /\ Len(<< >>) = 0
      OBVIOUS
    <3>3. QED BY <3>1, <3>2 DEF SessionSeq
  <2>4. MemoryOK'
    BY <1>1, <2>2, <2>3, EmptyType DEF MemoryOK
  <2>5. StoredOK'
    BY <1>1, <2>1, <2>2 DEF StoredOK, DurableLayout
  <2>6. QED BY <1>2, <2>2, <2>4, <2>5
<1>3. CASE layout # Null
  <2>1. /\ stored # Null /\ stored.layout = layout /\ stored.tabToSession = tabToSession
        /\ stored \in StoredType /\ SessionSeq(stored.sessions, created.session)
    BY <1>1, <1>3 DEF StoredOK, DurableLayout
  <2>2. sessions' = stored.sessions /\ layout' = layout /\ tabToSession' = tabToSession
    BY <2>1 DEF Hydrate
  <2>3. MemoryOK'
    BY <1>1, <2>1, <2>2 DEF MemoryOK
  <2>4. StoredOK'
    BY <1>1, <1>3, <2>1, <2>2 DEF StoredOK, DurableLayout
  <2>5. QED BY <2>2, <2>3, <2>4
<1>4. QED BY <1>2, <1>3

\* An eviction and a restart leave the layout as it was.
LEMMA HibernateStep == ASSUME Coherent, Hibernate PROVE Coherent' /\ layout' = layout
<1>1. Hydrate /\ UNCHANGED <<stored, sockets, ops, phase, created>> /\ sockets = EmptyMap
  BY DEF Hibernate
<1>2. MemoryOK' /\ StoredOK' /\ layout' = layout
  BY <1>1, Hydrated
<1>3. OpsOK' /\ CreatedOK'
  BY <1>1, OpsKept DEF Coherent
<1>4. BridgesOK'
  BY <1>1, HydrateBridges
<1>5. WindowsOK'
  BY <1>1 DEF Coherent, WindowsOK, Hydrate
<1>6. QED BY <1>2, <1>3, <1>4, <1>5 DEF Coherent

\* After a restart no handler is under way.
LEMMA NoOpsOK ==
  ASSUME OpsOK, CreatedOK, ops' = EmptyMap, created' = created
  PROVE  OpsOK' /\ CreatedOK'
<1>1. DOMAIN ops' = {} /\ Creating' = {}
  BY DEF EmptyMap, Creating
<1>2. /\ created.session \in Nat /\ created.tab \in Nat /\ created.pty \in Nat
      /\ Cardinality(Creating) \in Nat
  BY CreatedIds, CreatingFinite
<1>3. Cardinality({}) = 0
  BY FS_EmptySet
<1>4. QED BY <1>1, <1>2, <1>3 DEF OpsOK, CreatedOK

\* A restart finds in storage what memory held.
LEMMA RestartStep == ASSUME Coherent, Restart PROVE Coherent' /\ layout' = layout
<1>1. /\ Hydrate /\ UNCHANGED <<stored, created>> /\ sockets' = EmptyMap
      /\ ops' = EmptyMap /\ phase' = [c \in Clients |-> "closed"]
  BY DEF Restart
<1>2. MemoryOK' /\ StoredOK' /\ layout' = layout
  BY <1>1, Hydrated
<1>3. OpsOK' /\ CreatedOK'
  BY <1>1, NoOpsOK DEF Coherent
<1>4. BridgesOK'
  BY <1>1, HydrateBridges
<1>5. WindowsOK'
  BY <1>1 DEF WindowsOK, Hydrate
<1>6. QED BY <1>2, <1>3, <1>4, <1>5 DEF Coherent
-----------------------------------------------------------------------------
\* The layout is never forgotten, since what is stored is not.
LEMMA LayoutStays ==
  ASSUME Coherent, Coherent', UNCHANGED stored \/ Persist, layout' = Null
  PROVE  layout = Null
<1>1. stored' = Null
  BY DEF Coherent, StoredOK, DurableLayout
<1>2. stored = Null
  BY <1>1 DEF Persist
<1>3. QED BY <1>2 DEF Coherent, StoredOK, DurableLayout

\* The operation that the loop of a connect awaits is marked as one.
LEMMA CursorKind ==
  ASSUME NEW cur, NEW live
  PROVE  NextDead(cur, live) = Null \/ NextDead(cur, live).kind = "connect"
BY DEF NextDead, AtFirstDead

\* The object writes its storage in one way only, whole: no handler stores a
\* part of the layout, and no fetch stores one when it settles otherwise.
LEMMA StoredByPersist == [Next]_vars => UNCHANGED stored \/ Persist
<1> DEFINE Kept == UNCHANGED stored \/ Persist
<1>1. vars' = vars => Kept
  BY DEF vars
<1>2. SUFFICES Next => Kept
  BY <1>1
<1>3. (\E c \in Clients : Join(c) \/ Leave(c) \/ Connect(c)) => Kept
  BY DEF Join, Leave, Connect
<1>4. (\E ch \in Channels : HandleInput(ch)) \/ (\E k \in SocketIds : SocketClosed(k)) => Kept
  BY DEF HandleInput, SocketClosed
<1>5. SessionCreate \/ (\E s \in SessionIds : SessionDestroy(s) \/ TabCreate(s)) => Kept
  BY DEF SessionCreate, SessionDestroy, TabCreate
<1>6. (\E t \in TabIds : TabClose(t) \/ TabSwitch(t)) => Kept
  BY DEF TabClose, TabSwitch
<1>7. (\E p \in KnownPanes : PaneSplit(p) \/ PaneClose(p)) \/ RenameOrFocus => Kept
  BY DEF PaneSplit, PaneClose, RenameOrFocus
<1>8. (\E o \in OpIds : FetchSettles(o)) => Kept
  BY DEF FetchSettles, TabOpened, PaneOpened, Reconnected, ConnectNext, Aborted
<1>9. Hibernate \/ Restart => Kept
  BY DEF Hibernate, Restart
<1> HIDE DEF Kept
<1>10. QED BY <1>3, <1>4, <1>5, <1>6, <1>7, <1>8, <1>9 DEF Next

\* No split is under way before there is a tab.
LEMMA SplitsStep == ASSUME IInv, Coherent', [Next]_vars PROVE SplitsOK'
<1> SUFFICES ASSUME layout' = Null, NEW o \in DOMAIN ops'
             PROVE  ops'[o].kind # "pane_split"
  BY DEF SplitsOK
<1>1. UNCHANGED stored \/ Persist
  BY StoredByPersist
<1>2. layout = Null
  BY <1>1, LayoutStays DEF IInv
<1>3. \A x \in DOMAIN ops : ops[x].kind # "pane_split"
  BY <1>2 DEF IInv, SplitsOK
<1>4. ASSUME NEW op, Start(op), op.kind # "pane_split" PROVE ops'[o].kind # "pane_split"
  <2>1. PICK x : x \notin DOMAIN ops /\ ops' = Put(ops, x, op)
    BY <1>4, StartFresh
  <2>2. QED BY <1>3, <1>4, <2>1 DEF Put
<1>5. ASSUME NEW x, Finish(x) PROVE ops'[o].kind # "pane_split"
  BY <1>3, <1>5 DEF Finish, Drop
<1>6. CASE UNCHANGED ops
  BY <1>3, <1>6
<1>7. ASSUME NEW c, Join(c) \/ Leave(c) PROVE UNCHANGED ops
  BY <1>7 DEF Join, Leave
<1>8. ASSUME NEW c, Connect(c) PROVE UNCHANGED ops
  BY <1>2, <1>8 DEF Connect
<1>9. ASSUME NEW ch, HandleInput(ch) PROVE ops'[o].kind # "pane_split"
  BY <1>4, <1>9 DEF HandleInput
<1>10. ASSUME SessionCreate PROVE ops'[o].kind # "pane_split"
  BY <1>4, <1>10 DEF SessionCreate
<1>11. ASSUME NEW x, TabCreate(x) \/ PaneSplit(x) PROVE FALSE
  BY <1>2, <1>11 DEF TabCreate, PaneSplit
<1>12. ASSUME NEW x, \/ SessionDestroy(x) \/ TabClose(x) \/ TabSwitch(x)
                     \/ PaneClose(x) \/ SocketClosed(x)
       PROVE  UNCHANGED ops
  BY <1>12 DEF SessionDestroy, TabClose, TabSwitch, PaneClose, SocketClosed
<1>13. RenameOrFocus \/ Hibernate => UNCHANGED ops
  BY DEF RenameOrFocus, Hibernate
<1>14. ASSUME NEW x \in DOMAIN ops, NEW outcome, ConnectNext(x, outcome)
       PROVE  ops'[o].kind # "pane_split"
  <2> DEFINE cur == NextDead(ops[x], DOMAIN terminals')
  <2>1. Finish(x) \/ (cur # Null /\ ops' = [ops EXCEPT ![x] = cur])
    BY <1>14 DEF ConnectNext
  <2>2. cur # Null => cur.kind # "pane_split"
    BY CursorKind
  <2> HIDE DEF cur
  <2>3. CASE cur # Null /\ ops' = [ops EXCEPT ![x] = cur]
    BY <1>3, <2>2, <2>3
  <2>4. QED BY <1>5, <2>1, <2>3
<1>15. ASSUME NEW x, FetchSettles(x) PROVE ops'[o].kind # "pane_split"
  BY <1>5, <1>14, <1>15 DEF FetchSettles, TabOpened, PaneOpened, Reconnected, Aborted
<1>16. Restart => DOMAIN ops' = {}
  BY DEF Restart, EmptyMap
<1>17. CASE UNCHANGED vars
  BY <1>6, <1>17 DEF vars
<1>18. QED
  BY <1>6, <1>7, <1>8, <1>9, <1>10, <1>11, <1>12, <1>13, <1>15, <1>16, <1>17 DEF Next

\* Nothing happens.
LEMMA StutterKept == ASSUME Coherent, UNCHANGED vars PROVE Coherent'
<1>1. /\ UNCHANGED memory /\ UNCHANGED stored /\ UNCHANGED <<ops, created>>
      /\ UNCHANGED bridges /\ UNCHANGED browser /\ reconnecting' = reconnecting
  BY DEF vars, memory, bridges, browser
<1>2. WindowsOK'
  BY <1>1, WindowsKept DEF Coherent, WindowsOK
<1>3. QED BY <1>1, <1>2, OpsKept, BridgesKept, QuietStep DEF Coherent

\* A fetch settles, one way or the other.
LEMMA FetchSettlesStep == ASSUME IInv, NEW o, FetchSettles(o) PROVE Coherent'
<1>1. o \in DOMAIN ops /\ Coherent
  BY DEF FetchSettles, IInv
<1>2. QED
  BY <1>1, TabOpenedStep, PaneOpenedStep, ReconnectedStep, ConnectNextStep, AbortedStep
     DEF FetchSettles

\* The invariant holds at first.
LEMMA InitIInv == Init => IInv
<1> SUFFICES ASSUME Init PROVE IInv
  OBVIOUS
<1>1. /\ sessions = << >> /\ layout = Null /\ tabToSession = EmptyMap
      /\ channels = NewChannelMap /\ terminals = EmptyMap /\ reconnecting = {}
      /\ clients = {} /\ stored = Null /\ sockets = EmptyMap /\ ops = EmptyMap
      /\ phase = [c \in Clients |-> "closed"]
      /\ created = [pty |-> 0, session |-> 0, tab |-> 0]
  BY DEF Init
<1>2. /\ MaxPtys \in Nat /\ MaxSessions \in Nat
      /\ created.tab = 0 /\ created.pty = 0 /\ created.session = 0
  BY <1>1, WormholeAssumption
<1>3. MemoryOK
  <2>1. << >> \in Seq(1 .. 0) /\ Len(<< >>) <= 0
    OBVIOUS
  <2>2. QED BY <1>1, <1>2, <2>1, EmptyType DEF MemoryOK, SessionSeq
<1>4. StoredOK
  BY <1>1 DEF StoredOK, DurableLayout
<1>5. OpsOK
  BY <1>1 DEF OpsOK, EmptyMap
<1>6. CreatedOK
  <2>1. Creating = {}
    BY <1>1 DEF Creating, EmptyMap
  <2>2. Cardinality({}) = 0
    BY FS_EmptySet
  <2>3. 0 \in 0 .. MaxPtys /\ 0 \in 0 .. MaxSessions
    BY <1>2
  <2>4. QED BY <1>1, <1>2, <2>1, <2>2, <2>3 DEF CreatedOK
<1>7. BridgesOK
  BY <1>1, NewSound, EmptyType DEF BridgesOK
<1>8. WindowsOK
  BY <1>1 DEF WindowsOK
<1>9. SplitsOK
  BY <1>1 DEF SplitsOK, EmptyMap
<1>10. QED BY <1>3, <1>4, <1>5, <1>6, <1>7, <1>8, <1>9 DEF IInv, Coherent

\* The panes that a request names were created.
LEMMA KnownIds == ASSUME Coherent PROVE KnownPanes \subseteq PtyIds
<1>1. created.pty \in Nat /\ created.pty <= MaxPtys /\ MaxPtys \in Nat
  BY CreatedIds, WormholeAssumption DEF Coherent
<1>2. QED BY <1>1 DEF KnownPanes, PtyIds

\* Every step keeps it.
LEMMA NextIInv == IInv /\ [Next]_vars => IInv'
<1> SUFFICES ASSUME IInv, [Next]_vars PROVE IInv'
  OBVIOUS
<1>1. Coherent /\ KnownPanes \subseteq PtyIds
  BY KnownIds DEF IInv
<1>2. ASSUME NEW c \in Clients, Join(c) \/ Leave(c) \/ Connect(c) PROVE Coherent'
  BY <1>1, <1>2, JoinStep, LeaveStep, ConnectStep
<1>3. ASSUME NEW ch, HandleInput(ch) PROVE Coherent'
  BY <1>1, <1>3, HandleInputStep
<1>4. ASSUME NEW s, SessionDestroy(s) \/ TabCreate(s) PROVE Coherent'
  BY <1>1, <1>4, SessionDestroyStep, TabCreateStep
<1>5. ASSUME NEW t, TabClose(t) \/ TabSwitch(t) PROVE Coherent'
  BY <1>1, <1>5, TabCloseStep, TabSwitchStep
<1>6. ASSUME NEW p \in KnownPanes, PaneSplit(p) \/ PaneClose(p) PROVE Coherent'
  BY <1>1, <1>6, PaneSplitStep, PaneCloseStep
<1>7. SessionCreate \/ RenameOrFocus => Coherent'
  BY <1>1, SessionCreateStep, RenameOrFocusStep
<1>8. ASSUME NEW o, FetchSettles(o) PROVE Coherent'
  BY <1>8, FetchSettlesStep
<1>9. ASSUME NEW k, SocketClosed(k) PROVE Coherent'
  BY <1>1, <1>9, SocketClosedStep
<1>10. Hibernate \/ Restart => Coherent'
  BY <1>1, HibernateStep, RestartStep
<1>11. ASSUME UNCHANGED vars PROVE Coherent'
  BY <1>1, <1>11, StutterKept
<1>12. Coherent'
  BY <1>2, <1>3, <1>4, <1>5, <1>6, <1>7, <1>8, <1>9, <1>10, <1>11 DEF Next
<1>13. QED BY <1>12, SplitsStep DEF IInv

\* So it always holds.
LEMMA Invariant == Spec => []IInv
BY InitIInv, NextIInv, PTL DEF Spec
-----------------------------------------------------------------------------
\* It implies that the state is well typed.
LEMMA TypeOKHolds == IInv => TypeOK
<1> SUFFICES ASSUME IInv PROVE TypeOK
  OBVIOUS
<1>1. MemoryOK /\ StoredOK /\ OpsOK /\ CreatedOK /\ BridgesOK /\ WindowsOK
  BY DEF IInv, Coherent
<1>2. sessions \in Seq(SessionIds)
  BY <1>1, SessionSeqTyped DEF MemoryOK
<1>3. tabToSession \in PartialFcn(TabIds, SessionIds)
  BY <1>1, CreatedIds, PartialMono DEF MemoryOK
<1>4. layout = Null \/ layout \in Layouts
  BY <1>1 DEF MemoryOK
<1>5. stored = Null \/ stored \in StoredType
  BY <1>1 DEF StoredOK
<1>6. /\ channels \in ChannelMapType /\ terminals \in PartialFcn(PtyIds, SocketIds)
      /\ sockets \in PartialFcn(SocketIds,
           [pty : PtyIds, channel : Channels, state : {"open", "closing"}])
  BY <1>1 DEF BridgesOK, Sound, SocketType
<1>7. DOMAIN ops \subseteq OpIds /\ \A o \in DOMAIN ops : ops[o] \in OpType
  BY <1>1 DEF OpsOK, OpOK
<1>8. QED BY <1>1, <1>2, <1>3, <1>4, <1>5, <1>6, <1>7 DEF TypeOK, WindowsOK, CreatedOK

\* The fields of the object have the shape that its handlers rely on: the
\* active tab exists, no tab is empty, and what is hydrated is a layout.
THEOREM SpecTypeOK == Spec => []TypeOK
BY Invariant, TypeOKHolds, PTL

\* A restart loses no tab, pane or tab switch that any window was shown: what
\* is stored is the layout in memory, at every moment.
THEOREM SpecDurableLayout == Spec => []DurableLayout
<1>1. IInv => DurableLayout
  BY DEF IInv, Coherent, StoredOK
<1>2. QED BY <1>1, Invariant, PTL
-----------------------------------------------------------------------------
SurvivesStep ==
  \A s \in SessionIds, t \in TabIds :
    SessionDestroy(s) \/ TabClose(t) =>
      \/ layout = Null
      \/ TabIndex(layout', ActiveTab(layout).id) = 0
      \/ ActiveTab(layout').id = ActiveTab(layout).id

\* Closing a tab or destroying a session leaves the user on the tab that was
\* active, unless that tab is gone.
THEOREM SpecActiveTabSurvives == Spec => ActiveTabSurvives
<1>1. IInv => SurvivesStep
  <2> SUFFICES ASSUME IInv, layout # Null
               PROVE  /\ \A s : SessionDestroy(s) => StaysActive(layout', ActiveTab(layout).id)
                      /\ \A t : TabClose(t) => StaysActive(layout', ActiveTab(layout).id)
    BY DEF SurvivesStep, StaysActive
  <2>1. Coherent /\ layout \in Layouts /\ DistinctTabs(layout)
    BY DEF IInv, Coherent, MemoryOK, Numbered
  <2>2. ASSUME NEW s, SessionDestroy(s) PROVE StaysActive(layout', ActiveTab(layout).id)
    <3>1. layout' = CloseTabsOf(s).layout
      BY <2>2 DEF SessionDestroy
    <3>2. Reduced(CloseTabsOf(s), layout)
      BY <2>1, CloseTabsReduces
    <3>3. QED BY <3>1, <3>2 DEF Reduced
  <2>3. ASSUME NEW t, TabClose(t) PROVE StaysActive(layout', ActiveTab(layout).id)
    <3> DEFINE i == TabIndex(layout, t)
    <3>1. i # 0 /\ layout' = CloseTab(layout, i)
      BY <2>3 DEF TabClose
    <3>2. i \in 1 .. Len(layout.tabs)
      BY <2>1, <3>1, FoundInLayout
    <3> HIDE DEF i
    <3>3. QED BY <2>1, <3>1, <3>2, NullAssumption, CloseTabIs DEF Layouts
  <2>4. QED BY <2>2, <2>3
<1>2. IInv /\ [Next]_vars => [SurvivesStep]_vars
  BY <1>1
<1>3. QED BY <1>2, Invariant, PTL DEF Spec, ActiveTabSurvives, SurvivesStep
-----------------------------------------------------------------------------
\* Everything a window is told is a picture of the state.
LEMMA SnapshotTyped == ASSUME IInv' PROVE Snapshot' # Null
<1> DEFINE r == [layout |-> layout', channels |-> channels'.ptyToChannel,
                 connected |-> DOMAIN channels'.ptyToChannel \cap DOMAIN terminals']
<1>1. Snapshot' = r
  BY DEF Snapshot
<1>2. layout' = Null \/ layout' \in Layouts
  BY DEF IInv, Coherent, MemoryOK
<1>3. channels'.ptyToChannel \in PartialFcn(PtyIds, Channels)
  BY WormholeAssumption DEF IInv, Coherent, BridgesOK, Sound, ChannelMapType
<1>4. DOMAIN channels'.ptyToChannel \in SUBSET PtyIds
  BY <1>3 DEF PartialFcn
<1>5. r \in SnapshotType
  BY <1>2, <1>3, <1>4 DEF SnapshotType
<1> HIDE DEF r
<1>6. QED BY <1>1, <1>5, NullAssumption

\* A window that is told it is up to date.
LEMMA ShownCurrent ==
  ASSUME IInv', NEW c, sent'[c] = Snapshot'
  PROVE  ViewCurrent(c)'
<1> DEFINE v == sent'[c]
<1>1. v # Null
  BY SnapshotTyped
<1>2. /\ v.layout = layout' /\ v.channels = channels'.ptyToChannel
      /\ v.connected = DOMAIN channels'.ptyToChannel \cap DOMAIN terminals'
  BY DEF Snapshot
<1> HIDE DEF v
<1>3. QED BY <1>1, <1>2 DEF ViewCurrent, v

\* All windows are after a broadcast.
LEMMA BroadcastCurrent ==
  ASSUME IInv', Broadcast, clients' = clients
  PROVE  ViewsCurrent'
<1>1. ASSUME NEW c \in clients' \cap Watched PROVE ViewCurrent(c)'
  <2>1. sent'[c] = Snapshot'
    BY <1>1 DEF Broadcast
  <2>2. QED BY <2>1, ShownCurrent
<1>2. QED BY <1>1 DEF ViewsCurrent

\* A step that changes nothing a window shows.
LEMMA ViewsKept ==
  ASSUME ViewsCurrent, UNCHANGED <<layout, channels, terminals>>,
         \A c \in clients' \cap Watched : c \in clients /\ sent'[c] = sent[c],
         ConnectRunning => ConnectRunning'
  PROVE  ViewsCurrent'
<1>1. CASE ConnectRunning
  BY <1>1 DEF ViewsCurrent
<1>2. CASE ~ ConnectRunning
  <2>1. ASSUME NEW c \in clients' \cap Watched PROVE ViewCurrent(c)'
    <3>1. ViewCurrent(c) /\ sent'[c] = sent[c]
      BY <1>2, <2>1 DEF ViewsCurrent
    <3>2. QED BY <3>1 DEF ViewCurrent
  <2>2. QED BY <2>1 DEF ViewsCurrent
<1>3. QED BY <1>1, <1>2

\* A connect that runs goes on when another handler starts.
LEMMA StartRunning ==
  ASSUME NEW op, Start(op)
  PROVE  /\ ConnectRunning => ConnectRunning'
         /\ op.kind = "connect" => ConnectRunning'
<1>1. PICK o : o \notin DOMAIN ops /\ ops' = Put(ops, o, op)
  BY StartFresh
<1>2. QED BY <1>1 DEF ConnectRunning, Put

\* A window that joins is told the state it will be shown changes of.
LEMMA JoinViews == ASSUME IInv', ViewsCurrent, NEW c, Join(c) PROVE ViewsCurrent'
<1>1. /\ UNCHANGED <<layout, channels, terminals, ops>> /\ clients' = clients \cup {c}
      /\ Show(c, IF layout = Null THEN Null ELSE Snapshot)
  BY DEF Join, memory, bridges
<1>2. ConnectRunning' = ConnectRunning
  BY <1>1 DEF ConnectRunning
<1>3. ASSUME ~ ConnectRunning, NEW d \in clients' \cap Watched PROVE ViewCurrent(d)'
  <2>1. CASE d # c
    <3>1. ViewCurrent(d) /\ sent'[d] = sent[d]
      BY <1>1, <1>3, <2>1 DEF ViewsCurrent, Show
    <3>2. QED BY <1>1, <3>1 DEF ViewCurrent
  <2>2. CASE d = c /\ layout = Null
    BY <1>1, <1>3, <2>2 DEF Show, ViewCurrent
  <2>3. CASE d = c /\ layout # Null
    <3>1. sent'[d] = Snapshot
      BY <1>1, <1>3, <2>3 DEF Show
    <3>2. Snapshot' = Snapshot
      BY <1>1 DEF Snapshot
    <3>3. QED BY <3>1, <3>2, ShownCurrent
  <2>4. QED BY <2>1, <2>2, <2>3
<1>4. QED BY <1>2, <1>3 DEF ViewsCurrent

\* A pane that is closed in a tab that is not active is told to nobody, but it
\* only loses the channel under which windows know it.
LEMMA PaneCloseViews ==
  ASSUME IInv, IInv', ViewsCurrent, NEW p \in PtyIds, PaneClose(p)
  PROVE  ViewsCurrent'
<1>1. /\ UNCHANGED <<clients, ops>> /\ CloseTerminals(<<p>>)
      /\ Broadcast \/ UNCHANGED <<layout, sent>>
  BY DEF PaneClose, browser
<1>2. CASE Broadcast
  BY <1>1, <1>2, BroadcastCurrent
<1>3. CASE UNCHANGED <<layout, sent>>
  <2>1. ConnectRunning' = ConnectRunning
    BY <1>1 DEF ConnectRunning
  <2>2. /\ Without(channels', channels, ToSet(<<p>>))
        /\ terminals' = Drop(terminals, ToSet(<<p>>))
    <3>1. <<p>> \in Seq(PtyIds) /\ Sound(channels)
      BY DEF IInv, Coherent, BridgesOK
    <3>2. QED BY <1>1, <3>1, ReleaseAllKeeps DEF CloseTerminals
  <2>3. ASSUME ~ ConnectRunning, NEW c \in clients' \cap Watched PROVE ViewCurrent(c)'
    <3>1. ViewCurrent(c) /\ sent'[c] = sent[c] /\ layout' = layout
      BY <1>1, <1>3, <2>3 DEF ViewsCurrent
    <3>2. ASSUME NEW q \in DOMAIN channels'.ptyToChannel
          PROVE  /\ q \in DOMAIN channels.ptyToChannel
                 /\ channels'.ptyToChannel[q] = channels.ptyToChannel[q]
                 /\ (q \in DOMAIN terminals') = (q \in DOMAIN terminals)
      BY <2>2, <3>2 DEF Without, HasChannel, Drop
    <3>3. QED BY <3>1, <3>2 DEF ViewCurrent
  <2>4. QED BY <2>1, <2>3 DEF ViewsCurrent
<1>4. QED BY <1>1, <1>2, <1>3

\* The loop of a connect goes on, or ends with a broadcast.
LEMMA ConnectNextViews ==
  ASSUME IInv', ViewsCurrent, NEW o \in DOMAIN ops, NEW outcome, ConnectNext(o, outcome)
  PROVE  ViewsCurrent'
<1> DEFINE cur == NextDead(ops[o], DOMAIN terminals')
<1>1. /\ clients' = clients
      /\ Broadcast \/ (cur # Null /\ ops' = [ops EXCEPT ![o] = cur])
  BY DEF ConnectNext, browser
<1>2. CASE Broadcast
  BY <1>1, <1>2, BroadcastCurrent
<1>3. CASE cur # Null /\ ops' = [ops EXCEPT ![o] = cur]
  <2>1. cur.kind = "connect"
    BY <1>3, CursorKind
  <2> HIDE DEF cur
  <2>2. o \in DOMAIN ops' /\ ops'[o] = cur
    BY <1>3
  <2>3. QED BY <2>1, <2>2 DEF ViewsCurrent, ConnectRunning
<1>4. QED BY <1>1, <1>2, <1>3

\* No window is left with a stale picture of the tabs, the channels or the
\* terminals that are open, unless a connect is under way, when no fetch
\* throws.
THEOREM SpecViewsCurrent ==
  ASSUME "error" \notin Outcomes
  PROVE  Spec => []ViewsCurrent
<1>1. Init => ViewsCurrent
  BY DEF Init, ViewsCurrent
<1>2. IInv /\ IInv' /\ ViewsCurrent /\ [Next]_vars => ViewsCurrent'
  <2> SUFFICES ASSUME IInv, IInv', ViewsCurrent, [Next]_vars PROVE ViewsCurrent'
    OBVIOUS
  <2>1. CASE UNCHANGED <<layout, channels, terminals, clients, sent, ops>>
    BY <2>1, ViewsKept DEF ConnectRunning
  <2>2. ASSUME NEW c, Join(c) PROVE ViewsCurrent'
    BY <2>2, JoinViews
  <2>3. ASSUME NEW c, Leave(c) PROVE ViewsCurrent'
    <3>1. /\ UNCHANGED <<layout, channels, terminals, ops>> /\ clients' = clients \ {c}
          /\ \A d \in Watched : d # c => sent'[d] = sent[d]
      BY <2>3 DEF Leave, memory, bridges, Show
    <3>2. QED BY <3>1, ViewsKept DEF ConnectRunning
  <2>4. ASSUME NEW c, Connect(c) PROVE ViewsCurrent'
    <3> DEFINE cur == NextDead(LoopStart, DOMAIN terminals)
    <3>1. clients' = clients /\ (Broadcast \/ (cur # Null /\ Start(cur)))
      BY <2>4 DEF Connect
    <3>2. cur = Null \/ cur.kind = "connect"
      BY CursorKind
    <3> HIDE DEF cur
    <3>3. QED BY <3>1, <3>2, BroadcastCurrent, StartRunning DEF ViewsCurrent
  <2>5. ASSUME NEW op, Start(op), UNCHANGED <<layout, channels, terminals, clients, sent>>
        PROVE  ViewsCurrent'
    BY <2>5, StartRunning, ViewsKept
  <2>6. ASSUME NEW ch, HandleInput(ch) PROVE ViewsCurrent'
    BY <2>5, <2>6 DEF HandleInput, memory, bridges, browser
  <2>7. ASSUME SessionCreate PROVE ViewsCurrent'
    BY <2>5, <2>7 DEF SessionCreate, bridges, browser
  <2>8. ASSUME NEW s, TabCreate(s) PROVE ViewsCurrent'
    BY <2>5, <2>8 DEF TabCreate, memory, bridges, browser
  <2>9. ASSUME NEW p, PaneSplit(p) PROVE ViewsCurrent'
    BY <2>5, <2>9 DEF PaneSplit, memory, bridges, browser
  <2>10. ASSUME NEW x, \/ SessionDestroy(x) \/ TabClose(x) \/ TabSwitch(x)
                       \/ SocketClosed(x)
         PROVE  Broadcast /\ clients' = clients
    BY <2>10 DEF SessionDestroy, TabClose, TabSwitch, SocketClosed, browser
  <2>11. RenameOrFocus => Broadcast /\ clients' = clients
    BY DEF RenameOrFocus, browser
  <2>12. ASSUME NEW p \in KnownPanes, PaneClose(p) PROVE ViewsCurrent'
    BY <2>12, KnownIds, PaneCloseViews DEF IInv
  <2>13. ASSUME NEW o \in DOMAIN ops, NEW outcome,
                TabOpened(o, outcome) \/ PaneOpened(o, outcome) \/ Reconnected(o, outcome)
         PROVE  Broadcast /\ clients' = clients
    BY <2>13 DEF TabOpened, PaneOpened, Reconnected, browser
  <2>14. ASSUME NEW o, FetchSettles(o) PROVE ViewsCurrent'
    BY <2>13, <2>14, ConnectNextViews, BroadcastCurrent DEF FetchSettles, Aborted
  <2>15. Hibernate \/ Restart => ViewsCurrent'
    BY DEF Hibernate, Restart, Hydrate, ViewsCurrent
  <2>16. CASE UNCHANGED vars
    BY <2>1, <2>16 DEF vars
  <2>17. QED
    BY <2>2, <2>3, <2>4, <2>6, <2>7, <2>8, <2>9, <2>10, <2>11, <2>12, <2>14, <2>15,
       <2>16, BroadcastCurrent DEF Next
<1>3. QED BY <1>1, <1>2, Invariant, PTL DEF Spec
-----------------------------------------------------------------------------
\* assign gives the id a channel or changes nothing, and leaves the channels
\* of all other ids and of an id that has one alone.
LEMMA AssignKeeps ==
  ASSUME NEW m, NEW p, NEW q, HasChannel(m, q)
  PROVE  /\ HasChannel(Assign(m, p), q)
         /\ Assign(m, p).ptyToChannel[q] = m.ptyToChannel[q]
<1>1. CASE ~ HasChannel(m, p) /\ CanAllocate(m)
  <2>1. Assign(m, p).ptyToChannel = Put(m.ptyToChannel, p, NextFree(m))
    BY <1>1 DEF Assign, Allocate
  <2>2. q # p
    BY <1>1
  <2>3. QED BY <2>1, <2>2 DEF HasChannel, Put
<1>2. CASE HasChannel(m, p) \/ ~ CanAllocate(m)
  BY <1>2 DEF Assign
<1>3. QED BY <1>1, <1>2

\* Closing terminals only takes channels away, and only from the panes it
\* closes.
LEMMA ClosedChannels ==
  ASSUME IInv, NEW ps \in Seq(PtyIds), CloseTerminals(ps)
  PROVE  Without(channels', channels, ToSet(ps))
<1>1. Sound(channels)
  BY DEF IInv, Coherent, BridgesOK
<1>2. QED BY <1>1, ReleaseAllKeeps DEF CloseTerminals

\* The handlers that close the terminals of some panes.
Closes == \E ps \in Seq(PtyIds) : CloseTerminals(ps)

\* They are the panes of the object.
LEMMA Closings ==
  ASSUME IInv, NEW x, SessionDestroy(x) \/ TabClose(x) \/ (PaneClose(x) /\ x \in PtyIds)
  PROVE  Closes \/ UNCHANGED bridges
<1>1. layout = Null \/ (layout \in Layouts /\ DistinctTabs(layout))
  BY DEF IInv, Coherent, MemoryOK, Numbered
<1>2. CASE SessionDestroy(x)
  <2>1. CASE layout = Null
    BY <1>2, <2>1 DEF SessionDestroy
  <2>2. CASE layout # Null
    <3>1. CloseTerminals(CloseTabsOf(x).panes)
      BY <1>2, <2>2 DEF SessionDestroy
    <3>2. CloseTabsOf(x).panes \in Seq(PtyIds)
      BY <1>1, <2>2, CloseTabsReduces DEF Reduced
    <3>3. QED BY <3>1, <3>2 DEF Closes
  <2>3. QED BY <2>1, <2>2
<1>3. CASE TabClose(x)
  <2>1. KeysOf(layout, x) \in Seq(PtyIds)
    BY <1>1, KeysTyped DEF Layouts
  <2>2. QED BY <1>3, <2>1 DEF TabClose, Closes
<1>4. CASE PaneClose(x) /\ x \in PtyIds
  <2>1. <<x>> \in Seq(PtyIds)
    BY <1>4
  <2>2. QED BY <1>4, <2>1 DEF PaneClose, Closes
<1>5. QED BY <1>2, <1>3, <1>4

\* Each way a step changes the bridges keeps them consistent.
LEMMA CloseTerminalsConsistent ==
  ASSUME IInv, NEW ps \in Seq(PtyIds), BridgesConsistent, CloseTerminals(ps)
  PROVE  BridgesConsistent'
<1> SUFFICES ASSUME NEW p \in DOMAIN terminals'
             PROVE  LET k == terminals'[p]
                    IN  /\ k \in DOMAIN sockets'
                        /\ sockets'[k].pty = p /\ sockets'[k].state = "open"
                        /\ HasChannel(channels', p)
                        /\ sockets'[k].channel = channels'.ptyToChannel[p]
  BY DEF BridgesConsistent, HasChannel
<1> DEFINE k == terminals[p]
<1>1. p \in DOMAIN terminals /\ p \notin ToSet(ps) /\ terminals'[p] = k
  BY DEF CloseTerminals, Drop
<1>2. /\ k \in DOMAIN sockets
      /\ sockets[k].pty = p /\ sockets[k].state = "open"
      /\ HasChannel(channels, p)
      /\ sockets[k].channel = channels.ptyToChannel[p]
  BY <1>1 DEF BridgesConsistent
<1>3. \A q \in ToSet(ps) \cap DOMAIN terminals : terminals[q] # k
  BY <1>1, <1>2 DEF BridgesConsistent
<1>4. k \in DOMAIN sockets' /\ sockets'[k] = sockets[k]
  BY <1>2, <1>3 DEF CloseTerminals
<1>5. /\ HasChannel(channels', p)
      /\ channels'.ptyToChannel[p] = channels.ptyToChannel[p]
  BY <1>1, <1>2, ClosedChannels DEF Without, HasChannel
<1>6. QED BY <1>1, <1>2, <1>4, <1>5

\* A terminal that is opened sends on the channel its pane has.
LEMMA BridgeConsistent ==
  ASSUME NEW p, NEW outcome, BridgesConsistent, Bridge(p, outcome)
  PROVE  BridgesConsistent'
<1> DEFINE m == Assign(channels, p)
<1>1. CASE UNCHANGED bridges
  BY <1>1 DEF bridges, BridgesConsistent, HasChannel
<1>2. CASE terminals' = Drop(terminals, {p}) /\ UNCHANGED <<channels, sockets>>
  BY <1>2 DEF BridgesConsistent, HasChannel, Drop
<1>3. ASSUME HasChannel(m, p),
             NEW k \in SocketIds \ DOMAIN sockets,
             terminals' = Put(terminals, p, k),
             channels' = m,
             sockets' = Put(sockets, k, [pty |-> p, state |-> "open",
                                         channel |-> m.ptyToChannel[p]])
      PROVE  BridgesConsistent'
  <2> SUFFICES ASSUME NEW q \in DOMAIN terminals'
               PROVE  LET j == terminals'[q]
                      IN  /\ j \in DOMAIN sockets'
                          /\ sockets'[j].pty = q /\ sockets'[j].state = "open"
                          /\ HasChannel(channels', q)
                          /\ sockets'[j].channel = channels'.ptyToChannel[q]
    BY DEF BridgesConsistent, HasChannel
  <2> HIDE DEF m
  <2>1. CASE q = p
    BY <1>3, <2>1 DEF Put
  <2>2. CASE q # p
    <3>1. q \in DOMAIN terminals /\ terminals'[q] = terminals[q]
      BY <1>3, <2>2 DEF Put
    <3>2. /\ terminals[q] \in DOMAIN sockets
          /\ sockets[terminals[q]].pty = q
          /\ sockets[terminals[q]].state = "open"
          /\ HasChannel(channels, q)
          /\ sockets[terminals[q]].channel = channels.ptyToChannel[q]
      BY <3>1 DEF BridgesConsistent
    <3>3. /\ terminals[q] \in DOMAIN sockets'
          /\ sockets'[terminals[q]] = sockets[terminals[q]]
      BY <1>3, <3>2 DEF Put
    <3>4. /\ HasChannel(channels', q)
          /\ channels'.ptyToChannel[q] = channels.ptyToChannel[q]
      BY <1>3, <3>2, AssignKeeps DEF m
    <3>5. QED BY <3>1, <3>2, <3>3, <3>4
  <2>3. QED BY <2>1, <2>2
<1>4. QED BY <1>1, <1>2, <1>3 DEF Bridge

\* A socket that closes is forgotten.
LEMMA SocketClosedConsistent ==
  ASSUME NEW k, BridgesConsistent, SocketClosed(k)
  PROVE  BridgesConsistent'
<1>1. /\ k \in DOMAIN sockets
      /\ terminals' = Drop(terminals, {sockets[k].pty})
      /\ sockets' = Drop(sockets, {k})
      /\ channels' = channels
  BY DEF SocketClosed
<1>2. QED BY <1>1 DEF BridgesConsistent, Drop, HasChannel

\* A new object has no terminals.
LEMMA HydrateConsistent == ASSUME Hydrate PROVE BridgesConsistent'
<1>1. DOMAIN terminals' = {}
  BY DEF Hydrate, EmptyMap
<1>2. QED BY <1>1 DEF BridgesConsistent

\* A terminal in the map is always an open socket of that PTY, and sends its
\* output on the channel under which the clients know the PTY.
THEOREM SpecBridgesConsistent == Spec => []BridgesConsistent
<1>1. Init => BridgesConsistent
  BY DEF Init, BridgesConsistent, EmptyMap
<1>2. IInv /\ BridgesConsistent /\ [Next]_vars => BridgesConsistent'
  <2> SUFFICES ASSUME IInv, BridgesConsistent, [Next]_vars PROVE BridgesConsistent'
    OBVIOUS
  <2>1. CASE UNCHANGED bridges
    BY <2>1 DEF bridges, BridgesConsistent, HasChannel
  <2>2. ASSUME NEW c, Join(c) \/ Leave(c) \/ Connect(c) PROVE UNCHANGED bridges
    BY <2>2 DEF Join, Leave, Connect
  <2>3. ASSUME NEW ch, HandleInput(ch) PROVE UNCHANGED bridges
    BY <2>3 DEF HandleInput
  <2>4. SessionCreate \/ RenameOrFocus => UNCHANGED bridges
    BY DEF SessionCreate, RenameOrFocus
  <2>5. ASSUME NEW x, SessionDestroy(x) \/ TabClose(x) \/ (PaneClose(x) /\ x \in PtyIds)
        PROVE  BridgesConsistent'
    BY <2>1, <2>5, Closings, CloseTerminalsConsistent DEF Closes
  <2>6. ASSUME NEW s, TabCreate(s) PROVE UNCHANGED bridges
    BY <2>6 DEF TabCreate
  <2>7. KnownPanes \subseteq PtyIds
    BY KnownIds DEF IInv
  <2>8. ASSUME NEW t, TabSwitch(t) PROVE UNCHANGED bridges
    BY <2>8 DEF TabSwitch
  <2>9. ASSUME NEW p, PaneSplit(p) PROVE UNCHANGED bridges
    BY <2>9 DEF PaneSplit
  <2>10. ASSUME NEW o, FetchSettles(o) PROVE BridgesConsistent'
    BY <2>1, <2>10, BridgeConsistent
       DEF FetchSettles, TabOpened, PaneOpened, Reconnected, ConnectNext, Aborted
  <2>11. ASSUME NEW k, SocketClosed(k) PROVE BridgesConsistent'
    BY <2>11, SocketClosedConsistent
  <2>12. Hibernate \/ Restart => BridgesConsistent'
    BY HydrateConsistent DEF Hibernate, Restart
  <2>13. CASE UNCHANGED vars
    BY <2>1, <2>13 DEF vars, bridges
  <2>14. QED
    BY <2>1, <2>2, <2>3, <2>4, <2>5, <2>6, <2>7, <2>8, <2>9, <2>10, <2>11,
       <2>12, <2>13 DEF Next
<1>3. QED BY <1>1, <1>2, Invariant, PTL DEF Spec
-----------------------------------------------------------------------------
\* No step gives a pane that has a channel another one.
THEOREM SpecChannelStable == Spec => ChannelStable
<1>1. IInv /\ [Next]_vars => [KeepsChannels]_vars
  <2> SUFFICES ASSUME IInv, [Next]_vars PROVE KeepsChannels
    OBVIOUS
  <2>1. CASE UNCHANGED bridges
    BY <2>1 DEF bridges, KeepsChannels
  <2>2. ASSUME NEW ps \in Seq(PtyIds), CloseTerminals(ps) PROVE KeepsChannels
    BY <2>2, ClosedChannels DEF Without, HasChannel, KeepsChannels
  <2>3. ASSUME NEW p, NEW outcome, Bridge(p, outcome) PROVE KeepsChannels
    BY <2>1, <2>3, AssignKeeps DEF Bridge, KeepsChannels
  <2>4. ASSUME Hydrate PROVE KeepsChannels
    <3>1. DOMAIN channels'.ptyToChannel = {}
      BY <2>4 DEF Hydrate, NewChannelMap, EmptyMap
    <3>2. QED BY <3>1 DEF KeepsChannels, HasChannel
  <2>5. ASSUME NEW c, Join(c) \/ Leave(c) \/ Connect(c) PROVE UNCHANGED bridges
    BY <2>5 DEF Join, Leave, Connect
  <2>6. ASSUME NEW ch, HandleInput(ch) PROVE UNCHANGED bridges
    BY <2>6 DEF HandleInput
  <2>7. SessionCreate \/ RenameOrFocus => UNCHANGED bridges
    BY DEF SessionCreate, RenameOrFocus
  <2>8. ASSUME NEW x, SessionDestroy(x) \/ TabClose(x) \/ (PaneClose(x) /\ x \in PtyIds)
        PROVE  KeepsChannels
    BY <2>1, <2>2, <2>8, Closings DEF Closes
  <2>9. KnownPanes \subseteq PtyIds
    BY KnownIds DEF IInv
  <2>10. ASSUME NEW s, TabCreate(s) PROVE UNCHANGED bridges
    BY <2>10 DEF TabCreate
  <2>11. ASSUME NEW t, TabSwitch(t) PROVE UNCHANGED bridges
    BY <2>11 DEF TabSwitch
  <2>12. ASSUME NEW p, PaneSplit(p) PROVE UNCHANGED bridges
    BY <2>12 DEF PaneSplit
  <2>13. ASSUME NEW o, FetchSettles(o) PROVE KeepsChannels
    BY <2>1, <2>3, <2>13
       DEF FetchSettles, TabOpened, PaneOpened, Reconnected, ConnectNext, Aborted
  <2>14. ASSUME NEW k, SocketClosed(k) PROVE KeepsChannels
    BY <2>14 DEF SocketClosed, KeepsChannels
  <2>15. Hibernate \/ Restart => KeepsChannels
    BY <2>4 DEF Hibernate, Restart
  <2>16. CASE UNCHANGED vars
    BY <2>1, <2>16 DEF vars, bridges
  <2>17. QED
    BY <2>1, <2>5, <2>6, <2>7, <2>8, <2>9, <2>10, <2>11, <2>12, <2>13, <2>14,
       <2>15, <2>16 DEF Next
<1>2. QED BY <1>1, Invariant, PTL DEF Spec, ChannelStable
-----------------------------------------------------------------------------
Lazy == {o \in DOMAIN ops : ops[o].kind = "reconnect"}

\* The exclusion is kept by a handler of another kind that starts...
LEMMA StartOther ==
  ASSUME NEW op, LazyReconnectExclusive, Start(op), op.kind # "reconnect",
         reconnecting' = reconnecting
  PROVE  LazyReconnectExclusive'
<1>1. PICK o : o \notin DOMAIN ops /\ ops' = Put(ops, o, op)
  BY StartFresh
<1>2. Lazy' = Lazy /\ \A x \in Lazy : ops'[x] = ops[x]
  BY <1>1 DEF Lazy, Put
<1>3. QED BY <1>2 DEF LazyReconnectExclusive, Lazy

\* ... and by one that ends, or goes on to its next fetch.
LEMMA FinishOther ==
  ASSUME NEW o \in DOMAIN ops, LazyReconnectExclusive, ops[o].kind # "reconnect",
         reconnecting' = reconnecting,
         Finish(o) \/ \E op : op.kind # "reconnect" /\ ops' = [ops EXCEPT ![o] = op]
  PROVE  LazyReconnectExclusive'
<1>1. Lazy' = Lazy /\ \A x \in Lazy : ops'[x] = ops[x]
  <2>1. CASE Finish(o)
    BY <2>1 DEF Lazy, Finish, Drop
  <2>2. ASSUME NEW op, op.kind # "reconnect", ops' = [ops EXCEPT ![o] = op]
        PROVE  Lazy' = Lazy /\ \A x \in Lazy : ops'[x] = ops[x]
    <3>1. DOMAIN ops' = DOMAIN ops /\ \A x \in DOMAIN ops \ {o} : ops'[x] = ops[x]
      BY <2>2
    <3>2. ops'[o] = op
      BY <2>2
    <3>3. QED BY <2>2, <3>1, <3>2 DEF Lazy
  <2>3. QED BY <2>1, <2>2
<1>2. QED BY <1>1 DEF LazyReconnectExclusive, Lazy

\* A pane is marked as reconnecting exactly while one lazy reconnect of it
\* runs.
THEOREM SpecLazyReconnectExclusive == Spec => []LazyReconnectExclusive
<1>1. Init => LazyReconnectExclusive
  BY DEF Init, LazyReconnectExclusive, EmptyMap
<1>2. LazyReconnectExclusive /\ [Next]_vars => LazyReconnectExclusive'
  <2> SUFFICES ASSUME LazyReconnectExclusive, [Next]_vars
               PROVE  LazyReconnectExclusive'
    OBVIOUS
  <2>1. CASE UNCHANGED <<ops, reconnecting>>
    BY <2>1 DEF LazyReconnectExclusive
  <2>2. ASSUME NEW c, Join(c) \/ Leave(c) PROVE UNCHANGED <<ops, reconnecting>>
    BY <2>2 DEF Join, Leave
  <2>3. ASSUME NEW c, Connect(c) PROVE LazyReconnectExclusive'
    <3>1. /\ reconnecting' = reconnecting
          /\ \/ UNCHANGED ops
             \/ /\ NextDead(LoopStart, DOMAIN terminals) # Null
                /\ Start(NextDead(LoopStart, DOMAIN terminals))
      BY <2>3 DEF Connect
    <3>2. QED BY <2>1, <3>1, CursorKind, StartOther
  <2>4. ASSUME NEW ch, HandleInput(ch) PROVE LazyReconnectExclusive'
    <3> DEFINE p == channels.channelToPty[ch]
               op == [kind |-> "reconnect", pty |-> p]
    <3>1. /\ p \notin reconnecting
          /\ reconnecting' = reconnecting \cup {p}
          /\ Start(op)
      BY <2>4 DEF HandleInput
    <3>2. op.kind = "reconnect" /\ op.pty = p
      OBVIOUS
    <3> HIDE DEF p, op
    <3>3. PICK o : o \notin DOMAIN ops /\ ops' = Put(ops, o, op)
      BY <3>1, StartFresh
    <3>4. /\ Lazy' = Lazy \cup {o} /\ o \notin Lazy /\ ops'[o].pty = p
          /\ \A x \in Lazy : ops'[x] = ops[x]
      BY <3>2, <3>3 DEF Lazy, Put
    <3>5. QED BY <3>1, <3>4 DEF LazyReconnectExclusive, Lazy
  <2>5. ASSUME SessionCreate PROVE LazyReconnectExclusive'
    BY <2>5, StartOther DEF SessionCreate
  <2>6. ASSUME NEW s, TabCreate(s) PROVE LazyReconnectExclusive'
    BY <2>6, StartOther DEF TabCreate
  <2>7. ASSUME NEW p, PaneSplit(p) PROVE LazyReconnectExclusive'
    BY <2>7, StartOther DEF PaneSplit
  <2>8. ASSUME NEW s, SessionDestroy(s) PROVE UNCHANGED <<ops, reconnecting>>
    BY <2>8 DEF SessionDestroy
  <2>9. ASSUME NEW t, TabClose(t) \/ TabSwitch(t)
        PROVE  UNCHANGED <<ops, reconnecting>>
    BY <2>9 DEF TabClose, TabSwitch
  <2>10. ASSUME NEW p, PaneClose(p) PROVE UNCHANGED <<ops, reconnecting>>
    BY <2>10 DEF PaneClose
  <2>11. RenameOrFocus => UNCHANGED <<ops, reconnecting>>
    BY DEF RenameOrFocus
  <2>12. ASSUME NEW o \in DOMAIN ops, NEW outcome,
                TabOpened(o, outcome) \/ PaneOpened(o, outcome)
                  \/ Aborted(o, outcome)
         PROVE  LazyReconnectExclusive'
    BY <2>12, FinishOther DEF TabOpened, PaneOpened, Aborted
  <2>13. ASSUME NEW o \in DOMAIN ops, NEW outcome, ConnectNext(o, outcome)
         PROVE  LazyReconnectExclusive'
    <3>1. /\ reconnecting' = reconnecting /\ ops[o].kind # "reconnect"
          /\ \/ Finish(o)
             \/ /\ NextDead(ops[o], DOMAIN terminals') # Null
                /\ ops' = [ops EXCEPT ![o] = NextDead(ops[o], DOMAIN terminals')]
      BY <2>13 DEF ConnectNext
    <3>2. QED BY <3>1, CursorKind, FinishOther
  <2>14. ASSUME NEW o \in DOMAIN ops, NEW outcome, Reconnected(o, outcome)
         PROVE  LazyReconnectExclusive'
    <3>1. /\ o \in Lazy
          /\ reconnecting' = reconnecting \ {ops[o].pty}
          /\ ops' = Drop(ops, {o})
      BY <2>14 DEF Reconnected, Finish, Lazy
    <3>2. Lazy' = Lazy \ {o} /\ \A x \in Lazy' : ops'[x] = ops[x]
      BY <3>1 DEF Lazy, Drop
    <3>3. /\ reconnecting = {ops[x].pty : x \in Lazy}
          /\ \A x, y \in Lazy : ops[x].pty = ops[y].pty => x = y
      BY DEF LazyReconnectExclusive, Lazy
    <3>4. reconnecting' = {ops[x].pty : x \in Lazy \ {o}}
      BY <3>1, <3>3
    <3>5. reconnecting' = {ops'[x].pty : x \in Lazy'}
      BY <3>2, <3>4
    <3>6. \A x, y \in Lazy' : ops'[x].pty = ops'[y].pty => x = y
      BY <3>2, <3>3
    <3>7. QED BY <3>5, <3>6 DEF LazyReconnectExclusive, Lazy
  <2>15. ASSUME NEW o, FetchSettles(o) PROVE LazyReconnectExclusive'
    BY <2>12, <2>13, <2>14, <2>15 DEF FetchSettles
  <2>16. ASSUME NEW k, SocketClosed(k) PROVE UNCHANGED <<ops, reconnecting>>
    BY <2>16 DEF SocketClosed
  <2>17. Hibernate \/ Restart => LazyReconnectExclusive'
    BY DEF Hibernate, Restart, Hydrate, LazyReconnectExclusive, EmptyMap
  <2>18. CASE UNCHANGED vars
    BY <2>1, <2>18 DEF vars
  <2>19. QED
    BY <2>1, <2>2, <2>3, <2>4, <2>5, <2>6, <2>7, <2>8, <2>9, <2>10, <2>11,
       <2>15, <2>16, <2>17, <2>18 DEF Next
<1>3. QED BY <1>1, <1>2, PTL DEF Spec
-----------------------------------------------------------------------------
USE MaxChannelsAssumption DEF Channels

\* The inductive invariant of the channel map.
MapInv == Sound(cm) /\ reply \in Channels \cup {NoChannel}

\* It holds initially.
LEMMA MapInitSound == MapInit => MapInv
BY NewSound DEF MapInit, MapInv

\* Every call preserves it.
LEMMA MapNextSound == MapInv /\ [MapNext]_mapVars => MapInv'
<1> SUFFICES ASSUME MapInv, [MapNext]_mapVars PROVE MapInv'
  OBVIOUS
<1> USE DEF MapInv
<1>1. ASSUME NEW id \in Ids, AssignCall(id) PROVE MapInv'
  <2>1. Sound(cm')
    BY <1>1, AssignSound DEF AssignCall
  <2>2. cm'.ptyToChannel \in PartialFcn(Ids, Channels)
    BY <2>1 DEF Sound, ChannelMapType
  <2>3. HasChannel(cm', id) => cm'.ptyToChannel[id] \in Channels
    BY <2>2 DEF HasChannel, PartialFcn
  <2>4. QED BY <1>1, <2>1, <2>3 DEF AssignCall
<1>2. ASSUME NEW ch \in Channels, ReleaseCall(ch) PROVE MapInv'
  BY <1>2, ReleaseSound DEF ReleaseCall
<1>3. ASSUME ReloadCall PROVE MapInv'
  BY <1>3, ReloadSound DEF ReloadCall
<1>4. CASE UNCHANGED mapVars
  BY <1>4 DEF mapVars
<1>5. QED BY <1>1, <1>2, <1>3, <1>4 DEF MapNext

\* Every reachable channel map is sound.
THEOREM MapStaysSound == MapSpec => []MapInv
BY MapInitSound, MapNextSound, PTL DEF MapSpec

\* Whatever the calls, the channel numbers stay below the control channel, the
\* two directions of the map stay inverse, and nothing free is in use.
THEOREM SpecChannelMapSound == MapSpec => []ChannelMapSound
<1>1. MapInv => ChannelMapSound
  BY DEF MapInv, Sound, ChannelMapSound, MapTypeOK, BothWays, FreeListSound
<1>2. QED BY <1>1, MapStaysSound, PTL
-----------------------------------------------------------------------------
\* Every call is a step of the pool or leaves it alone.
LEMMA MapStepRefines == MapInv /\ [MapNext]_mapVars => [Pool!Next]_(Pool!vars)
<1> SUFFICES ASSUME MapInv, [MapNext]_mapVars PROVE [Pool!Next]_(Pool!vars)
  OBVIOUS
<1> USE DEF MapInv
<1>1. ASSUME NEW id \in Ids, AssignCall(id) PROVE Pool!Next
  <2>1. CASE HasChannel(cm, id)
    <3>1. cm' = cm /\ reply' = cm.ptyToChannel[id]
      BY <1>1, <2>1 DEF AssignCall, Assign
    <3>2. \E c \in DOMAIN cm.channelToPty : cm.channelToPty[c] = id /\ reply' = c
      BY <2>1, <3>1 DEF Sound, MutuallyInverse, HasChannel
    <3>3. Pool!Confirm(id)
      BY <3>1, <3>2 DEF Pool!Confirm
    <3>4. QED BY <3>3 DEF Pool!Next
  <2>2. CASE ~ HasChannel(cm, id) /\ CanAllocate(cm)
    <3>1. cm' = Allocate(cm, id)
      BY <1>1, <2>2 DEF AssignCall, Assign
    <3>2. cm'.ptyToChannel = Put(cm.ptyToChannel, id, NextFree(cm))
      BY <3>1 DEF Allocate
    <3>3. reply' = NextFree(cm)
      BY <1>1, <3>2 DEF AssignCall, HasChannel, Put
    <3>4. cm'.channelToPty = Put(cm.channelToPty, NextFree(cm), id)
      BY <3>1 DEF Allocate
    <3>5. ~ Pool!Holds(id)
      BY <2>2, HoldsBothWays DEF Pool!Holds
    <3>6. /\ NextFree(cm) \in FreeChannels(cm)
          /\ FreeChannels(cm)' = FreeChannels(cm) \ {NextFree(cm)}
      BY <2>2, <3>1, AllocateFree DEF FreeChannels
    <3>7. Pool!Grant(id)
      BY <3>3, <3>4, <3>5, <3>6 DEF Pool!Grant, Put, Pool!Put
    <3>8. QED BY <3>7 DEF Pool!Next
  <2>3. CASE ~ HasChannel(cm, id) /\ ~ CanAllocate(cm)
    <3>1. cm' = cm /\ reply' = NoChannel
      BY <1>1, <2>3 DEF AssignCall, Assign
    <3>2. FreeChannels(cm) = {}
      BY <2>3 DEF FreeChannels, CanAllocate, Sound, ChannelMapType
    <3>3. ~ Pool!Holds(id)
      BY <2>3, HoldsBothWays DEF Pool!Holds
    <3>4. Pool!Refuse(id)
      BY <3>1, <3>2, <3>3 DEF Pool!Refuse
    <3>5. QED BY <3>4 DEF Pool!Next
  <2>4. QED BY <2>1, <2>2, <2>3
<1>2. ASSUME NEW ch \in Channels, ReleaseCall(ch) PROVE Pool!Next
  <2>1. CASE ch \in DOMAIN cm.channelToPty
    <3>1. /\ cm'.channelToPty = Drop(cm.channelToPty, {ch})
          /\ FreeChannels(cm') = FreeChannels(cm) \cup {ch}
          /\ reply' = NoChannel
      BY <1>2, <2>1, ReleaseFree DEF ReleaseCall, Release
    <3>2. Pool!Free(ch)
      BY <2>1, <3>1 DEF Pool!Free, FreeChannels, Drop, Pool!Drop
    <3>3. QED BY <3>2 DEF Pool!Next
  <2>2. CASE ch \notin DOMAIN cm.channelToPty
    <3>1. cm' = cm /\ reply' = NoChannel
      BY <1>2, <2>2 DEF ReleaseCall, Release
    <3>2. FreeChannels(cm) \in SUBSET (Channels \ DOMAIN cm.channelToPty)
      BY FreeUnused
    <3>3. Pool!Reload
      BY <3>1, <3>2 DEF Pool!Reload
    <3>4. QED BY <3>3 DEF Pool!Next
  <2>3. QED BY <2>1, <2>2
<1>3. ASSUME ReloadCall PROVE Pool!Next
  <2>1. cm'.channelToPty = cm.channelToPty /\ reply' = NoChannel
    BY <1>3, ReloadOwner DEF ReloadCall
  <2>2. FreeChannels(cm') \in SUBSET (Channels \ DOMAIN cm'.channelToPty)
    BY <1>3, ReloadSound, FreeUnused DEF ReloadCall
  <2>3. Pool!Reload
    BY <2>1, <2>2 DEF Pool!Reload, FreeChannels
  <2>4. QED BY <2>3 DEF Pool!Next
<1>4. CASE UNCHANGED mapVars
  BY <1>4 DEF mapVars, Pool!vars, FreeChannels
<1>5. QED BY <1>1, <1>2, <1>3, <1>4 DEF MapNext

\* The class implements the channel pool.
THEOREM MapRefinesPool == MapSpec => PoolSpec
<1>1. MapInit => Pool!Init
  <2>1. SUFFICES ASSUME MapInit PROVE Pool!Init
    OBVIOUS
  <2>2. /\ cm.channelToPty = EmptyMap /\ cm.freeList = << >>
        /\ cm.nextChannel = 0 /\ reply = NoChannel
    BY <2>1 DEF MapInit, NewChannelMap
  <2>3. FreeChannels(cm) = 0 .. MaxChannels - 1
    BY <2>2 DEF FreeChannels
  <2>4. QED BY <2>2, <2>3 DEF Pool!Init, EmptyMap, Pool!EmptyMap
<1>2. QED BY <1>1, MapStepRefines, MapStaysSound, PTL DEF MapSpec, PoolSpec, Pool!Spec
=============================================================================
