---------------------------- MODULE TabbedLayout ----------------------------
(***************************************************************************)
(* The tabbed layout of packages/sandbox/src/TabbedLayout.ts, as operators *)
(* on a value.  The split tree of a tab is abstracted to the sequence of   *)
(* its pane keys in tree order (what windowKeysForTab collects): the tree  *)
(* shape, the names, the orientation and the focus only affect drawing.    *)
(* Tabs are numbered from 1 here, from 0 in the code.                      *)
(***************************************************************************)
EXTENDS Naturals, Sequences, SequencesExt

CONSTANT Null   \* no layout yet

\* The layouts over a set of tab ids and a set of pane keys.
LayoutType(TabIds, Keys) ==
  {l \in [tabs : Seq([id : TabIds, panes : Seq(Keys)]), active : Nat] :
     /\ l.active \in DOMAIN l.tabs
     /\ \A i \in DOMAIN l.tabs : l.tabs[i].panes # << >>}

ActiveTab(l) == l.tabs[l.active]

\* layout.tabs.findIndex, 0 when no tab has the id.
TabIndex(l, t) ==
  IF l = Null THEN 0 ELSE SelectInSeq(l.tabs, LAMBDA tab : tab.id = t)

\* windowKeysForTab of the tab with this id, empty when there is none.
KeysOf(l, t) ==
  IF TabIndex(l, t) = 0 THEN << >> ELSE l.tabs[TabIndex(l, t)].panes

PanesOf(l) ==
  IF l = Null THEN {} ELSE UNION {ToSet(l.tabs[i].panes) : i \in DOMAIN l.tabs}

\* createTabbedLayout and createTab: a new tab with one pane, made active.
CreateTab(l, t, key) ==
  LET tab == [id |-> t, panes |-> <<key>>]
  IN  IF l = Null THEN [tabs |-> <<tab>>, active |-> 1]
      ELSE [tabs |-> Append(l.tabs, tab), active |-> Len(l.tabs) + 1]

\* Variant: the active index is not shifted when an earlier tab goes.
CloseTabNoShift(l, i) ==
  IF Len(l.tabs) = 1 THEN l
  ELSE [tabs   |-> RemoveAt(l.tabs, i),
        active |-> IF l.active < Len(l.tabs) THEN l.active ELSE Len(l.tabs) - 1]

\* Variant: the active index is not clamped when the last tab goes.
CloseTabNoClamp(l, i) ==
  IF Len(l.tabs) = 1 THEN l
  ELSE [tabs   |-> RemoveAt(l.tabs, i),
        active |-> IF i < l.active THEN l.active - 1 ELSE l.active]

\* The layout after closeTab and the callers' "if (result)": the only tab
\* stays.
CloseTab(l, i) ==
  IF Len(l.tabs) = 1 THEN l
  ELSE [tabs   |-> RemoveAt(l.tabs, i),
        active |-> IF i < l.active \/ l.active = Len(l.tabs)
                   THEN l.active - 1 ELSE l.active]

SwitchTab(l, i) == [l EXCEPT !.active = i]

\* splitPane: the new pane comes right after the target, which must be in
\* the active tab.
SplitPane(l, target, key) ==
  LET at == SelectInSeq(ActiveTab(l).panes, LAMBDA k : k = target)
  IN  IF at = 0 THEN l
      ELSE [l EXCEPT !.tabs[l.active].panes = InsertAt(@, at + 1, key)]

\* The layout after closePane and the caller's "if (result)": the only pane
\* of a tab stays.
ClosePane(l, key) ==
  IF Len(ActiveTab(l).panes) = 1 THEN l
  ELSE [l EXCEPT !.tabs[l.active].panes = RemoveFirst(@, key)]
=============================================================================
