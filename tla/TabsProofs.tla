------------------------------- MODULE TabsProofs -------------------------------
(***************************************************************************)
(* Proofs about Tabs for any tabs, pages and bounds.  While a serve runs   *)
(* its list has each tab that was in touch within Silence: as one with a   *)
(* stream, or as seen since.  What is saved has it too, dated as late, so  *)
(* the next serve begins with it or finds the file itself out of date.     *)
(***************************************************************************)
EXTENDS Tabs, TLAPS

Tab == [page : Pages, seen : Times, streams : 0..MaxRequests]

TypesOK ==
  /\ now \in 0..MaxNow /\ serve \in {"down", "up", "stopping"}
  /\ list \in [TabIds -> Tab] /\ tabsFile \in [saved : Times, tabs : [TabIds -> Tab]]
  /\ moving \in [tab : {0} \cup TabIds, page : Pages]
  /\ requests \in 0..MaxRequests /\ starts \in 0..MaxStarts
  /\ heard \in [TabIds -> Times]
  /\ shown \in {"none yet", "here", "move", "elsewhere", "open the browser"}

\* No date is of the future, and each stream is a request of a tab that was seen.
Dated ==
  /\ tabsFile.saved <= now
  /\ \A t \in TabIds :
       /\ list[t].seen <= now /\ tabsFile.tabs[t].seen <= now /\ tabsFile.tabs[t].streams = 0
       /\ list[t].streams <= requests
       /\ list[t].streams > 0 => list[t].seen # Never

\* A Show that moves a tab does so in a serve that runs.
MovesOne == moving # NoMove => serve # "down" /\ moving.tab \in TabIds

\* The file is as late as any tab's touch, and has the tab, unless that was long ago.
FileRemembers ==
  \A t \in TabIds : /\ heard[t] <= tabsFile.saved
                    /\ Silent(heard[t]) \/ heard[t] <= tabsFile.tabs[t].seen

\* The list of a serve that runs has the tab, unless that was long ago.
ListRemembers ==
  serve # "down" =>
    \A t \in TabIds :
      Silent(heard[t]) \/ list[t].streams > 0 \/ heard[t] <= list[t].seen

IInv ==
  /\ TypesOK /\ Dated /\ MovesOne /\ FileRemembers /\ ListRemembers
  /\ NoSecondWindow

LEMMA NoTabIs ==
  ASSUME TabsConstants
  PROVE  NoTab \in Tab /\ NoTab.seen = Never /\ NoTab.streams = 0
         /\ NoTab.page = FrontPage /\ MaxNow \in Nat /\ Silence \in Nat
         /\ MaxRequests \in Nat /\ MaxStarts \in Nat
<1>1. MaxNow \in Nat /\ Silence \in Nat /\ MaxRequests \in Nat /\ MaxStarts \in Nat
  BY DEF TabsConstants
<1> QED
  BY <1>1 DEF TabsConstants, NoTab, Tab, Never, Times

LEMMA Starts0 ==
  ASSUME TabsConstants, TabsInit PROVE IInv
<1>1. /\ now = 0 /\ serve = "down" /\ shown = "none yet" /\ moving = NoMove
      /\ list = [t \in TabIds |-> NoTab]
      /\ tabsFile = [saved |-> Never, tabs |-> [t \in TabIds |-> NoTab]]
      /\ requests = 0 /\ starts = 0 /\ heard = [t \in TabIds |-> Never]
  BY DEF TabsInit, NoTabsFile
<1>2. Never \in Times /\ Never = -1
  BY NoTabIs DEF Times, Never
<1>3. TypesOK
  <2>1. list \in [TabIds -> Tab] /\ heard \in [TabIds -> Times]
    BY <1>1, <1>2, NoTabIs
  <2>2. tabsFile \in [saved : Times, tabs : [TabIds -> Tab]]
    BY <1>1, <1>2, NoTabIs
  <2>3. moving \in [tab : {0} \cup TabIds, page : Pages]
    BY <1>1 DEF NoMove, TabsConstants
  <2>4. /\ now \in 0..MaxNow /\ requests \in 0..MaxRequests /\ starts \in 0..MaxStarts
    <3>1. now = 0 /\ requests = 0 /\ starts = 0
      BY DEF TabsInit
    <3>2. MaxNow \in Nat /\ MaxRequests \in Nat /\ MaxStarts \in Nat
      BY NoTabIs
    <3> QED
      BY <3>1, <3>2
  <2>5. serve \in {"down", "up", "stopping"}
        /\ shown \in {"none yet", "here", "move", "elsewhere", "open the browser"}
    BY <1>1
  <2> QED
    BY <2>1, <2>2, <2>3, <2>4, <2>5 DEF TypesOK
<1>4. \A t \in TabIds : /\ list[t].seen = Never /\ list[t].streams = 0
                        /\ tabsFile.tabs[t].seen = Never /\ tabsFile.tabs[t].streams = 0
                        /\ heard[t] = Never
  BY <1>1, NoTabIs
<1>5. now = 0 /\ requests = 0 /\ tabsFile.saved = Never
  BY <1>1
<1>6. Dated
  BY <1>2, <1>4, <1>5 DEF Dated
<1>7. MovesOne /\ ListRemembers /\ NoSecondWindow
  BY <1>1 DEF MovesOne, ListRemembers, NoSecondWindow
<1>8. FileRemembers
  <2> SUFFICES ASSUME NEW t \in TabIds
               PROVE  heard[t] <= tabsFile.saved /\ heard[t] <= tabsFile.tabs[t].seen
    BY DEF FileRemembers
  <2> QED
    BY <1>2, <1>4, <1>5
<1> QED
  BY <1>3, <1>6, <1>7, <1>8 DEF IInv

LEMMA NeverIsLeast ==
  ASSUME TabsConstants, NEW x \in Times, x <= Never
  PROVE  x = Never
<1>1. MaxNow \in Nat /\ Never = -1
  BY NoTabIs DEF Never
<1> QED
  BY <1>1 DEF Times

\* What save writes.
LEMMA SavedIs ==
  ASSUME TabsConstants, now \in 0..MaxNow, NEW tabs \in [TabIds -> Tab]
  PROVE  /\ Saved(tabs).saved = now /\ Saved(tabs) \in [saved : Times, tabs : [TabIds -> Tab]]
         /\ \A t \in TabIds :
              /\ Saved(tabs).tabs[t].streams = 0
              /\ Saved(tabs).tabs[t].seen = IF tabs[t].streams > 0 THEN now ELSE tabs[t].seen
<1>1. now \in Times /\ 0 \in 0..MaxRequests
  BY NoTabIs DEF Times, Never
<1> DEFINE row(t) == IF tabs[t] = NoTab THEN NoTab
                     ELSE [tabs[t] EXCEPT !.seen = SeenAtSave(tabs[t]), !.streams = 0]
<1>2. ASSUME NEW t \in TabIds
      PROVE  /\ row(t) \in Tab /\ row(t).streams = 0
             /\ row(t).seen = IF tabs[t].streams > 0 THEN now ELSE tabs[t].seen
  <2>1. tabs[t] \in Tab
    OBVIOUS
  <2>2. SeenAtSave(tabs[t]) = IF tabs[t].streams > 0 THEN now ELSE tabs[t].seen
    BY DEF SeenAtSave
  <2>3. CASE tabs[t] = NoTab
    BY <2>3, NoTabIs
  <2>4. CASE tabs[t] # NoTab
    <3>1. SeenAtSave(tabs[t]) \in Times
      BY <1>1, <2>1, <2>2 DEF Tab
    <3> QED
      BY <1>1, <2>1, <2>2, <2>4, <3>1 DEF Tab
  <2> QED
    BY <2>3, <2>4
<1>3. Saved(tabs) = [saved |-> now, tabs |-> [t \in TabIds |-> row(t)]]
  BY DEF Saved
<1> HIDE DEF row
<1> QED
  BY <1>1, <1>2, <1>3

\* Whatever changes the list and saves it keeps the file in step.
LEMMA Written ==
  ASSUME TabsConstants, now \in 0..MaxNow,
         NEW tabs \in [TabIds -> Tab], NEW h \in [TabIds -> Times],
         \A t \in TabIds : /\ h[t] <= now /\ tabs[t].seen <= now
                           /\ Silent(h[t]) \/ tabs[t].streams > 0 \/ h[t] <= tabs[t].seen
  PROVE  /\ Saved(tabs).saved <= now
         /\ \A t \in TabIds :
              /\ Saved(tabs).tabs[t].seen <= now /\ Saved(tabs).tabs[t].streams = 0
              /\ h[t] <= Saved(tabs).saved
              /\ Silent(h[t]) \/ h[t] <= Saved(tabs).tabs[t].seen
<1>1. /\ Saved(tabs).saved = now
      /\ \A t \in TabIds :
           /\ Saved(tabs).tabs[t].streams = 0
           /\ Saved(tabs).tabs[t].seen = IF tabs[t].streams > 0 THEN now ELSE tabs[t].seen
  BY SavedIs
<1> QED
  BY <1>1

LEMMA Changes ==
  ASSUME TabsConstants, IInv, NEW tabs \in [TabIds -> Tab], NEW h \in [TabIds -> Times],
         list' = tabs, tabsFile' = Saved(tabs), heard' = h,
         UNCHANGED <<now, serve, starts>>, requests' \in 0..MaxRequests, shown' = "none yet",
         moving' = moving \/ moving' = NoMove,
         \A t \in TabIds :
           /\ h[t] <= now /\ tabs[t].seen <= now /\ tabs[t].streams <= requests'
           /\ tabs[t].streams > 0 => tabs[t].seen # Never
           /\ serve # "down" =>
                Silent(h[t]) \/ tabs[t].streams > 0 \/ h[t] <= tabs[t].seen,
         serve # "down"
  PROVE  IInv'
<1>1. now \in 0..MaxNow
  BY DEF IInv, TypesOK
<1>2. /\ Saved(tabs).saved <= now
      /\ \A t \in TabIds :
           /\ Saved(tabs).tabs[t].seen <= now /\ Saved(tabs).tabs[t].streams = 0
           /\ h[t] <= Saved(tabs).saved
           /\ Silent(h[t]) \/ h[t] <= Saved(tabs).tabs[t].seen
  BY <1>1, Written
<1>3. Saved(tabs) \in [saved : Times, tabs : [TabIds -> Tab]]
  BY <1>1, SavedIs
<1>4. NoMove \in [tab : {0} \cup TabIds, page : Pages]
  BY DEF TabsConstants, NoMove
<1>5. TypesOK'
  BY <1>3, <1>4 DEF IInv, TypesOK
<1>6. Dated'
  BY <1>2 DEF Dated
<1>7. MovesOne'
  BY DEF IInv, MovesOne
<1>8. FileRemembers'
  BY <1>2 DEF FileRemembers, Silent
<1>9. ListRemembers' /\ NoSecondWindow'
  BY DEF ListRemembers, NoSecondWindow, Silent
<1> QED
  BY <1>5, <1>6, <1>7, <1>8, <1>9 DEF IInv

\* A tab the list gets anew: of this moment, with a stream more or none.
LEMMA ListWith ==
  ASSUME TabsConstants, IInv, NEW t \in TabIds, NEW row \in Tab
  PROVE  LET tabs == [list EXCEPT ![t] = row]
         IN /\ tabs \in [TabIds -> Tab] /\ tabs[t] = row
            /\ \A u \in TabIds : u # t => tabs[u] = list[u]
  BY DEF IInv, TypesOK

LEMMA Facts ==
  ASSUME TabsConstants, IInv
  PROVE  /\ now \in 0..MaxNow /\ now \in Nat /\ now \in Times /\ MaxRequests \in Nat
         /\ requests \in 0..MaxRequests /\ requests \in Nat /\ Never = -1
<1>1. now \in 0..MaxNow /\ requests \in 0..MaxRequests
  BY DEF IInv, TypesOK
<1>2. MaxNow \in Nat /\ MaxRequests \in Nat
  BY NoTabIs
<1>3. Never = -1
  BY DEF Never
<1>4. now \in Nat /\ now \in Times
  BY <1>1, <1>2, <1>3 DEF Times
<1>5. requests \in Nat
  BY <1>1, <1>2
<1> QED
  BY <1>1, <1>2, <1>3, <1>4, <1>5

\* What the invariant says of one tab.
LEMMA Tabbed ==
  ASSUME TabsConstants, IInv, NEW t \in TabIds
  PROVE  /\ list[t] \in Tab /\ heard[t] \in Times /\ heard[t] \in Int /\ heard[t] <= now
         /\ list[t].seen \in Times /\ list[t].seen \in Int /\ list[t].streams \in Nat
         /\ list[t].seen <= now /\ list[t].streams <= requests
         /\ list[t].streams > 0 => list[t].seen # Never
<1>1. heard \in [TabIds -> Times] /\ list \in [TabIds -> Tab]
      /\ tabsFile \in [saved : Times, tabs : [TabIds -> Tab]]
  BY DEF IInv, TypesOK
<1>2. heard[t] \in Times /\ list[t] \in Tab /\ tabsFile.saved \in Times
  BY <1>1
<1>3. list[t].seen \in Times /\ list[t].streams \in 0..MaxRequests
  BY <1>2 DEF Tab
<1>4. /\ heard[t] \in Int /\ tabsFile.saved \in Int
      /\ list[t].seen \in Int /\ list[t].streams \in Nat
  <2>1. MaxRequests \in Nat /\ MaxNow \in Nat
    BY NoTabIs
  <2> QED
    BY <1>2, <1>3, <2>1 DEF Times, Never
<1>5. heard[t] <= tabsFile.saved /\ tabsFile.saved <= now
  BY DEF IInv, FileRemembers, Dated
<1>6. now \in Int
  BY Facts
<1>7. heard[t] <= now
  BY <1>4, <1>5, <1>6
<1>8. /\ list[t].seen <= now /\ list[t].streams <= requests
      /\ list[t].streams > 0 => list[t].seen # Never
  BY DEF IInv, Dated
<1> QED
  BY <1>2, <1>3, <1>4, <1>7, <1>8

LEMMA SeenKeeps ==
  ASSUME TabsConstants, IInv, NEW t \in TabIds, NEW page \in Pages, Seen(t, page)
  PROVE  IInv'
<1> DEFINE row == [list[t] EXCEPT !.page = page, !.seen = now]
           tabs == [list EXCEPT ![t] = row]
           h == [u \in TabIds |-> IF u = t \/ list[u].streams > 0 THEN now ELSE heard[u]]
<1> HIDE DEF row, tabs, h
<1>0. serve = "up" /\ requests' = requests + 1 /\ requests < MaxRequests
  BY DEF Seen, TabConnected, Done, Request
<1>1. /\ list' = tabs /\ tabsFile' = Saved(tabs) /\ heard' = h
      /\ UNCHANGED <<now, serve, starts, moving>> /\ shown' = "none yet"
  BY DEF Seen, Request, row, tabs, h
<1>2. requests' \in 0..MaxRequests /\ requests \in Nat /\ now \in Nat /\ now \in Times
      /\ Never = -1
  <2>1. requests \in Nat /\ MaxRequests \in Nat /\ now \in Nat /\ now \in Times /\ Never = -1
    BY Facts
  <2> QED
    BY <1>0, <2>1
<1>3. row \in Tab /\ row.seen = now /\ row.streams = list[t].streams
  <2>1. list[t] \in Tab
    BY Tabbed
  <2> QED
    BY <1>2, <2>1 DEF Tab, row
<1>4. /\ tabs \in [TabIds -> Tab] /\ tabs[t] = row
      /\ \A u \in TabIds : u # t => tabs[u] = list[u]
  BY <1>3, ListWith DEF tabs
<1>5. h \in [TabIds -> Times]
      /\ \A u \in TabIds : h[u] = IF u = t \/ list[u].streams > 0 THEN now ELSE heard[u]
  BY <1>2, Tabbed DEF h
<1>6. ASSUME NEW u \in TabIds
      PROVE  /\ h[u] <= now /\ tabs[u].seen <= now /\ tabs[u].streams <= requests'
             /\ tabs[u].streams > 0 => tabs[u].seen # Never
             /\ Silent(h[u]) \/ tabs[u].streams > 0 \/ h[u] <= tabs[u].seen
  <2>1. /\ heard[u] \in Int /\ heard[u] <= now
        /\ list[u].seen \in Int /\ list[u].streams \in Nat
        /\ list[u].seen <= now /\ list[u].streams <= requests
        /\ list[u].streams > 0 => list[u].seen # Never
    BY Tabbed
  <2>2. Silent(heard[u]) \/ list[u].streams > 0 \/ heard[u] <= list[u].seen
    BY <1>0 DEF IInv, ListRemembers
  <2>3. CASE u = t
    <3>1. h[u] = now /\ tabs[u].seen = now /\ tabs[u].streams = list[u].streams
      BY <1>3, <1>4, <1>5, <2>3
    <3> QED
      BY <1>0, <1>2, <2>1, <3>1
  <2>4. CASE u # t
    <3>1. tabs[u] = list[u] /\ h[u] = IF list[u].streams > 0 THEN now ELSE heard[u]
      BY <1>4, <1>5, <2>4
    <3> QED
      BY <1>0, <1>2, <2>1, <2>2, <3>1
  <2> QED
    BY <2>3, <2>4
<1>7. \A u \in TabIds :
        /\ h[u] <= now /\ tabs[u].seen <= now /\ tabs[u].streams <= requests'
        /\ tabs[u].streams > 0 => tabs[u].seen # Never
        /\ Silent(h[u]) \/ tabs[u].streams > 0 \/ h[u] <= tabs[u].seen
  BY <1>6
<1> QED
  BY <1>0, <1>1, <1>2, <1>4, <1>5, <1>7, Changes

LEMMA ConnectedKeeps ==
  ASSUME TabsConstants, IInv, NEW t \in TabIds, NEW page \in Pages, TabConnected(t, page)
  PROVE  IInv'
<1> DEFINE row == [page |-> page, seen |-> now, streams |-> list[t].streams + 1]
           tabs == [list EXCEPT ![t] = row]
           h == [u \in TabIds |-> IF tabs[u].streams > 0 THEN now ELSE heard[u]]
<1> HIDE DEF row, tabs, h
<1>0. serve = "up" /\ requests' = requests + 1 /\ requests < MaxRequests
  BY DEF Seen, TabConnected, Done, Request
<1>1. /\ list' = tabs /\ tabsFile' = Saved(tabs) /\ heard' = h
      /\ UNCHANGED <<now, serve, starts, moving>> /\ shown' = "none yet"
  BY DEF TabConnected, Request, Change, row, tabs, h
<1>2. requests' \in 0..MaxRequests /\ requests \in Nat /\ now \in Nat /\ now \in Times
      /\ Never = -1
  <2>1. requests \in Nat /\ MaxRequests \in Nat /\ now \in Nat /\ now \in Times /\ Never = -1
    BY Facts
  <2> QED
    BY <1>0, <2>1
<1>3. row \in Tab /\ row.seen = now /\ row.streams = list[t].streams + 1
  <2>1. list[t].streams \in Nat /\ list[t].streams <= requests /\ MaxRequests \in Nat
    BY Facts, Tabbed
  <2>2. list[t].streams + 1 \in 0..MaxRequests
    BY <1>0, <1>2, <2>1
  <2> QED
    BY <1>2, <2>2 DEF Tab, row
<1>4. /\ tabs \in [TabIds -> Tab] /\ tabs[t] = row
      /\ \A u \in TabIds : u # t => tabs[u] = list[u]
  BY <1>3, ListWith DEF tabs
<1>5. h \in [TabIds -> Times]
      /\ \A u \in TabIds : h[u] = IF tabs[u].streams > 0 THEN now ELSE heard[u]
  BY <1>2, Tabbed DEF h
<1>6. ASSUME NEW u \in TabIds
      PROVE  /\ h[u] <= now /\ tabs[u].seen <= now /\ tabs[u].streams <= requests'
             /\ tabs[u].streams > 0 => tabs[u].seen # Never
             /\ Silent(h[u]) \/ tabs[u].streams > 0 \/ h[u] <= tabs[u].seen
  <2>1. /\ heard[u] \in Int /\ heard[u] <= now
        /\ list[u].seen \in Int /\ list[u].streams \in Nat
        /\ list[u].seen <= now /\ list[u].streams <= requests
        /\ list[u].streams > 0 => list[u].seen # Never
    BY Tabbed
  <2>2. Silent(heard[u]) \/ list[u].streams > 0 \/ heard[u] <= list[u].seen
    BY <1>0 DEF IInv, ListRemembers
  <2>3. CASE u = t
    <3>1. tabs[u].seen = now /\ tabs[u].streams = list[u].streams + 1
      BY <1>3, <1>4, <2>3
    <3>2. h[u] = now
      BY <1>5, <2>1, <3>1
    <3> QED
      BY <1>0, <1>2, <2>1, <3>1, <3>2
  <2>4. CASE u # t
    <3>1. tabs[u] = list[u] /\ h[u] = IF list[u].streams > 0 THEN now ELSE heard[u]
      BY <1>4, <1>5, <2>4
    <3> QED
      BY <1>0, <1>2, <2>1, <2>2, <3>1
  <2> QED
    BY <2>3, <2>4
<1>7. \A u \in TabIds :
        /\ h[u] <= now /\ tabs[u].seen <= now /\ tabs[u].streams <= requests'
        /\ tabs[u].streams > 0 => tabs[u].seen # Never
        /\ Silent(h[u]) \/ tabs[u].streams > 0 \/ h[u] <= tabs[u].seen
  BY <1>6
<1> QED
  BY <1>0, <1>1, <1>2, <1>4, <1>5, <1>7, Changes

LEMMA DoneKeeps ==
  ASSUME TabsConstants, IInv, NEW t \in TabIds, Done(t)
  PROVE  IInv'
<1> DEFINE row == [page |-> list[t].page, seen |-> now, streams |-> list[t].streams - 1]
           tabs == [list EXCEPT ![t] = row]
           h == [u \in TabIds |-> IF list[u].streams > 0 THEN now ELSE heard[u]]
<1> HIDE DEF row, tabs, h
<1>0. serve # "down" /\ requests' = requests /\ list[t].streams > 0
  BY DEF Seen, TabConnected, Done, Request
<1>1. /\ list' = tabs /\ tabsFile' = Saved(tabs) /\ heard' = h
      /\ UNCHANGED <<now, serve, starts, moving>> /\ shown' = "none yet"
  BY DEF Done, Parted, row, tabs, h
<1>2. requests' \in 0..MaxRequests /\ requests \in Nat /\ now \in Nat /\ now \in Times
      /\ Never = -1
  <2>1. requests \in 0..MaxRequests /\ requests \in Nat /\ MaxRequests \in Nat
        /\ now \in Nat /\ now \in Times /\ Never = -1
    BY Facts
  <2> QED
    BY <1>0, <2>1
<1>3. row \in Tab /\ row.seen = now /\ row.streams = list[t].streams - 1
  <2>1. list[t] \in Tab /\ list[t].streams \in 0..MaxRequests /\ MaxRequests \in Nat
    BY Facts, Tabbed DEF Tab
  <2>2. list[t].streams - 1 \in 0..MaxRequests
    BY <1>0, <2>1
  <2> QED
    BY <1>2, <2>1, <2>2 DEF Tab, row
<1>4. /\ tabs \in [TabIds -> Tab] /\ tabs[t] = row
      /\ \A u \in TabIds : u # t => tabs[u] = list[u]
  BY <1>3, ListWith DEF tabs
<1>5. h \in [TabIds -> Times]
      /\ \A u \in TabIds : h[u] = IF list[u].streams > 0 THEN now ELSE heard[u]
  BY <1>2, Tabbed DEF h
<1>6. ASSUME NEW u \in TabIds
      PROVE  /\ h[u] <= now /\ tabs[u].seen <= now /\ tabs[u].streams <= requests'
             /\ tabs[u].streams > 0 => tabs[u].seen # Never
             /\ Silent(h[u]) \/ tabs[u].streams > 0 \/ h[u] <= tabs[u].seen
  <2>1. /\ heard[u] \in Int /\ heard[u] <= now
        /\ list[u].seen \in Int /\ list[u].streams \in Nat
        /\ list[u].seen <= now /\ list[u].streams <= requests
        /\ list[u].streams > 0 => list[u].seen # Never
    BY Tabbed
  <2>2. Silent(heard[u]) \/ list[u].streams > 0 \/ heard[u] <= list[u].seen
    BY <1>0 DEF IInv, ListRemembers
  <2>3. CASE u = t
    <3>1. h[u] = now /\ tabs[u].seen = now /\ tabs[u].streams = list[u].streams - 1
      BY <1>0, <1>3, <1>4, <1>5, <2>3
    <3> QED
      BY <1>0, <1>2, <2>1, <3>1
  <2>4. CASE u # t
    <3>1. tabs[u] = list[u] /\ h[u] = IF list[u].streams > 0 THEN now ELSE heard[u]
      BY <1>4, <1>5, <2>4
    <3> QED
      BY <1>0, <1>2, <2>1, <2>2, <3>1
  <2> QED
    BY <2>3, <2>4
<1>7. \A u \in TabIds :
        /\ h[u] <= now /\ tabs[u].seen <= now /\ tabs[u].streams <= requests'
        /\ tabs[u].streams > 0 => tabs[u].seen # Never
        /\ Silent(h[u]) \/ tabs[u].streams > 0 \/ h[u] <= tabs[u].seen
  BY <1>6
<1> QED
  BY <1>0, <1>1, <1>2, <1>4, <1>5, <1>7, Changes

\* A tab silent now is silent later, and what is of the past stays so.
LEMMA TickKeeps ==
  ASSUME TabsConstants, IInv, Tick
  PROVE  IInv'
<1>0. now' = now + 1 /\ now < MaxNow
  BY DEF Tick
<1>11. shown' = "none yet"
  BY DEF Tick
<1>1. UNCHANGED <<serve, list, tabsFile, moving, requests, starts, heard>>
  BY DEF Tick
<1>2. now' \in 0..MaxNow
  <2>1. now \in 0..MaxNow /\ MaxNow \in Nat
    BY NoTabIs, Facts
  <2> QED
    BY <1>0, <2>1
<1>3. TypesOK'
  BY <1>1, <1>2, <1>11 DEF IInv, TypesOK
<1>4. ASSUME NEW x \in Int, Silent(x) PROVE Silent(x)'
  <2>1. now \in Int /\ Silence \in Int
    BY Facts, NoTabIs
  <2>2. now - x > Silence
    BY <1>4 DEF Silent
  <2>3. (now + 1) - x > Silence
    BY <2>1, <2>2
  <2> QED
    BY <1>0, <2>3 DEF Silent
<1>5. ASSUME NEW x \in Int, x <= now PROVE x <= now'
  <2>1. now \in Int
    BY Facts
  <2> QED
    BY <1>0, <1>5, <2>1
<1>6. Dated'
  <2>1. /\ tabsFile.saved \in Int
        /\ \A t \in TabIds : list[t].seen \in Int /\ tabsFile.tabs[t].seen \in Int
    <3>1. \A x \in Times : x \in Int
      BY NoTabIs DEF Times, Never
    <3> QED
      BY <3>1 DEF IInv, TypesOK, Tab
  <2>2. tabsFile.saved <= now'
    BY <1>5, <2>1 DEF IInv, Dated
  <2>3. ASSUME NEW t \in TabIds
        PROVE  /\ list[t].seen <= now' /\ tabsFile.tabs[t].seen <= now'
               /\ tabsFile.tabs[t].streams = 0
               /\ list[t].streams <= requests
               /\ list[t].streams > 0 => list[t].seen # Never
    <3>1. /\ list[t].seen <= now /\ tabsFile.tabs[t].seen <= now /\ tabsFile.tabs[t].streams = 0
          /\ list[t].streams <= requests
          /\ list[t].streams > 0 => list[t].seen # Never
      BY DEF IInv, Dated
    <3> QED
      BY <1>5, <2>1, <3>1
  <2> QED
    BY <1>1, <2>2, <2>3 DEF Dated
<1>7. MovesOne'
  BY <1>1 DEF IInv, MovesOne
<1>8. FileRemembers'
  <2> SUFFICES ASSUME NEW t \in TabIds
               PROVE  /\ heard[t] <= tabsFile.saved
                      /\ Silent(heard[t])' \/ heard[t] <= tabsFile.tabs[t].seen
    BY <1>1 DEF FileRemembers, Silent
  <2>1. heard[t] \in Int
    BY Tabbed
  <2>2. heard[t] <= tabsFile.saved /\ (Silent(heard[t]) \/ heard[t] <= tabsFile.tabs[t].seen)
    BY DEF IInv, FileRemembers
  <2>3. Silent(heard[t]) => now' - heard[t] > Silence
    BY <1>4, <2>1 DEF Silent
  <2> QED
    BY <1>1, <2>2, <2>3 DEF Silent
<1>9. ListRemembers'
  <2> SUFFICES ASSUME serve # "down", NEW t \in TabIds
               PROVE  Silent(heard[t])' \/ list[t].streams > 0 \/ heard[t] <= list[t].seen
    BY <1>1 DEF ListRemembers, Silent
  <2>1. heard[t] \in Int
    BY Tabbed
  <2>2. Silent(heard[t]) \/ list[t].streams > 0 \/ heard[t] <= list[t].seen
    BY DEF IInv, ListRemembers
  <2>3. Silent(heard[t]) => now' - heard[t] > Silence
    BY <1>4, <2>1 DEF Silent
  <2> QED
    BY <1>1, <2>2, <2>3 DEF Silent
<1>10. NoSecondWindow'
  BY <1>11 DEF NoSecondWindow
<1> QED
  BY <1>3, <1>6, <1>7, <1>8, <1>9, <1>10 DEF IInv

LEMMA MovedKeeps ==
  ASSUME TabsConstants, IInv, Moved
  PROVE  IInv'
<1> DEFINE m == moving.tab
           row == [list[m] EXCEPT !.page = moving.page]
           tabs == [list EXCEPT ![m] = row]
           h == [u \in TabIds |-> IF tabs[u].streams > 0 THEN now ELSE heard[u]]
<1> HIDE DEF m, row, tabs, h
<1>0. moving # NoMove /\ moving' = NoMove /\ shown' = "none yet"
  BY DEF Moved
<1>4. requests' = requests
  BY DEF Moved
<1>1. serve # "down" /\ m \in TabIds /\ moving.page \in Pages
  BY <1>0 DEF IInv, MovesOne, TypesOK, m
<1>2. CASE Listed(m)
  <2>1. list' = tabs /\ tabsFile' = Saved(tabs)
    BY <1>2 DEF Moved, Change, m, row, tabs
  <2>2. heard' = h
    BY <1>2 DEF Moved, Change, m, row, tabs, h
  <2>3. UNCHANGED <<now, serve, starts>>
    BY DEF Moved
  <2>4. requests' \in 0..MaxRequests /\ requests \in Nat /\ now \in Nat /\ now \in Times
        /\ Never = -1
    BY <1>4, Facts
  <2>5. row \in Tab /\ row.seen = list[m].seen /\ row.streams = list[m].streams
    <3>1. list[m] \in Tab
      BY <1>1, Tabbed
    <3> QED
      BY <1>1, <3>1 DEF Tab, row
  <2>6. /\ tabs \in [TabIds -> Tab] /\ tabs[m] = row
        /\ \A u \in TabIds : u # m => tabs[u] = list[u]
    BY <1>1, <2>5, ListWith DEF tabs
  <2>7. \A u \in TabIds : tabs[u].seen = list[u].seen /\ tabs[u].streams = list[u].streams
    BY <2>5, <2>6
  <2>8. h \in [TabIds -> Times]
        /\ \A u \in TabIds : h[u] = IF tabs[u].streams > 0 THEN now ELSE heard[u]
    BY <2>4, Tabbed DEF h
  <2>9. ASSUME NEW u \in TabIds
        PROVE  /\ h[u] <= now /\ tabs[u].seen <= now /\ tabs[u].streams <= requests'
               /\ tabs[u].streams > 0 => tabs[u].seen # Never
               /\ Silent(h[u]) \/ tabs[u].streams > 0 \/ h[u] <= tabs[u].seen
    <3>1. /\ heard[u] \in Int /\ heard[u] <= now
          /\ list[u].seen \in Int /\ list[u].streams \in Nat
          /\ list[u].seen <= now /\ list[u].streams <= requests
          /\ list[u].streams > 0 => list[u].seen # Never
      BY Tabbed
    <3>2. Silent(heard[u]) \/ list[u].streams > 0 \/ heard[u] <= list[u].seen
      BY <1>1 DEF IInv, ListRemembers
    <3>3. tabs[u].seen = list[u].seen /\ tabs[u].streams = list[u].streams
      BY <2>7
    <3>4. h[u] = IF list[u].streams > 0 THEN now ELSE heard[u]
      BY <2>8, <3>3
    <3> QED
      BY <1>4, <2>4, <3>1, <3>2, <3>3, <3>4
  <2>10. \A u \in TabIds :
          /\ h[u] <= now /\ tabs[u].seen <= now /\ tabs[u].streams <= requests'
          /\ tabs[u].streams > 0 => tabs[u].seen # Never
          /\ Silent(h[u]) \/ tabs[u].streams > 0 \/ h[u] <= tabs[u].seen
    BY <2>9
  <2> QED
    BY <1>0, <1>1, <2>1, <2>2, <2>3, <2>4, <2>6, <2>8, <2>10, Changes
<1>3. CASE ~Listed(m)
  <2>1. UNCHANGED <<list, tabsFile, heard, now, serve, requests, starts>>
    BY <1>3 DEF Moved, m
  <2>2. NoMove \in [tab : {0} \cup TabIds, page : Pages]
    BY DEF TabsConstants, NoMove
  <2>3. TypesOK' /\ MovesOne' /\ NoSecondWindow'
    BY <1>0, <2>1, <2>2 DEF IInv, TypesOK, MovesOne, NoSecondWindow
  <2>4. Dated'
    BY <2>1 DEF IInv, Dated
  <2>5. FileRemembers' /\ ListRemembers'
    BY <2>1 DEF IInv, FileRemembers, ListRemembers, Silent
  <2> QED
    BY <2>3, <2>4, <2>5 DEF IInv
<1> QED
  BY <1>2, <1>3

\* A tab the list holds as closed was in touch long ago.
LEMMA ClosedSilent ==
  ASSUME TabsConstants, IInv, serve # "down", NEW t \in TabIds, Closed(t)
  PROVE  Silent(heard[t])
<1>1. list[t].streams = 0 /\ now - list[t].seen > Silence
  BY DEF Closed, Silent
<1>2. Silent(heard[t]) \/ list[t].streams > 0 \/ heard[t] <= list[t].seen
  BY DEF IInv, ListRemembers
<1>3. now \in Int /\ heard[t] \in Int /\ list[t].seen \in Int /\ Silence \in Int
  BY Facts, Tabbed, NoTabIs
<1>4. heard[t] <= list[t].seen => now - heard[t] > Silence
  BY <1>1, <1>3
<1> QED
  BY <1>1, <1>2, <1>4 DEF Silent

\* Tabs that are closed, forgotten: each was last in touch long ago.
LEMMA ForgetsIs ==
  ASSUME TabsConstants, IInv, serve # "down", Forgets
  PROVE  /\ list' \in [TabIds -> Tab]
         /\ \A t \in TabIds :
              \/ list'[t] = list[t]
              \/ list'[t] = NoTab /\ Silent(heard[t])
<1>1. PICK gone \in SUBSET {t \in TabIds : Listed(t) /\ Closed(t)} :
        list' = [t \in TabIds |-> IF t \in gone THEN NoTab ELSE list[t]]
  BY DEF Forgets
<1>2. list' \in [TabIds -> Tab]
  BY <1>1, NoTabIs, Tabbed
<1>3. ASSUME NEW t \in TabIds PROVE list'[t] = list[t] \/ (list'[t] = NoTab /\ Silent(heard[t]))
  <2>1. CASE t \notin gone
    BY <1>1, <2>1
  <2>2. CASE t \in gone
    <3>1. list'[t] = NoTab /\ Closed(t)
      BY <1>1, <2>2
    <3>2. Closed(t) => Silent(heard[t])
      BY ClosedSilent
    <3> QED
      BY <3>1, <3>2
  <2> QED
    BY <2>1, <2>2
<1> QED
  BY <1>2, <1>3

LEMMA ShowKeeps ==
  ASSUME TabsConstants, IInv, NEW page \in Pages, Show(page)
  PROVE  IInv'
<1>1. serve = "up" /\ UNCHANGED <<now, serve, requests, starts, tabsFile, heard>> /\ Forgets
  BY DEF Show
<1>2. shown' \in {"here", "move", "elsewhere", "open the browser"}
  BY DEF Show
<1>3. /\ list' \in [TabIds -> Tab]
      /\ \A t \in TabIds : list'[t] = list[t] \/ (list'[t] = NoTab /\ Silent(heard[t]))
  BY <1>1, ForgetsIs
<1>4. moving' = moving \/ (\E t \in TabIds : moving' = [tab |-> t, page |-> page])
  BY DEF Show, Fronts, Open
<1>5. TypesOK'
  <2>1. moving' \in [tab : {0} \cup TabIds, page : Pages]
    <3>1. CASE moving' = moving
      BY <3>1 DEF IInv, TypesOK
    <3>2. ASSUME NEW t \in TabIds, moving' = [tab |-> t, page |-> page]
          PROVE  moving' \in [tab : {0} \cup TabIds, page : Pages]
      BY <3>2
    <3> QED
      BY <1>4, <3>1, <3>2
  <2> QED
    BY <1>1, <1>2, <1>3, <2>1 DEF IInv, TypesOK
<1>6. Dated'
  <2>1. ASSUME NEW t \in TabIds
        PROVE  /\ list'[t].seen <= now /\ list'[t].streams <= requests
               /\ list'[t].streams > 0 => list'[t].seen # Never
    <3>1. /\ list[t].seen <= now /\ list[t].streams <= requests
          /\ list[t].streams > 0 => list[t].seen # Never
      BY Tabbed
    <3>2. NoTab.seen = -1 /\ NoTab.streams = 0 /\ now \in Nat /\ requests \in Nat
      BY NoTabIs, Facts
    <3>3. CASE list'[t] = list[t]
      BY <3>1, <3>3
    <3>4. CASE list'[t] = NoTab
      BY <3>2, <3>4
    <3> QED
      BY <1>3, <3>3, <3>4
  <2>2. tabsFile.saved <= now
        /\ \A t \in TabIds : tabsFile.tabs[t].seen <= now /\ tabsFile.tabs[t].streams = 0
    BY DEF IInv, Dated
  <2> QED
    BY <1>1, <2>1, <2>2 DEF Dated
<1>7. MovesOne'
  <2>1. CASE moving' = moving
    BY <1>1, <2>1 DEF IInv, MovesOne
  <2>2. CASE \E t \in TabIds : moving' = [tab |-> t, page |-> page]
    BY <1>1, <2>2 DEF MovesOne
  <2> QED
    BY <1>4, <2>1, <2>2
<1>8. FileRemembers'
  BY <1>1 DEF IInv, FileRemembers, Silent
<1>9. ListRemembers'
  <2>1. ASSUME NEW t \in TabIds
        PROVE  Silent(heard[t]) \/ list'[t].streams > 0 \/ heard[t] <= list'[t].seen
    <3>1. Silent(heard[t]) \/ list[t].streams > 0 \/ heard[t] <= list[t].seen
      BY <1>1 DEF IInv, ListRemembers
    <3> QED
      BY <1>3, <3>1
  <2> QED
    BY <1>1, <2>1 DEF ListRemembers, Silent
<1>10. NoSecondWindow'
  <2> SUFFICES ASSUME shown' = "open the browser", NEW t \in TabIds
               PROVE  heard[t] = Never \/ now - heard[t] > Silence
    BY <1>1 DEF NoSecondWindow
  <2>1. Open = {}
    BY DEF Show
  <2>2. ~Listed(t) \/ Closed(t)
    BY <2>1 DEF Open
  <2>3. CASE Closed(t)
    BY <1>1, <2>3, ClosedSilent DEF Silent
  <2>4. CASE ~Listed(t)
    <3>1. list[t].seen = Never /\ ~(list[t].streams > 0)
      BY <2>4, Tabbed DEF Listed
    <3>2. Silent(heard[t]) \/ heard[t] <= Never
      BY <1>1, <3>1 DEF IInv, ListRemembers
    <3>3. heard[t] \in Times
      BY Tabbed
    <3>4. heard[t] <= Never => heard[t] = Never
      BY <3>3, NeverIsLeast
    <3> QED
      BY <3>2, <3>4 DEF Silent
  <2> QED
    BY <2>2, <2>3, <2>4
<1> QED
  BY <1>5, <1>6, <1>7, <1>8, <1>9, <1>10 DEF IInv

LEMMA StartKeeps ==
  ASSUME TabsConstants, IInv, Start
  PROVE  IInv'
<1>0. serve' = "up" /\ shown' = "none yet" /\ serve = "down"
  BY DEF Start
<1>9. starts' = starts + 1 /\ starts < MaxStarts
  BY DEF Start
<1>1. UNCHANGED <<now, tabsFile, moving, requests, heard>>
  BY DEF Start
<1>2. \/ list' = tabsFile.tabs
      \/ /\ tabsFile.saved = Never \/ Silent(tabsFile.saved)
         /\ list' = [t \in TabIds |-> NoTab]
  <2>1. list' = IF tabsFile = NoTabsFile \/ Silent(tabsFile.saved)
                THEN [t \in TabIds |-> NoTab] ELSE tabsFile.tabs
    BY DEF Start
  <2>2. tabsFile = NoTabsFile => tabsFile.saved = Never
    BY DEF NoTabsFile
  <2> QED
    BY <2>1, <2>2
<1>3. TypesOK'
  <2>1. list' \in [TabIds -> Tab]
    BY <1>2, NoTabIs DEF IInv, TypesOK
  <2>2. starts' \in 0..MaxStarts
    <3>1. starts \in 0..MaxStarts /\ MaxStarts \in Nat
      BY NoTabIs DEF IInv, TypesOK
    <3> QED
      BY <1>9, <3>1
  <2> QED
    BY <1>0, <1>1, <2>1, <2>2 DEF IInv, TypesOK
<1>4. ASSUME NEW t \in TabIds
      PROVE  /\ list'[t].seen <= now /\ list'[t].streams = 0
             /\ Silent(heard[t]) \/ heard[t] <= list'[t].seen
  <2>1. CASE list' = tabsFile.tabs
    BY <2>1 DEF IInv, Dated, FileRemembers
  <2>2. CASE /\ tabsFile.saved = Never \/ Silent(tabsFile.saved)
             /\ list' = [u \in TabIds |-> NoTab]
    <3>1. list'[t].seen = -1 /\ list'[t].streams = 0 /\ Never = -1 /\ now \in Nat
          /\ Silence \in Nat
      BY <2>2, NoTabIs, Facts
    <3>2. heard[t] \in Int /\ heard[t] <= tabsFile.saved /\ tabsFile.saved \in Int
      <4>1. \A x \in Times : x \in Int
        BY NoTabIs DEF Times, Never
      <4> QED
        BY <4>1, Tabbed DEF IInv, FileRemembers, TypesOK
    <3>3. CASE tabsFile.saved = Never
      BY <3>1, <3>2, <3>3
    <3>4. CASE Silent(tabsFile.saved)
      <4>1. now - tabsFile.saved > Silence
        BY <3>4 DEF Silent
      <4>2. now - heard[t] > Silence
        BY <3>1, <3>2, <4>1
      <4> QED
        BY <3>1, <4>2 DEF Silent
    <3> QED
      BY <2>2, <3>3, <3>4
  <2> QED
    BY <1>2, <2>1, <2>2
<1>5. Dated'
  <2>1. tabsFile.saved <= now
        /\ \A t \in TabIds : tabsFile.tabs[t].seen <= now /\ tabsFile.tabs[t].streams = 0
    BY DEF IInv, Dated
  <2>2. ASSUME NEW t \in TabIds
        PROVE  list'[t].streams <= requests /\ ~(list'[t].streams > 0)
    <3>1. list'[t].streams = 0 /\ requests \in Nat
      BY <1>4, Facts
    <3>2. 0 <= requests /\ ~(0 > 0)
      BY <3>1
    <3> QED
      BY <3>1, <3>2
  <2> QED
    BY <1>1, <1>4, <2>1, <2>2 DEF Dated
<1>6. MovesOne' /\ NoSecondWindow'
  BY <1>0, <1>1 DEF IInv, MovesOne, NoSecondWindow
<1>7. FileRemembers'
  BY <1>1 DEF IInv, FileRemembers, Silent
<1>8. ListRemembers'
  BY <1>1, <1>4 DEF ListRemembers, Silent
<1> QED
  BY <1>3, <1>5, <1>6, <1>7, <1>8 DEF IInv

LEMMA StopsKeeps ==
  ASSUME TabsConstants, IInv, Stops
  PROVE  IInv'
<1>1. UNCHANGED <<now, list, tabsFile, moving, requests, starts, heard>>
      /\ serve = "up" /\ serve' = "stopping" /\ shown' = "none yet"
  BY DEF Stops
<1>2. TypesOK' /\ MovesOne' /\ NoSecondWindow'
  BY <1>1 DEF IInv, TypesOK, MovesOne, NoSecondWindow
<1>3. Dated'
  BY <1>1 DEF IInv, Dated
<1>4. FileRemembers' /\ ListRemembers'
  BY <1>1 DEF IInv, FileRemembers, ListRemembers, Silent
<1> QED
  BY <1>2, <1>3, <1>4 DEF IInv

LEMMA NoTabDated ==
  ASSUME TabsConstants, IInv
  PROVE  /\ NoTab.seen <= now /\ NoTab.streams = 0 /\ NoTab.streams <= requests
         /\ ~(NoTab.streams > 0)
<1>1. NoTab.seen = -1 /\ NoTab.streams = 0 /\ now \in Nat /\ requests \in Nat
  BY NoTabIs, Facts
<1> QED
  BY <1>1

\* A serve that is gone has no list; what it left in the file is what there is.
LEMMA Gone ==
  ASSUME TabsConstants, IInv, TypesOK', FileRemembers', tabsFile'.saved <= now,
         \A t \in TabIds : tabsFile'.tabs[t].seen <= now /\ tabsFile'.tabs[t].streams = 0,
         list' = [t \in TabIds |-> NoTab], serve' = "down", shown' = "none yet",
         moving' = NoMove, UNCHANGED <<now, requests, heard>>
  PROVE  IInv'
<1>1. Dated'
  <2>1. NoTab.seen <= now /\ NoTab.streams = 0 /\ NoTab.streams <= requests
        /\ ~(NoTab.streams > 0)
    BY NoTabDated
  <2> QED
    BY <2>1 DEF Dated
<1>2. MovesOne' /\ NoSecondWindow' /\ ListRemembers'
  BY DEF MovesOne, NoSecondWindow, ListRemembers
<1> QED
  BY <1>1, <1>2 DEF IInv

LEMMA StoppedKeeps ==
  ASSUME TabsConstants, IInv, Stopped
  PROVE  IInv'
<1>1. /\ serve # "down" /\ moving' = NoMove
      /\ serve' = "down" /\ shown' = "none yet"
      /\ tabsFile' = Saved(list) /\ list' = [t \in TabIds |-> NoTab]
      /\ UNCHANGED <<now, moving, requests, starts, heard>>
  BY DEF Stopped
<1>2. now \in 0..MaxNow /\ list \in [TabIds -> Tab] /\ heard \in [TabIds -> Times]
  BY DEF IInv, TypesOK
<1>3. \A t \in TabIds : /\ heard[t] <= now /\ list[t].seen <= now
                        /\ Silent(heard[t]) \/ list[t].streams > 0 \/ heard[t] <= list[t].seen
  BY <1>1, Tabbed DEF IInv, ListRemembers
<1>4. /\ Saved(list).saved <= now
      /\ \A t \in TabIds :
           /\ Saved(list).tabs[t].seen <= now /\ Saved(list).tabs[t].streams = 0
           /\ heard[t] <= Saved(list).saved
           /\ Silent(heard[t]) \/ heard[t] <= Saved(list).tabs[t].seen
  BY <1>2, <1>3, Written
<1>5. Saved(list) \in [saved : Times, tabs : [TabIds -> Tab]]
  BY <1>2, SavedIs
<1>6. TypesOK'
  <2>1. list' \in [TabIds -> Tab]
    BY <1>1, NoTabIs
  <2> QED
    BY <1>1, <1>5, <2>1 DEF IInv, TypesOK
<1>7. FileRemembers'
  BY <1>1, <1>4 DEF FileRemembers, Silent
<1> QED
  BY <1>1, <1>4, <1>6, <1>7, Gone

LEMMA KilledKeeps ==
  ASSUME TabsConstants, IInv, Killed
  PROVE  IInv'
<1>1. /\ serve' = "down" /\ shown' = "none yet" /\ moving' = NoMove
      /\ list' = [t \in TabIds |-> NoTab]
      /\ UNCHANGED <<now, tabsFile, requests, starts, heard>>
  BY DEF Killed
<1>2. TypesOK'
  <2>1. list' \in [TabIds -> Tab] /\ NoMove \in [tab : {0} \cup TabIds, page : Pages]
    BY <1>1, NoTabIs DEF NoMove, TabsConstants
  <2> QED
    BY <1>1, <2>1 DEF IInv, TypesOK
<1>3. FileRemembers'
  BY <1>1 DEF IInv, FileRemembers, Silent
<1>4. tabsFile'.saved <= now
      /\ \A t \in TabIds : tabsFile'.tabs[t].seen <= now /\ tabsFile'.tabs[t].streams = 0
  BY <1>1 DEF IInv, Dated
<1> QED
  BY <1>1, <1>2, <1>3, <1>4, Gone

LEMMA StutterKeeps ==
  ASSUME IInv, UNCHANGED tabsVars
  PROVE  IInv'
<1>1. UNCHANGED <<now, serve, list, tabsFile, shown, moving, requests, starts, heard>>
  BY DEF tabsVars
<1>2. TypesOK' /\ MovesOne' /\ NoSecondWindow'
  BY <1>1 DEF IInv, TypesOK, MovesOne, NoSecondWindow
<1>3. Dated'
  BY <1>1 DEF IInv, Dated
<1>4. FileRemembers' /\ ListRemembers'
  BY <1>1 DEF IInv, FileRemembers, ListRemembers, Silent
<1> QED
  BY <1>2, <1>3, <1>4 DEF IInv

LEMMA TabsHold ==
  ASSUME TabsConstants PROVE TabsSpec => []IInv
<1>1. TabsInit => IInv
  BY Starts0
<1>2. IInv /\ [TabsNext]_tabsVars => IInv'
  <2> SUFFICES ASSUME IInv, [TabsNext]_tabsVars PROVE IInv'
    OBVIOUS
  <2>1. CASE Tick
    BY <2>1, TickKeeps
  <2>2. CASE Start
    BY <2>2, StartKeeps
  <2>3. CASE Stops
    BY <2>3, StopsKeeps
  <2>4. CASE Stopped
    BY <2>4, StoppedKeeps
  <2>5. CASE Killed
    BY <2>5, KilledKeeps
  <2>6. CASE Moved
    BY <2>6, MovedKeeps
  <2>7. ASSUME NEW t \in TabIds, Done(t) PROVE IInv'
    BY <2>7, DoneKeeps
  <2>8. ASSUME NEW t \in TabIds, NEW page \in Pages, Seen(t, page) PROVE IInv'
    BY <2>8, SeenKeeps
  <2>9. ASSUME NEW t \in TabIds, NEW page \in Pages, TabConnected(t, page) PROVE IInv'
    BY <2>9, ConnectedKeeps
  <2>10. ASSUME NEW page \in Pages, Show(page) PROVE IInv'
    BY <2>10, ShowKeeps
  <2>11. CASE UNCHANGED tabsVars
    BY <2>11, StutterKeeps
  <2> QED
    BY <2>1, <2>2, <2>3, <2>4, <2>5, <2>6, <2>7, <2>8, <2>9, <2>10, <2>11 DEF TabsNext
<1> QED
  BY <1>1, <1>2, PTL DEF TabsSpec

\* A browser window is opened only when no tab was dated within Silence, whatever
\* kills, stops and starts of serve came between: localweb/tabs.go's list and its file
\* never lose one that was.  A tab is dated by its requests and, while it holds a
\* stream, by saves of the list: a kill longer than Silence after the last of them
\* leaves a tab whose stream it cut a second window.
THEOREM OneWindow ==
  ASSUME TabsConstants PROVE TabsSpec => []NoSecondWindow
<1>1. IInv => NoSecondWindow
  BY DEF IInv
<1> QED
  BY <1>1, TabsHold, PTL

\* The list, its file and the dates in both stay of the past and of the right kind.
THEOREM TabsTypes ==
  ASSUME TabsConstants PROVE TabsSpec => []TabsTypeOK
<1>1. IInv => TabsTypeOK
  <2> SUFFICES ASSUME IInv PROVE TabsTypeOK
    OBVIOUS
  <2>1. now \in 0..MaxNow /\ requests \in 0..MaxRequests /\ starts \in 0..MaxStarts
        /\ heard \in [TabIds -> Times] /\ serve \in {"down", "up", "stopping"}
        /\ moving \in [tab : {0} \cup TabIds, page : Pages]
        /\ shown \in {"none yet", "here", "move", "elsewhere", "open the browser"}
        /\ list \in [TabIds -> Tab] /\ tabsFile \in [saved : Times, tabs : [TabIds -> Tab]]
    BY DEF IInv, TypesOK
  <2>2. now \in Nat /\ Never = -1 /\ MaxNow \in Nat
    BY Facts, NoTabIs
  <2>3. ASSUME NEW x \in Times, x <= now PROVE x \in Never..now
    BY <2>2, <2>3 DEF Times
  <2>4. tabsFile.saved \in Never..now
    BY <2>1, <2>3 DEF IInv, Dated
  <2>5. ASSUME NEW tabs \in {list, tabsFile.tabs}, NEW t \in TabIds
        PROVE  /\ tabs[t].page \in Pages /\ tabs[t].seen \in Never..now
               /\ tabs[t].streams \in 0..MaxRequests
    <3>1. tabs[t] \in Tab
      BY <2>1
    <3>2. tabs[t].seen <= now
      BY DEF IInv, Dated
    <3>3. tabs[t].page \in Pages /\ tabs[t].seen \in Times /\ tabs[t].streams \in 0..MaxRequests
      BY <3>1 DEF Tab
    <3> QED
      BY <2>3, <3>2, <3>3
  <2> QED
    BY <2>1, <2>4, <2>5 DEF TabsTypeOK
<1> QED
  BY <1>1, TabsHold, PTL

================================================================================
