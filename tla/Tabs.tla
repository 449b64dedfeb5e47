--------------------------------- MODULE Tabs ---------------------------------
(***************************************************************************)
(* localweb/tabs.go: which tabs are open, fed by the streams and polls of  *)
(* pageserve/events.go, saved beside serve so that the next one knows them *)
(* too, and asked by Show (pageserve/window.go) before a browser is        *)
(* opened.  Every method holds the list's mutex: one action each, and Show *)
(* makes two calls.  A stream's end is a step of its own, as late as the   *)
(* handler notices it.  One Show at a time.                                *)
(***************************************************************************)
EXTENDS Integers

CONSTANTS
  TabIds, Pages, FrontPage,
  Silence,      \* TabSilence
  MaxNow,       \* bound: the clock
  MaxRequests,  \* bound: streams and polls
  MaxStarts     \* bound: serves

\* What a theorem here assumes of them; each instance is checked to meet it.
TabsConstants ==
  /\ 0 \notin TabIds /\ FrontPage \in Pages
  /\ \A bound \in {Silence, MaxNow, MaxRequests, MaxStarts} : bound \in Nat

VARIABLES
  now,
  serve,     \* down, up, or stopping: no new requests, its streams ending
  list,      \* Tabs.tabs: no streams and never seen is no entry
  tabsFile,  \* tabs.json
  shown,     \* the last Choice's kind, until the clock moves
  moving,    \* the tab a Show has picked and not yet moved, with its page
  requests, starts,
  heard      \* history: when each tab was last in touch as any was written down

tabsVars == <<now, serve, list, tabsFile, shown, moving, requests, starts, heard>>

Never == -1
NoTab == [page |-> FrontPage, seen |-> Never, streams |-> 0]
NoMove == [tab |-> 0, page |-> FrontPage]
NoTabsFile == [saved |-> Never, tabs |-> [t \in TabIds |-> NoTab]]
Times == Never..MaxNow

TabsInit ==
  /\ now = 0 /\ serve = "down" /\ shown = "none yet" /\ moving = NoMove
  /\ list = [t \in TabIds |-> NoTab] /\ tabsFile = NoTabsFile
  /\ requests = 0 /\ starts = 0
  /\ heard = [t \in TabIds |-> Never]

Listed(t) == list[t].seen # Never
Silent(seen) == now - seen > Silence

AsListed(tb) == tb.seen   \* mutant: a stream does not date its tab
SeenAtSave(tb) == IF tb.streams > 0 THEN now ELSE tb.seen

\* save: the list as it is, tabs that hold a stream seen now.
Saved(tabs) ==
  [saved |-> now,
   tabs |-> [t \in TabIds |->
     IF tabs[t] = NoTab THEN NoTab
                        ELSE [tabs[t] EXCEPT !.seen = SeenAtSave(tabs[t]), !.streams = 0]]]

\* A change of the list, saved.
Change(tabs) ==
  /\ list' = tabs /\ tabsFile' = Saved(tabs)
  /\ heard' = [t \in TabIds |-> IF tabs[t].streams > 0 THEN now ELSE heard[t]]

Tick ==
  /\ now < MaxNow /\ now' = now + 1 /\ shown' = "none yet"
  /\ UNCHANGED <<serve, list, tabsFile, moving, requests, starts, heard>>

Request == serve = "up" /\ requests < MaxRequests /\ requests' = requests + 1

\* Poll: Seen, with the page the tab showed when it asked.
Seen(t, page) ==
  /\ Request
  /\ list' = [list EXCEPT ![t] = [@ EXCEPT !.page = page, !.seen = now]]
  /\ tabsFile' = Saved(list')
  /\ heard' = [u \in TabIds |-> IF u = t \/ list[u].streams > 0 THEN now ELSE heard[u]]
  /\ shown' = "none yet" /\ UNCHANGED <<now, serve, moving, starts>>

\* Stream: Connected.
TabConnected(t, page) ==
  /\ Request
  /\ Change([list EXCEPT ![t] = [page |-> page, seen |-> now, streams |-> @.streams + 1]])
  /\ shown' = "none yet" /\ UNCHANGED <<now, serve, moving, starts>>

Parted(t) == [list EXCEPT ![t] = [page |-> @.page, seen |-> now, streams |-> @.streams - 1]]

\* The stream has ended: done.
Done(t) ==
  /\ serve # "down" /\ list[t].streams > 0
  /\ list' = Parted(t) /\ tabsFile' = Saved(list')
  /\ heard' = [u \in TabIds |-> IF list[u].streams > 0 THEN now ELSE heard[u]]
  /\ shown' = "none yet" /\ UNCHANGED <<now, serve, moving, requests, starts>>

Closed(t) == list[t].streams = 0 /\ Silent(list[t].seen)
Open == {t \in TabIds : Listed(t) /\ ~Closed(t)}
Fronts == {t \in Open : list[t].page = FrontPage}

\* Pick forgets the closed tabs it comes by: all of them, unless a tab that
\* shows the page came first.
Forgets ==
  \E gone \in SUBSET {t \in TabIds : Listed(t) /\ Closed(t)} :
    /\ shown' # "here" => gone = {t \in TabIds : Listed(t) /\ Closed(t)}
    /\ list' = [t \in TabIds |-> IF t \in gone THEN NoTab ELSE list[t]]

\* Show, when the session has no window: what Pick says.
Show(page) ==
  /\ serve = "up" /\ moving = NoMove
  /\ \/ /\ \E t \in Open : list[t].page = page
        /\ shown' = "here" /\ Forgets
        /\ UNCHANGED <<tabsFile, heard, moving>>
     \/ /\ \A t \in Open : list[t].page # page
        /\ shown' = "move"
        /\ \E t \in Fronts : /\ \A u \in Fronts : list[u].seen <= list[t].seen
                             /\ moving' = [tab |-> t, page |-> page]
        /\ Forgets /\ UNCHANGED <<tabsFile, heard>>
     \/ /\ \A t \in Open : list[t].page # page
        /\ Fronts = {} /\ Open # {}
        /\ shown' = "elsewhere" /\ Forgets
        /\ UNCHANGED <<tabsFile, heard, moving>>
     \/ /\ Open = {} /\ shown' = "open the browser" /\ Forgets
        /\ UNCHANGED <<tabsFile, heard, moving>>
  /\ UNCHANGED <<now, serve, requests, starts>>

\* Show goes on: Moved, for the tab told to move, if it is still listed.
Moved ==
  /\ moving # NoMove /\ moving' = NoMove
  /\ IF Listed(moving.tab) THEN Change([list EXCEPT ![moving.tab].page = moving.page])
                           ELSE UNCHANGED <<list, tabsFile, heard>>
  /\ shown' = "none yet" /\ UNCHANGED <<now, serve, requests, starts>>

\* Keep: a list saved within Silence, its tabs with no stream yet.
Start ==
  /\ serve = "down" /\ starts < MaxStarts
  /\ serve' = "up" /\ starts' = starts + 1
  /\ list' = IF tabsFile = NoTabsFile \/ Silent(tabsFile.saved)
             THEN [t \in TabIds |-> NoTab] ELSE tabsFile.tabs
  /\ shown' = "none yet"
  /\ UNCHANGED <<now, tabsFile, moving, requests, heard>>

\* Run's end: the streams end, then Save.
Stops ==
  /\ serve = "up" /\ serve' = "stopping" /\ shown' = "none yet"
  /\ UNCHANGED <<now, list, tabsFile, moving, requests, starts, heard>>

Stopped ==
  /\ serve = "stopping" /\ moving = NoMove /\ \A t \in TabIds : list[t].streams = 0
  /\ serve' = "down" /\ shown' = "none yet"
  /\ tabsFile' = Saved(list) /\ list' = [t \in TabIds |-> NoTab]
  /\ UNCHANGED <<now, moving, requests, starts, heard>>

Killed ==
  /\ serve # "down" /\ serve' = "down" /\ shown' = "none yet" /\ moving' = NoMove
  /\ list' = [t \in TabIds |-> NoTab]
  /\ UNCHANGED <<now, tabsFile, requests, starts, heard>>

TabsNext ==
  \/ Tick \/ Start \/ Stops \/ Stopped \/ Killed \/ Moved
  \/ \E t \in TabIds : \/ Done(t)
                       \/ \E page \in Pages : Seen(t, page) \/ TabConnected(t, page)
  \/ \E page \in Pages : Show(page)

TabsSpec == TabsInit /\ [][TabsNext]_tabsVars

\* Every date is of the past, every tab shows a page, every stream is a request.
TabsTypeOK ==
  /\ now \in 0..MaxNow /\ serve \in {"down", "up", "stopping"}
  /\ \A tabs \in {list, tabsFile.tabs} :
       \A t \in TabIds : /\ tabs[t].page \in Pages /\ tabs[t].seen \in Never..now
                         /\ tabs[t].streams \in 0..MaxRequests
  /\ tabsFile.saved \in Never..now
  /\ moving \in [tab : {0} \cup TabIds, page : Pages]
  /\ requests \in 0..MaxRequests /\ starts \in 0..MaxStarts
  /\ heard \in [TabIds -> Times]
  /\ shown \in {"none yet", "here", "move", "elsewhere", "open the browser"}

\* Show has a second browser window opened only when no tab was in touch within
\* Silence: held a stream, polled or let one go, whatever stops, kills and
\* restarts came between, as of the last change serve wrote down.
NoSecondWindow ==
  shown = "open the browser" =>
    \A t \in TabIds : heard[t] = Never \/ now - heard[t] > Silence
===============================================================================
