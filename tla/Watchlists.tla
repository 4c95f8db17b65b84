----------------------------- MODULE Watchlists -----------------------------
(***************************************************************************)
(* The watchlist desk (components/watchlist/WatchlistManagerDesk.tsx): the *)
(* lists of a browser in localStorage, of which the first is replaced by   *)
(* the account's cloud list whenever an answer brings another one, and its *)
(* own search; and the search palette (components/layout/SearchModal.tsx). *)
(***************************************************************************)
EXTENDS Naturals, FiniteSets

CONSTANTS WatchSymbols,  \* instruments one may watch
          Nothing

TabIds == {"wl1", "custom"}
Lists == [TabIds -> SUBSET WatchSymbols]

\* Nothing is no tab, set of symbols or tabs, or lists.
ASSUME NothingAssumption ==
  /\ \A rows \in SUBSET WatchSymbols : Nothing # rows
  /\ Nothing \notin TabIds /\ \A tabs \in SUBSET TabIds : Nothing # tabs
  /\ Nothing \notin Lists

VARIABLES
  wlCloud,    \* the account's rows
  wlAnswer,   \* the cached answer of GET /watchlist, or Nothing
  wlQuery,    \* that request: how far it is, the rows read for it; history: whether, since
              \* rows were last read, a call or a request failed or was of no use
  wlCalls,    \* additions and removals on their way, and whether this page waits for them
  wlLists,    \* the lists on the page, by tab
  wlTabs,     \* the tabs there are, and the active one
  wlStored,   \* localStorage: lists, tabs and active tab
  wlLegacy,   \* localStorage: the list an older version left, which nobody takes away
  wlFollowed, \* the watchlist symbols the stream is asked for
  wlFound,    \* whether the desk's search shows results
  wlPalette   \* the palette: closed, open, or open with the rows of a search

wlVars == <<wlCloud, wlAnswer, wlQuery, wlCalls, wlLists, wlTabs, wlStored, wlLegacy,
            wlFollowed, wlFound, wlPalette>>

Defaults == [t \in TabIds |-> IF t = "wl1" THEN WatchSymbols ELSE {}]
FirstQuery == [phase |-> "sent", rows |-> {}, doubt |-> FALSE]

WatchlistsInit ==
  /\ wlCloud \in SUBSET WatchSymbols /\ wlAnswer = Nothing /\ wlCalls = {}
  /\ wlQuery = FirstQuery /\ wlLegacy \in SUBSET WatchSymbols
  /\ wlLists = Defaults
  /\ wlTabs = [all |-> {"wl1"}, active |-> "wl1"]
  /\ wlStored = [lists |-> Nothing, all |-> Nothing, active |-> Nothing]
  /\ wlFollowed = {} /\ wlFound = FALSE /\ wlPalette = "closed"

-----------------------------------------------------------------------------
\* What a page that is loaded again starts from: the stored lists over the
\* defaults, the stored tabs and the stored active tab.
\* What an older version left is added to stored lists each time, and stored.
StoredLists == IF wlStored.lists = Nothing THEN Defaults
               ELSE [wlStored.lists EXCEPT !["wl1"] = @ \cup wlLegacy]
StoredTabs == IF wlStored.all = Nothing THEN {"wl1"} ELSE wlStored.all

Reload ==
  /\ wlLists' = StoredLists
  /\ wlStored' = IF wlStored.lists = Nothing \/ wlLegacy = {} THEN wlStored
                 ELSE [wlStored EXCEPT !.lists = StoredLists]
  /\ wlTabs' = [all |-> StoredTabs,
                active |-> IF wlStored.active = Nothing THEN "wl1" ELSE wlStored.active]
  /\ wlAnswer' = Nothing /\ wlQuery' = FirstQuery /\ wlFollowed' = {}
  /\ wlCalls' = {[c EXCEPT !.here = FALSE] : c \in wlCalls}
  /\ wlFound' = FALSE /\ wlPalette' = "closed"
  /\ UNCHANGED <<wlCloud, wlLegacy>>

PersistWatchlists(lists) ==
  wlLists' = lists /\ wlStored' = [wlStored EXCEPT !.lists = lists]

\* Fault: the cloud's list is shown and not kept.
ShownOnly(answer) ==
  wlLists' = [wlLists EXCEPT !["wl1"] = answer] /\ UNCHANGED wlStored

\* The cloud's list takes the place of the first tab's, and is stored with it.
TakeCloudList(answer) == PersistWatchlists([wlLists EXCEPT !["wl1"] = answer])

\* An answer that is the same again starts nothing; an empty list is followed by the
\* stream, but not taken over.
Fetched(answer) ==
  /\ wlAnswer' = answer
  /\ wlFollowed' = IF answer = wlAnswer THEN wlFollowed ELSE answer
  /\ IF answer # wlAnswer /\ answer # {} THEN TakeCloudList(answer)
                                        ELSE UNCHANGED <<wlLists, wlStored>>

\* Mounted, focused or stale.
AskWatchlist ==
  /\ wlQuery.phase = "idle" /\ wlQuery' = [wlQuery EXCEPT !.phase = "sent"]
  /\ UNCHANGED <<wlCloud, wlAnswer, wlCalls, wlLists, wlTabs, wlStored, wlLegacy, wlFollowed, wlFound, wlPalette>>

\* invalidateQueries and refetch: a first request is not sent again.
RefetchWatchlist ==
  wlQuery' = IF wlAnswer = Nothing /\ wlQuery.phase # "idle"
             THEN [wlQuery EXCEPT !.doubt = @ \/ wlQuery.phase = "read"]
             ELSE [wlQuery EXCEPT !.phase = "sent", !.rows = {}]

ReadWatchlist ==
  /\ wlQuery.phase = "sent"
  /\ wlQuery' = [phase |-> "read", rows |-> wlCloud, doubt |-> FALSE]
  /\ UNCHANGED <<wlCloud, wlAnswer, wlCalls, wlLists, wlTabs, wlStored, wlLegacy, wlFollowed, wlFound, wlPalette>>

FetchWatchlist ==
  /\ wlQuery.phase = "read"
  /\ wlQuery' = [wlQuery EXCEPT !.phase = "idle", !.rows = {}]
  /\ Fetched(wlQuery.rows)
  /\ UNCHANGED <<wlCloud, wlCalls, wlTabs, wlLegacy, wlFound, wlPalette>>

\* The palette turns a failure of the same query into an empty answer.
FetchFails ==
  /\ wlQuery.phase # "idle"
  /\ wlQuery' = [phase |-> "idle", rows |-> {}, doubt |-> TRUE]
  /\ \/ wlPalette # "closed" /\ Fetched({})
     \/ UNCHANGED <<wlAnswer, wlLists, wlStored, wlFollowed>>
  /\ UNCHANGED <<wlCloud, wlCalls, wlTabs, wlLegacy, wlFound, wlPalette>>

-----------------------------------------------------------------------------
\* Editing.

\* An addition to any tab is added to the cloud, in the background.
AddSymbol(s) ==
  LET tab == wlTabs.active IN
  /\ wlFound' = FALSE
  /\ IF s \in wlLists[tab]
     THEN UNCHANGED <<wlCalls, wlLists, wlStored, wlFollowed>>
     ELSE /\ PersistWatchlists([wlLists EXCEPT ![tab] = @ \cup {s}])
          /\ wlFollowed' = wlFollowed \cup {s}
          /\ wlCalls' = wlCalls \cup {[add |-> TRUE, symbol |-> s, here |-> TRUE]}
  /\ UNCHANGED <<wlCloud, wlAnswer, wlQuery, wlTabs, wlLegacy, wlPalette>>

\* A search result, or one of the suggestions of an empty list.
AddFromDesk(s) ==
  /\ wlFound \/ wlLists[wlTabs.active] = {}
  /\ AddSymbol(s)

RemoveSymbol(s) ==
  LET tab == wlTabs.active IN
  /\ s \in wlLists[tab]
  /\ PersistWatchlists([wlLists EXCEPT ![tab] = @ \ {s}])
  /\ wlFollowed' = wlFollowed \ {s}
  /\ wlCalls' = wlCalls \cup {[add |-> FALSE, symbol |-> s, here |-> TRUE]}
  /\ UNCHANGED <<wlCloud, wlAnswer, wlQuery, wlTabs, wlLegacy, wlFound, wlPalette>>

\* A call that is told has the list fetched again.
CallTold(cloud) == wlCloud' = cloud /\ RefetchWatchlist

\* It failed, or its answer is lost or comes after its page is gone.
CallUntold(cloud) == wlCloud' \in {wlCloud, cloud} /\ wlQuery' = [wlQuery EXCEPT !.doubt = TRUE]

\* They arrive in any order, or fail unnoticed.
CallEnds(c) ==
  LET cloud == IF c.add THEN wlCloud \cup {c.symbol} ELSE wlCloud \ {c.symbol} IN
  /\ c \in wlCalls /\ wlCalls' = wlCalls \ {c}
  /\ (c.here /\ CallTold(cloud)) \/ CallUntold(cloud)
  /\ UNCHANGED <<wlAnswer, wlLists, wlTabs, wlStored, wlLegacy, wlFollowed, wlFound, wlPalette>>

PersistTabs(all) == wlStored' = [wlStored EXCEPT !.all = all]

\* The active tab is stored only when it is chosen.
CreateNewList ==
  /\ "custom" \notin wlTabs.all
  /\ PersistTabs(wlTabs.all \cup {"custom"})
  /\ wlTabs' = [all |-> wlTabs.all \cup {"custom"}, active |-> "custom"]
  /\ UNCHANGED <<wlCloud, wlAnswer, wlQuery, wlCalls, wlLists, wlLegacy, wlFollowed, wlFound, wlPalette>>

DeleteTab ==
  LET lists == [wlLists EXCEPT !["custom"] = {}] IN
  /\ wlTabs.active = "custom" /\ "custom" \in wlTabs.all
  /\ wlLists' = lists
  /\ wlStored' = [wlStored EXCEPT !.all = wlTabs.all \ {"custom"}, !.lists = lists]
  /\ wlTabs' = [all |-> wlTabs.all \ {"custom"}, active |-> "wl1"]
  /\ UNCHANGED <<wlCloud, wlAnswer, wlQuery, wlCalls, wlLegacy, wlFollowed, wlFound, wlPalette>>

SelectWatchTab(tab) ==
  /\ tab \in wlTabs.all /\ tab # wlTabs.active
  /\ wlTabs' = [wlTabs EXCEPT !.active = tab]
  /\ wlStored' = [wlStored EXCEPT !.active = tab]
  /\ UNCHANGED <<wlCloud, wlAnswer, wlQuery, wlCalls, wlLists, wlLegacy, wlFollowed, wlFound, wlPalette>>

-----------------------------------------------------------------------------
\* The searches; a failed one of the palette is an empty answer.

\* The last answer to come is shown, whichever text it is of.
SearchOnDesk ==
  /\ wlFound' \in BOOLEAN \ {wlFound}
  /\ UNCHANGED <<wlCloud, wlAnswer, wlQuery, wlCalls, wlLists, wlTabs, wlStored, wlLegacy, wlFollowed, wlPalette>>

OpenPalette ==
  /\ wlPalette = "closed" /\ wlPalette' = "open"
  /\ UNCHANGED <<wlCloud, wlAnswer, wlQuery, wlCalls, wlLists, wlTabs, wlStored, wlLegacy, wlFollowed, wlFound>>

\* The rows are of the text as it was 150 ms ago, if they are there.
SearchInPalette ==
  /\ wlPalette # "closed" /\ wlPalette' \in {"open", "rows"} \ {wlPalette}
  /\ UNCHANGED <<wlCloud, wlAnswer, wlQuery, wlCalls, wlLists, wlTabs, wlStored, wlLegacy, wlFollowed, wlFound>>

\* The star of a row adds to or removes from the cloud, and tells.
ToggleFromPalette(s) ==
  LET watched == wlAnswer # Nothing /\ s \in wlAnswer
      cloud == IF watched THEN wlCloud \ {s} ELSE wlCloud \cup {s} IN
  /\ wlPalette = "rows"
  /\ \/ /\ CallTold(cloud)
        /\ wlFollowed' = IF watched THEN wlFollowed \ {s} ELSE wlFollowed \cup {s}
     \/ CallUntold(cloud) /\ UNCHANGED wlFollowed
  /\ UNCHANGED <<wlAnswer, wlCalls, wlLists, wlTabs, wlStored, wlLegacy, wlFound, wlPalette>>

\* Closing, by choosing a row, its buttons or Escape.
ClosePalette ==
  /\ wlPalette # "closed" /\ wlPalette' = "closed"
  /\ UNCHANGED <<wlCloud, wlAnswer, wlQuery, wlCalls, wlLists, wlTabs, wlStored, wlLegacy, wlFollowed, wlFound>>

WatchlistsNext ==
  \/ Reload \/ AskWatchlist \/ ReadWatchlist \/ FetchWatchlist \/ FetchFails
  \/ \E s \in WatchSymbols : AddFromDesk(s) \/ RemoveSymbol(s) \/ ToggleFromPalette(s)
  \/ \E c \in wlCalls : CallEnds(c)
  \/ CreateNewList \/ DeleteTab
  \/ \E tab \in TabIds : SelectWatchTab(tab)
  \/ SearchOnDesk \/ OpenPalette \/ SearchInPalette \/ ClosePalette

-----------------------------------------------------------------------------
\* What is on the desk.

\* An active tab that is gone shows an empty list under the first tab's name.
CurrentItems == IF wlTabs.active \in DOMAIN wlLists THEN wlLists[wlTabs.active] ELSE {}
TabTitle == IF wlTabs.active \in wlTabs.all THEN wlTabs.active ELSE "wl1"
DeskBody == [title |-> TabTitle, rows |-> CurrentItems,
             suggestions |-> IF CurrentItems = {} THEN WatchSymbols ELSE {}]

-----------------------------------------------------------------------------
\* Whatever was edited, fetched, added from the palette or removed, from whichever tab
\* and in whichever order the answers came, the page that is loaded again has the same
\* tabs and in each of them the list it shows now, to the first of which the list of an
\* older version is added once more; and an answer that was read before a change of the
\* account's list is not the last word on it: once no request is under way the cached
\* answer is the account's list, unless a call or a request failed, or fell in vain on
\* the page's first request, after it was read.  (Which tab is open may change: a new
\* list is not stored as the active one.)
WatchlistsKept ==
  /\ StoredTabs = wlTabs.all
  /\ \A tab \in wlTabs.all :
       StoredLists[tab] = wlLists[tab] \cup
         (IF tab = "wl1" /\ wlStored.lists # Nothing THEN wlLegacy ELSE {})
  /\ wlQuery.phase = "idle" /\ ~wlQuery.doubt => wlAnswer = wlCloud
=============================================================================
