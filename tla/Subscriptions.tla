---------------------------- MODULE Subscriptions ----------------------------
(***************************************************************************)
(* Which names the browser asks the stream of quotes for: the benchmarks,  *)
(* the selected symbol, the views of the page that register a name         *)
(* (useTargetedSubscription in stores/market-store.ts) and the watchlist,  *)
(* up to a limit (lib/marketSubscriptions.ts); the commands that the socket*)
(* of providers/market-provider.tsx sends for them; and the names that the *)
(* backend's socket handler (internal/market/websocket) then has for it.   *)
(***************************************************************************)
EXTENDS Naturals, Sequences, FiniteSets, SequencesExt

CONSTANTS SubNames,     \* the names the pages use
          Benchmarks,   \* DEFAULT_BENCHMARK_SYMBOLS, in order
          FirstSelected, \* the symbol that is selected when the page is opened
          Watchlists,   \* what the watchlist may be: sequences of names
          MaxTargets,   \* MAX_CLIENT_SUBSCRIPTIONS
          MaxViews,     \* bound: mounted views of a name
          MaxCommands   \* bound: commands on their way

ASSUME SubscriptionsAssumption ==
  /\ IsFiniteSet(SubNames)
  /\ Benchmarks \in Seq(SubNames) /\ FirstSelected \in SubNames /\ Watchlists \subseteq Seq(SubNames) /\ <<>> \in Watchlists
  /\ {MaxTargets, MaxViews, MaxCommands} \subseteq Nat \ {0}

VARIABLES
  sbMounted,   \* history: the views of a name that are on the page
  sbViews,     \* viewSubscriptions: views by name
  sbActive,    \* activeViewSymbols: its names, in the order they came in
  sbSelected,  \* selectedSymbol
  sbWatch,     \* watchlistSymbols
  sbAsked,     \* subscribed.current and subscribedSymbols of the store
  sbSocket     \* connected, the names the backend has, the commands on their way

sbVars == <<sbMounted, sbViews, sbActive, sbSelected, sbWatch, sbAsked, sbSocket>>

Unconnected == [connected |-> FALSE, has |-> {}, commands |-> <<>>]

SubscriptionsInit ==
  /\ sbMounted = [n \in SubNames |-> 0]
  /\ sbViews = sbMounted
  /\ sbActive = <<>>
  /\ sbSelected = FirstSelected
  /\ sbWatch = <<>>
  /\ sbAsked = {}
  /\ sbSocket = Unconnected

-----------------------------------------------------------------------------
\* The first names of a list, up to the limit; a name counts once.
FirstNames(list) ==
  {list[i] : i \in {j \in DOMAIN list : Cardinality({list[k] : k \in 1..j - 1}) < MaxTargets}}

\* subscriptionTargets: what is on the page comes before the watchlist.
Targets(selected, active, watch) ==
  FirstNames(Benchmarks \o <<selected>> \o active \o watch)

CommandsFor(add, names) == SetToSeq([add : {add}, name : names])

\* syncSubscriptions: the difference to what was asked for on this connection.
Sync(socket, asked) ==
  LET targets == Targets(sbSelected', sbActive', sbWatch') IN
  IF socket.connected
  THEN /\ sbSocket' = [socket EXCEPT !.commands =
                        @ \o CommandsFor(FALSE, asked \ targets) \o CommandsFor(TRUE, targets \ asked)]
       /\ sbAsked' = targets
  ELSE sbSocket' = socket /\ sbAsked' = asked

CanSync == Len(sbSocket.commands) < MaxCommands /\ Sync(sbSocket, sbAsked)

\* registerSymbols: a name that comes in is the last.
Mount(n) ==
  /\ sbMounted[n] < MaxViews
  /\ sbMounted' = [sbMounted EXCEPT ![n] = @ + 1]
  /\ sbViews' = [sbViews EXCEPT ![n] = @ + 1]
  /\ sbActive' = IF sbViews[n] = 0 THEN Append(sbActive, n) ELSE sbActive
  /\ UNCHANGED <<sbSelected, sbWatch>>
  /\ CanSync

\* Fault: the first view that goes takes the name with it.
ForgetView(n) == [sbViews EXCEPT ![n] = 0]

\* unregisterSymbols.
UnregisterView(n) == [sbViews EXCEPT ![n] = IF @ > 1 THEN @ - 1 ELSE 0]

Unmount(n) ==
  /\ sbMounted[n] > 0
  /\ sbMounted' = [sbMounted EXCEPT ![n] = @ - 1]
  /\ sbViews' = UnregisterView(n)
  /\ IF sbViews'[n] = 0
     THEN sbActive' \in {RemoveAt(sbActive, i) : i \in {j \in DOMAIN sbActive : sbActive[j] = n}}
     ELSE UNCHANGED sbActive
  /\ UNCHANGED <<sbSelected, sbWatch>>
  /\ CanSync

Select(n) ==
  /\ n # sbSelected /\ sbSelected' = n
  /\ UNCHANGED <<sbMounted, sbViews, sbActive, sbWatch>>
  /\ CanSync

\* setWatchlistSymbols, addWatchlistSymbol and removeWatchlistSymbol.
Watch ==
  /\ sbWatch' \in Watchlists \ {sbWatch}
  /\ UNCHANGED <<sbMounted, sbViews, sbActive, sbSelected>>
  /\ CanSync

\* A connection knows nothing of what was asked for on the one before it.
SubsConnected ==
  /\ ~sbSocket.connected
  /\ UNCHANGED <<sbMounted, sbViews, sbActive, sbSelected, sbWatch>>
  /\ Sync([Unconnected EXCEPT !.connected = TRUE], {})

SubsDisconnected ==
  /\ sbSocket.connected
  /\ sbSocket' = Unconnected /\ sbAsked' = {}
  /\ UNCHANGED <<sbMounted, sbViews, sbActive, sbSelected, sbWatch>>

\* Serve, of one name of a command.
SubsHandled ==
  /\ sbSocket.commands # <<>>
  /\ LET c == Head(sbSocket.commands) IN
     sbSocket' = [sbSocket EXCEPT !.commands = Tail(@),
                                  !.has = IF c.add THEN @ \cup {c.name} ELSE @ \ {c.name}]
  /\ UNCHANGED <<sbMounted, sbViews, sbActive, sbSelected, sbWatch, sbAsked>>

SubscriptionsNext ==
  \/ \E n \in SubNames : Mount(n) \/ Unmount(n) \/ Select(n)
  \/ Watch \/ SubsConnected \/ SubsDisconnected \/ SubsHandled

-----------------------------------------------------------------------------
\* What the page shows, and what it would have streamed were there no limit.
OnPage == Range(Benchmarks) \cup {sbSelected} \cup {n \in SubNames : sbMounted[n] > 0}
Wished == OnPage \cup Range(sbWatch)

\* "The current screen/order takes priority when a large watchlist fills the limit"
\* (marketSubscriptions.ts:4): whatever views, selections and watchlists come and go, on
\* this connection or before it, a connected browser asks for names it wishes for and for
\* no more than the limit, leaves one out only when the limit is reached, and asks for a
\* name of the watchlist alone only when it asks for everything on the page; and the
\* backend streams just these names once it has handled what it was sent.
SubscriptionsFollowViews ==
  sbSocket.connected =>
    /\ sbAsked \subseteq Wished /\ Cardinality(sbAsked) <= MaxTargets
    /\ sbAsked # Wished => Cardinality(sbAsked) = MaxTargets
    /\ sbAsked \subseteq OnPage \/ OnPage \subseteq sbAsked
    /\ sbSocket.commands = <<>> => sbSocket.has = sbAsked
=============================================================================
