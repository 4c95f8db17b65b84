----------------------------- MODULE MarketFeed -----------------------------
(***************************************************************************)
(* The quotes of the browser: the socket of providers/market-provider.tsx, *)
(* the queue of ticks that waits for the next frame (lib/liveStream.ts),   *)
(* the store (stores/market-store.ts), the display polling that stops while*)
(* the stream is healthy (lib/displayPolling.ts) and the cached REST quotes*)
(* (lib/quoteService.ts).  What the browser asks the backend's socket for, *)
(* and what that then has, is the matter of Subscriptions: here any names  *)
(* may be asked for, and a tick or a snapshot may come under any name.     *)
(*                                                                         *)
(* A quote is its time stamp; 0 is no quote.  The backend publishes a tick *)
(* under the canonical name and answers a request under the name asked for.*)
(***************************************************************************)
EXTENDS Naturals, FiniteSets, SequencesExt

CONSTANTS FeedNames,    \* the names the pages use
          CanonOf,      \* resolveCanonicalSymbol: the name of the instrument
          StreamFresh,  \* STREAM_FRESH_MS
          StatusFresh,  \* STATUS_FRESH_MS
          CacheTtl,     \* CACHE_TTL_MS
          MaxTime,      \* bound: the clock
          MaxEvents,    \* bound: events on their way
          MaxRequests   \* bound: requests under way

ASSUME FeedAssumption ==
  /\ CanonOf \in [FeedNames -> FeedNames]
  /\ {StreamFresh, StatusFresh, CacheTtl, MaxTime, MaxEvents, MaxRequests} \subseteq Nat \ {0}
ASSUME NamesAssumption == IsFiniteSet(FeedNames)

Canons == {CanonOf[n] : n \in FeedNames}

VARIABLES
  mfNow,      \* the clock
  mfTrade,    \* by canonical name: the stamp of the last tick
  mfSocket,   \* whether the socket is open, and the events on their way
  mfAsked,    \* subscribed.current and subscribedSymbols of the store
  mfPending,  \* by name: the tick that waits for a frame, and when it came
  mfQuotes,   \* the store's quotes
  mfSeen,     \* by canonical name: streamObservations
  mfStatus,   \* the market's and the feed's status, and when it was told
  mfRest      \* by name: the answer on its way, and when the cached quote came

mfVars == <<mfNow, mfTrade, mfSocket, mfAsked, mfPending, mfQuotes, mfSeen,
            mfStatus, mfRest>>

Later(x, y) == IF x >= y THEN x ELSE y
NoTick == [stamp |-> 0, at |-> 0]
Never == [at |-> 0, quoted |-> 0]
Untold == [open |-> FALSE, live |-> FALSE, at |-> 0]
Offline == [open |-> FALSE, events |-> <<>>]

MarketFeedInit ==
  /\ mfNow = 1
  /\ mfTrade = [c \in Canons |-> 0]
  /\ mfSocket = Offline
  /\ mfAsked = {}
  /\ mfPending = [n \in FeedNames |-> NoTick]
  /\ mfQuotes = [n \in FeedNames |-> 0]
  /\ mfSeen = [c \in Canons |-> Never]
  /\ mfStatus = Untold
  /\ mfRest = [n \in FeedNames |-> [coming |-> FALSE, answer |-> 0, at |-> 0]]

-----------------------------------------------------------------------------
\* The backend: Serve, and the hub's publish and deliver. An event that finds no room
\* is lost, and its client is dropped some time.

Send(n, stamp) ==
  mfSocket' = IF mfSocket.open /\ Len(mfSocket.events) < MaxEvents
              THEN [mfSocket EXCEPT !.events = Append(@, [name |-> n, stamp |-> stamp])]
              ELSE mfSocket

Trade(c) ==
  /\ mfTrade[c] < mfNow
  /\ mfTrade' = [mfTrade EXCEPT ![c] = mfNow]
  /\ Send(c, mfNow) \/ UNCHANGED mfSocket
  /\ UNCHANGED <<mfNow, mfAsked, mfPending, mfQuotes, mfSeen, mfStatus, mfRest>>

\* A subscription is answered with the last quote, under the name asked for.
SendSnapshot(n) ==
  /\ mfTrade[CanonOf[n]] > 0
  /\ Send(n, mfTrade[CanonOf[n]])
  /\ UNCHANGED <<mfNow, mfTrade, mfAsked, mfPending, mfQuotes, mfSeen, mfStatus, mfRest>>

-----------------------------------------------------------------------------
\* The names asked for, on a connection that the browser takes to be open.

\* setSubscribedSymbols.
Ask(names) ==
  /\ mfAsked' = names
  /\ mfSeen' = [c \in Canons |-> IF \E n \in names : CanonOf[n] = c THEN mfSeen[c] ELSE Never]

\* syncSubscriptions.
Resubscribe ==
  /\ mfSocket.open
  /\ \E names \in SUBSET FeedNames : Ask(names)
  /\ UNCHANGED <<mfNow, mfTrade, mfSocket, mfPending, mfQuotes, mfStatus, mfRest>>

-----------------------------------------------------------------------------
\* The connection.

Connected ==
  /\ ~mfSocket.open
  /\ mfSocket' = [Offline EXCEPT !.open = TRUE]
  /\ \E names \in SUBSET FeedNames : Ask(names)
  /\ UNCHANGED <<mfNow, mfTrade, mfPending, mfQuotes, mfStatus, mfRest>>

\* onclose: the backend dropped the client or ended, the network failed, or
\* nothing was heard for 70 seconds.
Disconnected ==
  /\ mfSocket.open
  /\ mfSocket' = Offline
  /\ mfAsked' = {}
  /\ mfPending' = [n \in FeedNames |-> NoTick]
  /\ mfSeen' = [c \in Canons |-> Never]
  /\ UNCHANGED <<mfNow, mfTrade, mfQuotes, mfStatus, mfRest>>

\* coalesceQuote: the latest tick of a name waits.
Receive ==
  /\ mfSocket.events # <<>>
  /\ LET e == Head(mfSocket.events) IN
     /\ mfSocket' = [mfSocket EXCEPT !.events = Tail(@)]
     /\ mfPending' = IF e.stamp < mfPending[e.name].stamp THEN mfPending
                     ELSE [mfPending EXCEPT ![e.name] = [stamp |-> e.stamp, at |-> mfNow]]
  /\ UNCHANGED <<mfNow, mfTrade, mfAsked, mfQuotes, mfSeen, mfStatus, mfRest>>

-----------------------------------------------------------------------------
\* updateStreamQuotes.

Accepted == {n \in FeedNames : mfPending[n].stamp > 0 /\ mfPending[n].stamp >= mfQuotes[n]}

\* What an accepted tick says of the stream's health; a tick of the synthetic feed or one
\* that is marked as stale says nothing good of it.
Observed(t) ==
  IF t.at - t.stamp < StreamFresh THEN {Never, [at |-> t.at, quoted |-> t.stamp]} ELSE {Never}

\* Ticks of one canonical name under two names: the later in the queue decides.
Flush ==
  /\ mfPending' = [n \in FeedNames |-> NoTick]
  /\ mfQuotes' = [n \in FeedNames |-> IF n \in Accepted THEN mfPending[n].stamp ELSE mfQuotes[n]]
  /\ mfSeen' \in {seen \in [Canons -> {mfSeen[c] : c \in Canons}
                               \cup UNION {Observed(mfPending[n]) : n \in Accepted}] :
                    \A c \in Canons :
                      LET of == {n \in Accepted : CanonOf[n] = c} IN
                      seen[c] \in IF of = {} THEN {mfSeen[c]}
                                  ELSE UNION {Observed(mfPending[n]) : n \in of}}

\* The next frame, or the page is shown again; a hidden page draws no frames, so that
\* its ticks wait for as long as it likes.
Frame ==
  /\ \E n \in FeedNames : mfPending[n] # NoTick
  /\ Flush
  /\ UNCHANGED <<mfNow, mfTrade, mfSocket, mfAsked, mfStatus, mfRest>>

\* GET /market/status; a failure marks the feed as unavailable.
StatusTold ==
  /\ mfStatus' \in {[open |-> TRUE, live |-> l, at |-> mfNow] : l \in BOOLEAN}
                   \cup {[open |-> FALSE, live |-> FALSE, at |-> mfNow], [mfStatus EXCEPT !.live = FALSE]}
  /\ UNCHANGED <<mfNow, mfTrade, mfSocket, mfAsked, mfPending, mfQuotes, mfSeen, mfRest>>

-----------------------------------------------------------------------------
\* displayPollingInterval.

IsFresh(stamp, age) == stamp > 0 /\ mfNow - stamp < age

\* Fault: the tick's own time is not looked at.
HeardOf(n) == CanonOf[n] \in {CanonOf[m] : m \in mfAsked}
              /\ IsFresh(mfSeen[CanonOf[n]].at, StreamFresh)

\* The stream itself keeps the name fresh.
StreamCovers(n) ==
  LET seen == mfSeen[CanonOf[n]] IN
  /\ CanonOf[n] \in {CanonOf[m] : m \in mfAsked}
  /\ IsFresh(seen.at, StreamFresh) /\ IsFresh(seen.quoted, StreamFresh)

PollingInterval(n) ==
  IF ~IsFresh(mfStatus.at, StatusFresh) THEN "fallback"
  ELSE IF ~mfStatus.open THEN "closed"
  ELSE IF mfSocket.open /\ mfStatus.live /\ StreamCovers(n) THEN "none"
  ELSE "fallback"

\* getCachedQuote: a quote that a request brought, or the store's.
Cached(n) ==
  \/ mfRest[n].at > 0 /\ mfNow < mfRest[n].at + CacheTtl
  \/ IsFresh(mfQuotes[n], CacheTtl)

\* fetchBatchQuotes, of a page that polls the name.
Fetch(n) ==
  /\ PollingInterval(n) # "none" /\ ~Cached(n)
  /\ ~mfRest[n].coming /\ Cardinality({m \in FeedNames : mfRest[m].coming}) < MaxRequests
  /\ mfRest' = [mfRest EXCEPT ![n].coming = TRUE, ![n].answer = mfTrade[CanonOf[n]]]
  /\ UNCHANGED <<mfNow, mfTrade, mfSocket, mfAsked, mfPending, mfQuotes, mfSeen, mfStatus>>

\* publish and mergeQuotes, or a failure; an answer as old as its request.
FetchAnswered(n) ==
  LET r == mfRest[n]
      done == [r EXCEPT !.coming = FALSE, !.answer = 0] IN
  /\ r.coming
  /\ \/ /\ r.answer > 0
        /\ mfRest' = [mfRest EXCEPT ![n] = [done EXCEPT !.at = mfNow]]
        /\ mfQuotes' = [mfQuotes EXCEPT ![n] = Later(@, r.answer)]
     \/ mfRest' = [mfRest EXCEPT ![n] = done] /\ UNCHANGED mfQuotes
  /\ UNCHANGED <<mfNow, mfTrade, mfSocket, mfAsked, mfPending, mfSeen, mfStatus>>

\* What is too old to count for anything is forgotten here, which only spares states.
Clock ==
  /\ mfNow < MaxTime /\ mfNow' = mfNow + 1
  /\ mfStatus' = IF mfNow' - mfStatus.at < StatusFresh THEN mfStatus ELSE Untold
  /\ mfRest' = [n \in FeedNames |-> IF mfNow' < mfRest[n].at + CacheTtl THEN mfRest[n]
                                    ELSE [mfRest[n] EXCEPT !.at = 0]]
  /\ UNCHANGED <<mfTrade, mfSocket, mfAsked, mfPending, mfQuotes, mfSeen>>

MarketFeedNext ==
  \/ \E c \in Canons : Trade(c)
  \/ \E n \in FeedNames : SendSnapshot(n) \/ Fetch(n) \/ FetchAnswered(n)
  \/ Resubscribe \/ Connected \/ Disconnected \/ Receive
  \/ Frame \/ StatusTold \/ Clock

-----------------------------------------------------------------------------
\* "Only fresh subscribed live stream observations suspend display polling"
\* (displayPolling.test.ts:11): whatever is hidden, asked for, reconnected or late, under
\* whichever of its names an instrument is streamed, snapshot or polled, while nothing polls
\* it for a page the store has a quote of it, under one of its names, that is fresh.
SuspendedOnlyWhileFresh == \A n \in FeedNames :
  PollingInterval(n) = "none" =>
    \E m \in FeedNames : CanonOf[m] = CanonOf[n] /\ IsFresh(mfQuotes[m], StreamFresh)
=============================================================================
