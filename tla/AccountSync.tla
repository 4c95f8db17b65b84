----------------------------- MODULE AccountSync -----------------------------
(***************************************************************************)
(* How a committed account change reaches a page: the notification hub of  *)
(* the backend (internal/accountchanges/hub.go), its private event stream, *)
(* the provider that turns events into refetches                           *)
(* (providers/account-sync-provider.tsx, lib/accountSync.ts) and the       *)
(* polled account queries (hooks/useAccount*.ts).                          *)
(*                                                                         *)
(* One signed-in account, one tab, one query.  The account's state is a    *)
(* version number, a revision is the number of the notice that made it.    *)
(* Durations are left out, their order is kept: a timer of the client      *)
(* fires only when the frame it waits for does not come.                   *)
(***************************************************************************)
EXTENDS Naturals

CONSTANTS MaxVersion,  \* bound: commits
          MaxFaults,   \* bound: lost notices, requests, answers and streams
          MaxHides,    \* bound: times the tab is hidden
          None

ASSUME BoundsAssumption == {MaxVersion, MaxFaults, MaxHides} \subseteq Nat
ASSUME NoneAssumption == None \notin Nat

VARIABLES
  version,   \* committed account state
  notices,   \* this account's entries in the hub's queue
  revision,  \* account:revision:<user> in Redis
  link,      \* "down", "asked", "listening", "open" or "stalled"
  listener,  \* the one-place channel of the stream's handler
  sent,      \* the revision its last frame carried
  wire,      \* the frame on its way to the browser
  cursor,    \* the last revision the provider saw
  healthy,   \* healthyScope is this account
  due,       \* refetchTimer is set
  visible,   \* the tab is shown: the provider's effect runs
  hides,
  reply,     \* an answer to a mutation of this tab is on its way
  query,     \* data, failed, the request in flight, and whether a pass fell in vain
             \* on its first fetch, with no request since
  faults

stream == <<link, listener, sent, wire>>
vars == <<version, notices, revision, link, listener, sent, wire, cursor,
          healthy, due, visible, hides, reply, query, faults>>

Revisions == 0..MaxVersion
NoFrame == [kind |-> "none", revision |-> 0]
Frame(kind, r) == [kind |-> kind, revision |-> r]

Init ==
  /\ version = 0 /\ notices = 0 /\ revision = 0
  /\ link = "down" /\ listener = None /\ sent = 0 /\ wire = NoFrame
  /\ cursor = None /\ healthy = FALSE /\ due = TRUE
  /\ visible = TRUE /\ hides = 0 /\ reply = FALSE
  /\ query = [data |-> None, failed |-> FALSE, phase |-> "sent", read |-> None,
              inVain |-> FALSE]
  /\ faults = 0

Fault == faults < MaxFaults /\ faults' = faults + 1

-----------------------------------------------------------------------------
\* Commits and the hub.

\* Notify after a commit: the queue never blocks the commit; when other
\* accounts fill it the notice is dropped.
Notify ==
  \/ notices' = notices + 1 /\ UNCHANGED faults
  \/ Fault /\ UNCHANGED notices

\* A fill, a square-off, a change by another device.
Commit ==
  /\ version < MaxVersion /\ version' = version + 1
  /\ Notify
  /\ UNCHANGED <<revision, stream, cursor, healthy, due, visible, hides, reply, query>>

\* The same, asked for by this tab.
Mutate ==
  /\ visible /\ ~reply
  /\ version < MaxVersion /\ version' = version + 1
  /\ Notify
  /\ reply' = TRUE
  /\ UNCHANGED <<revision, stream, cursor, healthy, due, visible, hides, query>>

\* subscribe: the payload replaces an older one a listener has not taken yet.
Deliver == listener' = IF link \in {"listening", "open"} THEN revision' ELSE listener

\* publish: SET and PUBLISH are one script.  It may fail as a whole, and the
\* subscriber may miss the message.
Publish ==
  /\ notices > 0 /\ notices' = notices - 1
  /\ \/ revision' = revision + 1 /\ Deliver /\ UNCHANGED faults
     \/ Fault /\ revision' = revision + 1 /\ UNCHANGED listener
     \/ Fault /\ UNCHANGED <<revision, listener>>
  /\ UNCHANGED <<version, link, sent, wire, cursor, healthy, due, visible, hides, reply, query>>

-----------------------------------------------------------------------------
\* The provider.

\* reconcile: hints within one timer are coalesced into one pass.
Reconcile == due' = TRUE

Closed(failed) ==
  /\ link' = "down" /\ listener' = None /\ sent' = 0 /\ wire' = NoFrame
  /\ IF failed
     THEN healthy' = FALSE /\ due' = (due \/ healthy)
     ELSE UNCHANGED <<healthy, due>>

Connect ==
  /\ visible /\ link = "down"
  /\ link' = "asked"
  /\ UNCHANGED <<version, notices, revision, listener, sent, wire, cursor, healthy,
                 due, visible, hides, reply, query, faults>>

\* Fault: a new stream is taken for a continuation of the last one.
QuietReady ==
  /\ wire # NoFrame /\ wire' = NoFrame
  /\ cursor' = wire.revision
  /\ healthy' = TRUE
  /\ IF wire.kind # "ready" /\ cursor # wire.revision THEN Reconcile ELSE UNCHANGED due
  /\ UNCHANGED <<link, listener, sent>>

\* The consumer of frames: any event proves the stream healthy, and a
\* revision other than the last one asks for a pass.
Consumed ==
  /\ wire # NoFrame /\ wire' = NoFrame
  /\ cursor' = wire.revision
  /\ healthy' = TRUE
  /\ IF cursor # wire.revision THEN Reconcile ELSE UNCHANGED due
  /\ UNCHANGED <<link, listener, sent>>

Consume ==
  /\ wire.kind # "unavailable" /\ Consumed
  /\ UNCHANGED <<version, notices, revision, visible, hides, reply, query, faults>>

\* An "unavailable" frame, a refusal (too many listeners, Redis down) and a
\* broken connection end the attempt as failed; the next one backs off.
ConnectionFails ==
  /\ \/ link # "down" /\ link # "stalled" /\ Fault
     \/ wire.kind = "unavailable" /\ UNCHANGED faults
  /\ Closed(TRUE)
  /\ UNCHANGED <<version, notices, revision, cursor, visible, hides, reply, query>>

Stall ==
  /\ link \notin {"down", "stalled"} /\ Fault
  /\ link' = "stalled" /\ listener' = None /\ sent' = 0 /\ wire' = NoFrame
  /\ UNCHANGED <<version, notices, revision, cursor, healthy, due, visible, hides,
                 reply, query>>

\* Fault: the watchdog is not set again after the first frame.
FirstWatchdog ==
  /\ link = "stalled" /\ cursor = None
  /\ Closed(TRUE)
  /\ UNCHANGED <<version, notices, revision, cursor, visible, hides, reply, query, faults>>

\* No frame within 12 or 35 seconds: the connection is given up.
Watchdog ==
  /\ link = "stalled"
  /\ Closed(TRUE)
  /\ UNCHANGED <<version, notices, revision, cursor, visible, hides, reply, query, faults>>

HealthTimeout ==
  /\ link = "stalled" /\ healthy
  /\ healthy' = FALSE /\ Reconcile
  /\ UNCHANGED <<version, notices, revision, stream, cursor, visible, hides, reply,
                 query, faults>>

\* The bounded session of 45 seconds ends and is renewed quietly.
SessionEnds ==
  /\ link = "open" /\ wire = NoFrame
  /\ Closed(FALSE)
  /\ UNCHANGED <<version, notices, revision, cursor, visible, hides, reply, query, faults>>

\* notifyAccountMutation after an accepted mutation; nobody listens while the
\* tab is hidden.
Reply ==
  /\ reply /\ reply' = FALSE
  /\ due' = (due \/ visible)
  /\ UNCHANGED <<version, notices, revision, stream, cursor, healthy, visible, hides,
                 query, faults>>

\* The effect's cleanup.
HideResets ==
  /\ visible' = FALSE /\ due' = FALSE
  /\ healthy' = FALSE /\ cursor' = None

Hide ==
  /\ visible /\ hides < MaxHides /\ hides' = hides + 1
  /\ HideResets
  /\ link' = "down" /\ listener' = None /\ sent' = 0 /\ wire' = NoFrame
  /\ UNCHANGED <<version, notices, revision, reply, query, faults>>

\* The effect runs again: one pass for what was missed, and a new stream.
Show ==
  /\ ~visible /\ visible' = TRUE /\ Reconcile
  /\ UNCHANGED <<version, notices, revision, stream, cursor, healthy, hides, reply,
                 query, faults>>

-----------------------------------------------------------------------------
\* The handler of GET /account/events.

\* The listener is registered before the revision is read.
Listen ==
  /\ link = "asked"
  /\ link' = "listening"
  /\ UNCHANGED <<version, notices, revision, listener, sent, wire, cursor, healthy,
                 due, visible, hides, reply, query, faults>>

Send(kind, r) == wire = NoFrame /\ wire' = Frame(kind, r) /\ sent' = r

Ready ==
  /\ link = "listening" /\ link' = "open"
  /\ Send("ready", revision)
  /\ UNCHANGED <<version, notices, revision, listener, cursor, healthy, due, visible,
                 hides, reply, query, faults>>

Change ==
  /\ link = "open" /\ listener # None
  /\ Send("change", listener) /\ listener' = None
  /\ UNCHANGED <<version, notices, revision, link, cursor, healthy, due, visible,
                 hides, reply, query, faults>>

\* The heartbeat reads the revision again and finds a missed message.
Beat == Send(IF revision # sent THEN "change" ELSE "heartbeat", revision)

Heartbeat ==
  /\ link = "open"
  /\ \/ Beat /\ UNCHANGED faults
     \/ Fault /\ wire = NoFrame /\ wire' = Frame("unavailable", sent) /\ UNCHANGED sent
  /\ UNCHANGED <<version, notices, revision, link, listener, cursor, healthy, due,
                 visible, hides, reply, query>>

-----------------------------------------------------------------------------
\* The query: fetched when it mounts, by a reconciliation pass and by polling.

\* A fetch with no data to fall back on forgets that the one before it failed.
Fetching ==
  [query EXCEPT !.phase = "sent", !.read = None, !.inVain = FALSE,
                !.failed = @ /\ query.data # None]

\* A fetch under way that has nothing yet to fall back on.
FirstFetch == query.data = None /\ query.phase # "idle"

\* invalidateQueries cancels a request in flight and starts another, but returns
\* the fetch under way as long as the query has no data: the pass is spent, and
\* what that fetch has read already may be old.
Invalidate ==
  /\ due /\ due' = FALSE
  /\ query' = IF FirstFetch THEN [query EXCEPT !.inVain = @ \/ query.phase = "read"] ELSE Fetching
  /\ UNCHANGED <<version, notices, revision, stream, cursor, healthy, visible, hides,
                 reply, faults>>

\* Fault: a healthy stream is trusted to replace polling.
PollsUnhealthy == visible /\ ~healthy

\* accountPollingInterval: every 5 seconds, every 30 with a healthy stream,
\* never in the background.
PollingInterval == visible

Poll ==
  /\ PollingInterval /\ query.phase = "idle"
  /\ query' = Fetching
  /\ UNCHANGED <<version, notices, revision, stream, cursor, healthy, due, visible,
                 hides, reply, faults>>

Read ==
  /\ query.phase = "sent"
  /\ query' = [query EXCEPT !.phase = "read", !.read = version]
  /\ UNCHANGED <<version, notices, revision, stream, cursor, healthy, due, visible,
                 hides, reply, faults>>

Answer ==
  /\ query.phase = "read"
  /\ query' = [query EXCEPT !.phase = "idle", !.read = None, !.data = query.read,
                            !.failed = FALSE]
  /\ UNCHANGED <<version, notices, revision, stream, cursor, healthy, due, visible,
                 hides, reply, faults>>

\* A failure keeps the data; the hooks say which of them still show it.
AnswerLost ==
  /\ query.phase # "idle" /\ Fault
  /\ query' = [query EXCEPT !.phase = "idle", !.read = None, !.failed = TRUE]
  /\ UNCHANGED <<version, notices, revision, stream, cursor, healthy, due, visible,
                 hides, reply>>

-----------------------------------------------------------------------------
Provider == Connect \/ Consume \/ Watchdog \/ HealthTimeout \/ SessionEnds
Handler == Listen \/ Ready \/ Change \/ Heartbeat
Fetch == Read \/ Answer

Next ==
  \/ Commit \/ Mutate \/ Publish \/ Reply
  \/ Provider \/ ConnectionFails \/ Stall
  \/ Handler
  \/ Hide \/ Show
  \/ Invalidate \/ Poll \/ Fetch \/ AnswerLost

\* The queue's goroutine, the stream's loops, the timers and the requests all
\* go on; commits, hiding and faults need not.
Fairness ==
  /\ WF_vars(Publish)
  /\ WF_vars(Connect \/ Listen \/ Ready \/ Watchdog)
  /\ WF_vars(Consume)
  /\ WF_vars(Invalidate)
  /\ WF_vars(Poll)
  /\ WF_vars(Fetch)

Spec == Init /\ [][Next]_vars /\ Fairness

-----------------------------------------------------------------------------
\* A commit that a page shows nothing of is on its way to it without the help of
\* polling: in the hub's queue, as a revision the provider has not seen, in its
\* timer or in a request. What excuses the rest is a notice that never became a
\* revision, an answer whose loss the page knows of, or that the pass fell on the
\* page's first fetch after the backend had read for it: such an answer is shown
\* until the next request, whatever the stream has told.
MissedChangeHasCause ==
  visible /\ query.data # version /\ version = notices + revision =>
    \/ notices > 0
    \/ cursor # revision
    \/ due
    \/ query.phase = "sent" \/ query.read = version
    \/ query.failed
    \/ query.inVain

\* However notices, messages, streams and answers are lost, the page ends up
\* showing the last commit whenever it is visible: the polling repairs what
\* the hints miss.
ChangeIsShown == <>[](visible => query.data = version /\ ~query.failed)

\* Losses never leave the provider without a stream: it ends up healthy for as
\* long as the tab is visible.
StreamRecovers == <>[](visible => healthy)
=============================================================================
