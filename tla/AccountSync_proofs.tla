-------------------------- MODULE AccountSync_proofs --------------------------
(***************************************************************************)
(* Theorems about AccountSync, for any number of commits and faults and    *)
(* however often the tab is hidden: a commit a page shows nothing of is on *)
(* its way to it, unless its notice or an answer was lost.                 *)
(***************************************************************************)
EXTENDS AccountSync, TLAPS

Queries == [data : Nat \cup {None}, failed : BOOLEAN,
            phase : {"idle", "sent", "read"}, read : Nat \cup {None}, inVain : BOOLEAN]
Frames == [kind : {"none", "ready", "change", "heartbeat", "unavailable"}, revision : Nat]

SyncTypeOK ==
  /\ version \in Nat /\ notices \in Nat /\ revision \in Nat
  /\ link \in {"down", "asked", "listening", "open", "stalled"}
  /\ listener \in Nat \cup {None} /\ sent \in Nat /\ wire \in Frames
  /\ cursor \in Nat \cup {None}
  /\ healthy \in BOOLEAN /\ due \in BOOLEAN /\ visible \in BOOLEAN /\ reply \in BOOLEAN
  /\ query \in Queries

\* A notice is of a commit, and becomes one revision at most; what the stream
\* and the provider know of is a revision that was reached.
Counted ==
  /\ version >= notices + revision
  /\ listener # None => listener <= revision
  /\ sent <= revision /\ wire.revision <= revision
  /\ cursor # None => cursor <= revision

\* Every commit has its notice in the queue, or was published.
AllNoticed == version = notices + revision

\* Hints of a commit: the hub has it, the provider will see it, or has.
Hinted == notices > 0 \/ cursor # revision \/ due

\* What is read before a commit is followed by a hint of it, unless the pass that
\* the hint led to fell on the first fetch. This is what excuses a page when an
\* answer ends a failure with data that is old again.
ReadIsFollowed ==
  visible /\ AllNoticed /\ query.phase = "read" /\ query.read # version => Hinted \/ query.inVain

SyncInv == SyncTypeOK /\ Counted /\ ReadIsFollowed /\ MissedChangeHasCause

-----------------------------------------------------------------------------
USE NoneAssumption

\* A tab that was just opened has asked for its data.
LEMMA SyncInit == Init => SyncInv
<1> SUFFICES ASSUME Init PROVE SyncInv
  OBVIOUS
<1> USE DEF Init
<1>1. SyncTypeOK
  <2>1. query \in Queries /\ wire \in Frames
    BY DEF Queries, Frames, NoFrame
  <2> QED BY <2>1 DEF SyncTypeOK
<1>2. Counted
  BY DEF Counted, NoFrame
<1>3. ReadIsFollowed /\ MissedChangeHasCause
  BY DEF ReadIsFollowed, MissedChangeHasCause
<1> QED BY <1>1, <1>2, <1>3 DEF SyncInv

\* Every step keeps the shape of the state: what is counted and sent ...
LEMMA SyncValues ==
  ASSUME SyncTypeOK, [Next]_vars
  PROVE  /\ version' \in Nat /\ notices' \in Nat /\ revision' \in Nat
         /\ link' \in {"down", "asked", "listening", "open", "stalled"}
         /\ listener' \in Nat \cup {None} /\ sent' \in Nat /\ wire' \in Frames
         /\ cursor' \in Nat \cup {None}
<1> USE DEF SyncTypeOK, stream
<1>0. NoFrame \in Frames
  BY DEF NoFrame, Frames
<1>1. CASE UNCHANGED vars
  BY <1>1 DEF vars
<1>2. CASE Commit \/ Mutate \/ Publish
  BY <1>2 DEF Commit, Mutate, Publish, Notify, Deliver
<1>3. CASE Provider \/ ConnectionFails \/ Stall \/ Reply
  <2>1. wire.revision \in Nat
    BY DEF Frames
  <2> QED BY <1>0, <1>3, <2>1 DEF Provider, Connect, Consume, Consumed, Watchdog, HealthTimeout,
        SessionEnds, ConnectionFails, Stall, Reply, Closed
<1>4. CASE Handler
  <2>1. ASSUME NEW k \in {"ready", "change", "heartbeat", "unavailable"}, NEW r \in Nat
        PROVE  Frame(k, r) \in Frames
    BY DEF Frame, Frames
  <2> QED BY <1>4, <2>1 DEF Handler, Listen, Ready, Change, Heartbeat, Beat, Send
<1>5. CASE Hide \/ Show
  BY <1>0, <1>5 DEF Hide, HideResets, Show
<1>6. CASE Invalidate \/ Poll \/ Fetch \/ AnswerLost
  BY <1>6 DEF Invalidate, Poll, Fetch, Read, Answer, AnswerLost
<1> QED BY <1>1, <1>2, <1>3, <1>4, <1>5, <1>6 DEF Next

\* ... the flags of the provider and the tab, and the query.
LEMMA SyncTypes == SyncTypeOK /\ [Next]_vars => SyncTypeOK'
<1> SUFFICES ASSUME SyncTypeOK, [Next]_vars PROVE SyncTypeOK'
  OBVIOUS
<1>0. version \in Nat /\ query \in Queries
  BY DEF SyncTypeOK
<1>1. healthy' \in BOOLEAN /\ due' \in BOOLEAN
  <2> USE DEF SyncTypeOK, stream
  <2>1. CASE UNCHANGED <<healthy, due>>
    BY <2>1
  <2>2. CASE healthy' = FALSE /\ due' = (due \/ healthy)
    BY <2>2
  <2>3. CASE UNCHANGED healthy /\ due' = (due \/ visible)
    BY <2>3
  <2>4. CASE UNCHANGED healthy /\ due' \in {TRUE, FALSE}
    BY <2>4
  <2>5. CASE healthy' \in {TRUE, FALSE} /\ (UNCHANGED due \/ due' \in {TRUE, FALSE})
    BY <2>5
  <2> QED BY <2>1, <2>2, <2>3, <2>4, <2>5
       DEF Next, vars, Commit, Mutate, Publish, Reply, Provider, Connect, Consume, Consumed, Watchdog,
           HealthTimeout, SessionEnds, ConnectionFails, Stall, Closed, Reconcile, Handler, Listen,
           Ready, Change, Heartbeat, Hide, HideResets, Show, Invalidate, Poll, Fetch, Read, Answer,
           AnswerLost
<1>2. visible' \in BOOLEAN /\ reply' \in BOOLEAN
  BY DEF SyncTypeOK, Next, vars, Commit, Mutate, Publish, Reply, Provider, Connect, Consume,
         Watchdog, HealthTimeout, SessionEnds, ConnectionFails, Stall, Handler, Listen, Ready, Change,
         Heartbeat, Hide, HideResets, Show, Invalidate, Poll, Fetch, Read, Answer, AnswerLost
<1>3. query' \in Queries
  <2>1. CASE UNCHANGED query
    BY <1>0, <2>1
  <2>2. CASE Invalidate \/ Poll \/ Fetch \/ AnswerLost
    BY <1>0, <2>2 DEF Invalidate, Poll, Fetch, Read, Answer, AnswerLost, Fetching, Queries,
                       FirstFetch
  <2> QED BY <2>1, <2>2
       DEF Next, vars, Commit, Mutate, Publish, Reply, Provider, Connect, Consume,
           Watchdog, HealthTimeout, SessionEnds, ConnectionFails, Stall, Handler, Listen, Ready,
           Change, Heartbeat, Hide, Show
<1> QED BY <1>1, <1>2, <1>3, SyncValues DEF SyncTypeOK

\* A step that leaves the count of commits and notices to the backend, and
\* hands on revisions that were reached, keeps the count.
LEMMA CountedStep == SyncTypeOK /\ Counted /\ [Next]_vars => Counted'
<1> SUFFICES ASSUME SyncTypeOK, Counted, [Next]_vars PROVE Counted'
  OBVIOUS
<1> USE DEF SyncTypeOK, Counted, stream
<1>1. CASE UNCHANGED vars
  BY <1>1 DEF vars
<1>2. CASE Commit \/ Mutate \/ Publish
  <2>1. CASE Commit
    BY <2>1 DEF Commit, Notify, Fault
  <2>2. CASE Mutate
    BY <2>2 DEF Mutate, Notify, Fault
  <2>3. CASE Publish
    <3>1. revision' >= revision /\ version' >= notices' + revision'
      BY <2>3 DEF Publish
    <3>2. listener' = listener \/ listener' = revision'
      BY <2>3 DEF Publish, Deliver
    <3>3. revision' \in Nat /\ UNCHANGED <<sent, wire, cursor>>
      BY <2>3 DEF Publish
    <3>4. wire.revision \in Nat
      BY DEF Frames
    <3> QED BY <3>1, <3>2, <3>3, <3>4
  <2> QED BY <1>2, <2>1, <2>2, <2>3
<1>3. CASE Provider \/ ConnectionFails \/ Stall \/ Reply
  BY <1>3 DEF Provider, Connect, Consume, Consumed, Watchdog, HealthTimeout, SessionEnds,
              ConnectionFails, Stall, Reply, Closed, Reconcile, Fault, Frames, NoFrame
<1>4. CASE Handler
  <2>1. ASSUME NEW k, NEW r PROVE Frame(k, r).revision = r
    BY DEF Frame
  <2> QED BY <1>4, <2>1 DEF Handler, Listen, Ready, Change, Heartbeat, Beat, Send, Fault
<1>5. CASE Hide \/ Show
  BY <1>5 DEF Hide, HideResets, Show, Reconcile, Frames, NoFrame
<1>6. CASE Invalidate \/ Poll \/ Fetch \/ AnswerLost
  BY <1>6 DEF Invalidate, Poll, PollingInterval, Fetch, Read, Answer, AnswerLost, Fault
<1> QED BY <1>1, <1>2, <1>3, <1>4, <1>5, <1>6 DEF Next

\* After a step there is a hint, or the step spent it on a query, or there was
\* none and the step committed nothing.
LEMMA HintsLast ==
  ASSUME SyncTypeOK, Counted, [Next]_vars, visible', AllNoticed'
  PROVE  \/ Hinted'
         \/ Invalidate
         \/ /\ ~Hinted /\ visible /\ AllNoticed /\ UNCHANGED version
<1> USE DEF SyncTypeOK, Counted, Hinted, AllNoticed, stream
<1>1. CASE UNCHANGED vars
  BY <1>1 DEF vars
<1>2. CASE Commit \/ Mutate \/ Publish
  <2>1. CASE Commit
    BY <2>1 DEF Commit, Notify, Fault
  <2>2. CASE Mutate
    BY <2>2 DEF Mutate, Notify, Fault
  <2>3. CASE Publish
    BY <2>3 DEF Publish, Deliver, Fault
  <2> QED BY <1>2, <2>1, <2>2, <2>3
<1>3. CASE Provider \/ ConnectionFails \/ Stall \/ Reply
  BY <1>3 DEF Provider, Connect, Consume, Consumed, Watchdog, HealthTimeout, SessionEnds,
              ConnectionFails, Stall, Reply, Closed, Reconcile, Fault
<1>4. CASE Handler
  BY <1>4 DEF Handler, Listen, Ready, Change, Heartbeat, Beat, Send, Fault
<1>5. CASE Hide \/ Show
  BY <1>5 DEF Hide, HideResets, Show, Reconcile
<1>6. CASE Poll \/ Fetch \/ AnswerLost
  BY <1>6 DEF Poll, PollingInterval, Fetch, Read, Answer, AnswerLost, Fault
<1> QED BY <1>1, <1>2, <1>3, <1>4, <1>5, <1>6 DEF Next

\* What a step makes of the query.
LEMMA QuerySteps ==
  ASSUME SyncTypeOK, [Next]_vars
  PROVE  \/ UNCHANGED query
         \/ query'.phase = "sent"
         \/ query'.phase = "read" /\ query'.read = version /\ UNCHANGED version
         \/ query'.phase = "idle" /\ query'.failed
         \/ query'.inVain
         \/ /\ query.phase = "read" /\ query'.phase = "idle"
            /\ query'.data = query.read /\ UNCHANGED <<version, query.inVain>>
<1> USE DEF SyncTypeOK, Queries, stream
<1>1. CASE UNCHANGED vars
  BY <1>1 DEF vars
<1>2. CASE Commit \/ Mutate \/ Publish
  BY <1>2 DEF Commit, Mutate, Publish
<1>3. CASE Provider \/ ConnectionFails \/ Stall \/ Reply
  BY <1>3 DEF Provider, Connect, Consume, Watchdog, HealthTimeout, SessionEnds,
              ConnectionFails, Stall, Reply
<1>4. CASE Handler
  BY <1>4 DEF Handler, Listen, Ready, Change, Heartbeat
<1>5. CASE Hide \/ Show
  BY <1>5 DEF Hide, Show
<1>6. CASE Invalidate \/ Poll \/ Fetch \/ AnswerLost
  BY <1>6 DEF Invalidate, Poll, PollingInterval, Fetch, Read, Answer, AnswerLost, Fetching,
              FirstFetch
<1> QED BY <1>1, <1>2, <1>3, <1>4, <1>5, <1>6 DEF Next

\* SyncInv is inductive.
LEMMA SyncStep == SyncInv /\ [Next]_vars => SyncInv'
<1> SUFFICES ASSUME SyncInv, [Next]_vars PROVE ReadIsFollowed' /\ MissedChangeHasCause'
  BY SyncTypes, CountedStep DEF SyncInv
<1>0. SyncTypeOK /\ Counted /\ ReadIsFollowed /\ MissedChangeHasCause
  BY DEF SyncInv
<1>1. ReadIsFollowed'
  <2> SUFFICES ASSUME visible', AllNoticed', query'.phase = "read", query'.read # version',
                      ~Hinted', ~query'.inVain
               PROVE  FALSE
    BY DEF ReadIsFollowed
  <2>1. ~Invalidate
    <3>1. Invalidate => query'.phase = "sent" \/ query'.inVain
      BY <1>0 DEF Invalidate, Fetching, FirstFetch, SyncTypeOK, Queries
    <3> QED BY <3>1
  <2>2. ~Hinted /\ visible /\ AllNoticed /\ UNCHANGED version
    BY <1>0, <2>1, HintsLast
  <2>3. UNCHANGED query
    BY <1>0, <2>2, QuerySteps
  <2> QED BY <1>0, <2>2, <2>3 DEF ReadIsFollowed
<1>2. MissedChangeHasCause'
  <2> SUFFICES ASSUME visible', AllNoticed', query'.data # version', ~Hinted',
                      query'.phase # "sent", query'.read # version', ~query'.failed,
                      ~query'.inVain
               PROVE  FALSE
    BY DEF MissedChangeHasCause, Hinted, AllNoticed
  <2>1. ~Invalidate
    <3>1. Invalidate => query'.phase = "sent" \/ query'.inVain
      BY <1>0 DEF Invalidate, Fetching, FirstFetch, SyncTypeOK, Queries
    <3> QED BY <3>1
  <2>2. ~Hinted /\ visible /\ AllNoticed /\ UNCHANGED version
    BY <1>0, <2>1, HintsLast
  <2>3. CASE UNCHANGED query
    BY <1>0, <2>2, <2>3 DEF MissedChangeHasCause, Hinted, AllNoticed
  <2>4. CASE query.phase = "read" /\ query'.data = query.read /\ UNCHANGED query.inVain
    BY <1>0, <2>2, <2>4 DEF ReadIsFollowed
  <2> QED BY <1>0, <2>2, <2>3, <2>4, QuerySteps
<1> QED BY <1>1, <1>2

\* However commits, notices, streams, timers and requests interleave, and
\* whatever of them is lost, a page that shows less than was committed has it
\* in the hub's queue, as a revision not seen yet, in the provider's timer or in
\* a request, or else knows that an answer was lost; unless a notice was, or the
\* pass of the notice fell in vain on the page's first fetch.
THEOREM MissedChangesHaveCauses == Spec => []MissedChangeHasCause
<1>1. SyncInv => MissedChangeHasCause
  BY DEF SyncInv
<1> QED BY <1>1, SyncInit, SyncStep, PTL DEF Spec
=============================================================================
