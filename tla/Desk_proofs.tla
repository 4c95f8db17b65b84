---------------------------- MODULE Desk_proofs ----------------------------
(***************************************************************************)
(* Proofs about Desk: the stream of quotes on both of its sides, the keys  *)
(* and the tickets of orders, the tables of the orders page and its note,  *)
(* the watchlist, the chart with the price beside it, the statements of an *)
(* account, the journal, the cards, the review of a ticket, the pages of   *)
(* the market and the figures of an account.  A part keeps its state to    *)
(* itself, so each has an inductive invariant of its own, and a step of    *)
(* the desk is a step of the part or leaves it as it is.                   *)
(***************************************************************************)
EXTENDS Desk, SequenceTheorems, FiniteSetTheorems, TLAPS

-----------------------------------------------------------------------------
\* Naturals and sequences.

\* Every set of naturals that has an element has a least one.
LEMMA LeastNatural ==
  ASSUME NEW T \in SUBSET Nat, NEW n \in T
  PROVE  \E m \in T : \A k \in T : m <= k
<1> DEFINE Top == 0..n
           Seg == { 0..i : i \in {j \in T : j <= n} }
<1>1. IsWellFoundedOn(StrictSubsetOrdering(Top), SUBSET Top)
  <2>1. IsFiniteSet(Top)
    BY FS_Interval
  <2>2. FiniteSubsetsOf(Top) = SUBSET Top
    BY <2>1, FS_FiniteSubsetsOfFinite, Zenon
  <2>3. IsWellFoundedOn(StrictSubsetOrdering(Top), FiniteSubsetsOf(Top))
    BY FS_StrictSubsetOrderingWellFounded, Zenon
  <2> QED BY <2>2, <2>3, Zenon
<1>2. Seg \subseteq SUBSET Top /\ Seg # {}
  OBVIOUS
<1>3. PICK x \in Seg : \A y \in Seg : ~ (<<y, x>> \in StrictSubsetOrdering(Top))
  <2> HIDE DEF Seg, Top
  <2> QED BY <1>1, <1>2, WFMin, Zenon
<1>4. PICK m \in T : m <= n /\ x = 0..m
  BY <1>3
<1>5. ASSUME NEW k \in T, k < m PROVE FALSE
  <2>1. 0..k \in Seg /\ 0..m \in Seg
    BY <1>4, <1>5
  <2>2. 0..k \subseteq 0..m /\ m \notin 0..k /\ m \in 0..m
    BY <1>4, <1>5
  <2>3. <<0..k, 0..m>> \in StrictSubsetOrdering(Top)
    BY <2>1, <2>2, <1>2, Zenon DEF StrictSubsetOrdering
  <2> QED BY <2>1, <2>3, <1>3, <1>4
<1> QED BY <1>4, <1>5

\* A sequence without one of its elements.
LEMMA RemovedFrom ==
  ASSUME NEW S, NEW s \in Seq(S), NEW i \in 1..Len(s)
  PROVE  LET rest == RemoveAt(s, i) IN
         /\ rest \in Seq(S) /\ Len(rest) = Len(s) - 1
         /\ \A k \in 1..Len(rest) : LET l == IF k < i THEN k ELSE k + 1 IN
              l \in 1..Len(s) /\ l # i /\ rest[k] = s[l]
<1> DEFINE n == Len(s)
           front == SubSeq(s, 1, i - 1)
           back == SubSeq(s, i + 1, n)
<1>1. n \in Nat /\ i \in 1..n /\ \A k \in 1..n : s[k] \in S
  BY ElementOfSeq
<1>2. /\ front \in Seq(S) /\ Len(front) = i - 1
      /\ \A k \in 1..i - 1 : front[k] = s[k]
  BY <1>1
<1>3. /\ back \in Seq(S) /\ Len(back) = n - i
      /\ \A k \in 1..n - i : back[k] = s[i + k]
  BY <1>1
<1> HIDE DEF n, front, back
<1>4. /\ front \o back \in Seq(S) /\ Len(front \o back) = n - 1
      /\ \A k \in 1..n - 1 : (front \o back)[k] = IF k <= i - 1 THEN front[k] ELSE back[k - (i - 1)]
  <2> DEFINE all == front \o back
  <2>1. /\ all \in Seq(S) /\ Len(all) = Len(front) + Len(back)
        /\ \A k \in 1..Len(front) + Len(back) :
             all[k] = IF k <= Len(front) THEN front[k] ELSE back[k - Len(front)]
    BY <1>2, <1>3, ConcatProperties
  <2>2. Len(front) + Len(back) = n - 1
    BY <1>1, <1>2, <1>3
  <2> HIDE DEF all
  <2>3. /\ all \in Seq(S) /\ Len(all) = n - 1
        /\ \A k \in 1..n - 1 : all[k] = IF k <= i - 1 THEN front[k] ELSE back[k - (i - 1)]
    BY <1>2, <2>1, <2>2
  <2> QED BY <2>3 DEF all
<1>5. RemoveAt(s, i) = front \o back
  BY DEF RemoveAt, front, back, n
<1> DEFINE rest == front \o back
<1>6. rest \in Seq(S) /\ Len(rest) = n - 1
  BY <1>4
<1>7. ASSUME NEW k \in 1..n - 1
      PROVE  LET l == IF k < i THEN k ELSE k + 1 IN
             l \in 1..n /\ l # i /\ rest[k] = s[l]
  <2>1. CASE k < i
    BY <1>1, <1>2, <1>4, <2>1
  <2>2. CASE ~(k < i)
    <3>1. k - (i - 1) \in 1..n - i /\ i + (k - (i - 1)) = k + 1
      BY <1>1, <2>2
    <3> QED BY <1>1, <1>3, <1>4, <2>2, <3>1
  <2> QED BY <2>1, <2>2
<1> HIDE DEF rest
<1>8. RemoveAt(s, i) = rest
  BY <1>5 DEF rest
<1>9. n = Len(s)
  BY DEF n
<1> QED BY <1>1, <1>6, <1>7, <1>8, <1>9

-----------------------------------------------------------------------------
\* The names that the stream is asked for.

Commands == [add : BOOLEAN, name : SubNames]
SubSockets == [connected : BOOLEAN, has : SUBSET SubNames, commands : Seq(Commands)]

SubsTypeOK ==
  /\ sbMounted \in [SubNames -> Nat] /\ sbViews = sbMounted
  /\ sbActive \in Seq(SubNames)
  /\ sbSelected \in SubNames /\ sbWatch \in Seq(SubNames)
  /\ sbAsked \in SUBSET SubNames /\ sbSocket \in SubSockets

\* The names of the views, each of them once.
ViewsInOrder ==
  /\ \A n \in SubNames : sbMounted[n] > 0 <=> \E i \in 1..Len(sbActive) : sbActive[i] = n
  /\ \A i, j \in 1..Len(sbActive) : sbActive[i] = sbActive[j] => i = j

\* The backend has what was asked for, but for names that commands are on their way
\* about, and a command against what is asked for has a later one of its name behind it.
Streaming(has, commands, asked) ==
  /\ \A n \in SubNames : \/ n \in has <=> n \in asked
                         \/ \E i \in 1..Len(commands) : commands[i].name = n
  /\ \A i \in 1..Len(commands) : \/ commands[i].add /\ commands[i].name \in asked
                                 \/ ~commands[i].add /\ commands[i].name \notin asked
                                 \/ \E j \in i + 1..Len(commands) : commands[j].name = commands[i].name

TargetsAsked ==
  sbSocket.connected =>
    /\ sbAsked = Targets(sbSelected, sbActive, sbWatch)
    /\ Streaming(sbSocket.has, sbSocket.commands, sbAsked)

SubsInv == SubsTypeOK /\ ViewsInOrder /\ TargetsAsked

\* A set of commands on its way is a sequence of them in some order.
LEMMA CommandsForNames ==
  ASSUME NEW add \in BOOLEAN, NEW names \in SUBSET SubNames
  PROVE  /\ CommandsFor(add, names) \in Seq(Commands)
         /\ \A i \in 1..Len(CommandsFor(add, names)) :
              /\ CommandsFor(add, names)[i].add = add
              /\ CommandsFor(add, names)[i].name \in names
         /\ \A n \in names : \E i \in 1..Len(CommandsFor(add, names)) :
              CommandsFor(add, names)[i].name = n
<1> DEFINE S == [add : {add}, name : names]
           f == [n \in names |-> [add |-> add, name |-> n]]
           k == Cardinality(S)
           s == SetToSeq(S)
<1>1. IsFiniteSet(names)
  BY SubscriptionsAssumption, FS_Subset
<1>2. f \in Surjection(names, S)
  <2>1. \A c \in S : c.name \in names /\ c = [add |-> add, name |-> c.name]
    OBVIOUS
  <2>2. f \in [names -> S]
    OBVIOUS
  <2> HIDE DEF S
  <2> QED BY <2>1, <2>2 DEF Surjection
<1>3. IsFiniteSet(S)
  BY <1>1, <1>2, FS_Surjection
<1>4. k \in Nat /\ Bijection(1..k, S) # {}
  BY <1>3, FS_CardinalityType DEF ExistsBijection
<1>5. \E g \in [1..k -> S] : IsInjective(g)
  BY <1>4 DEF Bijection, Injection
<1>6. s \in [1..k -> S] /\ IsInjective(s)
  BY <1>5 DEF SetToSeq
<1>7. s \in Surjection(1..k, S)
  <2>1. s \in Injection(1..k, S)
    BY <1>6 DEF Injection
  <2>2. Cardinality(1..k) = k
    <3>1. ExistsBijection(1..k, 1..k)
      <4>1. [i \in 1..k |-> i] \in Bijection(1..k, 1..k)
        BY DEF Bijection, Injection, Surjection, IsInjective
      <4> QED BY <4>1 DEF ExistsBijection
    <3> QED BY <1>4, <3>1, FS_CountingElements
  <2> HIDE DEF s, S
  <2> QED BY <1>3, <2>1, <2>2, FS_Injection
<1>8. CommandsFor(add, names) = s
  BY DEF CommandsFor
<1>9. S \subseteq Commands
  BY DEF Commands
<1>10. \A c \in S : c.add = add /\ c.name \in names
  OBVIOUS
<1>11. \A n \in names : \E i \in 1..k : s[i].name = n
  <2> TAKE n \in names
  <2> DEFINE c == [add |-> add, name |-> n]
  <2>1. c \in S /\ c.name = n
    OBVIOUS
  <2> HIDE DEF s, S, k, c
  <2>2. PICK i \in 1..k : s[i] = c
    BY <1>7, <2>1 DEF Surjection
  <2> QED BY <2>1, <2>2
<1> HIDE DEF s, S, k
<1>12. s \in Seq(Commands) /\ Len(s) = k
  BY <1>4, <1>6, <1>9
<1> QED BY <1>6, <1>8, <1>10, <1>11, <1>12

\* Names that are asked for, or given up, by commands behind the ones on their way.
LEMMA Asking ==
  ASSUME NEW has \in SUBSET SubNames, NEW commands \in Seq(Commands),
         NEW asked \in SUBSET SubNames, NEW add \in BOOLEAN, NEW names \in SUBSET SubNames,
         Streaming(has, commands, asked)
  PROVE  /\ commands \o CommandsFor(add, names) \in Seq(Commands)
         /\ Streaming(has, commands \o CommandsFor(add, names),
                      IF add THEN asked \cup names ELSE asked \ names)
<1> DEFINE more == CommandsFor(add, names)
           all == commands \o more
           now == IF add THEN asked \cup names ELSE asked \ names
<1>1. more \in Seq(Commands) /\ Len(more) \in Nat
  BY CommandsForNames
<1>2. \A i \in 1..Len(more) : more[i].add = add /\ more[i].name \in names
  BY CommandsForNames
<1>3. \A n \in names : \E i \in 1..Len(more) : more[i].name = n
  BY CommandsForNames
<1> HIDE DEF more
<1>4. /\ all \in Seq(Commands) /\ Len(all) = Len(commands) + Len(more) /\ Len(commands) \in Nat
      /\ \A i \in 1..Len(commands) : all[i] = commands[i]
      /\ \A i \in 1..Len(more) : all[Len(commands) + i] = more[i]
      /\ \A i \in Len(commands) + 1..Len(all) : all[i] = more[i - Len(commands)]
  BY <1>1, ConcatProperties
<1>5. \A n \in SubNames \ names : n \in now <=> n \in asked
  OBVIOUS
<1>6. \A n \in names : n \in now <=> add
  OBVIOUS
<1> HIDE DEF all, now
<1>7. \A n \in names : \E i \in Len(commands) + 1..Len(all) : all[i].name = n
  <2> TAKE n \in names
  <2>1. PICK i \in 1..Len(more) : more[i].name = n
    BY <1>3
  <2>2. Len(commands) + i \in Len(commands) + 1..Len(all) /\ all[Len(commands) + i].name = n
    BY <1>1, <1>4, <2>1
  <2> QED BY <2>2
<1>8. ASSUME NEW n \in SubNames
      PROVE  (n \in has <=> n \in now) \/ \E i \in 1..Len(all) : all[i].name = n
  <2>1. CASE n \in names
    BY <1>1, <1>4, <1>7, <2>1
  <2>2. CASE n \notin names /\ \E i \in 1..Len(commands) : commands[i].name = n
    <3>1. PICK i \in 1..Len(commands) : commands[i].name = n
      BY <2>2
    <3>2. i \in 1..Len(all) /\ all[i].name = n
      BY <1>1, <1>4, <3>1
    <3> QED BY <3>2
  <2>3. CASE n \notin names /\ ~\E i \in 1..Len(commands) : commands[i].name = n
    BY <1>5, <2>3 DEF Streaming
  <2> QED BY <2>1, <2>2, <2>3
<1>9. ASSUME NEW i \in 1..Len(all)
      PROVE  \/ all[i].add /\ all[i].name \in now
             \/ ~all[i].add /\ all[i].name \notin now
             \/ \E j \in i + 1..Len(all) : all[j].name = all[i].name
  <2>1. CASE i \in 1..Len(commands) /\ all[i].name \in names
    <3>1. PICK j \in Len(commands) + 1..Len(all) : all[j].name = all[i].name
      BY <1>7, <2>1
    <3>2. j \in i + 1..Len(all)
      BY <1>1, <1>4, <2>1, <3>1
    <3> QED BY <3>1, <3>2
  <2>2. CASE i \in 1..Len(commands) /\ all[i].name \notin names
    <3>0. commands[i] \in Commands
      BY <2>2, ElementOfSeq
    <3>1. all[i] = commands[i] /\ commands[i].name \in SubNames
      BY <1>4, <2>2, <3>0 DEF Commands
    <3>2. CASE \E j \in i + 1..Len(commands) : commands[j].name = commands[i].name
      <4>1. PICK j \in i + 1..Len(commands) : commands[j].name = commands[i].name
        BY <3>2
      <4>2. j \in i + 1..Len(all) /\ all[j] = commands[j]
        BY <1>1, <1>4, <2>2, <4>1
      <4> QED BY <3>1, <4>1, <4>2
    <3>3. CASE ~\E j \in i + 1..Len(commands) : commands[j].name = commands[i].name
      BY <1>5, <2>2, <3>1, <3>3 DEF Streaming
    <3> QED BY <3>2, <3>3
  <2>3. CASE i \notin 1..Len(commands)
    <3>1. i - Len(commands) \in 1..Len(more) /\ all[i] = more[i - Len(commands)]
      BY <1>1, <1>4, <2>3
    <3>2. all[i].add = add /\ all[i].name \in names
      BY <1>2, <3>1
    <3> QED BY <1>6, <3>2
  <2> QED BY <2>1, <2>2, <2>3
<1>10. all \in Seq(Commands) /\ Streaming(has, all, now)
  BY <1>4, <1>8, <1>9 DEF Streaming
<1> QED BY <1>10 DEF all, now, more


\* What is asked for has names only.
LEMMA TargetsAreNames ==
  ASSUME NEW selected \in SubNames, NEW active \in Seq(SubNames), NEW watch \in Seq(SubNames)
  PROVE  Targets(selected, active, watch) \in SUBSET SubNames
<1> DEFINE list == Benchmarks \o <<selected>> \o active \o watch
<1>1. <<selected>> \in Seq(SubNames) /\ Benchmarks \in Seq(SubNames)
  BY SubscriptionsAssumption
<1>2. Benchmarks \o <<selected>> \in Seq(SubNames)
  BY <1>1, ConcatProperties
<1>3. Benchmarks \o <<selected>> \o active \in Seq(SubNames)
  BY <1>2, ConcatProperties
<1>4. list \in Seq(SubNames)
  BY <1>3, ConcatProperties
<1> HIDE DEF list
<1>5. FirstNames(list) \in SUBSET SubNames
  <2>1. DOMAIN list = 1..Len(list) /\ \A i \in 1..Len(list) : list[i] \in SubNames
    BY <1>4, ElementOfSeq
  <2> QED BY <2>1 DEF FirstNames
<1> QED BY <1>5 DEF Targets, list

\* syncSubscriptions sends what makes the stream follow the page.
LEMMA Syncing ==
  ASSUME NEW socket \in SubSockets, NEW asked \in SUBSET SubNames,
         socket.connected => Streaming(socket.has, socket.commands, asked),
         sbMounted' \in [SubNames -> Nat], sbViews' = sbMounted', sbActive' \in Seq(SubNames),
         sbSelected' \in SubNames, sbWatch' \in Seq(SubNames), ViewsInOrder',
         Sync(socket, asked)
  PROVE  SubsInv'
<1> DEFINE target == Targets(sbSelected', sbActive', sbWatch')
<1>1. target \in SUBSET SubNames
  BY TargetsAreNames
<1>2. /\ socket.has \in SUBSET SubNames /\ socket.commands \in Seq(Commands)
      /\ socket.connected \in BOOLEAN
  BY DEF SubSockets
<1>3. Sync(socket, asked) => 
        /\ socket.connected =>
             /\ sbSocket' = [socket EXCEPT !.commands =
                  @ \o CommandsFor(FALSE, asked \ target) \o CommandsFor(TRUE, target \ asked)]
             /\ sbAsked' = target
        /\ ~socket.connected => sbSocket' = socket /\ sbAsked' = asked
  BY DEF Sync
<1> HIDE DEF target
<1>4. CASE socket.connected
  <2> DEFINE left == socket.commands \o CommandsFor(FALSE, asked \ target)
             all == left \o CommandsFor(TRUE, target \ asked)
  <2>1. left \in Seq(Commands) /\ Streaming(socket.has, left, asked \ (asked \ target))
    <3>1. asked \ target \in SUBSET SubNames
      BY <1>1
    <3>2. /\ left \in Seq(Commands)
          /\ Streaming(socket.has, left, IF FALSE THEN asked \cup (asked \ target)
                                                  ELSE asked \ (asked \ target))
      BY <1>2, <1>4, <3>1, Asking
    <3> QED BY <3>2
  <2>2. all \in Seq(Commands) /\ Streaming(socket.has, all, target)
    <3>1. target \ asked \in SUBSET SubNames /\ asked \ (asked \ target) \in SUBSET SubNames
      BY <1>1
    <3> HIDE DEF left
    <3>2. /\ all \in Seq(Commands)
          /\ Streaming(socket.has, all, IF TRUE THEN (asked \ (asked \ target)) \cup (target \ asked)
                                        ELSE (asked \ (asked \ target)) \ (target \ asked))
      BY <1>2, <2>1, <3>1, Asking
    <3>3. (asked \ (asked \ target)) \cup (target \ asked) = target
      OBVIOUS
    <3> QED BY <3>2, <3>3
  <2>3. sbSocket' = [socket EXCEPT !.commands = all] /\ sbAsked' = target
    BY <1>3, <1>4
  <2> HIDE DEF all
  <2>4. sbSocket' \in SubSockets /\ sbSocket'.has = socket.has /\ sbSocket'.commands = all
    BY <1>2, <2>2, <2>3 DEF SubSockets
  <2>5. SubsTypeOK'
    BY <1>1, <2>3, <2>4 DEF SubsTypeOK
  <2>6. TargetsAsked'
    BY <2>2, <2>3, <2>4 DEF TargetsAsked, target
  <2> QED BY <2>5, <2>6 DEF SubsInv
<1>5. CASE ~socket.connected
  <2>1. SubsTypeOK' /\ TargetsAsked'
    BY <1>3, <1>5 DEF SubsTypeOK, TargetsAsked
  <2> QED BY <2>1 DEF SubsInv
<1> QED BY <1>4, <1>5

\* A command that is handled was the first on its way.
LEMMA FirstHandled == SubsInv /\ SubsHandled => SubsInv'
<1> SUFFICES ASSUME SubsInv, SubsHandled PROVE SubsInv'
  OBVIOUS
<1> DEFINE commands == sbSocket.commands
           c == Head(commands)
           rest == Tail(commands)
           has == IF c.add THEN sbSocket.has \cup {c.name} ELSE sbSocket.has \ {c.name}
<1>0. sbSocket \in SubSockets
  BY DEF SubsInv, SubsTypeOK
<1>1. /\ commands \in Seq(Commands) /\ commands # <<>> /\ sbSocket.has \in SUBSET SubNames
      /\ Len(commands) \in Nat
  BY <1>0 DEF SubsHandled, SubSockets
<1>2. /\ c \in Commands /\ c = commands[1] /\ rest \in Seq(Commands)
      /\ Len(rest) = Len(commands) - 1 /\ Len(commands) >= 1
      /\ \A i \in 1..Len(rest) : rest[i] = commands[i + 1]
  BY <1>1, HeadTailProperties
<1>3. c.name \in SubNames /\ c.add \in BOOLEAN
  BY <1>2 DEF Commands
<1>4. has \in SUBSET SubNames
  BY <1>1, <1>3
<1>5. sbSocket' = [sbSocket EXCEPT !.commands = rest, !.has = has]
  BY DEF SubsHandled
<1>6. sbSocket' \in SubSockets /\ sbSocket'.connected = sbSocket.connected
      /\ sbSocket'.has = has /\ sbSocket'.commands = rest
  <2> HIDE DEF has, rest
  <2> QED BY <1>0, <1>2, <1>4, <1>5 DEF SubSockets
<1>7. UNCHANGED <<sbMounted, sbViews, sbActive, sbSelected, sbWatch, sbAsked>>
  BY DEF SubsHandled
<1>8. ASSUME Streaming(sbSocket.has, commands, sbAsked) PROVE Streaming(has, rest, sbAsked)
  <2>1. ASSUME NEW n \in SubNames
        PROVE  (n \in has <=> n \in sbAsked) \/ \E i \in 1..Len(rest) : rest[i].name = n
    <3>1. CASE \E i \in 2..Len(commands) : commands[i].name = n
      <4>1. PICK i \in 2..Len(commands) : commands[i].name = n
        BY <3>1
      <4>2. i - 1 \in 1..Len(rest) /\ rest[i - 1].name = n
        BY <1>1, <1>2, <4>1
      <4> QED BY <4>2
    <3>2. CASE n = c.name /\ ~\E i \in 2..Len(commands) : commands[i].name = n
      <4>1. \/ commands[1].add /\ commands[1].name \in sbAsked
            \/ ~commands[1].add /\ commands[1].name \notin sbAsked
        BY <1>1, <1>2, <1>8, <3>2 DEF Streaming
      <4> QED BY <1>2, <3>2, <4>1
    <3>3. CASE n # c.name /\ ~\E i \in 2..Len(commands) : commands[i].name = n
      <4>1. ~\E i \in 1..Len(commands) : commands[i].name = n
        BY <1>1, <1>2, <3>3
      <4>2. n \in sbSocket.has <=> n \in sbAsked
        BY <1>8, <4>1 DEF Streaming
      <4> QED BY <3>3, <4>2
    <3> QED BY <3>1, <3>2, <3>3
  <2>2. ASSUME NEW i \in 1..Len(rest)
        PROVE  \/ rest[i].add /\ rest[i].name \in sbAsked
               \/ ~rest[i].add /\ rest[i].name \notin sbAsked
               \/ \E j \in i + 1..Len(rest) : rest[j].name = rest[i].name
    <3>1. i + 1 \in 1..Len(commands) /\ rest[i] = commands[i + 1]
      BY <1>1, <1>2
    <3>2. CASE \E j \in (i + 1) + 1..Len(commands) : commands[j].name = commands[i + 1].name
      <4>1. PICK j \in (i + 1) + 1..Len(commands) : commands[j].name = commands[i + 1].name
        BY <3>2
      <4>2. j - 1 \in i + 1..Len(rest) /\ rest[j - 1] = commands[j]
        BY <1>1, <1>2, <4>1
      <4> QED BY <3>1, <4>1, <4>2
    <3>3. CASE ~\E j \in (i + 1) + 1..Len(commands) : commands[j].name = commands[i + 1].name
      BY <1>8, <3>1, <3>3 DEF Streaming
    <3> QED BY <3>2, <3>3
  <2> HIDE DEF has, rest
  <2> QED BY <2>1, <2>2 DEF Streaming
<1> HIDE DEF has, rest
<1>9. SubsTypeOK' /\ ViewsInOrder' /\ TargetsAsked'
  BY <1>6, <1>7, <1>8 DEF SubsInv, SubsTypeOK, ViewsInOrder, TargetsAsked
<1> QED BY <1>9 DEF SubsInv

\* A name that comes in is the last of the views.
LEMMA MountStep == ASSUME SubsInv, NEW n \in SubNames, Mount(n) PROVE SubsInv'
<1>0. SubsTypeOK /\ ViewsInOrder /\ TargetsAsked
  BY DEF SubsInv
<1>1. sbMounted' \in [SubNames -> Nat] /\ sbViews' = sbMounted'
  BY <1>0 DEF Mount, SubsTypeOK
<1>2. /\ sbMounted[n] \in Nat /\ sbActive \in Seq(SubNames) /\ Len(sbActive) \in Nat
      /\ \A i \in 1..Len(sbActive) : sbActive[i] \in SubNames
  BY <1>0, ElementOfSeq DEF SubsTypeOK
<1>3. CASE sbMounted[n] = 0
  <2>1. sbActive' = Append(sbActive, n)
    BY <1>0, <1>3 DEF Mount, SubsTypeOK
  <2>2. /\ sbActive' \in Seq(SubNames) /\ Len(sbActive') = Len(sbActive) + 1
        /\ \A i \in 1..Len(sbActive) : sbActive'[i] = sbActive[i]
        /\ sbActive'[Len(sbActive) + 1] = n
    BY <1>2, <2>1, AppendProperties
  <2>3. \A i \in 1..Len(sbActive) : sbActive[i] # n
    BY <1>0, <1>2, <1>3 DEF ViewsInOrder
  <2>4. ASSUME NEW m \in SubNames
        PROVE  sbMounted'[m] > 0 <=> \E i \in 1..Len(sbActive') : sbActive'[i] = m
    <3>1. CASE m = n
      <4>1. Len(sbActive) + 1 \in 1..Len(sbActive')
        BY <1>2, <2>2
      <4>2. sbMounted'[m] = 1
        BY <1>0, <1>3, <3>1 DEF Mount, SubsTypeOK
      <4> QED BY <2>2, <3>1, <4>1, <4>2
    <3>2. CASE m # n
      <4>1. sbMounted'[m] = sbMounted[m]
        BY <1>0, <3>2 DEF Mount, SubsTypeOK
      <4>2. (\E i \in 1..Len(sbActive') : sbActive'[i] = m) <=> \E i \in 1..Len(sbActive) : sbActive[i] = m
        BY <1>2, <2>2, <3>2
      <4> QED BY <1>0, <4>1, <4>2 DEF ViewsInOrder
    <3> QED BY <3>1, <3>2
  <2>5. ASSUME NEW i \in 1..Len(sbActive'), NEW j \in 1..Len(sbActive'), sbActive'[i] = sbActive'[j]
        PROVE  i = j
    <3>1. (i \in 1..Len(sbActive) \/ i = Len(sbActive) + 1) /\ (j \in 1..Len(sbActive) \/ j = Len(sbActive) + 1)
      BY <1>2, <2>2
    <3> QED BY <1>0, <2>2, <2>3, <2>5, <3>1 DEF ViewsInOrder
  <2>6. ViewsInOrder'
    BY <2>4, <2>5 DEF ViewsInOrder
  <2> QED BY <1>0, <1>1, <2>2, <2>6, Syncing DEF Mount, CanSync, SubsTypeOK, TargetsAsked
<1>4. CASE sbMounted[n] # 0
  <2>1. sbActive' = sbActive
    BY <1>0, <1>4 DEF Mount, SubsTypeOK
  <2>2. \A m \in SubNames : sbMounted'[m] > 0 <=> sbMounted[m] > 0
    BY <1>0, <1>2, <1>4 DEF Mount, SubsTypeOK
  <2>3. ViewsInOrder'
    BY <1>0, <2>1, <2>2 DEF ViewsInOrder
  <2> QED BY <1>0, <1>1, <1>2, <2>1, <2>3, Syncing DEF Mount, CanSync, SubsTypeOK, TargetsAsked
<1> QED BY <1>3, <1>4

\* The last view of a name takes it out of the views.
LEMMA UnmountStep == ASSUME SubsInv, NEW n \in SubNames, Unmount(n) PROVE SubsInv'
<1>0. SubsTypeOK /\ ViewsInOrder /\ TargetsAsked
  BY DEF SubsInv
<1>1. /\ sbMounted[n] \in Nat /\ sbMounted[n] > 0 /\ sbActive \in Seq(SubNames) /\ Len(sbActive) \in Nat
      /\ \A i \in 1..Len(sbActive) : sbActive[i] \in SubNames
  BY <1>0, ElementOfSeq DEF SubsTypeOK, Unmount
<1>2. /\ sbMounted' = [sbMounted EXCEPT ![n] = sbMounted[n] - 1]
      /\ sbViews' = [sbViews EXCEPT ![n] = IF sbMounted[n] > 1 THEN sbMounted[n] - 1 ELSE 0]
  BY <1>0 DEF Unmount, UnregisterView, SubsTypeOK
<1>3. (IF sbMounted[n] > 1 THEN sbMounted[n] - 1 ELSE 0) = sbMounted[n] - 1 /\ sbMounted[n] - 1 \in Nat
  BY <1>1
<1>4. sbMounted' \in [SubNames -> Nat] /\ sbViews' = sbMounted'
  BY <1>0, <1>2, <1>3 DEF SubsTypeOK
<1>5. CASE sbMounted[n] = 1
  <2>1. sbViews'[n] = 0
    BY <1>0, <1>2, <1>5 DEF SubsTypeOK
  <2>2. PICK i \in DOMAIN sbActive : sbActive[i] = n /\ sbActive' = RemoveAt(sbActive, i)
    BY <2>1 DEF Unmount
  <2>3. i \in 1..Len(sbActive)
    BY <1>1
  <2>4. /\ sbActive' \in Seq(SubNames) /\ Len(sbActive') = Len(sbActive) - 1
        /\ \A k \in 1..Len(sbActive') : LET l == IF k < i THEN k ELSE k + 1 IN
             l \in 1..Len(sbActive) /\ l # i /\ sbActive'[k] = sbActive[l]
    <3>1. LET rest == RemoveAt(sbActive, i) IN
          /\ rest \in Seq(SubNames) /\ Len(rest) = Len(sbActive) - 1
          /\ \A k \in 1..Len(rest) : LET l == IF k < i THEN k ELSE k + 1 IN
               l \in 1..Len(sbActive) /\ l # i /\ rest[k] = sbActive[l]
      BY <1>1, <2>3, RemovedFrom
    <3> QED BY <2>2, <3>1, Zenon
  <2>5. \A k \in 1..Len(sbActive) : sbActive[k] = n => k = i
    BY <1>0, <2>2, <2>3 DEF ViewsInOrder
  <2>6. ASSUME NEW m \in SubNames
        PROVE  sbMounted'[m] > 0 <=> \E k \in 1..Len(sbActive') : sbActive'[k] = m
    <3>1. CASE m = n
      <4>1. sbMounted'[m] = 0
        BY <1>0, <1>2, <1>5, <3>1 DEF SubsTypeOK
      <4>2. \A k \in 1..Len(sbActive') : sbActive'[k] # n
        BY <2>4, <2>5
      <4> QED BY <3>1, <4>1, <4>2
    <3>2. CASE m # n
      <4>1. sbMounted'[m] = sbMounted[m]
        BY <1>0, <1>2, <3>2 DEF SubsTypeOK
      <4>2. ASSUME NEW k \in 1..Len(sbActive), sbActive[k] = m
            PROVE  \E l \in 1..Len(sbActive') : sbActive'[l] = m
        <5>1. k # i
          BY <2>2, <3>2, <4>2
        <5> DEFINE l == IF k < i THEN k ELSE k - 1
        <5>2. l \in 1..Len(sbActive') /\ (IF l < i THEN l ELSE l + 1) = k
          BY <1>1, <2>3, <2>4, <5>1
        <5> HIDE DEF l
        <5>3. sbActive'[l] = sbActive[k]
          BY <2>4, <5>2
        <5> QED BY <4>2, <5>2, <5>3
      <4>3. (\E k \in 1..Len(sbActive') : sbActive'[k] = m) => \E k \in 1..Len(sbActive) : sbActive[k] = m
        BY <2>4
      <4> QED BY <1>0, <4>1, <4>2, <4>3 DEF ViewsInOrder
    <3> QED BY <3>1, <3>2
  <2>7. ASSUME NEW j \in 1..Len(sbActive'), NEW k \in 1..Len(sbActive'), sbActive'[j] = sbActive'[k]
        PROVE  j = k
    <3>1. (IF j < i THEN j ELSE j + 1) = (IF k < i THEN k ELSE k + 1)
      BY <1>0, <2>4, <2>7 DEF ViewsInOrder
    <3>2. j \in Nat /\ k \in Nat /\ i \in Nat
      BY <2>3
    <3> QED BY <3>1, <3>2
  <2>8. ViewsInOrder'
    BY <2>6, <2>7 DEF ViewsInOrder
  <2> QED BY <1>0, <1>4, <2>4, <2>8, Syncing DEF Unmount, CanSync, SubsTypeOK, TargetsAsked
<1>6. CASE sbMounted[n] # 1
  <2>1. sbViews'[n] # 0
    BY <1>0, <1>1, <1>2, <1>6 DEF SubsTypeOK
  <2>2. sbActive' = sbActive
    BY <2>1 DEF Unmount
  <2>3. \A m \in SubNames : sbMounted'[m] > 0 <=> sbMounted[m] > 0
    BY <1>0, <1>1, <1>2, <1>6 DEF SubsTypeOK
  <2>4. ViewsInOrder'
    BY <1>0, <2>2, <2>3 DEF ViewsInOrder
  <2> QED BY <1>0, <1>1, <1>4, <2>2, <2>4, Syncing DEF Unmount, CanSync, SubsTypeOK, TargetsAsked
<1> QED BY <1>5, <1>6

LEMMA SubsStart == SubscriptionsInit => SubsInv
<1> SUFFICES ASSUME SubscriptionsInit PROVE SubsInv
  OBVIOUS
<1>1. sbSocket \in SubSockets /\ ~sbSocket.connected
  BY DEF SubscriptionsInit, Unconnected, SubSockets
<1>2. SubsTypeOK
  BY <1>1, SubscriptionsAssumption DEF SubscriptionsInit, SubsTypeOK
<1>3. ViewsInOrder
  BY DEF SubscriptionsInit, ViewsInOrder
<1> QED BY <1>1, <1>2, <1>3 DEF SubsInv, TargetsAsked

LEMMA SubsStep == SubsInv /\ [SubscriptionsNext]_sbVars => SubsInv'
<1> SUFFICES ASSUME SubsInv, [SubscriptionsNext]_sbVars PROVE SubsInv'
  OBVIOUS
<1>0. SubsTypeOK /\ ViewsInOrder /\ TargetsAsked
  BY DEF SubsInv
<1>1. ASSUME UNCHANGED <<sbMounted, sbViews, sbActive>>, CanSync,
             sbSelected' \in SubNames, sbWatch' \in Seq(SubNames)
      PROVE  SubsInv'
  <2>1. ViewsInOrder'
    BY <1>0, <1>1 DEF ViewsInOrder
  <2> QED BY <1>0, <1>1, <2>1, Syncing DEF CanSync, SubsTypeOK, TargetsAsked
<1>2. ASSUME NEW n \in SubNames, Select(n) PROVE SubsInv'
  BY <1>0, <1>1, <1>2 DEF Select, SubsTypeOK
<1>3. CASE Watch
  BY <1>0, <1>1, <1>3, SubscriptionsAssumption DEF Watch, SubsTypeOK
<1>4. CASE SubsConnected
  <2> DEFINE socket == [Unconnected EXCEPT !.connected = TRUE]
  <2>1. socket \in SubSockets /\ socket.has = {} /\ socket.commands = <<>>
    <3>1. Unconnected \in SubSockets /\ Unconnected.has = {} /\ Unconnected.commands = <<>>
      BY DEF Unconnected, SubSockets
    <3> QED BY <3>1 DEF SubSockets
  <2>2. Sync(socket, {}) /\ UNCHANGED <<sbMounted, sbViews, sbActive, sbSelected, sbWatch>>
    BY <1>4 DEF SubsConnected
  <2> HIDE DEF socket
  <2>3. Streaming(socket.has, socket.commands, {})
    BY <2>1 DEF Streaming
  <2>4. ViewsInOrder'
    BY <1>0, <2>2 DEF ViewsInOrder
  <2> QED BY <1>0, <2>1, <2>2, <2>3, <2>4, Syncing DEF SubsTypeOK
<1>5. CASE SubsDisconnected
  <2>1. sbSocket' \in SubSockets /\ ~sbSocket'.connected /\ sbAsked' = {}
    BY <1>5 DEF SubsDisconnected, Unconnected, SubSockets
  <2>2. UNCHANGED <<sbMounted, sbViews, sbActive, sbSelected, sbWatch>>
    BY <1>5 DEF SubsDisconnected
  <2> QED BY <1>0, <2>1, <2>2 DEF SubsInv, SubsTypeOK, ViewsInOrder, TargetsAsked
<1>6. CASE UNCHANGED sbVars
  BY <1>0, <1>6 DEF SubsInv, sbVars, SubsTypeOK, ViewsInOrder, TargetsAsked
<1> QED BY <1>2, <1>3, <1>4, <1>5, <1>6, FirstHandled, MountStep, UnmountStep DEF SubscriptionsNext


\* A list is cut where the names before are as many as the limit, or not at all.
LEMMA CutAtLimit ==
  ASSUME NEW list \in Seq(SubNames)
  PROVE  \E j \in 1..Len(list) + 1 :
           /\ FirstNames(list) = {list[k] : k \in 1..j - 1}
           /\ Cardinality(FirstNames(list)) <= MaxTargets
           /\ j = Len(list) + 1 \/ Cardinality(FirstNames(list)) = MaxTargets
<1> DEFINE n == Len(list)
           Before(j) == {list[k] : k \in 1..j - 1}
           M == MaxTargets
           Full == {j \in 1..n : ~(Cardinality(Before(j)) < M)}
<1>1. n \in Nat /\ M \in Nat /\ M > 0 /\ DOMAIN list = 1..n
  BY SubscriptionsAssumption
<1>2. \A j \in 1..n + 1 : Before(j) \in SUBSET SubNames
  <2> TAKE j \in 1..n + 1
  <2>1. \A k \in 1..j - 1 : list[k] \in SubNames
    BY <1>1, ElementOfSeq
  <2> QED BY <2>1
<1>3. \A j \in 1..n + 1 : IsFiniteSet(Before(j)) /\ Cardinality(Before(j)) \in Nat
  <2> HIDE DEF Before
  <2> QED BY <1>2, SubscriptionsAssumption, FS_Subset, FS_CardinalityType
<1>4. Before(1) = {}
  OBVIOUS
<1>5. Cardinality(Before(1)) = 0
  BY <1>4, FS_EmptySet
<1>6. \A i, j \in 1..n + 1 : i <= j => Before(i) \in SUBSET Before(j)
  BY <1>1
<1>7. \A i, j \in 1..n + 1 : i <= j => Cardinality(Before(i)) <= Cardinality(Before(j))
  <2> HIDE DEF Before
  <2> QED BY <1>3, <1>6, FS_Subset
<1>8. \A j \in 1..n : Before(j + 1) = Before(j) \cup {list[j]}
  <2> TAKE j \in 1..n
  <2>1. \A k \in 1..(j + 1) - 1 : k = j \/ k \in 1..j - 1
    BY <1>1
  <2>2. j \in 1..(j + 1) - 1 /\ \A k \in 1..j - 1 : k \in 1..(j + 1) - 1
    BY <1>1
  <2> QED BY <2>1, <2>2
<1>9. \A j \in 1..n : Cardinality(Before(j + 1)) <= Cardinality(Before(j)) + 1
  <2> TAKE j \in 1..n
  <2>1. j \in 1..n + 1
    BY <1>1
  <2>2. IsFiniteSet(Before(j)) /\ Cardinality(Before(j)) \in Nat /\ Before(j + 1) = Before(j) \cup {list[j]}
    BY <1>3, <1>8, <2>1
  <2> HIDE DEF Before
  <2>3. Cardinality(Before(j) \cup {list[j]}) =
          IF list[j] \in Before(j) THEN Cardinality(Before(j)) ELSE Cardinality(Before(j)) + 1
    BY <2>2, FS_AddElement
  <2>4. Cardinality(Before(j + 1)) =
          IF list[j] \in Before(j) THEN Cardinality(Before(j)) ELSE Cardinality(Before(j)) + 1
    BY <2>2, <2>3, Zenon
  <2> DEFINE old == Cardinality(Before(j))
             new == Cardinality(Before(j + 1))
  <2>5. old \in Nat /\ (new = old \/ new = old + 1)
    BY <2>2, <2>4
  <2> HIDE DEF old, new
  <2>6. new <= old + 1
    BY <2>5
  <2> QED BY <2>6 DEF old, new
<1>10. FirstNames(list) = {list[i] : i \in {j \in 1..n : Cardinality(Before(j)) < M}}
  BY <1>1 DEF FirstNames
<1> HIDE DEF Before, n, M
<1>11. ASSUME NEW m \in 1..n + 1,
              \A i \in 1..m - 1 : Cardinality(Before(i)) < M,
              \A i \in m..n : ~(Cardinality(Before(i)) < M)
       PROVE  FirstNames(list) = Before(m) /\ Cardinality(Before(m)) <= M
  <2>1. {j \in 1..n : Cardinality(Before(j)) < M} = 1..m - 1
    BY <1>1, <1>11
  <2>2. FirstNames(list) = Before(m)
    BY <1>10, <2>1 DEF Before
  <2>3. CASE m = 1
    <3>1. Cardinality(Before(m)) = 0
      BY <1>5, <2>3, Zenon
    <3> QED BY <1>1, <2>2, <3>1
  <2>4. CASE m # 1
    <3>1. m - 1 \in 1..n /\ (m - 1) + 1 = m /\ m - 1 \in 1..m - 1 /\ m - 1 \in 1..n + 1
      BY <1>1, <2>4
    <3>2. Cardinality(Before(m - 1)) < M /\ Cardinality(Before((m - 1) + 1)) <= Cardinality(Before(m - 1)) + 1
      BY <1>9, <1>11, <3>1
    <3>3. Cardinality(Before(m)) <= Cardinality(Before(m - 1)) + 1
      BY <3>1, <3>2
    <3>4. Cardinality(Before(m)) \in Nat /\ Cardinality(Before(m - 1)) \in Nat
      BY <1>3, <3>1
    <3>5. Cardinality(Before(m)) <= M
      BY <1>1, <3>2, <3>3, <3>4
    <3> QED BY <2>2, <3>5
  <2> QED BY <2>2, <2>3, <2>4
<1>12. CASE Full = {}
  <2>1. n + 1 \in 1..n + 1 /\ \A i \in 1..(n + 1) - 1 : i \in 1..n
    BY <1>1
  <2>2. \A i \in 1..(n + 1) - 1 : Cardinality(Before(i)) < M
    BY <1>12, <2>1
  <2>3. FirstNames(list) = Before(n + 1) /\ Cardinality(Before(n + 1)) <= M
    BY <1>1, <1>11, <2>1, <2>2
  <2> QED BY <2>1, <2>3 DEF Before, n, M
<1>13. CASE Full # {}
  <2>1. PICK m \in Full : \A k \in Full : m <= k
    <3>1. Full \in SUBSET Nat
      BY <1>1
    <3> HIDE DEF Full
    <3> QED BY <1>13, <3>1, LeastNatural
  <2>2. m \in 1..n /\ m \in 1..n + 1 /\ ~(Cardinality(Before(m)) < M)
    BY <1>1, <2>1
  <2>3. \A i \in 1..m - 1 : Cardinality(Before(i)) < M
    BY <1>1, <2>1, <2>2
  <2>4. \A i \in m..n : ~(Cardinality(Before(i)) < M)
    <3> TAKE i \in m..n
    <3>1. i \in 1..n + 1 /\ m <= i
      BY <1>1, <2>2
    <3>2. Cardinality(Before(m)) <= Cardinality(Before(i))
      BY <1>7, <2>2, <3>1
    <3>3. Cardinality(Before(m)) \in Nat /\ Cardinality(Before(i)) \in Nat
      BY <1>3, <2>2, <3>1
    <3> QED BY <1>1, <2>2, <3>2, <3>3
  <2>5. FirstNames(list) = Before(m) /\ Cardinality(Before(m)) <= M
    BY <1>11, <2>2, <2>3, <2>4
  <2>6. Cardinality(Before(m)) \in Nat
    BY <1>3, <2>2
  <2>7. Cardinality(FirstNames(list)) <= M /\ Cardinality(FirstNames(list)) = M
    BY <1>1, <2>2, <2>5, <2>6
  <2> QED BY <2>2, <2>5, <2>7 DEF Before, n, M
<1> QED BY <1>12, <1>13

\* The list that is cut: what is on the page, and then the watchlist.
LEMMA TargetList ==
  ASSUME SubsTypeOK, ViewsInOrder
  PROVE  LET page == Benchmarks \o <<sbSelected>> \o sbActive IN
         /\ page \in Seq(SubNames) /\ page \o sbWatch \in Seq(SubNames)
         /\ {page[i] : i \in 1..Len(page)} = OnPage
         /\ Targets(sbSelected, sbActive, sbWatch) = FirstNames(page \o sbWatch)
<1> DEFINE first == Benchmarks \o <<sbSelected>>
<1>1. /\ Benchmarks \in Seq(SubNames) /\ sbActive \in Seq(SubNames) /\ sbWatch \in Seq(SubNames)
      /\ sbSelected \in SubNames /\ <<sbSelected>> \in Seq(SubNames)
  BY SubscriptionsAssumption DEF SubsTypeOK
<1>2. Len(Benchmarks) \in Nat /\ Len(sbActive) \in Nat /\ Len(<<sbSelected>>) = 1 /\ <<sbSelected>>[1] = sbSelected
  BY <1>1
<1>3. /\ first \in Seq(SubNames) /\ Len(first) = Len(Benchmarks) + 1
      /\ \A i \in 1..Len(Benchmarks) + 1 :
           first[i] = IF i <= Len(Benchmarks) THEN Benchmarks[i] ELSE <<sbSelected>>[i - Len(Benchmarks)]
  BY <1>1, <1>2, ConcatProperties
<1>4. /\ \A i \in 1..Len(Benchmarks) : first[i] = Benchmarks[i]
      /\ first[Len(Benchmarks) + 1] = sbSelected
  BY <1>2, <1>3
<1> HIDE DEF first
<1> DEFINE page == first \o sbActive
<1>5. /\ page \in Seq(SubNames) /\ Len(page) = Len(first) + Len(sbActive)
      /\ \A i \in 1..Len(first) + Len(sbActive) :
           page[i] = IF i <= Len(first) THEN first[i] ELSE sbActive[i - Len(first)]
  <2>1. first \in Seq(SubNames) /\ sbActive \in Seq(SubNames)
    BY <1>1, <1>3
  <2> QED BY <2>1, ConcatProperties
<1> HIDE DEF page
<1>6. page \o sbWatch \in Seq(SubNames)
  BY <1>1, <1>5, ConcatProperties
<1>7. ASSUME NEW i \in 1..Len(page) PROVE page[i] \in OnPage
  <2>1. CASE i <= Len(Benchmarks)
    <3>1. page[i] = Benchmarks[i] /\ i \in 1..Len(Benchmarks)
      BY <1>2, <1>3, <1>4, <1>5, <2>1
    <3> QED BY <1>1, <3>1 DEF OnPage, Range
  <2>2. CASE i = Len(Benchmarks) + 1
    BY <1>2, <1>3, <1>4, <1>5, <2>2 DEF OnPage
  <2>3. CASE i > Len(Benchmarks) + 1
    <3>1. i - Len(first) \in 1..Len(sbActive) /\ page[i] = sbActive[i - Len(first)]
      BY <1>2, <1>3, <1>5, <2>3
    <3>2. page[i] \in SubNames /\ sbMounted[page[i]] > 0
      BY <1>1, <3>1, ElementOfSeq DEF ViewsInOrder
    <3> QED BY <3>2 DEF OnPage
  <2> QED BY <1>2, <1>3, <1>5, <2>1, <2>2, <2>3
<1>8. ASSUME NEW n \in OnPage PROVE \E i \in 1..Len(page) : page[i] = n
  <2>1. CASE n \in Range(Benchmarks)
    <3>1. PICK i \in 1..Len(Benchmarks) : Benchmarks[i] = n
      BY <1>1, <2>1 DEF Range
    <3>2. i \in 1..Len(page) /\ page[i] = n
      BY <1>2, <1>3, <1>4, <1>5, <3>1
    <3> QED BY <3>2
  <2>2. CASE n = sbSelected
    <3>1. Len(Benchmarks) + 1 \in 1..Len(page) /\ page[Len(Benchmarks) + 1] = n
      BY <1>2, <1>3, <1>4, <1>5, <2>2
    <3> QED BY <3>1
  <2>3. CASE n \in SubNames /\ sbMounted[n] > 0
    <3>1. PICK i \in 1..Len(sbActive) : sbActive[i] = n
      BY <2>3 DEF ViewsInOrder
    <3> DEFINE k == Len(first) + i
    <3>2. k \in 1..Len(first) + Len(sbActive) /\ ~(k <= Len(first)) /\ k - Len(first) = i
      BY <1>2, <1>3, <3>1
    <3> HIDE DEF k
    <3>3. k \in 1..Len(page) /\ page[k] = n
      BY <1>5, <3>1, <3>2
    <3> QED BY <3>3
  <2> QED BY <2>1, <2>2, <2>3 DEF OnPage
<1>9. {page[i] : i \in 1..Len(page)} = OnPage
  BY <1>7, <1>8
<1>10. Targets(sbSelected, sbActive, sbWatch) = FirstNames(page \o sbWatch)
  BY DEF Targets, page, first
<1> QED BY <1>5, <1>6, <1>9, <1>10 DEF page, first

LEMMA ScreenComesFirst == SubsInv => SubscriptionsFollowViews
<1> SUFFICES ASSUME SubsInv, sbSocket.connected
             PROVE  /\ sbAsked \subseteq Wished /\ Cardinality(sbAsked) <= MaxTargets
                    /\ sbAsked # Wished => Cardinality(sbAsked) = MaxTargets
                    /\ sbAsked \subseteq OnPage \/ OnPage \subseteq sbAsked
                    /\ sbSocket.commands = <<>> => sbSocket.has = sbAsked
  BY DEF SubscriptionsFollowViews
<1> DEFINE page == Benchmarks \o <<sbSelected>> \o sbActive
           list == page \o sbWatch
<1>1. /\ page \in Seq(SubNames) /\ list \in Seq(SubNames)
      /\ {page[i] : i \in 1..Len(page)} = OnPage
      /\ Targets(sbSelected, sbActive, sbWatch) = FirstNames(list)
  BY TargetList DEF SubsInv
<1> HIDE DEF page
<1>2. sbWatch \in Seq(SubNames) /\ Len(sbWatch) \in Nat /\ Len(page) \in Nat
  BY <1>1 DEF SubsInv, SubsTypeOK
<1>3. /\ Len(list) = Len(page) + Len(sbWatch)
      /\ \A i \in 1..Len(page) : list[i] = page[i]
      /\ \A i \in 1..Len(sbWatch) : list[Len(page) + i] = sbWatch[i]
      /\ \A i \in Len(page) + 1..Len(list) : list[i] = sbWatch[i - Len(page)]
  BY <1>1, <1>2, ConcatProperties
<1> HIDE DEF list
<1>4. sbAsked = FirstNames(list) /\ Streaming(sbSocket.has, sbSocket.commands, sbAsked)
  BY <1>1 DEF SubsInv, TargetsAsked
<1>5. {list[i] : i \in 1..Len(list)} = Wished
  <2>1. ASSUME NEW i \in 1..Len(list) PROVE list[i] \in Wished
    <3>1. CASE i \in 1..Len(page)
      BY <1>1, <1>3, <3>1 DEF Wished
    <3>2. CASE i \notin 1..Len(page)
      <4>1. i - Len(page) \in 1..Len(sbWatch) /\ list[i] = sbWatch[i - Len(page)]
        BY <1>2, <1>3, <3>2
      <4> QED BY <1>2, <4>1 DEF Wished, Range
    <3> QED BY <3>1, <3>2
  <2>2. ASSUME NEW n \in Wished PROVE \E i \in 1..Len(list) : list[i] = n
    <3>1. CASE n \in OnPage
      <4>1. PICK i \in 1..Len(page) : page[i] = n
        BY <1>1, <3>1
      <4>2. i \in 1..Len(list)
        BY <1>2, <1>3
      <4> QED BY <1>3, <4>1, <4>2
    <3>2. CASE n \in Range(sbWatch)
      <4>1. PICK i \in 1..Len(sbWatch) : sbWatch[i] = n
        BY <1>2, <3>2 DEF Range
      <4>2. Len(page) + i \in 1..Len(list)
        BY <1>2, <1>3
      <4> QED BY <1>3, <4>1, <4>2
    <3> QED BY <3>1, <3>2 DEF Wished
  <2> QED BY <2>1, <2>2
<1>6. PICK j \in 1..Len(list) + 1 :
        /\ sbAsked = {list[k] : k \in 1..j - 1}
        /\ Cardinality(sbAsked) <= MaxTargets
        /\ j = Len(list) + 1 \/ Cardinality(sbAsked) = MaxTargets
  BY <1>1, <1>4, CutAtLimit
<1>7. sbAsked \subseteq Wished
  <2>1. \A k \in 1..j - 1 : k \in 1..Len(list)
    BY <1>2, <1>3
  <2> QED BY <1>5, <1>6, <2>1
<1>8. sbAsked # Wished => Cardinality(sbAsked) = MaxTargets
  <2>1. j = Len(list) + 1 => 1..j - 1 = 1..Len(list)
    BY <1>2, <1>3
  <2> QED BY <1>5, <1>6, <2>1
<1>9. sbAsked \subseteq OnPage \/ OnPage \subseteq sbAsked
  <2>1. CASE j - 1 <= Len(page)
    <3>1. \A k \in 1..j - 1 : k \in 1..Len(page)
      BY <1>2, <2>1
    <3> QED BY <1>1, <1>3, <1>6, <3>1
  <2>2. CASE j - 1 > Len(page)
    <3>1. \A k \in 1..Len(page) : k \in 1..j - 1
      BY <1>2, <1>3, <2>2
    <3> QED BY <1>1, <1>3, <1>6, <3>1
  <2> QED BY <1>2, <1>3, <2>1, <2>2
<1>10. ASSUME sbSocket.commands = <<>> PROVE sbSocket.has = sbAsked
  <2>1. \A n \in SubNames : n \in sbSocket.has <=> n \in sbAsked
    BY <1>4, <1>10 DEF Streaming
  <2>2. sbSocket.has \in SUBSET SubNames /\ sbAsked \in SUBSET SubNames
    BY DEF SubsInv, SubsTypeOK, SubSockets
  <2> QED BY <2>1, <2>2
<1> QED BY <1>6, <1>7, <1>8, <1>9, <1>10

-----------------------------------------------------------------------------
\* The socket of the browser and the quotes it brings.

Events == [name : FeedNames, stamp : Nat]
Sockets == [open : BOOLEAN, events : Seq(Events)]
Waiting == [stamp : Nat, at : Nat]
Observations == [at : Nat, quoted : Nat]
RestAnswers == [coming : BOOLEAN, answer : Nat, at : Nat]

FeedTypeOK ==
  /\ mfNow \in Nat /\ mfTrade \in [Canons -> Nat]
  /\ mfSocket \in Sockets
  /\ mfPending \in [FeedNames -> Waiting]
  /\ mfQuotes \in [FeedNames -> Nat] /\ mfSeen \in [Canons -> Observations]
  /\ mfRest \in [FeedNames -> RestAnswers]

\* The last observation of the stream came under one of the names of its instrument, and
\* the quote of that name is at least as new.
QuotesFollow == \A c \in Canons :
  \E n \in FeedNames : CanonOf[n] = c /\ mfSeen[c].quoted <= mfQuotes[n]

FeedInv == FeedTypeOK /\ QuotesFollow

LEMMA CanonsAreNames ==
  /\ Canons \subseteq FeedNames /\ \A n \in FeedNames : CanonOf[n] \in Canons
  /\ \A c \in Canons : \E n \in FeedNames : CanonOf[n] = c
BY FeedAssumption DEF Canons

LEMMA FeedStart == MarketFeedInit => FeedInv
<1> SUFFICES ASSUME MarketFeedInit PROVE FeedInv
  OBVIOUS
<1> USE DEF MarketFeedInit
<1>1. FeedTypeOK
  BY DEF FeedTypeOK, Offline, Sockets, NoTick, Waiting, Never, Observations, RestAnswers
<1>2. QuotesFollow
  BY CanonsAreNames DEF QuotesFollow, Never
<1> QED BY <1>1, <1>2 DEF FeedInv

\* Quotes only get newer, and what was seen of the stream stays or is forgotten.
LEMMA QuoteStep ==
  ASSUME FeedInv, FeedTypeOK',
         \A n \in FeedNames : mfQuotes[n] <= mfQuotes'[n],
         \A c \in Canons : mfSeen'[c] \in {mfSeen[c], Never}
  PROVE  FeedInv'
<1>0. /\ mfQuotes \in [FeedNames -> Nat] /\ mfQuotes' \in [FeedNames -> Nat]
      /\ \A c \in Canons : mfSeen[c].quoted \in Nat
  BY DEF FeedInv, FeedTypeOK, Observations
<1>1. ASSUME NEW c \in Canons
      PROVE  \E n \in FeedNames : CanonOf[n] = c /\ mfSeen'[c].quoted <= mfQuotes'[n]
  <2>1. PICK n \in FeedNames : CanonOf[n] = c /\ mfSeen[c].quoted <= mfQuotes[n]
    BY DEF FeedInv, QuotesFollow
  <2>2. mfQuotes[n] \in Nat /\ mfQuotes'[n] \in Nat /\ mfQuotes[n] <= mfQuotes'[n]
    BY <1>0
  <2>3. mfSeen'[c].quoted \in {mfSeen[c].quoted, 0}
    BY DEF Never
  <2>4. mfSeen'[c].quoted <= mfQuotes'[n]
    BY <1>0, <2>1, <2>2, <2>3
  <2> QED BY <2>1, <2>4
<1> QED BY <1>1 DEF FeedInv, QuotesFollow

\* An event is sent, or lost for want of room.
LEMMA Sent ==
  ASSUME mfSocket \in Sockets, NEW n \in FeedNames, NEW stamp \in Nat, Send(n, stamp)
  PROVE  mfSocket' \in Sockets
<1> DEFINE e == [name |-> n, stamp |-> stamp]
<1>1. e \in Events
  BY DEF Events
<1>2. mfSocket' = mfSocket \/ mfSocket' = [mfSocket EXCEPT !.events = Append(@, e)]
  BY DEF Send
<1>3. mfSocket.events \in Seq(Events)
  BY DEF Sockets
<1> HIDE DEF e
<1>4. Append(mfSocket.events, e) \in Seq(Events)
  BY <1>1, <1>3, AppendProperties
<1> QED BY <1>2, <1>4 DEF Sockets

\* The names asked for are changed: what was seen of the others is forgotten.
LEMMA Asked ==
  ASSUME mfSeen \in [Canons -> Observations], NEW names, Ask(names)
  PROVE  /\ mfSeen' \in [Canons -> Observations]
         /\ \A c \in Canons : mfSeen'[c] \in {mfSeen[c], Never}
BY DEF Ask, Never, Observations

\* What is accepted of a tick is what is seen of it.
LEMMA Flushed ==
  ASSUME FeedInv, Flush,
         UNCHANGED <<mfNow, mfTrade, mfSocket, mfAsked, mfRest>>
  PROVE  FeedInv'
<1>0. /\ mfPending \in [FeedNames -> Waiting] /\ mfQuotes \in [FeedNames -> Nat]
      /\ mfSeen \in [Canons -> Observations]
  BY DEF FeedInv, FeedTypeOK
<1>1. mfPending' \in [FeedNames -> Waiting] /\ mfQuotes' \in [FeedNames -> Nat]
  BY <1>0 DEF Flush, NoTick, Waiting
<1>2. \A n \in FeedNames : \A seen \in Observed(mfPending[n]) :
         seen \in Observations /\ seen.quoted <= mfPending[n].stamp
  BY <1>0 DEF Observed, Never, Waiting, Observations
<1>3. \A c \in Canons :
        LET of == {n \in Accepted : CanonOf[n] = c} IN
        mfSeen'[c] \in IF of = {} THEN {mfSeen[c]} ELSE UNION {Observed(mfPending[n]) : n \in of}
  BY DEF Flush
<1>4. mfSeen' \in [Canons -> {mfSeen[c] : c \in Canons} \cup UNION {Observed(mfPending[n]) : n \in Accepted}]
  BY DEF Flush
<1>5. mfSeen' \in [Canons -> Observations]
  BY <1>0, <1>2, <1>4 DEF Accepted
<1>6. ASSUME NEW c \in Canons
      PROVE  \E n \in FeedNames : CanonOf[n] = c /\ mfSeen'[c].quoted <= mfQuotes'[n]
  <2> DEFINE of == {n \in Accepted : CanonOf[n] = c}
  <2>1. CASE of = {}
    <3>1. mfSeen'[c] = mfSeen[c]
      BY <1>3, <2>1
    <3>2. PICK n \in FeedNames : CanonOf[n] = c /\ mfSeen[c].quoted <= mfQuotes[n]
      BY DEF FeedInv, QuotesFollow
    <3>3. n \notin Accepted
      BY <2>1, <3>2
    <3>4. mfQuotes'[n] = mfQuotes[n]
      BY <3>3 DEF Flush
    <3> QED BY <3>1, <3>2, <3>4
  <2>2. CASE of # {}
    <3>1. PICK n \in of : mfSeen'[c] \in Observed(mfPending[n])
      BY <1>3, <2>2
    <3>2. n \in FeedNames /\ n \in Accepted /\ CanonOf[n] = c
      BY DEF Accepted
    <3>3. mfQuotes'[n] = mfPending[n].stamp
      BY <3>2 DEF Flush
    <3> QED BY <1>2, <3>1, <3>2, <3>3
  <2> QED BY <2>1, <2>2
<1> QED BY <1>1, <1>5, <1>6 DEF FeedInv, FeedTypeOK, QuotesFollow

LEMMA FeedStep == FeedInv /\ [MarketFeedNext]_mfVars => FeedInv'
<1> SUFFICES ASSUME FeedInv, [MarketFeedNext]_mfVars PROVE FeedInv'
  OBVIOUS
<1>0. FeedTypeOK
  BY DEF FeedInv
<1> USE DEF FeedTypeOK
<1>1. ASSUME NEW c \in Canons, Trade(c) PROVE FeedInv'
  <2>1. mfTrade' \in [Canons -> Nat]
    BY <1>0, <1>1 DEF Trade
  <2>2. mfSocket' \in Sockets
    BY <1>0, <1>1, CanonsAreNames, Sent DEF Trade
  <2> QED BY <1>0, <1>1, <2>1, <2>2, QuoteStep DEF Trade
<1>2. ASSUME NEW n \in FeedNames, SendSnapshot(n) PROVE FeedInv'
  <2>1. mfTrade[CanonOf[n]] \in Nat
    BY <1>0, CanonsAreNames
  <2>2. mfSocket' \in Sockets
    BY <1>0, <1>2, <2>1, Sent DEF SendSnapshot
  <2> QED BY <1>0, <1>2, <2>2, QuoteStep DEF SendSnapshot
<1>3. ASSUME NEW n \in FeedNames, Fetch(n) PROVE FeedInv'
  <2>1. CanonOf[n] \in Canons
    BY CanonsAreNames
  <2> DEFINE r == [mfRest[n] EXCEPT !.coming = TRUE, !.answer = mfTrade[CanonOf[n]]]
  <2>2. r \in RestAnswers
    BY <1>0, <2>1 DEF RestAnswers
  <2>3. mfRest' = [mfRest EXCEPT ![n] = r]
    BY <1>0, <1>3 DEF Fetch
  <2> HIDE DEF r
  <2>4. mfRest' \in [FeedNames -> RestAnswers]
    BY <1>0, <2>2, <2>3
  <2> QED BY <1>0, <1>3, <2>4, QuoteStep DEF Fetch
<1>4. ASSUME NEW n \in FeedNames, FetchAnswered(n) PROVE FeedInv'
  <2> DEFINE r == mfRest[n]
             done == [r EXCEPT !.coming = FALSE, !.answer = 0]
             kept == [done EXCEPT !.at = mfNow]
  <2>1. r \in RestAnswers
    BY <1>0
  <2>2. done \in RestAnswers /\ kept \in RestAnswers
    BY <1>0, <2>1 DEF RestAnswers
  <2>3. \/ mfRest' = [mfRest EXCEPT ![n] = kept] /\ mfQuotes' = [mfQuotes EXCEPT ![n] = Later(@, r.answer)]
        \/ mfRest' = [mfRest EXCEPT ![n] = done] /\ UNCHANGED mfQuotes
    BY <1>4 DEF FetchAnswered
  <2>4. UNCHANGED <<mfNow, mfTrade, mfSocket, mfAsked, mfPending, mfSeen>>
    BY <1>4 DEF FetchAnswered
  <2>5. r.answer \in Nat
    BY <2>1 DEF RestAnswers
  <2> HIDE DEF done, kept, r
  <2>6. mfRest' \in [FeedNames -> RestAnswers]
    BY <1>0, <2>2, <2>3
  <2>7. mfQuotes' \in [FeedNames -> Nat] /\ \A m \in FeedNames : mfQuotes[m] <= mfQuotes'[m]
    BY <1>0, <2>3, <2>5 DEF Later
  <2> QED BY <1>0, <2>4, <2>6, <2>7, QuoteStep
<1>5. CASE Resubscribe
  <2>1. UNCHANGED <<mfNow, mfTrade, mfSocket, mfPending, mfQuotes, mfRest>>
    BY <1>5 DEF Resubscribe
  <2>2. PICK names \in SUBSET FeedNames : Ask(names)
    BY <1>5 DEF Resubscribe
  <2> QED BY <1>0, <2>1, <2>2, Asked, QuoteStep
<1>6. CASE Connected
  <2>0. [Offline EXCEPT !.open = TRUE] \in Sockets
    <3>1. Offline \in Sockets
      BY DEF Offline, Sockets
    <3> QED BY <3>1 DEF Sockets
  <2>1. mfSocket' \in Sockets
    BY <1>6, <2>0, Zenon DEF Connected
  <2>2. UNCHANGED <<mfNow, mfTrade, mfPending, mfQuotes, mfRest>>
    BY <1>6 DEF Connected
  <2>3. PICK names \in SUBSET FeedNames : Ask(names)
    BY <1>6 DEF Connected
  <2> QED BY <1>0, <2>1, <2>2, <2>3, Asked, QuoteStep
<1>7. CASE Disconnected
  <2>1. mfSocket' \in Sockets
    BY <1>7 DEF Disconnected, Offline, Sockets
  <2>2. /\ mfPending' \in [FeedNames -> Waiting] /\ mfSeen' \in [Canons -> Observations]
        /\ \A c \in Canons : mfSeen'[c] = Never
    BY <1>7 DEF Disconnected, NoTick, Never, Waiting, Observations
  <2>3. UNCHANGED <<mfNow, mfTrade, mfQuotes, mfRest>>
    BY <1>7 DEF Disconnected
  <2> QED BY <1>0, <2>1, <2>2, <2>3, QuoteStep
<1>8. CASE Receive
  <2> DEFINE e == Head(mfSocket.events)
             rest == Tail(mfSocket.events)
             waits == [stamp |-> e.stamp, at |-> mfNow]
  <2>1. mfSocket.events \in Seq(Events) /\ mfSocket.events # <<>>
    BY <1>0, <1>8 DEF Receive, Sockets
  <2>2. e \in Events /\ rest \in Seq(Events)
    BY <2>1, HeadTailProperties
  <2>3. waits \in Waiting
    BY <1>0, <2>2 DEF Waiting, Events
  <2>4. /\ mfSocket' = [mfSocket EXCEPT !.events = rest]
        /\ mfPending' = mfPending \/ mfPending' = [mfPending EXCEPT ![e.name] = waits]
        /\ UNCHANGED <<mfNow, mfTrade, mfAsked, mfQuotes, mfSeen, mfRest>>
    BY <1>8 DEF Receive
  <2> HIDE DEF e, rest, waits
  <2>5. mfSocket' \in Sockets
    BY <1>0, <2>2, <2>4 DEF Sockets
  <2>6. mfPending' \in [FeedNames -> Waiting]
    BY <1>0, <2>3, <2>4
  <2> QED BY <1>0, <2>4, <2>5, <2>6, QuoteStep
<1>9. CASE Frame
  BY <1>9, Flushed DEF Frame
<1>10. CASE StatusTold \/ UNCHANGED mfVars
  BY <1>0, <1>10, QuoteStep DEF StatusTold, mfVars
<1>11. CASE Clock
  <2>1. \A n \in FeedNames : [mfRest[n] EXCEPT !.at = 0] \in RestAnswers
    BY <1>0 DEF RestAnswers
  <2>2. mfRest' \in [FeedNames -> RestAnswers]
    BY <1>0, <1>11, <2>1 DEF Clock
  <2>3. mfNow' \in Nat
    BY <1>0, <1>11 DEF Clock
  <2>4. UNCHANGED <<mfTrade, mfSocket, mfAsked, mfPending, mfQuotes, mfSeen>>
    BY <1>11, Zenon DEF Clock
  <2> QED BY <1>0, <2>2, <2>3, <2>4, QuoteStep
<1> QED BY <1>1, <1>2, <1>3, <1>4, <1>5, <1>6, <1>7, <1>8, <1>9, <1>10, <1>11 DEF MarketFeedNext

LEMMA SuspendedIsFresh == FeedInv => SuspendedOnlyWhileFresh
<1> SUFFICES ASSUME FeedInv, NEW n \in FeedNames, PollingInterval(n) = "none"
             PROVE  \E m \in FeedNames : CanonOf[m] = CanonOf[n] /\ IsFresh(mfQuotes[m], StreamFresh)
  BY DEF SuspendedOnlyWhileFresh
<1> DEFINE c == CanonOf[n]
<1>1. IsFresh(mfSeen[c].quoted, StreamFresh) /\ c \in Canons
  BY CanonsAreNames DEF PollingInterval, StreamCovers
<1>2. PICK m \in FeedNames : CanonOf[m] = c /\ mfSeen[c].quoted <= mfQuotes[m]
  BY <1>1 DEF FeedInv, QuotesFollow
<1>3. /\ mfNow \in Nat /\ mfQuotes[m] \in Nat /\ mfSeen[c].quoted \in Nat /\ StreamFresh \in Nat
  BY <1>1, FeedAssumption DEF FeedInv, FeedTypeOK, Observations
<1> QED BY <1>1, <1>2, <1>3 DEF IsFresh

-----------------------------------------------------------------------------
\* The hub of quotes.

HubTypeOK ==
  /\ hbClients \subseteq HubClients /\ hbCancelled \subseteq hbClients
  /\ hbBuffer \in [HubClients -> Nat]
  /\ hbOpen \in Seq(BOOLEAN) /\ hbStream \in 0..Len(hbOpen)
  /\ hbRunning \subseteq 1..Len(hbOpen)

HubInv == HubTypeOK /\ HubFeedsOrDrops

\* A hub without clients owes nothing to anybody.
LEMMA HubStart == QuoteHubInit => HubInv
BY DEF QuoteHubInit, HubInv, HubTypeOK, HubFeedsOrDrops

\* Deliveries cancel clients that are in the hub and no other.
LEMMA DeliveryStep ==
  ASSUME HubInv, NEW clients, clients \subseteq hbClients, DeliverTo(clients),
         hbTargets' \subseteq hbClients, UNCHANGED <<hbClients, hbStream, hbOpen, hbRunning>>
  PROVE  HubInv'
BY DEF HubInv, HubTypeOK, HubFeedsOrDrops, DeliverTo

\* The first client opens a stream, and the hub reads it.
LEMMA AddStep == HubInv /\ (\E c \in HubClients : Add(c)) => HubInv'
<1> SUFFICES ASSUME HubInv, NEW c \in HubClients, Add(c) PROVE HubInv'
  OBVIOUS
<1> USE DEF HubInv, HubTypeOK, HubFeedsOrDrops, Add
<1>0. Len(hbOpen) \in Nat
  OBVIOUS
<1>1. CASE hbStream # 0
  <2>1. UNCHANGED <<hbStream, hbOpen, hbRunning, hbCancelled, hbTargets, hbBuffer>>
        /\ hbClients' = hbClients \cup {c}
    BY <1>1
  <2>2. hbStream \in hbRunning
    BY <1>1
  <2>3. HubTypeOK'
    BY <2>1
  <2> QED BY <1>1, <2>1, <2>2, <2>3
<1>2. CASE hbStream = 0
  <2>1. hbOpen' = Append(hbOpen, TRUE) /\ hbStream' = Len(hbOpen')
        /\ hbRunning' = hbRunning \cup {hbStream'} /\ hbClients' = hbClients \cup {c}
        /\ UNCHANGED <<hbCancelled, hbTargets, hbBuffer>>
    BY <1>2
  <2>2. Len(hbOpen') = Len(hbOpen) + 1
    BY <2>1
  <2>3. hbOpen' \in Seq(BOOLEAN)
    BY <2>1
  <2>4. \A g \in 1..Len(hbOpen) : hbOpen'[g] = hbOpen[g]
    BY <2>1
  <2>5. \A g \in 1..Len(hbOpen) : ~hbOpen[g]
    BY <1>2
  <2>6. HubTypeOK'
    <3>1. hbStream' \in 0..Len(hbOpen')
      BY <1>0, <2>1, <2>2
    <3>2. ASSUME NEW g \in hbRunning' PROVE g \in 1..Len(hbOpen')
      <4>1. g \in 1..Len(hbOpen) \/ g = Len(hbOpen) + 1
        BY <2>1, <2>2
      <4> QED BY <1>0, <2>2, <4>1
    <3> QED BY <2>1, <2>3, <3>1, <3>2
  <2>7. \A g \in 1..Len(hbOpen') : hbOpen'[g] => g = hbStream'
    BY <1>0, <2>1, <2>2, <2>4, <2>5
  <2>8. hbStream' # 0 /\ hbStream' \in hbRunning'
    BY <1>0, <2>1, <2>2
  <2> QED BY <2>1, <2>6, <2>7, <2>8
<1> QED BY <1>1, <1>2

\* The last client closes the stream and leaves no other open.
LEMMA RemoveStep == HubInv /\ (\E c \in HubClients : RemoveClient(c)) => HubInv'
<1> SUFFICES ASSUME HubInv, NEW c \in HubClients, RemoveClient(c) PROVE HubInv'
  OBVIOUS
<1> USE DEF HubInv, HubTypeOK, HubFeedsOrDrops, RemoveClient
<1>0. hbBuffer' \in [HubClients -> Nat]
  OBVIOUS
<1>1. CASE hbClients' = {} /\ hbStream # 0
  <2>1. hbOpen' = [hbOpen EXCEPT ![hbStream] = FALSE] /\ hbStream' = 0
    BY <1>1
  <2>2. hbOpen' \in Seq(BOOLEAN) /\ Len(hbOpen') = Len(hbOpen)
    <3>1. hbStream \in 1..Len(hbOpen)
      BY <1>1
    <3> QED BY <2>1, <3>1, ExceptSeq
  <2>3. \A g \in 1..Len(hbOpen) : ~hbOpen'[g]
    BY <2>1
  <2> QED BY <1>0, <1>1, <2>1, <2>2, <2>3
<1>2. CASE ~(hbClients' = {} /\ hbStream # 0)
  <2>1. UNCHANGED <<hbOpen, hbStream, hbRunning>>
    BY <1>2
  <2> QED BY <1>0, <1>2, <2>1
<1> QED BY <1>1, <1>2

\* A stream that fails is still read, until its goroutine ends; the goroutine of
\* an older stream leaves the newer one alone.
LEMMA StreamEnds ==
  HubInv /\ (StreamFails \/ \E g \in 1..Len(hbOpen) : RunEnds(g)) => HubInv'
<1>1. ASSUME HubInv, StreamFails PROVE HubInv'
  <2> USE <1>1 DEF HubInv, HubTypeOK, HubFeedsOrDrops, StreamFails
  <2>1. hbOpen' \in Seq(BOOLEAN) /\ Len(hbOpen') = Len(hbOpen)
    OBVIOUS
  <2>2. \A g \in 1..Len(hbOpen) : hbOpen'[g] => hbOpen[g]
    OBVIOUS
  <2>3. hbStream # 0 => hbStream \in hbRunning
    OBVIOUS
  <2> QED BY <2>1, <2>2, <2>3
<1>2. ASSUME HubInv, NEW g \in 1..Len(hbOpen), RunEnds(g) PROVE HubInv'
  BY <1>2 DEF HubInv, HubTypeOK, HubFeedsOrDrops, RunEnds, Owns
<1> QED BY <1>1, <1>2

LEMMA HubStep == HubInv /\ [QuoteHubNext]_hbVars => HubInv'
<1> SUFFICES ASSUME HubInv, [QuoteHubNext]_hbVars PROVE HubInv'
  OBVIOUS
<1>1. CASE UNCHANGED hbVars
  BY <1>1 DEF hbVars, HubInv, HubTypeOK, HubFeedsOrDrops
<1>2. ASSUME NEW c \in HubClients, Subscribe(c) PROVE HubInv'
  BY <1>2, DeliveryStep DEF Subscribe, HubInv, HubFeedsOrDrops
<1>3. ASSUME NEW c \in HubClients, Unsubscribe(c) \/ WritePump(c) \/ HangUp(c) PROVE HubInv'
  <2>1. hbBuffer' \in [HubClients -> Nat]
    BY <1>3 DEF Unsubscribe, WritePump, HangUp, HubInv, HubTypeOK
  <2> QED BY <1>3, <2>1 DEF Unsubscribe, WritePump, HangUp, HubInv, HubTypeOK, HubFeedsOrDrops
<1>4. CASE Fanout
  BY <1>4, DeliveryStep DEF Fanout, HubInv, HubFeedsOrDrops
<1> QED BY <1>1, <1>2, <1>3, <1>4, AddStep, RemoveStep, StreamEnds DEF QuoteHubNext

-----------------------------------------------------------------------------
\* The keys of orders and exits.

IntentRows == [name : Names, order : {"none", "PENDING", "EXECUTED", "VOID"}, heard : BOOLEAN,
               lostTo : Nat]
IntentPosts == [name : Names, key : Nat, from : {"none", "stock", "fno", "exit", "left"},
                phase : {"idle", "sent", "answered"},
                answer : {"none", "PENDING", "EXECUTED", "VOID", "REFUSED"}]

UnderWay(s) == itPost[s].phase # "idle"

IntentTypeOK ==
  /\ itRows \in Seq(IntentRows)
  /\ itHeld \in [Names -> 0..Len(itRows)]
  /\ itPost \in [Slots -> IntentPosts]
  /\ \A s \in Slots : UnderWay(s) => itPost[s].key \in 1..Len(itRows)

\* The key was taken out of the storage by the answer to an older one of its name, whose
\* outcome that tells.
Outlived(k) == \E i \in 1..k - 1 :
  itRows[k].lostTo = i /\ itRows[i].name = itRows[k].name /\ itRows[i].heard

\* The key that is kept under a name is the newest of the name; every other one
\* was heard of or outlived, and so was that of a name without a key.
HeldIsNewest ==
  /\ \A n \in Names : itHeld[n] # 0 =>
       /\ itRows[itHeld[n]].name = n
       /\ \A k \in 1..Len(itRows) : itRows[k].name = n => k <= itHeld[n]
  /\ \A k \in 1..Len(itRows) : itRows[k].heard \/ Outlived(k) \/ k = itHeld[itRows[k].name]

\* A request under way carries a key of its name.
PostsCarryTheirs ==
  \A s \in Slots : UnderWay(s) => itRows[itPost[s].key].name = itPost[s].name

KeysInv == IntentTypeOK /\ HeldIsNewest /\ PostsCarryTheirs

LEMMA KeysStart == IntentsInit => KeysInv
<1> SUFFICES ASSUME IntentsInit PROVE KeysInv
  OBVIOUS
<1> USE DEF IntentsInit
<1>1. itRows \in Seq(IntentRows) /\ Len(itRows) = 0
  OBVIOUS
<1>2. itPost \in [Slots -> IntentPosts]
  BY DEF NoPost, IntentPosts, Names, OrderNames, StockNames
<1>3. \A s \in Slots : ~UnderWay(s)
  BY DEF UnderWay, NoPost
<1>4. itHeld \in [Names -> 0..Len(itRows)]
  BY <1>1
<1>5. IntentTypeOK
  BY <1>1, <1>2, <1>3, <1>4 DEF IntentTypeOK
<1> QED BY <1>1, <1>3, <1>5 DEF KeysInv, HeldIsNewest, PostsCarryTheirs

\* Rows keep their names and what was heard of them.
RowsKept(rows, before) ==
  /\ rows \in Seq(IntentRows) /\ Len(rows) = Len(before)
  /\ \A k \in 1..Len(before) : /\ rows[k].name = before[k].name
                               /\ before[k].heard => rows[k].heard

\* A step that makes no key and gives none up: requests may end, orders move and
\* outcomes be heard.
LEMMA QuietStep ==
  ASSUME KeysInv, UNCHANGED itHeld, RowsKept(itRows', itRows),
         \A k \in 1..Len(itRows) : itRows'[k].lostTo = itRows[k].lostTo,
         itPost' \in [Slots -> IntentPosts],
         \A s \in Slots : UnderWay(s)' => /\ UnderWay(s) /\ itPost'[s].name = itPost[s].name
                                          /\ itPost'[s].key = itPost[s].key
  PROVE  KeysInv'
<1> USE DEF RowsKept
<1>0. Len(itRows) \in Nat
  BY DEF KeysInv, IntentTypeOK
<1>1. IntentTypeOK'
  BY DEF KeysInv, IntentTypeOK
<1>2. HeldIsNewest'
  <2>1. \A n \in Names : itHeld[n] \in 0..Len(itRows)
    BY DEF KeysInv, IntentTypeOK
  <2>2. \A n \in Names : itHeld'[n] # 0 =>
          /\ itRows'[itHeld[n]].name = n
          /\ \A k \in 1..Len(itRows') : itRows'[k].name = n => k <= itHeld'[n]
    BY <2>1 DEF KeysInv, HeldIsNewest
  <2>3. ASSUME NEW k \in 1..Len(itRows), Outlived(k) PROVE Outlived(k)'
    <3>1. PICK i \in 1..k - 1 : itRows[k].lostTo = i /\ itRows[i].name = itRows[k].name /\ itRows[i].heard
      BY <2>3 DEF Outlived
    <3>2. i \in 1..Len(itRows)
      BY <1>0
    <3>3. itRows'[k].lostTo = i /\ itRows'[i].name = itRows'[k].name /\ itRows'[i].heard
      BY <3>1, <3>2
    <3> QED BY <3>3 DEF Outlived
  <2>4. \A k \in 1..Len(itRows') : itRows'[k].heard \/ Outlived(k)' \/ k = itHeld'[itRows'[k].name]
    BY <2>3 DEF KeysInv, HeldIsNewest
  <2> QED BY <2>2, <2>4 DEF HeldIsNewest
<1>3. PostsCarryTheirs'
  <2>1. ASSUME NEW s \in Slots, UnderWay(s)' PROVE itRows'[itPost'[s].key].name = itPost'[s].name
    <3>1. itPost[s].key \in 1..Len(itRows) /\ itRows[itPost[s].key].name = itPost[s].name
      BY <2>1 DEF KeysInv, IntentTypeOK, PostsCarryTheirs
    <3> QED BY <2>1, <3>1
  <2> QED BY <2>1 DEF PostsCarryTheirs
<1> QED BY <1>1, <1>2, <1>3 DEF KeysInv

\* A change of the order of one row.
LEMMA RowChange ==
  ASSUME NEW rows \in Seq(IntentRows), NEW k \in 1..Len(rows), NEW row \in IntentRows,
         row.name = rows[k].name, row.heard = rows[k].heard, row.lostTo = rows[k].lostTo
  PROVE  /\ RowsKept([rows EXCEPT ![k] = row], rows)
         /\ \A j \in 1..Len(rows) : [rows EXCEPT ![k] = row][j].lostTo = rows[j].lostTo
<1>1. /\ [rows EXCEPT ![k] = row] \in Seq(IntentRows)
      /\ Len([rows EXCEPT ![k] = row]) = Len(rows)
      /\ \A j \in 1..Len(rows) : [rows EXCEPT ![k] = row][j] = IF j = k THEN row ELSE rows[j]
  BY ExceptSeq
<1> QED BY <1>1, Zenon DEF RowsKept

\* A request takes the key that is kept, or makes the next one.
LEMMA PostStep ==
  ASSUME KeysInv, NEW s \in Slots, NEW n \in Names,
         NEW from \in {"stock", "fno", "exit"}, Post(s, n, from)
  PROVE  KeysInv'
<1> DEFINE key == KeyOf(n)
           row == [name |-> n, order |-> "none", heard |-> FALSE, lostTo |-> 0]
<1>0. /\ itRows \in Seq(IntentRows) /\ Len(itRows) \in Nat
      /\ itHeld \in [Names -> 0..Len(itRows)] /\ itPost \in [Slots -> IntentPosts]
  BY DEF KeysInv, IntentTypeOK
<1>2. row \in IntentRows
  BY DEF IntentRows
<1>3. /\ itHeld' = [itHeld EXCEPT ![n] = key]
      /\ itRows' = IF key \in DOMAIN itRows THEN itRows ELSE Append(itRows, row)
      /\ itPost' = [itPost EXCEPT ![s] = [NoPost EXCEPT !.name = n, !.key = key,
                                                        !.from = from, !.phase = "sent"]]
  BY DEF Post, Keys
<1>4. \/ itHeld[n] # 0 /\ key = itHeld[n] /\ key \in 1..Len(itRows) /\ itRows' = itRows
      \/ itHeld[n] = 0 /\ key = Len(itRows) + 1 /\ itRows' = Append(itRows, row)
  <2>1. DOMAIN itRows = 1..Len(itRows)
    BY <1>0
  <2>2. itHeld[n] \in 0..Len(itRows)
    BY <1>0, SMTT(30)
  <2>3. CASE itHeld[n] # 0
    <3>1. key = itHeld[n] /\ key \in 1..Len(itRows)
      BY <1>0, <2>2, <2>3 DEF KeyOf
    <3> QED BY <1>3, <2>1, <2>3, <3>1, Zenon
  <2>4. CASE itHeld[n] = 0
    <3>1. key = Len(itRows) + 1
      BY <2>4 DEF KeyOf
    <3>2. key \notin DOMAIN itRows
      BY <1>0, <2>1, <3>1
    <3> QED BY <1>3, <2>4, <3>1, <3>2
  <2> QED BY <2>3, <2>4
<1>5. /\ Len(itRows') \in Nat /\ Len(itRows') >= Len(itRows)
      /\ key \in 1..Len(itRows') /\ itRows' \in Seq(IntentRows)
      /\ \A k \in 1..Len(itRows) : itRows'[k] = itRows[k]
      /\ itRows'[key].name = n
      /\ \A k \in 1..Len(itRows') : k \in 1..Len(itRows) \/ k = key
  <2>1. CASE itHeld[n] # 0 /\ key = itHeld[n] /\ key \in 1..Len(itRows) /\ itRows' = itRows
    BY <1>0, <2>1 DEF KeysInv, HeldIsNewest
  <2>2. CASE key = Len(itRows) + 1 /\ itRows' = Append(itRows, row)
    <3>1. /\ itRows' \in Seq(IntentRows) /\ Len(itRows') = Len(itRows) + 1
          /\ \A k \in 1..Len(itRows) : itRows'[k] = itRows[k]
          /\ itRows'[key] = row
      BY <1>0, <1>2, <2>2, AppendProperties
    <3> QED BY <1>0, <2>2, <3>1
  <2> QED BY <1>4, <2>1, <2>2
<1>6. itPost'[s].phase = "sent" /\ itPost'[s].name = n /\ itPost'[s].key = key
      /\ itPost'[s] \in IntentPosts
      /\ \A t \in Slots \ {s} : itPost'[t] = itPost[t]
  <2> DEFINE post == [NoPost EXCEPT !.name = n, !.key = key, !.from = from, !.phase = "sent"]
  <2>1. key \in Nat
    BY <1>5
  <2>2. NoPost \in IntentPosts
    BY DEF NoPost, IntentPosts, Names, OrderNames, StockNames
  <2>3. itPost' = [itPost EXCEPT ![s] = post]
    BY <1>3
  <2> HIDE DEF key
  <2>4. post \in IntentPosts /\ post.name = n /\ post.key = key /\ post.phase = "sent"
    BY <2>1, <2>2 DEF IntentPosts
  <2> HIDE DEF post
  <2> QED BY <1>0, <2>3, <2>4
<1>7. /\ itHeld'[n] = key /\ \A m \in Names \ {n} : itHeld'[m] = itHeld[m]
      /\ DOMAIN itHeld' = Names
  BY <1>0, <1>3
<1>8. itHeld \in [Names -> 0..Len(itRows)] /\ itHeld' = [itHeld EXCEPT ![n] = key]
  BY <1>0, <1>3
<1> HIDE DEF key, row
<1>9. IntentTypeOK'
  <2>1. itHeld' \in [Names -> 0..Len(itRows')]
    <3>1. 0..Len(itRows) \subseteq 0..Len(itRows') /\ key \in 0..Len(itRows')
      BY <1>0, <1>5
    <3> QED BY <1>8, <3>1
  <2>2. itPost' \in [Slots -> IntentPosts]
    BY <1>0, <1>3, <1>6
  <2>3. ASSUME NEW t \in Slots, UnderWay(t)' PROVE itPost'[t].key \in 1..Len(itRows')
    <3>1. CASE t = s
      BY <1>5, <1>6, <3>1
    <3>2. CASE t # s
      <4>1. itPost[t].key \in 1..Len(itRows)
        BY <1>6, <2>3, <3>2 DEF KeysInv, IntentTypeOK, UnderWay
      <4> QED BY <1>0, <1>5, <1>6, <3>2, <4>1
    <3> QED BY <3>1, <3>2
  <2> QED BY <1>5, <2>1, <2>2, <2>3 DEF IntentTypeOK
<1>10. \A m \in Names \ {n} : \A k \in 1..Len(itRows') : itRows'[k].name = m => k \in 1..Len(itRows)
  BY <1>5
<1>11. HeldIsNewest'
  <2>1. ASSUME NEW m \in Names, itHeld'[m] # 0
        PROVE  /\ itRows'[itHeld'[m]].name = m
               /\ \A k \in 1..Len(itRows') : itRows'[k].name = m => k <= itHeld'[m]
    <3>1. CASE m = n
      <4>1. ASSUME NEW k \in 1..Len(itRows'), itRows'[k].name = n PROVE k <= key
        <5>1. CASE itHeld[n] # 0 /\ key = itHeld[n] /\ itRows' = itRows
          BY <4>1, <5>1 DEF KeysInv, HeldIsNewest
        <5>2. CASE key = Len(itRows) + 1
          BY <1>0, <1>5, <5>2
        <5> QED BY <1>4, <5>1, <5>2
      <4> QED BY <1>5, <1>7, <3>1, <4>1
    <3>2. CASE m # n
      <4>1. itHeld'[m] = itHeld[m] /\ itHeld[m] \in 0..Len(itRows) /\ itHeld[m] # 0
        BY <1>0, <1>7, <2>1, <3>2
      <4>2. itRows[itHeld[m]].name = m
            /\ \A k \in 1..Len(itRows) : itRows[k].name = m => k <= itHeld[m]
        BY <4>1 DEF KeysInv, HeldIsNewest
      <4>3. itHeld[m] \in 1..Len(itRows)
        BY <1>0, <4>1
      <4> QED BY <1>5, <1>10, <3>2, <4>1, <4>2, <4>3
    <3> QED BY <3>1, <3>2
  <2>2. ASSUME NEW k \in 1..Len(itRows')
        PROVE  itRows'[k].heard \/ Outlived(k)' \/ k = itHeld'[itRows'[k].name]
    <3>1. CASE k = key
      BY <1>5, <1>7, <3>1
    <3>2. CASE k # key /\ k \in 1..Len(itRows)
      <4>0. itRows'[k] = itRows[k]
        BY <1>5, <3>2
      <4>1. itRows'[k] = itRows[k] /\ itRows[k].name \in Names
        <5>1. itRows[k] \in IntentRows
          BY <1>0, <3>2, ElementOfSeq
        <5> QED BY <4>0, <5>1 DEF IntentRows
      <4>2. itRows[k].heard \/ Outlived(k) \/ k = itHeld[itRows[k].name]
        BY <3>2 DEF KeysInv, HeldIsNewest
      <4>3. ASSUME Outlived(k) PROVE Outlived(k)'
        <5>1. PICK i \in 1..k - 1 : itRows[k].lostTo = i /\ itRows[i].name = itRows[k].name /\ itRows[i].heard
          BY <4>3 DEF Outlived
        <5>2. i \in 1..Len(itRows)
          BY <1>0, <3>2
        <5>3. itRows'[i] = itRows[i]
          BY <1>5, <5>2
        <5> QED BY <4>0, <5>1, <5>3 DEF Outlived
      <4>4. CASE itRows[k].name = n /\ k = itHeld[itRows[k].name]
        <5>1. itHeld[n] = k
          BY <4>4
        <5>2. itHeld[n] # 0
          BY <1>0, <3>2, <5>1
        <5> QED BY <1>4, <3>2, <5>1, <5>2
      <4>5. CASE itRows[k].name # n
        BY <1>7, <4>1, <4>2, <4>3, <4>5
      <4> QED BY <4>1, <4>2, <4>3, <4>4, <4>5
    <3> QED BY <1>5, <3>1, <3>2
  <2> QED BY <2>1, <2>2 DEF HeldIsNewest
<1>12. PostsCarryTheirs'
  <2>1. ASSUME NEW t \in Slots, UnderWay(t)' PROVE itRows'[itPost'[t].key].name = itPost'[t].name
    <3>1. CASE t = s
      BY <1>5, <1>6, <3>1
    <3>2. CASE t # s
      <4>1. itPost'[t] = itPost[t] /\ UnderWay(t)
        BY <1>6, <2>1, <3>2 DEF UnderWay
      <4>2. itPost[t].key \in 1..Len(itRows) /\ itRows[itPost[t].key].name = itPost[t].name
        BY <4>1 DEF KeysInv, IntentTypeOK, PostsCarryTheirs
      <4>3. itRows'[itPost[t].key] = itRows[itPost[t].key]
        BY <1>5, <4>2
      <4> QED BY <4>1, <4>2, <4>3
    <3> QED BY <3>1, <3>2
  <2> QED BY <2>1 DEF PostsCarryTheirs
<1> QED BY <1>9, <1>11, <1>12 DEF KeysInv

\* What is done to a request that came back, or never will.
LEMMA HandleEnds ==
  ASSUME IntentTypeOK, NEW s \in Slots, NEW answer, Handle(s, answer)
  PROVE  /\ itPost' \in [Slots -> IntentPosts] /\ ~UnderWay(s)'
         /\ \A t \in Slots \ {s} : itPost'[t] = itPost[t]
<1>1. itPost' = [itPost EXCEPT ![s] = NoPost]
  BY DEF Handle
<1>2. NoPost \in IntentPosts /\ NoPost.phase = "idle"
  BY DEF NoPost, IntentPosts, Names, OrderNames, StockNames
<1> QED BY <1>1, <1>2 DEF IntentTypeOK, UnderWay

\* An answer that completes the intent gives up the key that is kept: it is the key it
\* carried, whose outcome is heard with it, or a later one, which it outlives.
LEMMA ReturnStep ==
  ASSUME KeysInv, NEW s \in Slots, Return(s)
  PROVE  KeysInv'
<1> DEFINE p == itPost[s]
           k == p.key
           held == itHeld[p.name]
           Answered(j) == [itRows[j] EXCEPT !.heard = @ \/ (j = k /\ p.answer # "REFUSED"),
                                       !.lostTo = IF Completes(p) /\ j = held /\ j # k
                                                  THEN k ELSE @]
<1>0. /\ itRows \in Seq(IntentRows) /\ Len(itRows) \in Nat /\ Keys = 1..Len(itRows)
      /\ itHeld \in [Names -> 0..Len(itRows)] /\ itPost \in [Slots -> IntentPosts]
      /\ \A j \in 1..Len(itRows) : itRows[j] \in IntentRows
  BY ElementOfSeq DEF KeysInv, IntentTypeOK, Keys
<1>1. /\ UnderWay(s) /\ k \in 1..Len(itRows) /\ p \in IntentPosts /\ p.name \in Names
      /\ k \in Nat /\ itRows[k].name = p.name
  BY <1>0 DEF Return, UnderWay, KeysInv, IntentTypeOK, IntentPosts, PostsCarryTheirs
<1>2. /\ itPost' \in [Slots -> IntentPosts] /\ ~UnderWay(s)'
      /\ \A t \in Slots \ {s} : itPost'[t] = itPost[t]
  BY HandleEnds DEF Return, KeysInv
<1>3. itRows' = [j \in 1..Len(itRows) |-> Answered(j)]
  BY <1>0 DEF Return
<1>4. itHeld' = IF Completes(p) THEN [itHeld EXCEPT ![p.name] = 0] ELSE itHeld
  BY DEF Return
<1>5. Completes(p) => p.answer # "REFUSED"
  BY DEF Completes, Terminal
<1> DEFINE done == Completes(p)
           told == p.answer # "REFUSED"
<1> HIDE DEF k, p, held
<1>6. ASSUME NEW j \in 1..Len(itRows)
      PROVE  /\ Answered(j) \in IntentRows /\ Answered(j).name = itRows[j].name
             /\ Answered(j).heard = (itRows[j].heard \/ (j = k /\ told))
             /\ Answered(j).lostTo = IF done /\ j = held /\ j # k THEN k ELSE itRows[j].lostTo
  <2>1. itRows[j] \in IntentRows /\ k \in Nat
    BY <1>0, <1>1
  <2> HIDE DEF done, told
  <2> DEFINE h == itRows[j].heard \/ (j = k /\ told)
             l == IF done /\ j = held /\ j # k THEN k ELSE itRows[j].lostTo
  <2>2. Answered(j) = [itRows[j] EXCEPT !.heard = h, !.lostTo = l]
    BY DEF done, told
  <2>3. h \in BOOLEAN /\ l \in Nat
    BY <2>1 DEF IntentRows
  <2> HIDE DEF h, l, Answered
  <2>4. Answered(j) \in IntentRows /\ Answered(j).name = itRows[j].name /\ Answered(j).heard = h /\ Answered(j).lostTo = l
    BY <2>1, <2>2, <2>3 DEF IntentRows
  <2> QED BY <2>4 DEF h, l
<1> HIDE DEF Answered, done, told
<1>7. /\ itRows' \in Seq(IntentRows) /\ Len(itRows') = Len(itRows)
      /\ \A j \in 1..Len(itRows) : itRows'[j] = Answered(j)
  BY <1>0, <1>3, <1>6
<1>8. \A j \in 1..Len(itRows) :
        /\ itRows'[j].name = itRows[j].name
        /\ itRows'[j].heard = (itRows[j].heard \/ (j = k /\ told))
        /\ itRows'[j].lostTo = IF done /\ j = held /\ j # k THEN k ELSE itRows[j].lostTo
  BY <1>6, <1>7
<1>9. \A j \in 1..Len(itRows) : itRows[j].name \in Names
  BY <1>0 DEF IntentRows
<1>10. /\ done => told /\ itHeld' = [itHeld EXCEPT ![p.name] = 0]
       /\ ~done => itHeld' = itHeld
  BY <1>4, <1>5 DEF done, told
<1>11. \A m \in Names : /\ itHeld[m] \in 0..Len(itRows) /\ itHeld'[m] \in {itHeld[m], 0}
                        /\ itHeld'[m] # itHeld[m] => done /\ m = p.name
  BY <1>0, <1>10
<1>12. done => itHeld'[p.name] = 0
  BY <1>0, <1>1, <1>10
<1>13. IntentTypeOK'
  <2>1. ASSUME NEW t \in Slots, UnderWay(t)' PROVE itPost'[t].key \in 1..Len(itRows')
    BY <1>2, <1>7, <2>1 DEF KeysInv, IntentTypeOK, UnderWay
  <2>2. itHeld' \in [Names -> 0..Len(itRows')]
    BY <1>0, <1>7, <1>10
  <2> QED BY <1>2, <1>7, <2>1, <2>2 DEF IntentTypeOK
<1>14. PostsCarryTheirs'
  <2>1. ASSUME NEW t \in Slots, UnderWay(t)' PROVE itRows'[itPost'[t].key].name = itPost'[t].name
    <3>1. itPost'[t] = itPost[t] /\ UnderWay(t)
      BY <1>2, <2>1 DEF UnderWay
    <3>2. itPost[t].key \in 1..Len(itRows) /\ itRows[itPost[t].key].name = itPost[t].name
      BY <3>1 DEF KeysInv, IntentTypeOK, PostsCarryTheirs
    <3> QED BY <1>8, <3>1, <3>2
  <2> QED BY <2>1 DEF PostsCarryTheirs
<1>15. ASSUME NEW m \in Names, itHeld'[m] # 0
       PROVE  /\ itRows'[itHeld'[m]].name = m
              /\ \A j \in 1..Len(itRows') : itRows'[j].name = m => j <= itHeld'[m]
  <2>1. itHeld'[m] = itHeld[m] /\ itHeld[m] \in 1..Len(itRows)
    BY <1>0, <1>11, <1>15
  <2>2. itRows[itHeld[m]].name = m /\ \A j \in 1..Len(itRows) : itRows[j].name = m => j <= itHeld[m]
    BY <1>15, <2>1 DEF KeysInv, HeldIsNewest
  <2> QED BY <1>7, <1>8, <2>1, <2>2
<1>16. held \in 0..Len(itRows) /\ (held # 0 => itRows[held].name = p.name /\ k <= held)
  <2>1. held = itHeld[p.name]
    BY DEF held
  <2>2. held \in 0..Len(itRows)
    BY <1>1, <1>11, <2>1
  <2>3. held # 0 => itRows[held].name = p.name /\ \A j \in 1..Len(itRows) : itRows[j].name = p.name => j <= held
    BY <1>1, <2>1 DEF KeysInv, HeldIsNewest
  <2> QED BY <1>1, <2>2, <2>3
<1>17. ASSUME NEW j \in 1..Len(itRows)
       PROVE  itRows'[j].heard \/ Outlived(j)' \/ j = itHeld'[itRows'[j].name]
  <2>1. itRows[j].heard \/ Outlived(j) \/ j = itHeld[itRows[j].name]
    BY DEF KeysInv, HeldIsNewest
  <2>2. CASE itRows[j].heard
    BY <1>8, <2>2
  <2>3. CASE done /\ j = held /\ j # k
    <3>1. k \in 1..j - 1
      BY <1>0, <1>1, <1>16, <2>3
    <3>2. itRows'[j].lostTo = k
      BY <1>8, <2>3
    <3>3. itRows'[k].name = itRows'[j].name
      <4>1. itRows[j].name = p.name
        BY <1>0, <1>16, <2>3
      <4> QED BY <1>1, <1>8, <4>1
    <3>4. itRows'[k].heard
      BY <1>1, <1>8, <1>10, <2>3
    <3> QED BY <3>1, <3>2, <3>3, <3>4 DEF Outlived
  <2>4. CASE done /\ j = held /\ j = k
    BY <1>8, <1>10, <2>4
  <2>5. CASE ~(done /\ j = held) /\ Outlived(j)
    <3>1. PICK i \in 1..j - 1 : itRows[j].lostTo = i /\ itRows[i].name = itRows[j].name /\ itRows[i].heard
      BY <2>5 DEF Outlived
    <3>2. i \in 1..Len(itRows)
      BY <1>0
    <3>3. itRows'[j].lostTo = i /\ itRows'[i].name = itRows'[j].name /\ itRows'[i].heard
      BY <1>8, <2>5, <3>1, <3>2
    <3> QED BY <3>3 DEF Outlived
  <2>6. CASE ~(done /\ j = held) /\ j = itHeld[itRows[j].name]
    <3>1. itRows[j].name \in Names /\ itRows'[j].name = itRows[j].name
      BY <1>8, <1>9
    <3>2. CASE itRows[j].name = p.name
      <4>1. j = held
        BY <2>6, <3>2 DEF held
      <4>2. itHeld' = itHeld
        BY <1>10, <2>6, <4>1
      <4> QED BY <2>6, <3>1, <4>2
    <3>3. CASE itRows[j].name # p.name
      <4>1. itHeld'[itRows[j].name] = itHeld[itRows[j].name]
        BY <1>11, <3>1, <3>3
      <4> QED BY <2>6, <3>1, <4>1
    <3> QED BY <3>2, <3>3
  <2> QED BY <2>1, <2>2, <2>3, <2>4, <2>5, <2>6
<1>18. HeldIsNewest'
  BY <1>7, <1>15, <1>17 DEF HeldIsNewest
<1> QED BY <1>13, <1>14, <1>18 DEF KeysInv

\* A request arrives and the backend's order moves with it, or the matcher moves it.
LEMMA OrderMoves ==
  ASSUME KeysInv, (\E s \in Slots : Arrive(s)) \/ (\E key \in Keys : Matched(key))
  PROVE  KeysInv'
<1>0. itRows \in Seq(IntentRows) /\ itPost \in [Slots -> IntentPosts]
  BY DEF KeysInv, IntentTypeOK
<1>1. ASSUME NEW k \in 1..Len(itRows), NEW order \in {"none", "PENDING", "EXECUTED", "VOID"},
             itRows' = [itRows EXCEPT ![k].order = order]
      PROVE  /\ RowsKept(itRows', itRows)
             /\ \A j \in 1..Len(itRows) : itRows'[j].lostTo = itRows[j].lostTo
  <2> DEFINE row == [itRows[k] EXCEPT !.order = order]
  <2>1. itRows[k] \in IntentRows
    BY <1>0, ElementOfSeq
  <2>2. row \in IntentRows /\ row.name = itRows[k].name /\ row.heard = itRows[k].heard
        /\ row.lostTo = itRows[k].lostTo
    BY <2>1 DEF IntentRows
  <2>3. itRows' = [itRows EXCEPT ![k] = row]
    BY <1>1
  <2> HIDE DEF row
  <2>4. /\ RowsKept([itRows EXCEPT ![k] = row], itRows)
        /\ \A j \in 1..Len(itRows) : [itRows EXCEPT ![k] = row][j].lostTo = itRows[j].lostTo
    BY <1>0, <2>2, RowChange
  <2> QED BY <2>3, <2>4, Zenon
<1>2. ASSUME NEW s \in Slots, Arrive(s) PROVE KeysInv'
  <2> DEFINE p == itPost[s]
  <2>1. UnderWay(s) /\ p.key \in 1..Len(itRows) /\ p \in IntentPosts
    BY <1>0, <1>2 DEF Arrive, UnderWay, KeysInv, IntentTypeOK
  <2>2. Outcomes(p.key) \subseteq {"none", "PENDING", "EXECUTED", "VOID"}
    <3>1. itRows[p.key] \in IntentRows
      BY <1>0, <2>1, ElementOfSeq
    <3> QED BY <3>1 DEF Outcomes, IntentRows
  <2>3. PICK order \in Outcomes(p.key) :
           /\ itRows' = [itRows EXCEPT ![p.key].order = order]
           /\ \E answer \in {order} \cup (IF order = "VOID" THEN {"REFUSED"} ELSE {}) :
                itPost' = [itPost EXCEPT ![s].phase = "answered", ![s].answer =
                  IF answer = "none" \/ (answer = "PENDING" /\ p.name \in ExitNames)
                  THEN "REFUSED" ELSE answer]
    BY <1>2 DEF Arrive
  <2>4. \E answer \in {"PENDING", "EXECUTED", "VOID", "REFUSED"} :
           itPost' = [itPost EXCEPT ![s].phase = "answered", ![s].answer = answer]
    <3>1. PICK answer \in {order} \cup (IF order = "VOID" THEN {"REFUSED"} ELSE {}) :
             itPost' = [itPost EXCEPT ![s].phase = "answered", ![s].answer =
               IF answer = "none" \/ (answer = "PENDING" /\ p.name \in ExitNames)
               THEN "REFUSED" ELSE answer]
      BY <2>3
    <3> DEFINE told == IF answer = "none" \/ (answer = "PENDING" /\ p.name \in ExitNames)
                       THEN "REFUSED" ELSE answer
    <3>2. told \in {"PENDING", "EXECUTED", "VOID", "REFUSED"}
      BY <2>2
    <3>3. itPost' = [itPost EXCEPT ![s].phase = "answered", ![s].answer = told]
      BY <3>1
    <3> HIDE DEF told
    <3> QED BY <3>2, <3>3
  <2>5. /\ itPost' \in [Slots -> IntentPosts]
        /\ \A t \in Slots : itPost'[t].name = itPost[t].name /\ itPost'[t].key = itPost[t].key
        /\ \A t \in Slots \ {s} : itPost'[t] = itPost[t]
    <3>1. PICK told \in {"PENDING", "EXECUTED", "VOID", "REFUSED"} :
             itPost' = [itPost EXCEPT ![s].phase = "answered", ![s].answer = told]
      BY <2>4
    <3> DEFINE post == [p EXCEPT !.phase = "answered", !.answer = told]
    <3>2. post \in IntentPosts /\ post.name = p.name /\ post.key = p.key
      BY <2>1 DEF IntentPosts
    <3>3. itPost' = [itPost EXCEPT ![s] = post]
      BY <1>0, <3>1
    <3> HIDE DEF post
    <3> QED BY <1>0, <3>2, <3>3
  <2>6. \A t \in Slots : UnderWay(t)' => UnderWay(t)
    BY <2>1, <2>5 DEF UnderWay
  <2>7. UNCHANGED itHeld
    BY <1>2 DEF Arrive
  <2> HIDE DEF p
  <2> QED BY <1>1, <2>1, <2>2, <2>3, <2>5, <2>6, <2>7, QuietStep
<1>3. ASSUME NEW key \in Keys, Matched(key) PROVE KeysInv'
  <2>1. key \in 1..Len(itRows)
    BY <1>0 DEF Keys
  <2>2. PICK order \in Terminal : itRows' = [itRows EXCEPT ![key].order = order]
    BY <1>3 DEF Matched
  <2>3. UNCHANGED <<itHeld, itPost>>
    BY <1>3 DEF Matched
  <2>4. order \in {"none", "PENDING", "EXECUTED", "VOID"}
    BY DEF Terminal
  <2> QED BY <1>0, <1>1, <2>1, <2>2, <2>3, <2>4, QuietStep DEF UnderWay
<1> QED BY <1>2, <1>3

\* Answers are lost and pages are left: the requests go on or end, the keys stay.
LEMMA PagesChange ==
  ASSUME KeysInv, UNCHANGED <<itHeld, itRows>>,
         \/ \E s \in Slots : Lost(s)
         \/ UNCHANGED itPost
         \/ \E from \in {"stock", "fno"} : itPost' = Orphaned(from)
  PROVE  KeysInv'
<1>0. /\ itRows \in Seq(IntentRows) /\ itPost \in [Slots -> IntentPosts]
      /\ RowsKept(itRows', itRows)
      /\ \A k \in 1..Len(itRows) : itRows'[k].lostTo = itRows[k].lostTo
  BY DEF KeysInv, IntentTypeOK, RowsKept
<1>1. ASSUME NEW s \in Slots, Lost(s) PROVE KeysInv'
  <2>1. /\ itPost' \in [Slots -> IntentPosts] /\ ~UnderWay(s)'
        /\ \A t \in Slots \ {s} : itPost'[t] = itPost[t]
    BY <1>1, HandleEnds DEF Lost, KeysInv
  <2>2. \A t \in Slots : UnderWay(t)' => UnderWay(t) /\ itPost'[t] = itPost[t]
    BY <2>1 DEF UnderWay
  <2> QED BY <1>0, <2>1, <2>2, QuietStep
<1>2. CASE UNCHANGED itPost
  BY <1>0, <1>2, QuietStep DEF UnderWay
<1>3. ASSUME NEW from \in {"stock", "fno"}, itPost' = Orphaned(from) PROVE KeysInv'
  <2>1. /\ itPost' \in [Slots -> IntentPosts]
        /\ \A t \in Slots : /\ itPost'[t].name = itPost[t].name /\ itPost'[t].key = itPost[t].key
                            /\ itPost'[t].phase = itPost[t].phase
    BY <1>0, <1>3, ZenonT(60) DEF Orphaned, IntentPosts
  <2> QED BY <1>0, <2>1, QuietStep DEF UnderWay
<1> QED BY <1>1, <1>2, <1>3

\* The tickets as their components keep them.
StockTickets == [side : StockNames, confirmed : BOOLEAN, preview : StockNames \cup {"none"},
                 submitting : BOOLEAN, submitted : BOOLEAN, started : BOOLEAN, unsure : BOOLEAN]
FnoTickets == [open : BOOLEAN, price : FnoNames, executing : BOOLEAN, submitted : BOOLEAN,
               unsure : BOOLEAN]

\* A ticket that is unsure of its order is a submitted one, and the F&O ticket
\* stays so while a request of it is under way.
TicketsInv ==
  /\ itStock \in StockTickets /\ itFno \in FnoTickets
  /\ itStock.unsure => itStock.submitted
  /\ itFno.unsure => itFno.submitted
  /\ itFno.submitted => itFno.open
  /\ \A s \in Slots : itPost[s].from = "fno" => itFno.submitted

LEMMA TicketsStart == IntentsInit => TicketsInv
<1> SUFFICES ASSUME IntentsInit PROVE TicketsInv
  OBVIOUS
<1>1. itStock \in StockTickets /\ ~itStock.unsure
  BY DEF IntentsInit, NewStock, StockTickets, StockNames
<1>2. itFno \in FnoTickets /\ ~itFno.unsure /\ ~itFno.submitted
  BY DEF IntentsInit, NewFno, FnoTickets, FnoNames
<1>3. \A s \in Slots : itPost[s].from # "fno"
  BY DEF IntentsInit, NoPost
<1> QED BY <1>1, <1>2, <1>3 DEF TicketsInv

LEMMA KeysStep == KeysInv /\ TicketsInv /\ [IntentsNext]_itVars => KeysInv'
<1> SUFFICES ASSUME KeysInv, TicketsInv, [IntentsNext]_itVars PROVE KeysInv'
  OBVIOUS
<1>1. ASSUME NEW s \in Slots, PlaceOrder(s) PROVE KeysInv'
  <2>1. itStock.side \in Names
    BY DEF TicketsInv, StockTickets, Names, OrderNames
  <2> QED BY <1>1, <2>1, PostStep DEF PlaceOrder
<1>2. ASSUME NEW s \in Slots, ExecuteTicket(s) PROVE KeysInv'
  <2>1. itFno.price \in Names
    BY DEF TicketsInv, FnoTickets, Names, OrderNames
  <2> QED BY <1>2, <2>1, PostStep DEF ExecuteTicket
<1>3. ASSUME NEW s \in Slots, SquareOff(s) PROVE KeysInv'
  BY <1>3, PostStep DEF SquareOff, Names, ExitNames
<1>4. CASE \/ Preview \/ Confirm \/ OpenTicket \/ PriceMoves \/ UNCHANGED itVars
           \/ \E side \in StockNames : ChooseSide(side) \/ MobileSide(side)
  BY <1>4, PagesChange
  DEF Preview, Confirm, OpenTicket, PriceMoves, itVars, ChooseSide, MobileSide
<1>5. CASE Remount \/ CloseTicket \/ \E s \in Slots : Lost(s)
  BY <1>5, PagesChange DEF Remount, CloseTicket, Lost
<1> QED BY <1>1, <1>2, <1>3, <1>4, <1>5, ReturnStep, OrderMoves DEF IntentsNext

\* The answer to a request frees its ticket only when it is an execution.
LEMMA TicketAnswers ==
  ASSUME KeysInv, TicketsInv, NEW s \in Slots, NEW answer, Handle(s, answer)
  PROVE  TicketsInv'
<1>0. itPost \in [Slots -> IntentPosts]
  BY DEF KeysInv, IntentTypeOK
<1>1. /\ ~UnderWay(s)' /\ itPost' = [itPost EXCEPT ![s] = NoPost]
      /\ \A t \in Slots \ {s} : itPost'[t] = itPost[t]
  BY HandleEnds DEF KeysInv, Handle
<1>2. itStock' \in StockTickets /\ (itStock'.unsure => itStock'.submitted)
  <2>1. CASE itStock' = itStock
    BY <2>1 DEF TicketsInv
  <2>2. CASE itStock' = StockAnswered(answer)
    <3>1. (answer # "EXECUTED") \in BOOLEAN
      OBVIOUS
    <3>2. itStock' \in StockTickets
      BY <2>2, <3>1 DEF TicketsInv, StockAnswered, StockTickets
    <3>3. itStock'.unsure = (answer # "EXECUTED") /\ itStock'.submitted = (answer # "EXECUTED")
      BY <2>2 DEF TicketsInv, StockAnswered, StockTickets
    <3> QED BY <3>2, <3>3
  <2> QED BY <2>1, <2>2 DEF Handle
<1>3. /\ itFno' \in FnoTickets /\ itFno'.submitted = itFno.submitted /\ itFno'.open = itFno.open
      /\ itFno'.unsure => itFno.unsure \/ itPost[s].from = "fno"
  <2>1. CASE itFno' = itFno /\ itPost[s].from # "fno"
    BY <2>1 DEF TicketsInv
  <2>2. CASE itFno' = FnoAnswered(answer) /\ itPost[s].from = "fno"
    <3>1. (answer # "EXECUTED") \in BOOLEAN
      OBVIOUS
    <3> QED BY <2>2, <3>1 DEF TicketsInv, FnoAnswered, FnoTickets
  <2> QED BY <2>1, <2>2 DEF Handle
<1>4. \A t \in Slots : itPost'[t].from = "fno" => itFno'.submitted
  BY <1>0, <1>1, <1>3 DEF NoPost, TicketsInv
<1> QED BY <1>2, <1>3, <1>4 DEF TicketsInv

\* A request that is posted is one of the ticket that is marked as submitted with it.
LEMMA TicketPosts ==
  ASSUME KeysInv, NEW s \in Slots, NEW n, NEW from \in {"stock", "fno", "exit"}, Post(s, n, from)
  PROVE  /\ itPost[s].phase = "idle" /\ itPost'[s].from = from
         /\ \A t \in Slots \ {s} : itPost'[t] = itPost[t]
<1>1. itPost' = [itPost EXCEPT ![s] = [NoPost EXCEPT !.name = n, !.key = KeyOf(n), !.from = from,
                                                     !.phase = "sent"]]
  BY DEF Post
<1>2. [NoPost EXCEPT !.name = n, !.key = KeyOf(n), !.from = from, !.phase = "sent"].from = from
  BY DEF NoPost
<1> QED BY <1>1, <1>2 DEF Post, KeysInv, IntentTypeOK

LEMMA TicketsStep == KeysInv /\ TicketsInv /\ [IntentsNext]_itVars => TicketsInv'
<1> SUFFICES ASSUME KeysInv, TicketsInv, [IntentsNext]_itVars PROVE TicketsInv'
  OBVIOUS
<1>0. itPost \in [Slots -> IntentPosts] /\ itStock \in StockTickets /\ itFno \in FnoTickets
  BY DEF KeysInv, IntentTypeOK, TicketsInv
<1>1. ASSUME NEW s \in Slots, PlaceOrder(s) PROVE TicketsInv'
  <2>1. /\ itPost'[s].from = "stock" /\ \A t \in Slots \ {s} : itPost'[t] = itPost[t]
        /\ UNCHANGED itFno
    BY <1>1, TicketPosts DEF PlaceOrder
  <2>2. itStock' \in StockTickets /\ itStock'.submitted
    BY <1>0, <1>1 DEF PlaceOrder, StockTickets
  <2> QED BY <2>1, <2>2 DEF TicketsInv
<1>2. ASSUME NEW s \in Slots, ExecuteTicket(s) PROVE TicketsInv'
  <2>1. UNCHANGED itStock /\ itFno.open
    BY <1>2 DEF ExecuteTicket
  <2>2. itFno' \in FnoTickets /\ itFno'.submitted /\ itFno'.open
    BY <1>0, <1>2 DEF ExecuteTicket, FnoTickets
  <2> QED BY <2>1, <2>2 DEF TicketsInv
<1>3. ASSUME NEW s \in Slots, SquareOff(s) PROVE TicketsInv'
  <2>1. /\ itPost'[s].from = "exit" /\ \A t \in Slots \ {s} : itPost'[t] = itPost[t]
        /\ UNCHANGED <<itFno, itStock>>
    BY <1>3, TicketPosts DEF SquareOff
  <2> QED BY <2>1 DEF TicketsInv
<1>4. ASSUME NEW s \in Slots, Return(s) \/ Lost(s) PROVE TicketsInv'
  BY <1>4, TicketAnswers DEF Return, Lost
<1>5. CASE UNCHANGED <<itStock, itFno>> /\ \A s \in Slots : itPost'[s].from = itPost[s].from
  BY <1>5 DEF TicketsInv
<1>6. ASSUME NEW s \in Slots, Arrive(s) PROVE TicketsInv'
  <2>1. \A t \in Slots : itPost'[t].from = itPost[t].from
    BY <1>0, <1>6 DEF Arrive, IntentPosts
  <2> QED BY <1>5, <1>6, <2>1 DEF Arrive
<1>7. CASE (\E key \in Keys : Matched(key)) \/ UNCHANGED itVars
  BY <1>5, <1>7 DEF Matched, itVars
<1>8. CASE Preview \/ Confirm \/ \E side \in StockNames : ChooseSide(side) \/ MobileSide(side)
  <2>1. UNCHANGED <<itPost, itFno>>
    BY <1>8 DEF Preview, Confirm, ChooseSide, MobileSide
  <2>2. /\ itStock' \in StockTickets
        /\ itStock'.unsure = itStock.unsure /\ itStock'.submitted = itStock.submitted
    BY <1>0, <1>8 DEF Preview, Confirm, ChooseSide, MobileSide, StockTickets
  <2> QED BY <2>1, <2>2, SMTT(30) DEF TicketsInv
<1>9. CASE Remount
  <2>1. \A s \in Slots : itPost'[s].from = "fno" => itPost[s].from = "fno"
    BY <1>0, <1>9 DEF Remount, Orphaned, IntentPosts
  <2>2. itStock' \in StockTickets /\ ~itStock'.unsure /\ UNCHANGED itFno
    BY <1>9 DEF Remount, NewStock, StockTickets, StockNames
  <2> QED BY <2>1, <2>2 DEF TicketsInv
<1>10. CASE OpenTicket
  <2>1. \A s \in Slots : itPost'[s].from # "fno"
    BY <1>10 DEF OpenTicket, TicketsInv
  <2>2. itFno' \in FnoTickets /\ ~itFno'.unsure /\ ~itFno'.submitted /\ UNCHANGED itStock
    BY <1>10 DEF OpenTicket, NewFno, FnoTickets, FnoNames
  <2> QED BY <2>1, <2>2 DEF TicketsInv
<1>11. CASE CloseTicket
  <2>1. \A s \in Slots : itPost'[s].from # "fno"
    BY <1>0, <1>11 DEF CloseTicket, Orphaned, IntentPosts
  <2>2. itFno' \in FnoTickets /\ ~itFno'.unsure /\ ~itFno'.submitted /\ UNCHANGED itStock
    BY <1>11 DEF CloseTicket, NewFno, FnoTickets, FnoNames
  <2> QED BY <2>1, <2>2 DEF TicketsInv
<1>12. CASE PriceMoves
  <2> DEFINE price == CHOOSE n \in FnoNames : n # itFno.price
  <2>1. price \in FnoNames
    BY DEF FnoNames
  <2>2. itFno' = [itFno EXCEPT !.price = price] /\ UNCHANGED <<itStock, itPost>>
    BY <1>12 DEF PriceMoves
  <2> HIDE DEF price
  <2>3. /\ itFno' \in FnoTickets /\ itFno'.unsure = itFno.unsure
        /\ itFno'.submitted = itFno.submitted /\ itFno'.open = itFno.open
    BY <1>0, <2>1, <2>2, SMTT(30) DEF FnoTickets
  <2> QED BY <2>2, <2>3 DEF TicketsInv
<1> QED BY <1>1, <1>2, <1>3, <1>4, <1>6, <1>7, <1>8, <1>9, <1>10, <1>11, <1>12 DEF IntentsNext

\* Only a ticket that is not submitted posts, so one that is unsure does not.
LEMMA PostingTicketIsSure ==
  ASSUME KeysInv, TicketsInv, [IntentsNext]_itVars, NEW s \in Slots,
         itPost[s].phase = "idle", itPost'[s].phase = "sent"
  PROVE  /\ itPost'[s].from = "stock" => ~itStock.unsure
         /\ itPost'[s].from = "fno" => ~itFno.unsure
<1>0. itPost \in [Slots -> IntentPosts]
  BY DEF KeysInv, IntentTypeOK
<1>1. ASSUME NEW t \in Slots, PlaceOrder(t)
      PROVE  itPost'[s].from = "stock" /\ ~itStock.unsure
  <2>1. itPost'[t].from = "stock" /\ \A u \in Slots \ {t} : itPost'[u] = itPost[u]
    BY <1>1, TicketPosts DEF PlaceOrder
  <2>2. ~itStock.unsure
    BY <1>1 DEF PlaceOrder, CanOrder, TicketsInv
  <2> QED BY <2>1, <2>2
<1>2. ASSUME NEW t \in Slots, ExecuteTicket(t)
      PROVE  itPost'[s].from = "fno" /\ ~itFno.unsure
  <2>1. itPost'[t].from = "fno" /\ \A u \in Slots \ {t} : itPost'[u] = itPost[u]
    BY <1>2, TicketPosts DEF ExecuteTicket
  <2>2. ~itFno.unsure
    BY <1>2 DEF ExecuteTicket, TicketsInv
  <2> QED BY <2>1, <2>2
<1>3. ASSUME NEW t \in Slots, SquareOff(t) PROVE itPost'[s].from = "exit"
  <2>1. itPost'[t].from = "exit" /\ \A u \in Slots \ {t} : itPost'[u] = itPost[u]
    BY <1>3, TicketPosts DEF SquareOff
  <2> QED BY <2>1
<1>4. ASSUME NEW t \in Slots, Return(t) \/ Lost(t) PROVE FALSE
  <2>1. ~UnderWay(t)' /\ \A u \in Slots \ {t} : itPost'[u] = itPost[u]
    BY <1>4, HandleEnds DEF Return, Lost, KeysInv
  <2> QED BY <2>1 DEF UnderWay
<1>5. ASSUME NEW t \in Slots, Arrive(t) PROVE FALSE
  BY <1>0, <1>5 DEF Arrive, IntentPosts
<1>6. CASE Remount \/ CloseTicket
  BY <1>0, <1>6 DEF Remount, CloseTicket, Orphaned, IntentPosts
<1>7. CASE UNCHANGED itPost
  BY <1>7
<1> QED BY <1>1, <1>2, <1>3, <1>4, <1>5, <1>6, <1>7
     DEF IntentsNext, itVars, Matched, Preview, Confirm, ChooseSide, MobileSide, OpenTicket, PriceMoves

\* Of two keys of a name the older was heard of or outlived, since it is not the one
\* that is kept.
LEMMA OlderKeysHeard == KeysInv => NewIntentAfterTerminal
<1> SUFFICES ASSUME KeysInv, NEW j \in Keys, NEW k \in Keys, j < k,
                    itRows[j].name = itRows[k].name
             PROVE  itRows[j].heard \/ Outlived(j)
  BY DEF NewIntentAfterTerminal, Outlived
<1>1. itRows \in Seq(IntentRows) /\ itHeld \in [Names -> 0..Len(itRows)]
  BY DEF KeysInv, IntentTypeOK
<1>2. j \in 1..Len(itRows) /\ k \in 1..Len(itRows)
  BY <1>1 DEF Keys
<1>3. itRows[j].name \in Names
  <2>1. itRows[j] \in IntentRows
    BY <1>1, <1>2, ElementOfSeq
  <2> QED BY <2>1 DEF IntentRows
<1>4. CASE j = itHeld[itRows[j].name]
  <2>1. k <= itHeld[itRows[j].name]
    BY <1>1, <1>2, <1>3, <1>4 DEF KeysInv, HeldIsNewest
  <2> QED BY <1>1, <1>2, <1>4, <2>1
<1>5. CASE j # itHeld[itRows[j].name]
  BY <1>2, <1>5 DEF KeysInv, HeldIsNewest
<1> QED BY <1>4, <1>5

-----------------------------------------------------------------------------
\* The orders page.

OrderRowType == [status : Active \cup Finished, hidden : BOOLEAN]
BookAnswers == UNION {[listed -> Active \cup Finished] : listed \in SUBSET BookOrders}
Toasts == [says : {"none", "cancelled", "failed", "deleted"}, of : BookOrders \cup {NoAnswer}]

\* The last message names an order that is what the message says; what the
\* history hides has finished for good.
TablesInv ==
  /\ odRows \in [BookOrders -> OrderRowType]
  /\ odBook = NoAnswer \/ odBook \in BookAnswers
  /\ odToast \in Toasts
  /\ odToast.says = "cancelled" =>
       odToast.of \in BookOrders /\ odRows[odToast.of].status = "CANCELLED"
  /\ \A o \in BookOrders : odRows[o].hidden => odRows[o].status \notin Active

\* When every day asked for was answered, nothing loads, and the last answer
\* left its note or its message.
NoteInv ==
  /\ odNote.asked = {} => ~odNote.loading /\ (odNote.shown # NoAnswer \/ odNote.error)
  /\ odNote \in [day : NoteDays \cup {FirstDay}, shown : NoteDays \cup {NoAnswer},
                 asked : SUBSET (NoteDays \cup {FirstDay}), loading : BOOLEAN, error : BOOLEAN]

LEMMA OrdersStart == OrdersInit => TablesInv /\ NoteInv
<1> SUFFICES ASSUME OrdersInit PROVE TablesInv /\ NoteInv
  OBVIOUS
<1>1. odRows \in [BookOrders -> OrderRowType]
  BY FirstStatusAssumption DEF OrdersInit, OrderRowType, Active
<1>2. TablesInv
  BY <1>1 DEF OrdersInit, TablesInv, NoToast, Toasts
<1>3. NoteInv
  BY DEF OrdersInit, NoteInv, FirstNote
<1> QED BY <1>2, <1>3

\* What is in the history has finished, and what has finished stays as it is.
LEMMA RowsStep ==
  ASSUME TablesInv, odRows' \in [BookOrders -> OrderRowType],
         \A o \in BookOrders :
           /\ odRows[o].status \in Finished => odRows'[o].status = odRows[o].status
           /\ odRows'[o].hidden => odRows[o].hidden \/ odRows'[o].status \in Finished,
         odBook' = NoAnswer \/ odBook' \in BookAnswers,
         odToast' \in Toasts,
         odToast'.says = "cancelled" =>
           \/ odToast' = odToast
           \/ odToast'.of \in BookOrders /\ odRows'[odToast'.of].status = "CANCELLED"
  PROVE  TablesInv'
<1>1. \A o \in BookOrders : odRows[o].status \in Active \cup Finished
                            /\ odRows'[o].status \in Active \cup Finished
  BY DEF TablesInv, OrderRowType
<1> QED BY <1>1 DEF TablesInv, Active, Finished

\* The table of the backend answers with the rows that are not hidden.
LEMMA BookType == TablesInv => Book \in BookAnswers
<1> SUFFICES ASSUME TablesInv PROVE Book \in BookAnswers
  OBVIOUS
<1>1. ListedOrders \in SUBSET BookOrders
  BY DEF ListedOrders
<1>2. Book \in [ListedOrders -> Active \cup Finished]
  BY <1>1 DEF Book, TablesInv, OrderRowType
<1> QED BY <1>1, <1>2 DEF BookAnswers

LEMMA TablesStep == TablesInv /\ [OrdersNext \/ NoteNext]_odVars => TablesInv'
<1> SUFFICES ASSUME TablesInv, [OrdersNext \/ NoteNext]_odVars PROVE TablesInv'
  OBVIOUS
<1>0. /\ odRows \in [BookOrders -> OrderRowType] /\ odToast \in Toasts
      /\ (odBook = NoAnswer \/ odBook \in BookAnswers) /\ Book \in BookAnswers
  BY BookType DEF TablesInv
<1>1. CASE UNCHANGED odTables
  BY <1>1 DEF odTables, TablesInv
<1>2. ASSUME NEW o \in BookOrders, Moves(o) PROVE TablesInv'
  <2>1. PICK s \in Finished : odRows' = [odRows EXCEPT ![o].status = s]
    BY <1>2 DEF Moves
  <2>2. odRows' \in [BookOrders -> OrderRowType]
    BY <1>0, <2>1 DEF OrderRowType
  <2>3. odRows[o].status \notin Finished
    BY <1>2 DEF Moves, Active, Finished
  <2>4. \A p \in BookOrders : odRows'[p].status = IF p = o THEN s ELSE odRows[p].status
    BY <1>0, <2>1 DEF OrderRowType
  <2>5. \A p \in BookOrders : odRows'[p].hidden = odRows[p].hidden
    BY <1>0, <2>1 DEF OrderRowType
  <2>6. UNCHANGED <<odBook, odToast>>
    BY <1>2 DEF Moves
  <2> QED BY <1>0, <2>2, <2>3, <2>4, <2>5, <2>6, RowsStep
<1>3. ASSUME NEW o \in BookOrders, PressCancel(o) PROVE TablesInv'
  BY <1>3 DEF PressCancel, TablesInv
<1>4. ASSUME NEW o \in BookOrders, CancelOrder(o) PROVE TablesInv'
  <2>1. PICK reached \in BOOLEAN, answered \in BOOLEAN :
           /\ answered => reached
           /\ odRows' = IF reached /\ odRows[o].status \in Active
                        THEN [odRows EXCEPT ![o].status = "CANCELLED"] ELSE odRows
           /\ odToast' = CancelToast(answered /\ odRows[o].status \in Active, o)
    BY <1>4 DEF CancelOrder
  <2>2. odBook' = odBook
    BY <1>4 DEF CancelOrder
  <2>3. odToast' \in Toasts /\ odToast'.of = o
    BY <2>1 DEF CancelToast, Toasts
  <2>4. CASE reached /\ odRows[o].status \in Active
    <3>1. odRows' \in [BookOrders -> OrderRowType]
      BY <1>0, <2>1, <2>4 DEF OrderRowType, Finished
    <3>2. odRows[o].status \notin Finished
      BY <2>4 DEF Active, Finished
    <3>3. \A p \in BookOrders : odRows'[p].status = IF p = o THEN "CANCELLED" ELSE odRows[p].status
      BY <1>0, <2>1, <2>4 DEF OrderRowType
    <3>4. \A p \in BookOrders : odRows'[p].hidden = odRows[p].hidden
      BY <1>0, <2>1, <2>4 DEF OrderRowType
    <3> QED BY <1>0, <2>2, <2>3, <3>1, <3>2, <3>3, <3>4, RowsStep
  <2>5. CASE ~(reached /\ odRows[o].status \in Active)
    <3>1. odRows' = odRows /\ odToast'.says # "cancelled"
      BY <2>1, <2>5 DEF CancelToast
    <3> QED BY <1>0, <2>2, <2>3, <3>1, RowsStep
  <2> QED BY <2>4, <2>5
<1>5. CASE PollOrders \/ PollTrades \/ RefreshAll
  <2>1. UNCHANGED odRows /\ odToast' \in {odToast, NoToast} /\ odBook' \in {odBook, Book}
    BY <1>5 DEF PollOrders, PollTrades, RefreshAll
  <2>2. NoToast \in Toasts /\ NoToast.says # "cancelled"
    BY DEF NoToast, Toasts
  <2> QED BY <1>0, <2>1, <2>2, RowsStep
<1>6. CASE ClearHistory
  <2>1. odBook' = odBook /\ odRows' \in {odRows, HideFinished(odRows)}
        /\ odToast' \in {odToast, [says |-> "deleted", of |-> NoAnswer]}
    BY <1>6 DEF ClearHistory
  <2>2. odToast' \in Toasts /\ (odToast'.says = "cancelled" => odToast' = odToast)
    BY <1>0, <2>1 DEF Toasts
  <2>3. odRows' \in [BookOrders -> OrderRowType]
    BY <1>0, <2>1 DEF HideFinished, OrderRowType
  <2>4. \A o \in BookOrders : odRows'[o].status = odRows[o].status
    BY <1>0, <2>1 DEF HideFinished, OrderRowType
  <2>5. \A o \in BookOrders : odRows'[o].hidden => odRows[o].hidden \/ odRows[o].status \in Finished
    BY <1>0, <2>1 DEF HideFinished, OrderRowType
  <2> QED BY <1>0, <2>1, <2>2, <2>3, <2>4, <2>5, RowsStep
<1>7. CASE \/ \E tab \in {"orders", "trades", "contract-note"} : SelectTab(tab)
           \/ \E filter \in {"ALL", "OPEN", "EXECUTED", "CANCELLED"} : SelectFilter(filter)
  <2>1. UNCHANGED <<odRows, odBook>> /\ odToast' = NoToast
    BY <1>7 DEF SelectTab, SelectFilter
  <2>2. NoToast \in Toasts /\ NoToast.says # "cancelled"
    BY DEF NoToast, Toasts
  <2> QED BY <1>0, <2>1, <2>2, RowsStep
<1> QED BY <1>1, <1>2, <1>3, <1>4, <1>5, <1>6, <1>7 DEF OrdersNext, NoteNext, odVars

LEMMA NoteStep == NoteInv /\ [OrdersNext \/ NoteNext]_odVars => NoteInv'
<1> SUFFICES ASSUME NoteInv, [OrdersNext \/ NoteNext]_odVars PROVE NoteInv'
  OBVIOUS
<1> USE DEF NoteInv
<1>1. CASE UNCHANGED odNote
  BY <1>1
<1>2. CASE OpenNote
  BY <1>2 DEF OpenNote, FirstNote
<1>3. ASSUME NEW day \in NoteDays, PickDay(day) PROVE NoteInv'
  BY <1>3 DEF PickDay
<1>4. ASSUME NEW day \in NoteDays, NoteAnswered(day) PROVE NoteInv'
  BY <1>4, NoAnswerAssumption DEF NoteAnswered
<1> QED BY <1>1, <1>2, <1>3, <1>4 DEF OrdersNext, NoteNext, odVars

\* Every active order of the last answer has its row, and the row its button.
LEMMA ActiveOrderHasButton ==
  ASSUME TablesInv, odBook # NoAnswer, ~odView.cleared, odView.filter = "ALL",
         NEW o \in DOMAIN odBook, odBook[o] \in Active
  PROVE  \E r \in OrderRows : r.order = o /\ r.cancel
<1>1. o \in ShownOrders
  BY DEF ShownOrders
<1>2. Kinds(odView.filter) = Active \cup Finished
  BY DEF Kinds
<1>3. [order |-> o, status |-> odBook[o], cancel |-> CanCancel(o), busy |-> odCancel.busy = o]
        \in OrderRows
  BY <1>1, <1>2 DEF OrderRows
<1> QED BY <1>3 DEF CanCancel

LEMMA DeskIsTruthful == TablesInv /\ NoteInv => OrdersDeskTruthful
<1>1. NoteInv => (odNote.asked = {} => NoteBody.note # NoAnswer \/ NoteBody.error)
  BY DEF NoteInv, NoteBody
<1> QED BY <1>1, ActiveOrderHasButton DEF TablesInv, OrdersDeskTruthful

-----------------------------------------------------------------------------
\* The watchlist desk.

StoredDesks == [lists : Lists \cup {Nothing}, all : (SUBSET TabIds) \cup {Nothing},
                active : TabIds \cup {Nothing}]
WatchQueries == [phase : {"idle", "sent", "read"}, rows : SUBSET WatchSymbols, doubt : BOOLEAN]
WatchCalls == [add : BOOLEAN, symbol : WatchSymbols, here : BOOLEAN]

WatchTypeOK ==
  /\ wlCloud \subseteq WatchSymbols /\ wlAnswer \in (SUBSET WatchSymbols) \cup {Nothing}
  /\ wlQuery \in WatchQueries /\ wlCalls \subseteq WatchCalls
  /\ wlLists \in Lists /\ wlLegacy \subseteq WatchSymbols
  /\ wlTabs \in [all : SUBSET TabIds, active : TabIds]
  /\ wlStored \in StoredDesks

\* What is shown is what is stored: of tabs that are gone too, since one of them may
\* be stored as the active one and be edited after a reload.
KeptLists == IF wlStored.lists = Nothing THEN Defaults ELSE wlStored.lists
Reloadable == StoredTabs = wlTabs.all /\ KeptLists = wlLists

\* The answer, and the rows read for the next one, are the account's unless in doubt.
AnswerFollows ==
  ~wlQuery.doubt =>
    /\ wlQuery.phase = "idle" => wlAnswer = wlCloud
    /\ wlQuery.phase = "read" => wlQuery.rows = wlCloud

WatchInv == WatchTypeOK /\ Reloadable /\ AnswerFollows

LEMMA WatchStart == WatchlistsInit => WatchInv
<1> SUFFICES ASSUME WatchlistsInit PROVE WatchInv
  OBVIOUS
<1> USE DEF WatchlistsInit
<1>1. Defaults \in Lists
  BY DEF Defaults, Lists
<1>2. wlTabs \in [all : SUBSET TabIds, active : TabIds]
  BY DEF TabIds
<1>3. wlStored \in StoredDesks
  BY DEF StoredDesks
<1>4. Reloadable
  BY DEF Reloadable, StoredTabs, KeptLists
<1>5. wlQuery \in WatchQueries /\ AnswerFollows
  BY DEF FirstQuery, WatchQueries, AnswerFollows
<1> QED BY <1>1, <1>2, <1>3, <1>4, <1>5 DEF WatchInv, WatchTypeOK

\* Lists that are stored as they are shown.
LEMMA PersistStep ==
  ASSUME WatchInv, NEW lists \in Lists, PersistWatchlists(lists), UNCHANGED wlTabs
  PROVE  wlLists' \in Lists /\ wlStored' \in StoredDesks /\ Reloadable'
<1>1. wlLists' = lists /\ wlStored' = [wlStored EXCEPT !.lists = lists]
  BY DEF PersistWatchlists
<1>2. wlStored \in StoredDesks
  BY DEF WatchInv, WatchTypeOK
<1>3. wlStored' \in StoredDesks
  BY <1>1, <1>2 DEF StoredDesks
<1>4. wlStored'.lists = lists /\ wlStored'.all = wlStored.all /\ lists # Nothing
  BY <1>1, <1>2, NothingAssumption DEF StoredDesks
<1>5. KeptLists' = lists
  BY <1>4 DEF KeptLists
<1>6. StoredTabs' = StoredTabs
  BY <1>4 DEF StoredTabs
<1> QED BY <1>1, <1>3, <1>5, <1>6 DEF Reloadable, WatchInv

\* A step that leaves the desk and what it stores.
LEMMA DeskStays ==
  ASSUME WatchInv, UNCHANGED <<wlLists, wlStored, wlTabs>>
  PROVE  wlLists' \in Lists /\ wlStored' \in StoredDesks /\ Reloadable'
         /\ wlTabs' \in [all : SUBSET TabIds, active : TabIds]
BY DEF WatchInv, WatchTypeOK, Reloadable, StoredTabs, KeptLists

\* An answer is taken over or changes nothing.
LEMMA FetchedStep ==
  ASSUME WatchInv, NEW answer \in SUBSET WatchSymbols, Fetched(answer), UNCHANGED wlTabs
  PROVE  wlLists' \in Lists /\ wlStored' \in StoredDesks /\ Reloadable' /\ wlAnswer' = answer
<1>1. CASE answer # wlAnswer /\ answer # {}
  <2>1. [wlLists EXCEPT !["wl1"] = answer] \in Lists
    BY DEF WatchInv, WatchTypeOK, Lists
  <2> QED BY <1>1, <2>1, PersistStep DEF Fetched, TakeCloudList
<1>2. CASE ~(answer # wlAnswer /\ answer # {})
  BY <1>2, DeskStays DEF Fetched
<1> QED BY <1>1, <1>2

\* The request for the list.
LEMMA QueryStep ==
  ASSUME WatchInv, AskWatchlist \/ ReadWatchlist \/ FetchWatchlist \/ FetchFails
  PROVE  WatchInv'
<1>0. /\ wlQuery \in WatchQueries /\ wlCloud \in SUBSET WatchSymbols /\ AnswerFollows
      /\ WatchTypeOK
  BY DEF WatchInv, WatchTypeOK
<1>1. CASE AskWatchlist
  <2>1. wlQuery' \in WatchQueries /\ wlQuery'.phase = "sent"
    BY <1>0, <1>1 DEF AskWatchlist, WatchQueries
  <2>2. UNCHANGED <<wlCloud, wlAnswer, wlCalls, wlLists, wlTabs, wlStored, wlLegacy>>
    BY <1>1 DEF AskWatchlist
  <2> QED BY <1>0, <2>1, <2>2, DeskStays DEF WatchInv, WatchTypeOK, AnswerFollows
<1>2. CASE ReadWatchlist
  <2>1. wlQuery' \in WatchQueries /\ wlQuery'.phase = "read" /\ wlQuery'.rows = wlCloud
    BY <1>0, <1>2 DEF ReadWatchlist, WatchQueries
  <2>2. UNCHANGED <<wlCloud, wlAnswer, wlCalls, wlLists, wlTabs, wlStored, wlLegacy>>
    BY <1>2 DEF ReadWatchlist
  <2> QED BY <1>0, <2>1, <2>2, DeskStays DEF WatchInv, WatchTypeOK, AnswerFollows
<1>3. CASE FetchWatchlist
  <2>1. /\ wlQuery' \in WatchQueries /\ wlQuery'.phase = "idle" /\ wlQuery'.doubt = wlQuery.doubt
        /\ wlQuery.rows \in SUBSET WatchSymbols
    BY <1>0, <1>3 DEF FetchWatchlist, WatchQueries
  <2>2. /\ UNCHANGED <<wlCloud, wlCalls, wlTabs, wlLegacy>> /\ wlQuery.phase = "read"
        /\ Fetched(wlQuery.rows)
    BY <1>3 DEF FetchWatchlist
  <2>3. /\ wlLists' \in Lists /\ wlStored' \in StoredDesks /\ Reloadable'
        /\ wlAnswer' = wlQuery.rows
    BY <2>1, <2>2, FetchedStep
  <2> QED BY <1>0, <2>1, <2>2, <2>3 DEF WatchInv, WatchTypeOK, AnswerFollows
<1>4. CASE FetchFails
  <2>1. wlQuery' \in WatchQueries /\ wlQuery'.doubt
    BY <1>4 DEF FetchFails, WatchQueries
  <2>2. UNCHANGED <<wlCloud, wlCalls, wlTabs, wlLegacy>>
    BY <1>4 DEF FetchFails
  <2>3. /\ wlLists' \in Lists /\ wlStored' \in StoredDesks /\ Reloadable'
        /\ wlAnswer' \in {wlAnswer, {}}
    BY <1>4, <2>2, FetchedStep, DeskStays DEF FetchFails
  <2> QED BY <1>0, <2>1, <2>2, <2>3 DEF WatchInv, WatchTypeOK, AnswerFollows
<1> QED BY <1>1, <1>2, <1>3, <1>4

\* A change of the account's list makes the page ask again, or leaves it in doubt.
LEMMA CallStep ==
  ASSUME WatchInv, NEW cloud \in SUBSET WatchSymbols, CallTold(cloud) \/ CallUntold(cloud),
         UNCHANGED <<wlAnswer, wlLists, wlTabs, wlStored, wlLegacy>>, wlCalls' \subseteq wlCalls
  PROVE  WatchInv'
<1>0. wlQuery \in WatchQueries /\ WatchTypeOK /\ wlCloud \in SUBSET WatchSymbols
  BY DEF WatchInv, WatchTypeOK
<1>1. wlCloud' \in SUBSET WatchSymbols
  BY <1>0 DEF CallTold, CallUntold
<1>2. wlQuery' \in WatchQueries /\ (wlQuery'.doubt \/ wlQuery'.phase = "sent")
  <2>1. CASE CallUntold(cloud)
    BY <1>0, <2>1 DEF CallUntold, WatchQueries
  <2>2. CASE wlQuery' = [wlQuery EXCEPT !.phase = "sent", !.rows = {}]
    BY <1>0, <2>2 DEF WatchQueries
  <2>3. CASE wlQuery' = [wlQuery EXCEPT !.doubt = wlQuery.doubt \/ wlQuery.phase = "read"]
             /\ wlQuery.phase # "idle"
    <3>1. CASE wlQuery.phase = "read"
      <4>1. (wlQuery.doubt \/ wlQuery.phase = "read") = TRUE
        BY <3>1
      <4>2. wlQuery' = [wlQuery EXCEPT !.doubt = TRUE]
        BY <2>3, <4>1, Zenon
      <4> QED BY <1>0, <4>2 DEF WatchQueries
    <3>2. CASE wlQuery.phase = "sent"
      <4>1. (wlQuery.doubt \/ wlQuery.phase = "read") \in BOOLEAN
        OBVIOUS
      <4> DEFINE d == wlQuery.doubt \/ wlQuery.phase = "read"
      <4>2. wlQuery' = [wlQuery EXCEPT !.doubt = d] /\ d \in BOOLEAN
        BY <2>3, <4>1
      <4> HIDE DEF d
      <4> QED BY <1>0, <3>2, <4>2 DEF WatchQueries
    <3> QED BY <1>0, <2>3, <3>1, <3>2 DEF WatchQueries
  <2> QED BY <2>1, <2>2, <2>3 DEF CallTold, RefetchWatchlist
<1> QED BY <1>0, <1>1, <1>2, DeskStays DEF WatchInv, WatchTypeOK, AnswerFollows

\* An edit of the list of the active tab.
LEMMA EditStep ==
  ASSUME WatchInv, NEW s \in WatchSymbols, AddFromDesk(s) \/ RemoveSymbol(s)
  PROVE  WatchInv'
<1> DEFINE tab == wlTabs.active
<1>0. WatchTypeOK
  BY DEF WatchInv
<1>1. tab \in TabIds
  BY <1>0 DEF WatchTypeOK
<1>2. [wlLists EXCEPT ![tab] = @ \cup {s}] \in Lists
  BY <1>0, <1>1 DEF WatchTypeOK, Lists
<1>3. [wlLists EXCEPT ![tab] = @ \ {s}] \in Lists
  BY <1>0, <1>1 DEF WatchTypeOK, Lists
<1>4. \A add \in BOOLEAN : [add |-> add, symbol |-> s, here |-> TRUE] \in WatchCalls
  BY DEF WatchCalls
<1>5. wlCalls' \subseteq WatchCalls
  BY <1>0, <1>4 DEF AddFromDesk, AddSymbol, RemoveSymbol, WatchTypeOK
<1>6. UNCHANGED <<wlTabs, wlCloud, wlAnswer, wlQuery, wlLegacy>>
  BY DEF AddFromDesk, AddSymbol, RemoveSymbol
<1>7. AnswerFollows'
  BY <1>6 DEF WatchInv, AnswerFollows
<1>8. CASE UNCHANGED <<wlLists, wlStored>>
  BY <1>0, <1>5, <1>6, <1>7, <1>8, DeskStays DEF WatchInv, WatchTypeOK
<1>9. CASE \/ PersistWatchlists([wlLists EXCEPT ![tab] = @ \cup {s}])
           \/ PersistWatchlists([wlLists EXCEPT ![tab] = @ \ {s}])
  BY <1>0, <1>2, <1>3, <1>5, <1>6, <1>7, <1>9, PersistStep DEF WatchInv, WatchTypeOK
<1> QED BY <1>8, <1>9 DEF AddFromDesk, AddSymbol, RemoveSymbol

\* A tab is made, or goes with its list, or is chosen.
LEMMA TabStep ==
  ASSUME WatchInv, CreateNewList \/ DeleteTab \/ (\E tab \in TabIds : SelectWatchTab(tab))
  PROVE  WatchInv'
<1>0. /\ wlStored \in StoredDesks /\ wlTabs \in [all : SUBSET TabIds, active : TabIds]
      /\ wlLists \in Lists /\ Reloadable
  BY DEF WatchInv, WatchTypeOK
<1>1. UNCHANGED <<wlCloud, wlAnswer, wlQuery, wlCalls, wlLegacy>>
  BY DEF CreateNewList, DeleteTab, SelectWatchTab
<1>2. AnswerFollows'
  BY <1>1 DEF WatchInv, AnswerFollows
<1>3. CASE CreateNewList
  <2> DEFINE all == wlTabs.all \cup {"custom"}
  <2>1. all \in SUBSET TabIds
    BY <1>0 DEF TabIds
  <2>2. wlTabs' = [all |-> all, active |-> "custom"] /\ UNCHANGED wlLists
        /\ wlStored' = [wlStored EXCEPT !.all = all]
    BY <1>3 DEF CreateNewList, PersistTabs
  <2> HIDE DEF all
  <2>3. wlStored' \in StoredDesks /\ wlStored'.all = all /\ wlStored'.lists = wlStored.lists
    BY <1>0, <2>1, <2>2 DEF StoredDesks
  <2>4. Reloadable'
    BY <1>0, <2>1, <2>2, <2>3, NothingAssumption DEF Reloadable, StoredTabs, KeptLists
  <2>5. wlTabs' \in [all : SUBSET TabIds, active : TabIds]
    BY <2>1, <2>2 DEF TabIds
  <2> QED BY <1>0, <1>1, <1>2, <2>2, <2>3, <2>4, <2>5 DEF WatchInv, WatchTypeOK
<1>4. CASE DeleteTab
  <2> DEFINE all == wlTabs.all \ {"custom"}
             lists == [wlLists EXCEPT !["custom"] = {}]
  <2>1. all \in SUBSET TabIds
    BY <1>0
  <2>2. lists \in Lists
    BY <1>0 DEF Lists
  <2>3. wlTabs' = [all |-> all, active |-> "wl1"] /\ wlLists' = lists
        /\ wlStored' = [wlStored EXCEPT !.all = all, !.lists = lists]
    BY <1>4 DEF DeleteTab
  <2> HIDE DEF all, lists
  <2>4. wlStored' \in StoredDesks /\ wlStored'.all = all /\ wlStored'.lists = lists
    BY <1>0, <2>1, <2>2, <2>3 DEF StoredDesks
  <2>5. Reloadable'
    BY <2>1, <2>2, <2>3, <2>4, NothingAssumption DEF Reloadable, StoredTabs, KeptLists
  <2>6. wlTabs' \in [all : SUBSET TabIds, active : TabIds]
    BY <2>1, <2>3 DEF TabIds
  <2> QED BY <1>1, <1>2, <2>2, <2>3, <2>4, <2>5, <2>6 DEF WatchInv, WatchTypeOK
<1>5. ASSUME NEW tab \in TabIds, SelectWatchTab(tab) PROVE WatchInv'
  <2>1. wlTabs' = [wlTabs EXCEPT !.active = tab] /\ UNCHANGED wlLists
        /\ wlStored' = [wlStored EXCEPT !.active = tab]
    BY <1>5 DEF SelectWatchTab
  <2>2. /\ wlStored' \in StoredDesks
        /\ wlStored'.all = wlStored.all /\ wlStored'.lists = wlStored.lists
    BY <1>0, <2>1 DEF StoredDesks
  <2>3. wlTabs' \in [all : SUBSET TabIds, active : TabIds] /\ wlTabs'.all = wlTabs.all
    BY <1>0, <2>1
  <2>4. Reloadable'
    BY <1>0, <2>1, <2>2, <2>3 DEF Reloadable, StoredTabs, KeptLists
  <2> QED BY <1>0, <1>1, <1>2, <2>1, <2>2, <2>3, <2>4 DEF WatchInv, WatchTypeOK
<1> QED BY <1>3, <1>4, <1>5

\* What a page that is loaded again starts from.
LEMMA StoredListsAre ==
  ASSUME WatchTypeOK, Reloadable
  PROVE  /\ StoredLists \in Lists
         /\ wlStored.lists = Nothing \/ wlLegacy = {} => StoredLists = wlLists
         /\ \A tab \in TabIds : StoredLists[tab] = wlLists[tab] \cup
              (IF tab = "wl1" /\ wlStored.lists # Nothing THEN wlLegacy ELSE {})
<1>1. CASE wlStored.lists = Nothing
  BY <1>1 DEF StoredLists, Reloadable, KeptLists, WatchTypeOK
<1>2. CASE wlStored.lists # Nothing
  <2>1. wlStored.lists = wlLists /\ wlLists \in [TabIds -> SUBSET WatchSymbols]
    BY <1>2 DEF Reloadable, KeptLists, WatchTypeOK, Lists
  <2>2. StoredLists = [wlLists EXCEPT !["wl1"] = @ \cup wlLegacy]
    BY <1>2, <2>1 DEF StoredLists
  <2>3. StoredLists \in [TabIds -> SUBSET WatchSymbols]
    BY <2>1, <2>2 DEF WatchTypeOK
  <2>4. \A tab \in TabIds : StoredLists[tab] = wlLists[tab] \cup (IF tab = "wl1" THEN wlLegacy ELSE {})
    BY <2>1, <2>2
  <2>5. wlLegacy = {} => \A tab \in TabIds : StoredLists[tab] = wlLists[tab]
    BY <2>4
  <2>6. wlLegacy = {} => StoredLists = wlLists
    BY <2>1, <2>3, <2>5
  <2> QED BY <1>2, <2>3, <2>4, <2>6 DEF Lists
<1> QED BY <1>1, <1>2

LEMMA ReloadStep == ASSUME WatchInv, Reload PROVE WatchInv'
<1>0. /\ WatchTypeOK /\ Reloadable /\ wlStored \in StoredDesks
      /\ wlTabs \in [all : SUBSET TabIds, active : TabIds]
  BY DEF WatchInv, WatchTypeOK
<1>1. /\ wlLists' = StoredLists /\ UNCHANGED <<wlCloud, wlLegacy>> /\ wlAnswer' = Nothing
      /\ wlTabs' = [all |-> wlTabs.all,
                    active |-> IF wlStored.active = Nothing THEN "wl1" ELSE wlStored.active]
  BY <1>0 DEF Reload, Reloadable
<1>2. wlTabs' \in [all : SUBSET TabIds, active : TabIds] /\ wlTabs'.all = wlTabs.all
  <2>1. wlStored.active = Nothing \/ wlStored.active \in TabIds
    BY <1>0 DEF StoredDesks
  <2>2. wlTabs.all \in SUBSET TabIds /\ "wl1" \in TabIds
    BY <1>0 DEF TabIds
  <2> QED BY <1>1, <2>1, <2>2
<1>3. wlLists' \in Lists
  BY <1>0, <1>1, StoredListsAre
<1>4. wlStored' \in StoredDesks /\ Reloadable'
  <2>1. CASE wlStored.lists = Nothing \/ wlLegacy = {}
    <3>1. wlStored' = wlStored /\ wlLists' = wlLists
      BY <1>0, <1>1, <2>1, StoredListsAre DEF Reload
    <3> QED BY <1>0, <1>2, <3>1 DEF Reloadable, StoredTabs, KeptLists
  <2>2. CASE ~(wlStored.lists = Nothing \/ wlLegacy = {})
    <3> DEFINE lists == StoredLists
    <3>1. wlStored' = [wlStored EXCEPT !.lists = lists] /\ lists \in Lists /\ wlLists' = lists
      BY <1>0, <1>1, <2>2, StoredListsAre DEF Reload
    <3> HIDE DEF lists
    <3>2. /\ wlStored' \in StoredDesks /\ wlStored'.lists = lists /\ wlStored'.all = wlStored.all
          /\ lists # Nothing
      BY <1>0, <3>1, NothingAssumption DEF StoredDesks
    <3>3. StoredTabs' = StoredTabs /\ KeptLists' = lists
      BY <3>2 DEF StoredTabs, KeptLists
    <3> QED BY <1>0, <1>2, <3>1, <3>2, <3>3 DEF Reloadable
  <2> QED BY <2>1, <2>2
<1>5. wlQuery' \in WatchQueries /\ AnswerFollows'
  BY DEF Reload, FirstQuery, WatchQueries, AnswerFollows
<1>6. wlCalls' \subseteq WatchCalls
  <2>1. wlCalls' = {[c EXCEPT !.here = FALSE] : c \in wlCalls}
    BY DEF Reload
  <2>2. \A c \in WatchCalls : [c EXCEPT !.here = FALSE] \in WatchCalls
    BY DEF WatchCalls
  <2> QED BY <1>0, <2>1, <2>2 DEF WatchTypeOK
<1> QED BY <1>0, <1>1, <1>2, <1>3, <1>4, <1>5, <1>6 DEF WatchInv, WatchTypeOK

LEMMA WatchStep == WatchInv /\ [WatchlistsNext]_wlVars => WatchInv'
<1> SUFFICES ASSUME WatchInv, [WatchlistsNext]_wlVars PROVE WatchInv'
  OBVIOUS
<1>0. WatchTypeOK /\ Reloadable /\ wlCloud \in SUBSET WatchSymbols
  BY DEF WatchInv, WatchTypeOK
<1>1. ASSUME NEW c \in wlCalls, CallEnds(c) PROVE WatchInv'
  <2> DEFINE cloud == IF c.add THEN wlCloud \cup {c.symbol} ELSE wlCloud \ {c.symbol}
  <2>1. c.symbol \in WatchSymbols
    BY <1>0 DEF WatchTypeOK, WatchCalls
  <2>2. cloud \in SUBSET WatchSymbols
    BY <1>0, <2>1
  <2>3. /\ CallTold(cloud) \/ CallUntold(cloud)
        /\ wlCalls' \subseteq wlCalls
        /\ UNCHANGED <<wlAnswer, wlLists, wlTabs, wlStored, wlLegacy>>
    BY <1>1 DEF CallEnds
  <2> HIDE DEF cloud
  <2> QED BY <1>1, <2>2, <2>3, CallStep DEF CallEnds
<1>2. ASSUME NEW s \in WatchSymbols, ToggleFromPalette(s) PROVE WatchInv'
  <2> DEFINE watched == wlAnswer # Nothing /\ s \in wlAnswer
             cloud == IF watched THEN wlCloud \ {s} ELSE wlCloud \cup {s}
  <2>1. cloud \in SUBSET WatchSymbols
    BY <1>0
  <2>2. /\ CallTold(cloud) \/ CallUntold(cloud)
        /\ UNCHANGED <<wlAnswer, wlCalls, wlLists, wlTabs, wlStored, wlLegacy>>
    BY <1>2 DEF ToggleFromPalette
  <2> HIDE DEF cloud
  <2> QED BY <2>1, <2>2, CallStep
<1>3. CASE SearchOnDesk \/ OpenPalette \/ SearchInPalette \/ ClosePalette \/ UNCHANGED wlVars
  <2>1. UNCHANGED <<wlCloud, wlAnswer, wlQuery, wlCalls, wlLists, wlTabs, wlStored, wlLegacy>>
    BY <1>3 DEF SearchOnDesk, OpenPalette, SearchInPalette, ClosePalette, wlVars
  <2>2. AnswerFollows'
    BY <2>1 DEF AnswerFollows, WatchInv
  <2> QED BY <1>0, <2>1, <2>2, DeskStays DEF WatchInv, WatchTypeOK
<1> QED BY <1>1, <1>2, <1>3, ReloadStep, QueryStep, EditStep, TabStep DEF WatchlistsNext

LEMMA ListsAreKept == WatchInv => WatchlistsKept
<1> SUFFICES ASSUME WatchInv PROVE WatchlistsKept
  OBVIOUS
<1>1. WatchTypeOK /\ Reloadable /\ AnswerFollows /\ wlTabs.all \subseteq TabIds
  BY DEF WatchInv, WatchTypeOK
<1> QED BY <1>1, StoredListsAre DEF WatchlistsKept, Reloadable, AnswerFollows

-----------------------------------------------------------------------------
\* The chart and the price beside it.

ChartQuotes == [price : Nat, minute : Nat]
ChartBars == [time : Nat, close : Nat]

PricesOK ==
  /\ pcMinute \in Nat \ {0} /\ pcKnown \in {"pending", "equity", "failed"}
  /\ pcRest \in [quote : ChartQuotes \cup {NoPrice}, failed : BOOLEAN]
  /\ pcStream \in ChartQuotes \cup {NoPrice}
  /\ pcSession \in [live : BOOLEAN, minute : Nat]
  /\ pcArchive \in [bars : Nat, failed : BOOLEAN]
  /\ pcView \in [kind : ChartKinds, frame : Timeframes]
  /\ pcRest.quote # NoPrice => pcRest.quote.minute <= pcMinute

DrawnOK(drawn, last) ==
  drawn \in [ChartKinds -> Seq(ChartBars)] /\ last \in ChartBars \cup {NoPrice}

Ordered(bars) == \A i \in 2..Len(bars) : bars[i - 1].time < bars[i].time

\* Bars that begin with those of the archive, but for its last one.
StartsWith(bars, archived) ==
  /\ Len(archived) <= Len(bars)
  /\ \A i \in 1..(Len(archived) - 1) : bars[i] = archived[i]

\* The newest quote there is, of an instrument that is known or not.
NewestMinute ==
  IF pcStream # NoPrice /\ (pcRest.quote = NoPrice \/ pcStream.minute > pcRest.quote.minute)
  THEN pcStream.minute
  ELSE IF pcRest.quote # NoPrice THEN pcRest.quote.minute ELSE -1

\* No series goes past the last bar; one that stops before it stops before the quote too.
LastIsLast(drawn, last, newest) == \A k \in ChartKinds :
  drawn[k] # <<>> =>
    /\ last # NoPrice /\ Last(drawn[k]).time <= last.time
    /\ Last(drawn[k]).time = last.time \/ last.time <= newest

\* The last bar that shows has the price of a live quote.
LiveCloses ==
  LET bars == pcDrawn[pcView.kind] IN
  ChartLabel = "LIVE" /\ pcView.frame = 1 /\ bars # <<>> /\ Quote.minute >= Last(bars).time =>
    Last(bars).close = Quote.price

ChartInv ==
  /\ PricesOK /\ DrawnOK(pcDrawn, pcLast) /\ pcFresh \in BOOLEAN
  /\ \A k \in ChartKinds : Ordered(pcDrawn[k])
  /\ LastIsLast(pcDrawn, pcLast, NewestMinute)
  /\ ~pcFresh /\ Archived # <<>> => \A k \in ChartKinds : StartsWith(pcDrawn[k], Archived)
  /\ LiveCloses

\* An update of a series replaces its last bar or adds one behind it.
LEMMA UpdatedBars ==
  ASSUME NEW bars \in Seq(ChartBars), NEW bar \in ChartBars
  PROVE  /\ Updated(bars, bar) \in Seq(ChartBars) /\ Updated(bars, bar) # <<>>
         /\ Len(Updated(bars, bar)) = IF bars # <<>> /\ Last(bars).time = bar.time
                                      THEN Len(bars) ELSE Len(bars) + 1
         /\ \A i \in 1..(Len(Updated(bars, bar)) - 1) : Updated(bars, bar)[i] = bars[i]
         /\ Last(Updated(bars, bar)) = bar
<1>1. CASE bars # <<>> /\ Last(bars).time = bar.time
  <2> DEFINE front == Front(bars)
  <2>1. Len(bars) \in Nat \ {0}
    BY <1>1, EmptySeq
  <2>2. /\ front \in Seq(ChartBars) /\ Len(front) = Len(bars) - 1
        /\ \A i \in 1..(Len(bars) - 1) : front[i] = bars[i]
    <3>1. front = SubSeq(bars, 1, Len(bars) - 1)
      BY DEF Front
    <3>2. \A i \in 1..(Len(bars) - 1) : bars[i] \in ChartBars
      BY <2>1, ElementOfSeq
    <3> DEFINE n == Len(bars) - 1
    <3>3. n \in Nat /\ front = SubSeq(bars, 1, n) /\ \A i \in 1..n : bars[i] \in ChartBars
      BY <2>1, <3>1, <3>2
    <3> HIDE DEF front, n
    <3>4. /\ front \in Seq(ChartBars) /\ Len(front) = IF 1 <= n THEN n - 1 + 1 ELSE 0
          /\ \A i \in 1..(n - 1 + 1) : front[i] = bars[1 + i - 1]
      BY <3>3, SubSeqProperties
    <3>5. front \in Seq(ChartBars) /\ Len(front) = n /\ \A i \in 1..n : front[i] = bars[i]
      BY <3>3, <3>4
    <3> QED BY <3>5 DEF n
  <2> HIDE DEF front
  <2>3. /\ Append(front, bar) \in Seq(ChartBars) /\ Append(front, bar) # <<>>
        /\ Len(Append(front, bar)) = Len(bars)
        /\ \A i \in 1..Len(front) : Append(front, bar)[i] = front[i]
        /\ Append(front, bar)[Len(bars)] = bar
    BY <2>1, <2>2, AppendProperties
  <2>4. Updated(bars, bar) = Append(front, bar)
    BY <1>1 DEF Updated, front
  <2>5. \A i \in 1..(Len(bars) - 1) : Append(front, bar)[i] = bars[i]
    BY <2>1, <2>2, <2>3
  <2>6. Last(Append(front, bar)) = bar
    BY <2>3 DEF Last
  <2> QED BY <1>1, <2>3, <2>4, <2>5, <2>6
<1>2. CASE ~(bars # <<>> /\ Last(bars).time = bar.time)
  <2>1. Len(bars) \in Nat
    BY LenProperties
  <2>2. /\ Append(bars, bar) \in Seq(ChartBars) /\ Append(bars, bar) # <<>>
        /\ Len(Append(bars, bar)) = Len(bars) + 1
        /\ \A i \in 1..Len(bars) : Append(bars, bar)[i] = bars[i]
        /\ Append(bars, bar)[Len(bars) + 1] = bar
    BY AppendProperties
  <2>3. Updated(bars, bar) = Append(bars, bar)
    BY <1>2 DEF Updated
  <2>4. Last(Append(bars, bar)) = bar
    BY <2>2 DEF Last
  <2> QED BY <1>2, <2>1, <2>2, <2>3, <2>4
<1> QED BY <1>1, <1>2

\* Bars stay in order, and keep the archive's, when one no older than the last comes.
LEMMA UpdatedKeeps ==
  ASSUME NEW bars \in Seq(ChartBars), NEW bar \in ChartBars,
         bars # <<>> => Last(bars).time <= bar.time
  PROVE  /\ Ordered(bars) => Ordered(Updated(bars, bar))
         /\ \A archived \in Seq(ChartBars) :
              StartsWith(bars, archived) => StartsWith(Updated(bars, bar), archived)
<1> DEFINE more == Updated(bars, bar)
<1>1. /\ more \in Seq(ChartBars) /\ more # <<>>
      /\ Len(more) = IF bars # <<>> /\ Last(bars).time = bar.time
                     THEN Len(bars) ELSE Len(bars) + 1
      /\ \A i \in 1..(Len(more) - 1) : more[i] = bars[i]
      /\ Last(more) = bar
  BY UpdatedBars
<1>2. Len(bars) \in Nat /\ Len(more) \in Nat \ {0}
  BY <1>1, EmptySeq, LenProperties
<1>3. \A i \in 1..Len(bars) : bars[i] \in ChartBars /\ bars[i].time \in Nat
  <2>1. \A i \in 1..Len(bars) : bars[i] \in ChartBars
    BY ElementOfSeq
  <2> QED BY <2>1 DEF ChartBars
<1>4. bar.time \in Nat
  BY DEF ChartBars
<1> HIDE DEF more
<1>5. ASSUME Ordered(bars), NEW i \in 2..Len(more) PROVE more[i - 1].time < more[i].time
  <2>1. more[i - 1] = bars[i - 1] /\ i - 1 \in 1..Len(bars)
    BY <1>1, <1>2
  <2>2. CASE i = Len(more)
    <3>1. more[i] = bar
      BY <1>1, <2>2 DEF Last
    <3>2. CASE Len(more) = Len(bars)
      <4>1. Last(bars) = bars[i] /\ bars[i].time = bar.time
        BY <1>1, <2>2, <3>2 DEF Last
      <4>2. bars[i - 1].time < bars[i].time
        BY <1>2, <1>5, <2>2, <3>2 DEF Ordered
      <4> QED BY <2>1, <3>1, <4>1, <4>2
    <3>3. CASE Len(more) = Len(bars) + 1
      <4>1. bars[i - 1] = Last(bars) /\ bars # <<>>
        BY <1>2, <2>1, <2>2, <3>3, EmptySeq DEF Last
      <4>2. bars[i - 1].time <= bar.time
        BY <4>1
      <4>3. bars[i - 1].time # bar.time
        BY <1>1, <1>2, <3>3, <4>1
      <4> QED BY <1>3, <1>4, <2>1, <3>1, <4>2, <4>3
    <3> QED BY <1>1, <3>2, <3>3
  <2>3. CASE i # Len(more)
    <3>1. more[i] = bars[i] /\ i \in 2..Len(bars)
      BY <1>1, <1>2, <2>3
    <3> QED BY <1>5, <2>1, <3>1 DEF Ordered
  <2> QED BY <2>2, <2>3
<1>6. ASSUME NEW archived \in Seq(ChartBars), StartsWith(bars, archived)
      PROVE  StartsWith(more, archived)
  <2>1. Len(archived) \in Nat
    BY LenProperties
  <2>2. \A i \in 1..(Len(archived) - 1) : i \in 1..(Len(more) - 1)
    BY <1>1, <1>2, <1>6, <2>1 DEF StartsWith
  <2> QED BY <1>1, <1>2, <1>6, <2>1, <2>2 DEF StartsWith
<1> QED BY <1>5, <1>6 DEF Ordered, more

\* The candles of an archive are bars in order.
LEMMA CandlesInOrder ==
  ASSUME NEW held \in Nat, NEW frame \in Timeframes
  PROVE  Candles(held, frame) \in Seq(ChartBars) /\ Ordered(Candles(held, frame))
<1> DEFINE n == (held + frame - 1) \div frame
           candles == Candles(held, frame)
<1>1. n \in Nat /\ frame \in Nat \ {0}
  <2>1. CASE frame = 1
    BY <2>1
  <2>2. CASE frame = 2
    BY <2>2
  <2> QED BY <2>1, <2>2 DEF Timeframes
<1> DEFINE start(i) == frame * (i - 1)
           bar(i) == Bar(start(i), ArchivedPrice)
<1>2. candles = [i \in 1..n |-> bar(i)]
  BY DEF Candles
<1>3. \A i \in 1..n : start(i) \in Nat /\ (i > 1 => start(i - 1) < start(i))
  <2> TAKE i \in 1..n
  <2> HIDE DEF n
  <2>1. CASE frame = 1
    BY <1>1, <2>1
  <2>2. CASE frame = 2
    BY <1>1, <2>2
  <2> QED BY <2>1, <2>2 DEF Timeframes
<1> HIDE DEF n, candles, start
<1>4. \A i \in 1..n : bar(i) \in ChartBars /\ bar(i).time = start(i)
  BY <1>3, ChartAssumption DEF Bar, ChartBars
<1> HIDE DEF bar
<1>5. candles \in Seq(ChartBars) /\ Len(candles) = n
  BY <1>1, <1>2, <1>4
<1>6. ASSUME NEW i \in 2..n PROVE candles[i - 1].time < candles[i].time
  <2>1. i \in 1..n /\ i - 1 \in 1..n /\ i > 1
    BY <1>1
  <2>2. candles[i - 1].time = start(i - 1) /\ candles[i].time = start(i)
    BY <1>2, <1>4, <2>1
  <2> QED BY <1>3, <2>1, <2>2
<1> QED BY <1>5, <1>6 DEF Ordered, candles

LEMMA ArchiveInOrder ==
  ASSUME PricesOK'
  PROVE  Archived' \in Seq(ChartBars) /\ Ordered(Archived')
<1>1. pcArchive'.bars \in Nat /\ pcView'.frame \in Timeframes
  BY DEF PricesOK
<1>2. /\ Candles(pcArchive'.bars, pcView'.frame) \in Seq(ChartBars)
      /\ Ordered(Candles(pcArchive'.bars, pcView'.frame))
  BY <1>1, CandlesInOrder
<1>3. <<>> \in Seq(ChartBars) /\ Ordered(<<>>)
  BY DEF Ordered
<1> QED BY <1>2, <1>3 DEF Archived

\* A quote on the page is the newest there is.
LEMMA QuoteIsNewest ==
  ASSUME PricesOK', Quote' # NoPrice
  PROVE  Quote' \in ChartQuotes /\ Quote'.minute \in Nat /\ Quote'.price \in Nat
         /\ Quote'.minute = NewestMinute'
<1>1. /\ pcStream' \in ChartQuotes \cup {NoPrice} /\ pcRest'.quote \in ChartQuotes \cup {NoPrice}
  BY DEF PricesOK
<1>2. \A q \in ChartQuotes : q.minute \in Nat /\ q.price \in Nat
  BY DEF ChartQuotes
<1>3. Quote' \in ChartQuotes
  BY <1>1 DEF Quote
<1>4. Quote'.minute = NewestMinute'
  BY DEF Quote, NewestMinute
<1> QED BY <1>2, <1>3, <1>4

LEMMA LiveStep ==
  ASSUME PricesOK', NEW drawn, NEW last, DrawnOK(drawn, last),
         \A k \in ChartKinds : Ordered(drawn[k]),
         LastIsLast(drawn, last, NewestMinute'), Live(drawn, last)
  PROVE  /\ DrawnOK(pcDrawn', pcLast') /\ \A k \in ChartKinds : Ordered(pcDrawn'[k])
         /\ LastIsLast(pcDrawn', pcLast', NewestMinute') /\ LiveCloses'
         /\ \A k \in ChartKinds, archived \in Seq(ChartBars) :
              StartsWith(drawn[k], archived) => StartsWith(pcDrawn'[k], archived)
<1> DEFINE K == pcView'.kind
<1>1. K \in ChartKinds
  BY DEF PricesOK
<1>2. ASSUME NEW k \in ChartKinds, drawn[k] # <<>>
      PROVE  /\ last \in ChartBars /\ last.time \in Nat /\ Last(drawn[k]).time \in Nat
             /\ Last(drawn[k]).time <= last.time
             /\ Last(drawn[k]).time = last.time \/ last.time <= NewestMinute'
  <2>1. /\ last # NoPrice /\ Last(drawn[k]).time <= last.time
        /\ Last(drawn[k]).time = last.time \/ last.time <= NewestMinute'
    BY <1>2 DEF LastIsLast
  <2>2. last \in ChartBars
    BY <2>1 DEF DrawnOK
  <2>3. drawn[k] \in Seq(ChartBars)
    BY DEF DrawnOK
  <2>4. Last(drawn[k]) \in ChartBars
    <3>1. Len(drawn[k]) \in 1..Len(drawn[k])
      BY <1>2, <2>3, EmptySeq
    <3> QED BY <2>3, <3>1, ElementOfSeq DEF Last
  <2> QED BY <2>1, <2>2, <2>4 DEF ChartBars
<1>3. ChartLabel' = "LIVE" => Quote' # NoPrice
  BY DEF ChartLabel
<1>4. CASE /\ pcView'.frame = 1 /\ ChartLabel' = "LIVE"
           /\ last = NoPrice \/ Quote'.minute >= last.time
  <2> DEFINE bar == Bar(Quote'.minute, Quote'.price)
             more == Updated(drawn[K], bar)
  <2>1. Quote'.minute \in Nat /\ Quote'.price \in Nat /\ Quote'.minute = NewestMinute'
    BY <1>3, <1>4, QuoteIsNewest
  <2>2. bar \in ChartBars /\ bar.time = Quote'.minute /\ bar.close = Quote'.price
    BY <2>1 DEF Bar, ChartBars
  <2>3. pcDrawn' = [drawn EXCEPT ![K] = more] /\ pcLast' = bar
    BY <1>4 DEF Live
  <2> HIDE DEF bar
  <2>4. \A k \in ChartKinds : drawn[k] # <<>> => Last(drawn[k]).time <= bar.time
    <3> SUFFICES ASSUME NEW k \in ChartKinds, drawn[k] # <<>> PROVE Last(drawn[k]).time <= bar.time
      OBVIOUS
    <3>1. last \in ChartBars /\ last.time \in Nat /\ Last(drawn[k]).time \in Nat
          /\ Last(drawn[k]).time <= last.time
      BY <1>2
    <3>2. last # NoPrice
      BY <3>1, NoPriceAssumption DEF ChartBars
    <3> QED BY <1>4, <2>1, <2>2, <3>1, <3>2
  <2>5. drawn \in [ChartKinds -> Seq(ChartBars)] /\ drawn[K] \in Seq(ChartBars)
    BY <1>1 DEF DrawnOK
  <2>6. more \in Seq(ChartBars) /\ more # <<>> /\ Last(more) = bar
    BY <2>2, <2>5, UpdatedBars
  <2>7. Ordered(more) /\ \A archived \in Seq(ChartBars) :
                            StartsWith(drawn[K], archived) => StartsWith(more, archived)
    BY <1>1, <2>2, <2>4, <2>5, UpdatedKeeps
  <2> HIDE DEF more, K
  <2>8. /\ pcDrawn' \in [ChartKinds -> Seq(ChartBars)] /\ pcDrawn'[K] = more
        /\ \A k \in ChartKinds \ {K} : pcDrawn'[k] = drawn[k]
    BY <1>1, <2>3, <2>5, <2>6
  <2>9. DrawnOK(pcDrawn', pcLast')
    BY <2>2, <2>3, <2>8 DEF DrawnOK
  <2>10. LastIsLast(pcDrawn', pcLast', NewestMinute')
    <3> SUFFICES ASSUME NEW k \in ChartKinds, pcDrawn'[k] # <<>>
                 PROVE  /\ pcLast' # NoPrice /\ Last(pcDrawn'[k]).time <= pcLast'.time
                        /\ Last(pcDrawn'[k]).time = pcLast'.time \/ pcLast'.time <= NewestMinute'
      BY DEF LastIsLast
    <3>1. pcLast' # NoPrice
      BY <2>2, <2>3, NoPriceAssumption DEF ChartBars
    <3>2. CASE k = K
      BY <2>1, <2>2, <2>3, <2>6, <2>8, <3>1, <3>2
    <3>3. CASE k # K
      BY <2>1, <2>2, <2>3, <2>4, <2>8, <3>1, <3>3
    <3> QED BY <3>2, <3>3
  <2>11. LiveCloses'
    BY <2>2, <2>6, <2>8 DEF LiveCloses, K
  <2>12. \A k \in ChartKinds : Ordered(pcDrawn'[k])
    BY <2>7, <2>8
  <2>13. \A k \in ChartKinds, archived \in Seq(ChartBars) :
           StartsWith(drawn[k], archived) => StartsWith(pcDrawn'[k], archived)
    BY <2>7, <2>8
  <2> QED BY <2>9, <2>10, <2>11, <2>12, <2>13
<1>5. CASE ~(/\ pcView'.frame = 1 /\ ChartLabel' = "LIVE"
             /\ last = NoPrice \/ Quote'.minute >= last.time)
  <2>1. pcDrawn' = drawn /\ pcLast' = last
    BY <1>5 DEF Live
  <2>2. LiveCloses'
    <3> SUFFICES ASSUME ChartLabel' = "LIVE", pcView'.frame = 1, drawn[K] # <<>>,
                        Quote'.minute >= Last(drawn[K]).time
                 PROVE  FALSE
      BY <2>1 DEF LiveCloses
    <3>1. Quote'.minute \in Nat /\ Quote'.minute = NewestMinute'
      BY <1>3, QuoteIsNewest
    <3>2. last # NoPrice /\ ~(Quote'.minute >= last.time)
      BY <1>5
    <3> QED BY <1>1, <1>2, <3>1, <3>2
  <2>3. LastIsLast(pcDrawn', pcLast', NewestMinute')
    BY <2>1 DEF LastIsLast
  <2> QED BY <2>1, <2>2, <2>3
<1> QED BY <1>4, <1>5

LEMMA ChartStart == PriceChartInit => ChartInv
<1> SUFFICES ASSUME PriceChartInit PROVE ChartInv
  OBVIOUS
<1> USE DEF PriceChartInit
<1>1. PricesOK
  BY DEF PricesOK, ChartKinds, Timeframes
<1>2. \A k \in ChartKinds : pcDrawn[k] = <<>> /\ Ordered(pcDrawn[k])
  BY DEF Ordered
<1>3. DrawnOK(pcDrawn, pcLast)
  BY DEF DrawnOK
<1>4. Archived = <<>>
  BY DEF Archived, Canonical
<1>5. LiveCloses
  BY <1>1, <1>2 DEF LiveCloses, PricesOK
<1> QED BY <1>1, <1>2, <1>3, <1>4, <1>5 DEF ChartInv, LastIsLast

LEMMA LastStaysLast ==
  ASSUME NEW drawn, NEW last, DrawnOK(drawn, last), NEW old \in Int, NEW newest \in Int,
         old <= newest, LastIsLast(drawn, last, old)
  PROVE  LastIsLast(drawn, last, newest)
<1> SUFFICES ASSUME NEW k \in ChartKinds, drawn[k] # <<>>
             PROVE  /\ last # NoPrice /\ Last(drawn[k]).time <= last.time
                    /\ Last(drawn[k]).time = last.time \/ last.time <= newest
  BY DEF LastIsLast
<1>1. /\ last # NoPrice /\ Last(drawn[k]).time <= last.time
      /\ Last(drawn[k]).time = last.time \/ last.time <= old
  BY DEF LastIsLast
<1>2. last.time \in Nat
  BY <1>1 DEF DrawnOK, ChartBars
<1> QED BY <1>1, <1>2

\* A quote may come to the chart, and the archive stays.
LEMMA LiveKeeps ==
  ASSUME ChartInv, PricesOK', NewestMinute \in Int, NewestMinute' \in Int,
         NewestMinute <= NewestMinute', Live(pcDrawn, pcLast), UNCHANGED <<pcFresh, Archived>>
  PROVE  ChartInv'
<1>1. DrawnOK(pcDrawn, pcLast) /\ LastIsLast(pcDrawn, pcLast, NewestMinute')
  BY LastStaysLast DEF ChartInv
<1>3. /\ DrawnOK(pcDrawn', pcLast') /\ \A k \in ChartKinds : Ordered(pcDrawn'[k])
      /\ LastIsLast(pcDrawn', pcLast', NewestMinute') /\ LiveCloses'
      /\ \A k \in ChartKinds, archived \in Seq(ChartBars) :
           StartsWith(pcDrawn[k], archived) => StartsWith(pcDrawn'[k], archived)
  BY <1>1, LiveStep DEF ChartInv
<1>4. Archived' \in Seq(ChartBars) /\ Archived' = Archived
  BY ArchiveInOrder
<1> QED BY <1>3, <1>4 DEF ChartInv

\* The chart is drawn from the archive, when there is one.
LEMMA RedrawKeeps ==
  ASSUME ChartInv, PricesOK', NewestMinute \in Int, NewestMinute' \in Int,
         NewestMinute <= NewestMinute', Redraw
  PROVE  ChartInv'
<1>1. Archived' \in Seq(ChartBars) /\ Ordered(Archived') /\ pcFresh' \in BOOLEAN
  BY ArchiveInOrder DEF Redraw, ChartInv
<1>2. CASE Archived' = <<>>
  <2>1. LastIsLast(pcDrawn, pcLast, NewestMinute')
    BY LastStaysLast DEF ChartInv
  <2>2. /\ DrawnOK(pcDrawn', pcLast') /\ \A k \in ChartKinds : Ordered(pcDrawn'[k])
        /\ LastIsLast(pcDrawn', pcLast', NewestMinute') /\ LiveCloses'
    BY <1>2, <2>1, LiveStep DEF ChartInv, Redraw
  <2> QED BY <1>1, <1>2, <2>2 DEF ChartInv
<1>3. CASE Archived' # <<>>
  <2> DEFINE archived == Archived'
             drawn == [k \in ChartKinds |-> archived]
             last == Last(archived)
  <2>1. Len(archived) \in Nat \ {0}
    BY <1>1, <1>3, EmptySeq
  <2>2. last \in ChartBars /\ last # NoPrice /\ last.time \in Nat
    <3>1. last \in ChartBars
      BY <1>1, <2>1, ElementOfSeq DEF Last
    <3> QED BY <3>1, NoPriceAssumption DEF ChartBars
  <2>3. DrawnOK(drawn, last) /\ \A k \in ChartKinds : drawn[k] = archived /\ Ordered(drawn[k])
    BY <1>1, <2>2 DEF DrawnOK
  <2>4. Live(drawn, last) /\ pcFresh' = FALSE
    BY <1>3 DEF Redraw
  <2>5. \A k \in ChartKinds : Last(drawn[k]) = last
    BY <2>3
  <2>6. LastIsLast(drawn, last, NewestMinute')
    BY <2>2, <2>5 DEF LastIsLast
  <2>7. \A k \in ChartKinds : StartsWith(drawn[k], archived)
    BY <2>1, <2>3 DEF StartsWith
  <2> HIDE DEF drawn, last
  <2>8. /\ DrawnOK(pcDrawn', pcLast') /\ \A k \in ChartKinds : Ordered(pcDrawn'[k])
        /\ LastIsLast(pcDrawn', pcLast', NewestMinute') /\ LiveCloses'
        /\ \A k \in ChartKinds, bars \in Seq(ChartBars) :
             StartsWith(drawn[k], bars) => StartsWith(pcDrawn'[k], bars)
    BY <2>3, <2>4, <2>6, LiveStep
  <2> QED BY <1>1, <2>7, <2>8 DEF ChartInv
<1> QED BY <1>2, <1>3

\* What the chart was told of stays as it was.
LEMMA StillKeeps ==
  ASSUME ChartInv, PricesOK', NewestMinute \in Int, NewestMinute' \in Int,
         NewestMinute <= NewestMinute',
         UNCHANGED <<ChartQuote, pcMinute, pcView, pcDrawn, pcLast, pcFresh, Archived>>
  PROVE  ChartInv'
<1>1. DrawnOK(pcDrawn, pcLast) /\ LastIsLast(pcDrawn, pcLast, NewestMinute')
  BY LastStaysLast DEF ChartInv
<1>3. LastIsLast(pcDrawn', pcLast', NewestMinute')
  BY <1>1
<1>4. UNCHANGED <<Quote, ChartLabel>>
  BY DEF ChartQuote, ChartLabel
<1>5. LiveCloses'
  BY <1>4 DEF ChartInv, LiveCloses
<1> QED BY <1>3, <1>5 DEF ChartInv, DrawnOK

LEMMA ChartStep == ChartInv /\ [PriceChartNext]_pcVars => ChartInv'
<1> SUFFICES ASSUME ChartInv, [PriceChartNext]_pcVars PROVE ChartInv'
  OBVIOUS
<1>0. PricesOK
  BY DEF ChartInv
<1>1. \A q \in ChartQuotes : q.minute \in Nat
  BY DEF ChartQuotes
<1>2. NewestMinute \in Int
  BY <1>0, <1>1 DEF NewestMinute, PricesOK
<1>3. ASSUME PricesOK' PROVE NewestMinute' \in Int
  BY <1>1, <1>3 DEF NewestMinute, PricesOK
<1>4. ASSUME UNCHANGED pcQuotes PROVE NewestMinute' = NewestMinute
  BY <1>4 DEF NewestMinute, pcQuotes
<1>5. CASE Second
  <2>1. PricesOK'
    BY <1>0, <1>1, <1>5 DEF Second, PricesOK, pcQuotes
  <2> QED BY <1>2, <1>4, <1>5, <2>1, RedrawKeeps DEF Second
<1>6. CASE InstrumentAnswered \/ SelectTimeframe
  <2>1. PricesOK'
    <3>1. CASE InstrumentAnswered
      BY <1>0, <3>1 DEF InstrumentAnswered, PricesOK, pcQuotes
    <3>2. CASE SelectTimeframe
      BY <1>0, <3>2 DEF SelectTimeframe, PricesOK, pcQuotes
    <3> QED BY <1>6, <3>1, <3>2
  <2>2. UNCHANGED pcQuotes /\ Redraw
    BY <1>6 DEF InstrumentAnswered, SelectTimeframe
  <2> QED BY <1>2, <1>4, <2>1, <2>2, RedrawKeeps
<1>7. CASE ArchiveAnswered
  <2>1. PricesOK'
    <3>1. /\ pcArchive.bars \in Nat /\ pcMinute + 1 \in Nat
          /\ pcArchive \in [bars : Nat, failed : BOOLEAN]
      BY <1>0 DEF PricesOK
    <3>2. [bars : pcArchive.bars..(pcMinute + 1), failed : {FALSE}] \subseteq [bars : Nat, failed : BOOLEAN]
      <4> DEFINE held == pcArchive.bars..(pcMinute + 1)
      <4>1. held \subseteq Nat
        BY <3>1
      <4> HIDE DEF held
      <4>2. [bars : held, failed : {FALSE}] \subseteq [bars : Nat, failed : BOOLEAN]
        BY <4>1
      <4> QED BY <4>2 DEF held
    <3>3. [pcArchive EXCEPT !.failed = TRUE] \in [bars : Nat, failed : BOOLEAN]
      BY <3>1
    <3>4. pcArchive' \in [bars : Nat, failed : BOOLEAN]
      BY <1>7, <3>2, <3>3 DEF ArchiveAnswered
    <3> QED BY <1>0, <1>7, <3>4 DEF ArchiveAnswered, PricesOK, pcQuotes
  <2> QED BY <1>2, <1>4, <1>7, <2>1, RedrawKeeps DEF ArchiveAnswered
<1>8. CASE SelectKind
  <2>1. PricesOK'
    BY <1>0, <1>8 DEF SelectKind, PricesOK, pcQuotes
  <2>2. UNCHANGED Archived
    BY <1>8 DEF SelectKind, Archived, Canonical
  <2> QED BY <1>2, <1>4, <1>8, <2>1, <2>2, LiveKeeps DEF SelectKind
<1>9. CASE Ticked
  <2>1. PICK p \in Prices, m \in {pcMinute, pcMinute - 1} :
          /\ m >= IF pcStream = NoPrice THEN 0 ELSE pcStream.minute
          /\ pcStream' = [price |-> p, minute |-> m]
    BY <1>9 DEF Ticked
  <2>2. m \in Nat /\ p \in Nat
    BY <1>0, ChartAssumption DEF PricesOK
  <2>3. pcStream' \in ChartQuotes /\ pcStream'.minute = m
    BY <2>1, <2>2 DEF ChartQuotes
  <2>4. PricesOK'
    BY <1>0, <1>9, <2>3 DEF Ticked, PricesOK
  <2>5. NewestMinute <= NewestMinute'
    <3>1. pcStream' # NoPrice /\ UNCHANGED pcRest
      BY <1>9, <2>3, NoPriceAssumption DEF Ticked, ChartQuotes
    <3>2. pcStream # NoPrice => pcStream.minute \in Nat /\ pcStream.minute <= m
      BY <1>0, <1>1, <2>1, <2>2 DEF PricesOK
    <3>3. pcRest.quote # NoPrice => pcRest.quote.minute \in Nat
      BY <1>0, <1>1 DEF PricesOK
    <3> QED BY <2>2, <2>3, <3>1, <3>2, <3>3 DEF NewestMinute
  <2>6. UNCHANGED Archived
    BY <1>9 DEF Ticked, Archived, Canonical
  <2> QED BY <1>2, <1>3, <1>9, <2>4, <2>5, <2>6, LiveKeeps DEF Ticked
<1>10. CASE QuotePolled
  <2>1. /\ pcRest' \in [quote : ChartQuotes \cup {NoPrice}, failed : BOOLEAN]
        /\ pcRest'.quote # NoPrice => pcRest'.quote.minute <= pcMinute
        /\ NewestMinute <= NewestMinute'
    <3>0. /\ pcStream # NoPrice => pcStream.minute \in Nat
          /\ pcRest.quote # NoPrice => pcRest.quote.minute \in Nat /\ pcRest.quote.minute <= pcMinute
          /\ pcRest.quote \in ChartQuotes \cup {NoPrice} /\ pcMinute \in Nat /\ UNCHANGED pcStream
      BY <1>0, <1>1, <1>10 DEF PricesOK, QuotePolled
    <3>1. CASE pcRest' = [pcRest EXCEPT !.failed = TRUE]
      <4>1. /\ pcRest' \in [quote : ChartQuotes \cup {NoPrice}, failed : BOOLEAN]
            /\ pcRest'.quote = pcRest.quote
        BY <1>0, <3>1 DEF PricesOK
      <4> QED BY <3>0, <4>1 DEF NewestMinute
    <3>2. ASSUME NEW p \in PolledPrices,
                 pcRest' = [quote |-> [price |-> p, minute |-> pcMinute], failed |-> FALSE]
          PROVE  <2>1!1 /\ <2>1!2 /\ <2>1!3
      <4>1. [price |-> p, minute |-> pcMinute] \in ChartQuotes
        BY <1>0, ChartAssumption DEF PricesOK, ChartQuotes
      <4>2. /\ pcRest'.quote \in ChartQuotes /\ pcRest'.quote.minute = pcMinute
            /\ pcRest' \in [quote : ChartQuotes \cup {NoPrice}, failed : BOOLEAN]
        BY <3>2, <4>1
      <4>3. pcRest'.quote # NoPrice
        BY <4>2, NoPriceAssumption DEF ChartQuotes
      <4> QED BY <3>0, <4>2, <4>3 DEF NewestMinute
    <3> QED BY <1>10, <3>1, <3>2 DEF QuotePolled
  <2>2. PricesOK'
    BY <1>0, <1>10, <2>1 DEF QuotePolled, PricesOK
  <2>3. UNCHANGED Archived
    BY <1>10 DEF QuotePolled, Archived, Canonical
  <2>4. CASE UNCHANGED ChartQuote
    BY <1>2, <1>3, <1>10, <2>1, <2>2, <2>3, <2>4, StillKeeps DEF QuotePolled, LiveIfNew
  <2>5. CASE ~UNCHANGED ChartQuote
    BY <1>2, <1>3, <1>10, <2>1, <2>2, <2>3, <2>5, LiveKeeps DEF QuotePolled, LiveIfNew
  <2> QED BY <2>4, <2>5
<1>11. CASE StatusAnswered
  <2>1. PricesOK'
    BY <1>0, <1>11 DEF StatusAnswered, PricesOK, pcQuotes
  <2>2. UNCHANGED Archived
    BY <1>11 DEF StatusAnswered, Archived, Canonical
  <2>3. CASE UNCHANGED ChartQuote
    BY <1>2, <1>4, <1>11, <2>1, <2>2, <2>3, StillKeeps DEF StatusAnswered, LiveIfNew
  <2>4. CASE ~UNCHANGED ChartQuote
    BY <1>2, <1>4, <1>11, <2>1, <2>2, <2>4, LiveKeeps DEF StatusAnswered, LiveIfNew
  <2> QED BY <2>3, <2>4
<1>12. CASE ToggleFullscreen
  <2>1. PricesOK'
    BY <1>0, <1>12 DEF ToggleFullscreen, PricesOK, pcQuotes
  <2>2. \A k \in ChartKinds : pcDrawn'[k] = <<>> /\ Ordered(pcDrawn'[k])
    BY <1>12 DEF ToggleFullscreen, Ordered
  <2>3. DrawnOK(pcDrawn, pcLast)' /\ pcFresh' = TRUE
    BY <1>12 DEF ToggleFullscreen, DrawnOK, ChartInv
  <2>4. LiveCloses'
    BY <2>1, <2>2 DEF LiveCloses, PricesOK
  <2> QED BY <2>1, <2>2, <2>3, <2>4 DEF ChartInv, LastIsLast
<1>13. CASE UNCHANGED pcVars
  <2>1. PricesOK'
    BY <1>0, <1>13 DEF pcVars, PricesOK
  <2>2. UNCHANGED <<Archived, ChartQuote>>
    BY <1>13 DEF pcVars, Archived, Canonical, ChartQuote, Quote, SessionLive
  <2>3. UNCHANGED <<pcMinute, pcView, pcDrawn, pcLast, pcFresh, pcQuotes>>
    BY <1>13 DEF pcVars, pcQuotes
  <2> QED BY <1>2, <1>4, <2>1, <2>2, <2>3, StillKeeps
<1> QED BY <1>5, <1>6, <1>7, <1>8, <1>9, <1>10, <1>11, <1>12, <1>13 DEF PriceChartNext

LEMMA ChartTellsOneStory == ChartInv => ChartHonest
<1> SUFFICES ASSUME ChartInv PROVE ChartHonest
  OBVIOUS
<1> DEFINE bars == pcDrawn[pcView.kind]
<1>0. PricesOK /\ pcView.kind \in ChartKinds
  BY DEF ChartInv, PricesOK
<1>1. \A i \in 2..Len(bars) : bars[i - 1].time < bars[i].time
  BY <1>0 DEF ChartInv, Ordered
<1>2. ~pcFresh /\ Archived # <<>> => \A i \in 1..(Len(Archived) - 1) : bars[i] = Archived[i]
  BY <1>0 DEF ChartInv, StartsWith
<1>3. ChartLabel = "LIVE" => Quote # NoPrice
  BY DEF ChartLabel
<1>4. Quote # NoPrice => Canonical /\ ChartPrice = Quote.price
  BY DEF Quote, ChartPrice
<1>5. ChartLabel = "LIVE" /\ pcView.frame = 1 /\ bars # <<>> /\ Quote.minute >= Last(bars).time =>
        Last(bars).close = ChartPrice
  BY <1>3, <1>4 DEF ChartInv, LiveCloses
<1>6. PriceHeader.price # NoPrice => PriceHeader.canRefresh /\ ChartPrice = PriceHeader.price
  BY <1>4 DEF PriceHeader
<1>7. ChartBadge = "LIVE" =>
        ~PriceHeader.alert /\ pcSession.minute = pcMinute /\ pcMinute - Quote.minute <= QuoteFresh
  <2> SUFFICES ASSUME ChartBadge = "LIVE"
               PROVE  ~PriceHeader.alert /\ pcSession.minute = pcMinute
                      /\ pcMinute - Quote.minute <= QuoteFresh
    OBVIOUS
  <2>1. ChartLabel = "LIVE"
    BY DEF ChartBadge
  <2>2. /\ SessionLive /\ ~pcRest.failed /\ ~(pcMinute - Quote.minute > QuoteFresh)
    BY <2>1 DEF ChartLabel
  <2>3. Canonical /\ Quote \in ChartQuotes
    BY <1>0, <1>3, <2>1 DEF Quote, PricesOK
  <2>4. pcMinute - Quote.minute <= QuoteFresh
    BY <1>0, <2>2, <2>3, ChartAssumption DEF PricesOK, ChartQuotes
  <2> QED BY <2>2, <2>3, <2>4 DEF SessionLive, PriceHeader, Canonical
<1> QED BY <1>1, <1>2, <1>5, <1>6, <1>7 DEF ChartHonest

-----------------------------------------------------------------------------
\* Sums over finite sets, in whatever order they are added up.

\* The sums of the subsets of S, each from the sum without one of its elements.
Adding(sums, f, S) ==
  sums = [s \in SUBSET S |-> IF s = {} THEN 0
                             ELSE LET x == CHOOSE x \in s : TRUE IN f[x] + sums[s \ {x}]]

\* A set of finite sets that has an element has one that holds no other.
LEMMA LeastSet ==
  ASSUME NEW S, IsFiniteSet(S), NEW T \in SUBSET SUBSET S, T # {}
  PROVE  \E m \in T : \A k \in T : k \subseteq m => k = m
<1>1. IsWellFoundedOn(StrictSubsetOrdering(S), SUBSET S)
  <2>1. FiniteSubsetsOf(S) = SUBSET S
    BY FS_FiniteSubsetsOfFinite, Zenon
  <2>2. IsWellFoundedOn(StrictSubsetOrdering(S), FiniteSubsetsOf(S))
    BY FS_StrictSubsetOrderingWellFounded, Zenon
  <2> QED BY <2>1, <2>2, Zenon
<1>2. PICK m \in T : \A y \in T : ~ (<<y, m>> \in StrictSubsetOrdering(S))
  BY <1>1, WFMin, Zenon
<1>3. ASSUME NEW k \in T, k \subseteq m, k # m PROVE FALSE
  BY <1>2, <1>3, Zenon DEF StrictSubsetOrdering
<1> QED BY <1>2, <1>3

LEMMA AddingUnique ==
  ASSUME NEW f, NEW S, IsFiniteSet(S), NEW R \in SUBSET S, NEW s, NEW r,
         Adding(s, f, S), Adding(r, f, R)
  PROVE  s[R] = r[R]
<1> DEFINE Bad == {k \in SUBSET R : s[k] # r[k]}
<1>1. SUFFICES ASSUME R \in Bad PROVE FALSE
  OBVIOUS
<1>2. PICK m \in Bad : \A k \in Bad : k \subseteq m => k = m
  <2>1. Bad \in SUBSET SUBSET S /\ Bad # {}
    BY <1>1
  <2> HIDE DEF Bad
  <2> QED BY <2>1, LeastSet
<1>3. /\ s[m] = IF m = {} THEN 0 ELSE LET x == CHOOSE x \in m : TRUE IN f[x] + s[m \ {x}]
      /\ r[m] = IF m = {} THEN 0 ELSE LET x == CHOOSE x \in m : TRUE IN f[x] + r[m \ {x}]
  BY DEF Adding
<1>4. m # {} => \A x \in m : s[m \ {x}] = r[m \ {x}]
  BY <1>2
<1> QED BY <1>2, <1>3, <1>4

LEMMA AddingExists ==
  ASSUME NEW f, NEW S, IsFiniteSet(S)
  PROVE  \E sums : Adding(sums, f, S)
<1> DEFINE Bad == {k \in SUBSET S : ~ \E sums : Adding(sums, f, k)}
<1>1. SUFFICES ASSUME S \in Bad PROVE FALSE
  OBVIOUS
<1>2. PICK m \in Bad : \A k \in Bad : k \subseteq m => k = m
  <2>1. Bad \in SUBSET SUBSET S /\ Bad # {}
    BY <1>1
  <2> HIDE DEF Bad
  <2> QED BY <2>1, LeastSet
<1>3. m \in SUBSET S /\ ~ \E sums : Adding(sums, f, m)
  BY <1>2
<1>4. \A k \in SUBSET m : k # m => \E sums : Adding(sums, f, k)
  BY <1>2
<1> HIDE DEF Bad
<1> DEFINE of(k) == CHOOSE sums : Adding(sums, f, k)
           below(k) == LET x == CHOOSE x \in k : TRUE IN
                       IF k = {} THEN 0 ELSE f[x] + of(k \ {x})[k \ {x}]
           t == [k \in SUBSET m |-> below(k)]
<1>5. \A k \in SUBSET m : k # m => Adding(of(k), f, k)
  BY <1>4
<1>6. ASSUME NEW k \in SUBSET m, k # m
      PROVE  of(k)[k] = below(k)
  <2>1. Adding(of(k), f, k)
    BY <1>5, <1>6
  <2>2. k \in SUBSET k /\ of(k)[k] = IF k = {} THEN 0 ELSE LET x == CHOOSE x \in k : TRUE IN f[x] + of(k)[k \ {x}]
    <3> DEFINE g == of(k)
    <3>1. Adding(g, f, k)
      BY <2>1
    <3> HIDE DEF g
    <3>2. g[k] = IF k = {} THEN 0 ELSE LET x == CHOOSE x \in k : TRUE IN f[x] + g[k \ {x}]
      BY <3>1 DEF Adding
    <3> QED BY <3>2 DEF g
  <2>3. ASSUME NEW x \in k PROVE of(k)[k \ {x}] = of(k \ {x})[k \ {x}]
    <3>1. k \ {x} \in SUBSET m /\ k \ {x} # m /\ k \ {x} \in SUBSET k
      BY <1>6
    <3>2. Adding(of(k \ {x}), f, k \ {x})
      BY <1>5, <3>1
    <3>3. IsFiniteSet(k)
      BY <1>3, FS_Subset
    <3> HIDE DEF of
    <3> QED BY <2>1, <3>1, <3>2, <3>3, AddingUnique
  <2>4. k # {} => (CHOOSE x \in k : TRUE) \in k
    OBVIOUS
  <2> HIDE DEF of
  <2> QED BY <2>2, <2>3, <2>4
<1>7. \A k \in SUBSET m : \A x \in k : t[k \ {x}] = of(k \ {x})[k \ {x}]
  <2> SUFFICES ASSUME NEW k \in SUBSET m, NEW x \in k PROVE t[k \ {x}] = of(k \ {x})[k \ {x}]
    OBVIOUS
  <2>1. k \ {x} \in SUBSET m /\ k \ {x} # m
    OBVIOUS
  <2>2. of(k \ {x})[k \ {x}] = below(k \ {x})
    BY <1>6, <2>1
  <2> HIDE DEF of, below
  <2> QED BY <2>1, <2>2
<1>8. Adding(t, f, m)
  <2>1. ASSUME NEW k \in SUBSET m
        PROVE  t[k] = IF k = {} THEN 0 ELSE LET x == CHOOSE x \in k : TRUE IN f[x] + t[k \ {x}]
    <3>1. t[k] = below(k)
      OBVIOUS
    <3>2. k # {} => (CHOOSE x \in k : TRUE) \in k
      OBVIOUS
    <3> HIDE DEF of, t
    <3> QED BY <1>7, <3>1, <3>2
  <2>2. t = [k \in SUBSET m |-> t[k]]
    OBVIOUS
  <2> HIDE DEF t
  <2> QED BY <2>1, <2>2 DEF Adding
<1> QED BY <1>3, <1>8

LEMMA SumIsAdded ==
  ASSUME NEW f, NEW S, IsFiniteSet(S)
  PROVE  \E sums : Adding(sums, f, S) /\ SumFunctionOnSet(f, S) = sums[S]
<1> DEFINE sums == CHOOSE sums : Adding(sums, f, S)
<1>1. SumFunctionOnSet(f, S) = sums[S]
  BY Zenon DEF SumFunctionOnSet, FoldFunctionOnSet, MapThenFoldSet, Adding
<1>2. Adding(sums, f, S)
  BY AddingExists, Zenon
<1> QED BY <1>1, <1>2

\* A sum is that without one of its elements, whichever it is, and that element.
LEMMA SumStep ==
  ASSUME NEW S, IsFiniteSet(S), NEW f, \A x \in S : f[x] \in Int
  PROVE  /\ SumFunctionOnSet(f, {}) = 0
         /\ SumFunctionOnSet(f, S) \in Int
         /\ \A x \in S : SumFunctionOnSet(f, S) = f[x] + SumFunctionOnSet(f, S \ {x})
<1> DEFINE Sum(k) == SumFunctionOnSet(f, k)
<1>1. ASSUME NEW k \in SUBSET S
      PROVE  /\ k = {} => Sum(k) = 0
             /\ k # {} => \E y \in k : Sum(k) = f[y] + Sum(k \ {y})
  <2>1. IsFiniteSet(k)
    BY FS_Subset
  <2>2. PICK s : Adding(s, f, k) /\ Sum(k) = s[k]
    BY <2>1, SumIsAdded
  <2>3. s[k] = IF k = {} THEN 0 ELSE LET y == CHOOSE y \in k : TRUE IN f[y] + s[k \ {y}]
    BY <2>2 DEF Adding
  <2>4. ASSUME NEW y \in k PROVE s[k \ {y}] = Sum(k \ {y})
    <3>1. k \ {y} \in SUBSET k /\ IsFiniteSet(k \ {y})
      BY <2>1, FS_Subset
    <3>2. PICK r : Adding(r, f, k \ {y}) /\ Sum(k \ {y}) = r[k \ {y}]
      BY <3>1, SumIsAdded
    <3> QED BY <2>1, <2>2, <3>1, <3>2, AddingUnique
  <2>5. k # {} => (CHOOSE y \in k : TRUE) \in k
    OBVIOUS
  <2> HIDE DEF Sum
  <2> QED BY <2>2, <2>3, <2>4, <2>5
<1>2. Sum({}) = 0
  BY <1>1
<1> HIDE DEF Sum
<1>3. \A k \in SUBSET S : Sum(k) \in Int
  <2> DEFINE Bad == {k \in SUBSET S : Sum(k) \notin Int}
  <2>1. SUFFICES ASSUME Bad # {} PROVE FALSE
    OBVIOUS
  <2>2. PICK m \in Bad : \A k \in Bad : k \subseteq m => k = m
    <3>1. Bad \in SUBSET SUBSET S
      OBVIOUS
    <3> HIDE DEF Bad
    <3> QED BY <2>1, <3>1, LeastSet
  <2>3. m \in SUBSET S /\ m # {}
    <3>1. m \in SUBSET S /\ Sum(m) \notin Int
      BY <2>2
    <3>2. Sum({}) \in Int
      BY <1>2
    <3> QED BY <3>1, <3>2, Zenon
  <2>4. PICK y \in m : Sum(m) = f[y] + Sum(m \ {y})
    BY <1>1, <2>3
  <2>5. m \ {y} \in SUBSET S /\ m \ {y} \subseteq m /\ m \ {y} # m /\ f[y] \in Int
    BY <2>3, <2>4
  <2>6. Sum(m \ {y}) \in Int
    BY <2>2, <2>5
  <2> QED BY <2>2, <2>4, <2>5, <2>6
<1>4. \A k \in SUBSET S : \A x \in k : Sum(k) = f[x] + Sum(k \ {x})
  <2> DEFINE Fits(k) == \A x \in k : Sum(k) = f[x] + Sum(k \ {x})
             Bad == {k \in SUBSET S : ~Fits(k)}
  <2>1. SUFFICES ASSUME Bad # {} PROVE FALSE
    OBVIOUS
  <2>2. PICK m \in Bad : \A k \in Bad : k \subseteq m => k = m
    <3>1. Bad \in SUBSET SUBSET S
      OBVIOUS
    <3> HIDE DEF Bad
    <3> QED BY <2>1, <3>1, LeastSet
  <2>3. m \in SUBSET S /\ ~Fits(m)
    BY <2>2
  <2>4. \A k \in SUBSET m : k # m => Fits(k)
    BY <2>2
  <2> HIDE DEF Bad
  <2>5. PICK x \in m : Sum(m) # f[x] + Sum(m \ {x})
    BY <2>3
  <2>6. PICK y \in m : Sum(m) = f[y] + Sum(m \ {y})
    BY <1>1, <2>3, <2>5
  <2>7. x # y
    BY <2>5, <2>6
  <2>8. Fits(m \ {x}) /\ Fits(m \ {y})
    BY <2>4
  <2>9. /\ Sum(m \ {x}) = f[y] + Sum((m \ {x}) \ {y})
        /\ Sum(m \ {y}) = f[x] + Sum((m \ {y}) \ {x})
    BY <2>7, <2>8
  <2>10. (m \ {x}) \ {y} = (m \ {y}) \ {x} /\ (m \ {x}) \ {y} \in SUBSET S
    BY <2>3
  <2>11. f[x] \in Int /\ f[y] \in Int /\ Sum((m \ {x}) \ {y}) \in Int
    BY <1>3, <2>3, <2>10
  <2>12. Sum(m \ {y}) = f[x] + Sum((m \ {x}) \ {y})
    BY <2>9, <2>10, Zenon
  <2>13. Sum(m) = f[y] + (f[x] + Sum((m \ {x}) \ {y}))
    BY <2>6, <2>12, Zenon
  <2>14. f[x] + Sum(m \ {x}) = f[x] + (f[y] + Sum((m \ {x}) \ {y}))
    BY <2>9, Zenon
  <2> DEFINE rest == Sum((m \ {x}) \ {y})
  <2>15. f[y] + (f[x] + rest) = f[x] + (f[y] + rest)
    <3>1. rest \in Int
      BY <2>11
    <3> HIDE DEF rest
    <3> QED BY <2>11, <3>1
  <2> QED BY <2>5, <2>13, <2>14, <2>15, Zenon
<1> QED BY <1>2, <1>3, <1>4 DEF Sum
\* Terms that are alike have the same sum.
LEMMA SumAlike ==
  ASSUME NEW S, IsFiniteSet(S), NEW f, NEW g, \A x \in S : f[x] \in Int /\ g[x] = f[x]
  PROVE  SumFunctionOnSet(g, S) = SumFunctionOnSet(f, S)
<1> DEFINE Bad == {k \in SUBSET S : SumFunctionOnSet(g, k) # SumFunctionOnSet(f, k)}
<1>1. SUFFICES ASSUME Bad # {} PROVE FALSE
  OBVIOUS
<1>2. PICK m \in Bad : \A k \in Bad : k \subseteq m => k = m
  <2>1. Bad \in SUBSET SUBSET S
    OBVIOUS
  <2> HIDE DEF Bad
  <2> QED BY <1>1, <2>1, LeastSet
<1>3. m \in SUBSET S /\ SumFunctionOnSet(g, m) # SumFunctionOnSet(f, m)
  BY <1>2
<1>4. IsFiniteSet(m) /\ \A x \in m : f[x] \in Int /\ g[x] \in Int
  BY <1>3, FS_Subset
<1>5. /\ SumFunctionOnSet(g, {}) = 0 /\ SumFunctionOnSet(f, {}) = 0
      /\ \A x \in m : /\ SumFunctionOnSet(g, m) = g[x] + SumFunctionOnSet(g, m \ {x})
                      /\ SumFunctionOnSet(f, m) = f[x] + SumFunctionOnSet(f, m \ {x})
  BY <1>4, SumStep
<1>6. PICK x \in m : TRUE
  BY <1>3, <1>5, Zenon
<1>7. m \ {x} \notin Bad /\ m \ {x} \in SUBSET S /\ g[x] = f[x]
  BY <1>2, <1>3
<1>8. SumFunctionOnSet(g, m \ {x}) = SumFunctionOnSet(f, m \ {x})
  BY <1>7
<1> HIDE DEF Bad
<1> QED BY <1>3, <1>5, <1>7, <1>8

\* Sets with nothing in common are added up apart.
LEMMA SumApart ==
  ASSUME NEW S, IsFiniteSet(S), NEW f, \A x \in S : f[x] \in Int,
         NEW A \in SUBSET S, NEW B \in SUBSET S, A \cap B = {}
  PROVE  SumFunctionOnSet(f, A \cup B) = SumFunctionOnSet(f, A) + SumFunctionOnSet(f, B)
<1> DEFINE Sum(k) == SumFunctionOnSet(f, k)
<1>0. \A k \in SUBSET S : /\ Sum(k) \in Int /\ Sum({}) = 0
                          /\ \A x \in k : Sum(k) = f[x] + Sum(k \ {x})
  <2> SUFFICES ASSUME NEW k \in SUBSET S
               PROVE  Sum(k) \in Int /\ Sum({}) = 0 /\ \A x \in k : Sum(k) = f[x] + Sum(k \ {x})
    OBVIOUS
  <2>1. IsFiniteSet(k) /\ \A x \in k : f[x] \in Int
    BY FS_Subset
  <2> QED BY <2>1, SumStep
<1> HIDE DEF Sum
<1> DEFINE Bad == {k \in SUBSET B : Sum(A \cup k) # Sum(A) + Sum(k)}
<1>1. SUFFICES ASSUME Bad # {} PROVE FALSE
  BY DEF Sum
<1>2. PICK m \in Bad : \A k \in Bad : k \subseteq m => k = m
  <2>1. Bad \in SUBSET SUBSET S
    OBVIOUS
  <2> HIDE DEF Bad
  <2> QED BY <1>1, <2>1, LeastSet
<1>3. m \in SUBSET B /\ Sum(A \cup m) # Sum(A) + Sum(m)
  BY <1>2
<1>4. m # {}
  <2>1. A \cup {} = A /\ Sum(A) + 0 = Sum(A) /\ Sum({}) = 0
    BY <1>0
  <2> QED BY <1>3, <2>1, Zenon
<1>5. PICK x \in m : TRUE
  BY <1>4
<1>6. m \ {x} \notin Bad /\ m \ {x} \in SUBSET B
  BY <1>2, <1>3
<1>7. Sum(A \cup (m \ {x})) = Sum(A) + Sum(m \ {x})
  BY <1>6
<1> HIDE DEF Bad
<1>8. (A \cup m) \ {x} = A \cup (m \ {x}) /\ A \cup m \in SUBSET S /\ m \in SUBSET S /\ m \ {x} \in SUBSET S
      /\ x \in A \cup m
  BY <1>3
<1>9. Sum(A \cup m) = f[x] + Sum((A \cup m) \ {x}) /\ Sum(m) = f[x] + Sum(m \ {x})
  BY <1>0, <1>8
<1>10. Sum(A \cup m) = f[x] + (Sum(A) + Sum(m \ {x}))
  BY <1>7, <1>8, <1>9, Zenon
<1>11. f[x] \in Int /\ Sum(A) \in Int /\ Sum(m \ {x}) \in Int
  BY <1>0, <1>3, <1>8
<1>12. f[x] + (Sum(A) + Sum(m \ {x})) = Sum(A) + (f[x] + Sum(m \ {x}))
  <2> DEFINE a == Sum(A)
             b == Sum(m \ {x})
  <2>1. a \in Int /\ b \in Int
    BY <1>11
  <2> HIDE DEF a, b
  <2>2. f[x] + (a + b) = a + (f[x] + b)
    BY <1>11, <2>1
  <2> QED BY <2>2 DEF a, b
<1> QED BY <1>3, <1>9, <1>10, <1>12, Zenon

\* What is cut into parts adds up to the sums of the parts.
LEMMA SumOfParts ==
  ASSUME NEW S, IsFiniteSet(S), NEW f, \A x \in S : f[x] \in Int,
         NEW M, IsFiniteSet(M), NEW part, \A i \in M : part[i] \subseteq S,
         \A i, j \in M : i # j => part[i] \cap part[j] = {},
         NEW sums, \A i \in M : sums[i] = SumFunctionOnSet(f, part[i])
  PROVE  SumFunctionOnSet(sums, M) = SumFunctionOnSet(f, UNION {part[i] : i \in M})
<1> DEFINE All(k) == UNION {part[i] : i \in k}
           Bad == {k \in SUBSET M : SumFunctionOnSet(sums, k) # SumFunctionOnSet(f, All(k))}
<1>1. SUFFICES ASSUME Bad # {} PROVE FALSE
  OBVIOUS
<1>2. PICK m \in Bad : \A k \in Bad : k \subseteq m => k = m
  <2>1. Bad \in SUBSET SUBSET M
    OBVIOUS
  <2> HIDE DEF Bad
  <2> QED BY <1>1, <2>1, LeastSet
<1>3. m \in SUBSET M /\ SumFunctionOnSet(sums, m) # SumFunctionOnSet(f, All(m))
  BY <1>2
<1>4. \A i \in M : sums[i] \in Int
  <2> SUFFICES ASSUME NEW i \in M PROVE sums[i] \in Int
    OBVIOUS
  <2>1. IsFiniteSet(part[i]) /\ \A x \in part[i] : f[x] \in Int
    BY FS_Subset
  <2> QED BY <2>1, SumStep
<1>5. IsFiniteSet(m) /\ \A i \in m : sums[i] \in Int
  BY <1>3, <1>4, FS_Subset
<1>6. SumFunctionOnSet(sums, {}) = 0 /\ SumFunctionOnSet(f, {}) = 0
      /\ \A i \in m : SumFunctionOnSet(sums, m) = sums[i] + SumFunctionOnSet(sums, m \ {i})
  BY <1>5, SumStep
<1>7. All({}) = {}
  OBVIOUS
<1>8. m # {}
  BY <1>3, <1>6, <1>7, Zenon
<1>9. PICK i \in m : TRUE
  BY <1>8
<1>10. m \ {i} \notin Bad /\ m \ {i} \in SUBSET M
  BY <1>2, <1>3, <1>9
<1>11. SumFunctionOnSet(sums, m \ {i}) = SumFunctionOnSet(f, All(m \ {i}))
  BY <1>10
<1>12. /\ All(m) = part[i] \cup All(m \ {i}) /\ part[i] \cap All(m \ {i}) = {}
       /\ part[i] \in SUBSET S /\ All(m \ {i}) \in SUBSET S
  BY <1>3, <1>9
<1> HIDE DEF Bad, All
<1>13. SumFunctionOnSet(f, part[i] \cup All(m \ {i})) =
         SumFunctionOnSet(f, part[i]) + SumFunctionOnSet(f, All(m \ {i}))
  <2> DEFINE A == part[i]
             B == All(m \ {i})
  <2>1. A \in SUBSET S /\ B \in SUBSET S /\ A \cap B = {}
    BY <1>12, Zenon
  <2> HIDE DEF A, B
  <2>2. SumFunctionOnSet(f, A \cup B) = SumFunctionOnSet(f, A) + SumFunctionOnSet(f, B)
    BY <2>1, SumApart
  <2> QED BY <2>2 DEF A, B
<1>14. sums[i] = SumFunctionOnSet(f, part[i])
  BY <1>3, <1>9
<1>15. SumFunctionOnSet(sums, m) = SumFunctionOnSet(f, All(m))
  BY <1>6, <1>9, <1>11, <1>12, <1>13, <1>14, Zenon
<1> QED BY <1>3, <1>15, Zenon DEF All

-----------------------------------------------------------------------------
\* The book of the account.

RowTypes == {"INITIAL_CREDIT", "CREDIT", "DEBIT", "DEPOSIT", "RESERVE", "RELEASE", "RESET"}
BookRows == [type : RowTypes, amount : Nat, cash : Nat, day : Nat]
Periods == [from : 0..bkDay, to : 0..bkDay]

BookTypeOK ==
  /\ bkPage \in {"statement", "wallet"} /\ bkDay \in Nat
  /\ bkWallet \in [cash : Nat, blocked : Nat] /\ bkRows \in Seq(BookRows)
  /\ bkPeriod \in Periods /\ bkAsked \in SUBSET Periods

\* What a row does to the cash, and when.
Carries(row, before) ==
  /\ before.day <= row.day
  /\ row.type # "INITIAL_CREDIT"
  /\ row.type \in {"CREDIT", "DEPOSIT"} => row.amount = 1 /\ row.cash = before.cash + 1
  /\ row.type = "DEBIT" => row.amount = 1 /\ row.cash = before.cash - 1
  /\ row.type \in {"RESERVE", "RELEASE"} => row.cash = before.cash

\* The rows tell how the wallet came to its cash, from the first to the last.
RowsCarry ==
  /\ Len(bkRows) >= 1
  /\ bkRows[1].type = "INITIAL_CREDIT" /\ bkRows[1].amount = Start /\ bkRows[1].cash = Start
  /\ \A i \in 2..Len(bkRows) : Carries(bkRows[i], bkRows[i - 1])
  /\ bkRows[Len(bkRows)].cash = bkWallet.cash
  /\ \A i \in 1..Len(bkRows) : bkRows[i].day <= bkDay

\* A statement on the page balances, if it went up to the day it was made.
ShownBalances ==
  /\ bkShown = [statement |-> bkShown.statement, loading |-> bkShown.loading]
  /\ bkShown.statement # <<>> /\ bkShown.statement[1].period.to = bkShown.statement[1].asOf =>
       LET s == bkShown.statement[1] IN s.opening + s.credit - s.debit = s.closing

Deposits == {i \in 1..Len(bkRows) : bkRows[i].type = "DEPOSIT"}
DepositsAreRows ==
  /\ bkFunds \in [adding : BOOLEAN, resetting : BOOLEAN, done : Nat]
  /\ bkFunds.done <= Cardinality(Deposits)

Tables == [known : Nat \cup {-1}, coming : Nat \cup {-1}, failed : BOOLEAN, inVain : BOOLEAN]

\* The table is never read back to fewer rows; a reset that waits for it, or was told
\* done, has a row, which it will read, or has read unless the reading failed or was
\* the first one, begun before the reset.
TableFollows ==
  /\ bkTable \in Tables
  /\ bkTable.known <= Len(bkRows) /\ bkTable.coming <= Len(bkRows)
  /\ bkTable.coming # -1 => bkTable.known <= bkTable.coming
  /\ bkReset \in [phase : {"idle", "posted", "refetching"}, says : {"nothing", "done", "failed"}, rows : Nat]
  /\ bkReset.says = "done" => bkReset.phase = "idle"
  /\ bkReset.phase = "refetching" \/ bkReset.says = "done" =>
       bkReset.rows \in 1..Len(bkRows) /\ bkRows[bkReset.rows].type = "RESET"
  /\ bkReset.phase = "refetching" =>
       bkTable.coming >= bkReset.rows \/ (bkTable.inVain /\ bkTable.known = -1)
  /\ bkReset.says = "done" =>
       /\ \/ bkTable.coming = -1 \/ bkTable.coming >= bkReset.rows
          \/ bkTable.inVain /\ bkTable.known = -1
       /\ \/ bkTable.failed \/ bkTable.known >= bkReset.rows
          \/ bkTable.inVain \/ bkTable.known = -1

BookInv == BookTypeOK /\ RowsCarry /\ ShownBalances /\ DepositsAreRows /\ TableFollows

-----------------------------------------------------------------------------
\* The statement after each of the first n rows.
Entering(after, period, n) ==
  after = [i \in 0..n |-> IF i = 0 THEN Empty ELSE Enter(after[i - 1], bkRows[i], period)]

LEMMA EnteringExists ==
  ASSUME NEW period, NEW n \in Nat
  PROVE  \E after : Entering(after, period, n)
<1> DEFINE Bad == {k \in Nat : ~ \E after : Entering(after, period, k)}
<1>1. SUFFICES ASSUME n \in Bad PROVE FALSE
  OBVIOUS
<1>2. PICK m \in Bad : \A k \in Bad : m <= k
  BY <1>1, LeastNatural
<1>3. m # 0
  <2>1. Entering([i \in 0..0 |-> Empty], period, 0)
    BY DEF Entering
  <2> QED BY <2>1
<1>4. m - 1 \in Nat /\ m - 1 \notin Bad
  BY <1>2, <1>3
<1>5. PICK s : Entering(s, period, m - 1)
  BY <1>4
<1> DEFINE t == [i \in 0..m |-> IF i = m THEN Enter(s[m - 1], bkRows[m], period) ELSE s[i]]
<1>6. Entering(t, period, m)
  <2>1. \A i \in 0..m : t[i] = IF i = 0 THEN Empty ELSE Enter(t[i - 1], bkRows[i], period)
    BY <1>3, <1>4, <1>5 DEF Entering
  <2> QED BY <2>1 DEF Entering
<1> QED BY <1>2, <1>6

LEMMA StatementIsLast ==
  ASSUME NEW period, Len(bkRows) \in Nat
  PROVE  \E after : Entering(after, period, Len(bkRows)) /\ Statement(period) = after[Len(bkRows)]
BY EnteringExists DEF Statement, Entering
Entries == [balance : Int, row : BookRows]
Running == [opening : Int, running : Int, debit : Int, credit : Int, entries : Seq(Entries)]

\* A statement that has come up to a row, of a period up to today.
SumsUp(s, row, period) ==
  /\ s \in Running
  /\ s.running = row.cash
  /\ s.opening + s.credit - s.debit = s.running
  /\ row.day < period.from => s.credit = 0 /\ s.debit = 0
  /\ \A i \in 1..Len(s.entries) : s.entries[i].balance = s.entries[i].row.cash

\* Entering moves the debit, the credit and the balance, and nothing else.
LEMMA EnteredFields ==
  ASSUME NEW s \in Running, NEW debit \in Int, NEW credit \in Int, NEW balance \in Int
  PROVE  LET e == Entered(s, debit, credit, balance) IN
         /\ e \in Running /\ e.running = balance /\ e.entries = s.entries /\ e.opening = s.opening
         /\ e.debit = s.debit + debit /\ e.credit = s.credit + credit
<1> DEFINE L == Seq(Entries)
<1>1. s \in [opening : Int, running : Int, debit : Int, credit : Int, entries : L]
  BY DEF Running
<1> DEFINE d == s.debit + debit
           c == s.credit + credit
           e == [s EXCEPT !.debit = d, !.credit = c, !.running = balance]
<1>2. Entered(s, debit, credit, balance) = e
  BY <1>1 DEF Entered
<1>3. d \in Int /\ c \in Int
  BY <1>1
<1> HIDE DEF L, d, c
<1>4. /\ e \in [opening : Int, running : Int, debit : Int, credit : Int, entries : L]
      /\ e.running = balance /\ e.entries = s.entries /\ e.opening = s.opening
      /\ e.debit = d /\ e.credit = c
  BY <1>1, <1>3
<1> HIDE DEF e
<1> QED BY <1>2, <1>4 DEF L, d, c, Running

\* What a row is posted as brings the running balance to what the row says.
LEMMA PostedSumsUp ==
  ASSUME NEW s \in Running, NEW row \in BookRows, NEW cash \in Nat, s.running = cash,
         \/ Carries(row, [day |-> row.day, cash |-> cash])
         \/ row.type = "INITIAL_CREDIT" /\ cash + row.amount = row.cash,
         row.type \notin {"RESERVE", "RELEASE"}
  PROVE  /\ Posted(s, row) \in Running /\ Posted(s, row).running = row.cash
         /\ Posted(s, row).entries = s.entries /\ Posted(s, row).opening = s.opening
         /\ Posted(s, row).credit - Posted(s, row).debit - s.credit + s.debit = row.cash - cash
<1>0. s.debit \in Int /\ s.credit \in Int /\ row.cash \in Nat /\ row.amount \in Nat /\ row.type \in RowTypes
  BY DEF Running, BookRows
<1>1. CASE row.type = "RESET"
  <2>1. CASE row.cash >= cash
    <3>1. Posted(s, row) = Entered(s, 0, row.cash - cash, row.cash)
      BY <1>1, <2>1 DEF Posted, PostReset
    <3>2. row.cash - cash \in Int
      BY <1>0
    <3> HIDE DEF Running
    <3> QED BY <1>0, <3>1, <3>2, EnteredFields
  <2>2. CASE ~(row.cash >= cash)
    <3>1. Posted(s, row) = Entered(s, cash - row.cash, 0, row.cash)
      BY <1>1, <2>2 DEF Posted, PostReset
    <3>2. cash - row.cash \in Int
      BY <1>0
    <3> QED BY <1>0, <3>1, <3>2, EnteredFields
  <2> QED BY <2>1, <2>2
<1>2. CASE row.type = "DEBIT"
  <2>1. Posted(s, row) = Entered(s, row.amount, 0, cash - row.amount)
    BY <1>2 DEF Posted
  <2>2. row.cash = cash - row.amount
    BY <1>0, <1>2 DEF Carries
  <2> QED BY <1>0, <2>1, <2>2, EnteredFields
<1>3. CASE row.type \in {"INITIAL_CREDIT", "CREDIT", "DEPOSIT"}
  <2>1. Posted(s, row) = Entered(s, 0, row.amount, cash + row.amount)
    BY <1>3 DEF Posted
  <2>2. row.cash = cash + row.amount
    BY <1>0, <1>3 DEF Carries
  <2> QED BY <1>0, <2>1, <2>2, EnteredFields
<1> QED BY <1>0, <1>1, <1>2, <1>3 DEF RowTypes

\* A row that carries on brings the statement up to itself.
LEMMA EnterSumsUp ==
  ASSUME NEW s, NEW period \in [from : Nat, to : Nat], NEW row \in BookRows, row.day <= period.to,
         NEW before, before.cash \in Nat, before.day \in Nat, before.day <= row.day,
         SumsUp(s, before, period),
         Carries(row, before) \/ (row.type = "INITIAL_CREDIT" /\ before.cash + row.amount = row.cash)
  PROVE  SumsUp(Enter(s, row, period), row, period)
<1>1. CASE row.type \in {"RESERVE", "RELEASE"}
  BY <1>1 DEF Enter, SumsUp, Carries, BookRows
<1>2. CASE row.type \notin {"RESERVE", "RELEASE"}
  <2> DEFINE posted == Posted(s, row)
  <2>0. /\ posted \in Running /\ posted.running = row.cash
        /\ posted.entries = s.entries /\ posted.opening = s.opening
        /\ posted.credit - posted.debit - s.credit + s.debit = row.cash - before.cash
    <3>1. \/ Carries(row, [day |-> row.day, cash |-> before.cash])
          \/ row.type = "INITIAL_CREDIT" /\ before.cash + row.amount = row.cash
      BY DEF Carries, BookRows
    <3>2. s \in Running /\ before.cash \in Nat /\ s.running = before.cash
      BY DEF SumsUp, BookRows
    <3> QED BY <1>2, <3>1, <3>2, PostedSumsUp
  <2> HIDE DEF posted
  <2>1. CASE row.day < period.from
    <3>1. Enter(s, row, period) = [s EXCEPT !.opening = posted.running, !.running = posted.running]
      BY <1>2, <2>1 DEF Enter, posted
    <3>2. s.credit = 0 /\ s.debit = 0
      BY <2>1 DEF SumsUp, BookRows
    <3> DEFINE L == Seq(Entries)
    <3>3. s \in [opening : Int, running : Int, debit : Int, credit : Int, entries : L]
      BY DEF SumsUp, Running
    <3>4. posted.running = row.cash /\ row.cash \in Int
      BY <2>0 DEF BookRows
    <3> HIDE DEF L
    <3>5. LET e == [s EXCEPT !.opening = posted.running, !.running = posted.running] IN
          /\ e \in [opening : Int, running : Int, debit : Int, credit : Int, entries : L]
          /\ e.running = row.cash /\ e.opening = row.cash /\ e.credit = 0 /\ e.debit = 0
          /\ e.entries = s.entries
      BY <3>2, <3>3, <3>4
    <3>6. \A i \in 1..Len(s.entries) : s.entries[i].balance = s.entries[i].row.cash
      BY DEF SumsUp
    <3>7. /\ Enter(s, row, period) \in Running /\ Enter(s, row, period).entries = s.entries
          /\ Enter(s, row, period).running = row.cash /\ Enter(s, row, period).opening = row.cash
          /\ Enter(s, row, period).credit = 0 /\ Enter(s, row, period).debit = 0
      BY <3>1, <3>5 DEF L, Running
    <3> QED BY <3>4, <3>6, <3>7 DEF SumsUp
  <2>2. CASE ~(row.day < period.from)
    <3> DEFINE entry == [balance |-> posted.running, row |-> row]
    <3>1. Enter(s, row, period) = [posted EXCEPT !.entries = Append(@, entry)]
      BY <1>2, <2>2 DEF Enter, posted
    <3>2. entry \in Entries /\ entry.balance = entry.row.cash
      BY <2>0 DEF Entries, BookRows
    <3>3. posted.entries \in Seq(Entries)
      BY <2>0 DEF Running
    <3>4. \A i \in 1..Len(posted.entries) : posted.entries[i].balance = posted.entries[i].row.cash
      BY <2>0 DEF SumsUp
    <3> HIDE DEF entry
    <3> DEFINE longer == Append(posted.entries, entry)
    <3>5. longer \in Seq(Entries)
      BY <3>2, <3>3
    <3>6. \A i \in 1..Len(longer) : longer[i].balance = longer[i].row.cash
      BY <3>2, <3>3, <3>4
    <3> HIDE DEF longer
    <3>7. Enter(s, row, period) = [posted EXCEPT !.entries = longer]
      BY <3>1 DEF longer
    <3>8. /\ posted.opening \in Int /\ posted.running \in Int /\ posted.debit \in Int /\ posted.credit \in Int
          /\ s.opening \in Int /\ s.running \in Int /\ s.debit \in Int /\ s.credit \in Int
          /\ s.opening + s.credit - s.debit = before.cash /\ before.cash \in Nat /\ row.cash \in Nat
      BY <2>0 DEF SumsUp, Running, BookRows
    <3>9. posted.opening + posted.credit - posted.debit = posted.running
      BY <2>0, <3>8
    <3>10. Enter(s, row, period) \in Running
      BY <2>0, <3>5, <3>7 DEF Running
    <3> QED BY <2>0, <2>2, <3>6, <3>7, <3>8, <3>9, <3>10 DEF SumsUp, Running
  <2> QED BY <2>1, <2>2
<1> QED BY <1>1, <1>2

\* The first row opens the account.
LEMMA FirstSumsUp ==
  ASSUME NEW period \in [from : Nat, to : Nat], NEW row \in BookRows,
         row.type = "INITIAL_CREDIT", row.amount = row.cash, row.day <= period.to
  PROVE  SumsUp(Enter(Empty, row, period), row, period)
<1> DEFINE before == [day |-> row.day, cash |-> 0]
<1>1. Empty \in Running /\ Len(Empty.entries) = 0
  <2>1. <<>> \in Seq(Entries) /\ Len(<<>>) = 0
    OBVIOUS
  <2> QED BY <2>1 DEF Empty, Running
<1>2. SumsUp(Empty, before, period)
  BY <1>1 DEF SumsUp, Empty
<1>3. /\ before.cash \in Nat /\ before.day \in Nat /\ before.day <= row.day
      /\ before.cash + row.amount = row.cash
  BY DEF BookRows
<1> HIDE DEF before
<1> QED BY <1>2, <1>3, EnterSumsUp

\* The statement of a period up to today sums up the whole book.
LEMMA StatementSumsUp ==
  ASSUME BookTypeOK, RowsCarry, NEW period \in Periods, period.to = bkDay
  PROVE  SumsUp(Statement(period), bkRows[Len(bkRows)], period)
<1>0. /\ bkRows \in Seq(BookRows) /\ Len(bkRows) \in Nat /\ Len(bkRows) >= 1
      /\ period \in [from : Nat, to : Nat] /\ \A i \in 1..Len(bkRows) : bkRows[i] \in BookRows
  BY DEF BookTypeOK, RowsCarry, Periods
<1>1. PICK after : Entering(after, period, Len(bkRows)) /\ Statement(period) = after[Len(bkRows)]
  BY <1>0, StatementIsLast
<1> DEFINE Bad == {k \in Nat : k \in 1..Len(bkRows) /\ ~SumsUp(after[k], bkRows[k], period)}
<1>2. SUFFICES ASSUME Len(bkRows) \in Bad PROVE FALSE
  BY <1>0, <1>1
<1>3. PICK b \in Bad : \A k \in Bad : b <= k
  BY <1>2, LeastNatural
<1>4. b \in 1..Len(bkRows) /\ ~SumsUp(after[b], bkRows[b], period)
  BY <1>3
<1>5. after[b] = Enter(after[b - 1], bkRows[b], period) /\ after[0] = Empty
  <2>1. \A i \in 0..Len(bkRows) : after[i] = IF i = 0 THEN Empty ELSE Enter(after[i - 1], bkRows[i], period)
    BY <1>0, <1>1 DEF Entering
  <2>2. b \in 0..Len(bkRows) /\ b # 0 /\ 0 \in 0..Len(bkRows)
    BY <1>0, <1>4
  <2> HIDE DEF Bad
  <2> QED BY <2>1, <2>2
<1>6. bkRows[b].day <= period.to
  BY <1>4 DEF RowsCarry
<1>7. CASE b = 1
  <2>1. bkRows[1] \in BookRows /\ bkRows[1].type = "INITIAL_CREDIT" /\ bkRows[1].amount = bkRows[1].cash
    BY <1>0, <1>4, <1>7 DEF RowsCarry
  <2>2. SumsUp(Enter(Empty, bkRows[1], period), bkRows[1], period)
    BY <1>0, <1>6, <1>7, <2>1, FirstSumsUp
  <2> QED BY <1>4, <1>5, <1>7, <2>2
<1>8. CASE b # 1
  <2>1. b - 1 \in Nat /\ b - 1 \in 1..Len(bkRows) /\ b \in 2..Len(bkRows) /\ b - 1 \notin Bad
    BY <1>0, <1>3, <1>4, <1>8
  <2>2. SumsUp(after[b - 1], bkRows[b - 1], period)
    BY <2>1
  <2>3. Carries(bkRows[b], bkRows[b - 1])
    BY <2>1 DEF RowsCarry
  <2>4. bkRows[b] \in BookRows /\ bkRows[b - 1] \in BookRows
    BY <1>0, <1>4, <2>1
  <2> HIDE DEF Bad
  <2>5. /\ bkRows[b - 1].cash \in Nat /\ bkRows[b - 1].day \in Nat
        /\ bkRows[b - 1].day <= bkRows[b].day
    BY <2>3, <2>4 DEF BookRows, Carries
  <2>6. SumsUp(Enter(after[b - 1], bkRows[b], period), bkRows[b], period)
    BY <1>0, <1>6, <2>2, <2>3, <2>4, <2>5, EnterSumsUp
  <2> QED BY <1>4, <1>5, <2>6
<1> QED BY <1>7, <1>8
LEMMA BookStart == AccountBookInit => BookInv
<1> SUFFICES ASSUME AccountBookInit PROVE BookInv
  OBVIOUS
<1> USE BookAssumption DEF AccountBookInit
<1> DEFINE first == Row("INITIAL_CREDIT", Start, Start)
<1>1. first \in BookRows /\ first.type = "INITIAL_CREDIT" /\ first.amount = Start /\ first.cash = Start /\ first.day = 0
  BY DEF Row, BookRows, RowTypes
<1> HIDE DEF first
<1>2. bkRows = <<first>> /\ Len(bkRows) = 1 /\ bkRows \in Seq(BookRows) /\ bkRows[1] = first
  BY <1>1 DEF first
<1>3. BookTypeOK
  BY <1>2 DEF BookTypeOK, Periods
<1>4. RowsCarry
  BY <1>1, <1>2 DEF RowsCarry
<1>5. ShownBalances
  BY DEF ShownBalances
<1>6. DepositsAreRows
  <2>1. Deposits = {}
    BY <1>1, <1>2 DEF Deposits
  <2> QED BY <2>1, FS_EmptySet DEF DepositsAreRows
<1>7. TableFollows
  BY <1>2 DEF TableFollows, Tables
<1> QED BY <1>3, <1>4, <1>5, <1>6, <1>7 DEF BookInv

\* A row is written with the wallet it leaves.
Writes(row) ==
  /\ bkRows' = Append(bkRows, row) /\ row \in BookRows /\ row.day = bkDay
  /\ Carries(row, bkRows[Len(bkRows)])
  /\ bkWallet' \in [cash : Nat, blocked : Nat] /\ bkWallet'.cash = row.cash
  /\ bkDay' = bkDay

LEMMA ChangesWrite ==
  ASSUME BookTypeOK, RowsCarry
  PROVE  /\ Reserved \/ Executed => \E row : Writes(row)
         /\ Deposited => \E row : Writes(row) /\ row.type = "DEPOSIT"
         /\ Restored => \E row : Writes(row) /\ row.type = "RESET"
<1>1. /\ bkWallet.cash \in Nat /\ bkWallet.blocked \in Nat /\ bkDay \in Nat
      /\ bkRows[Len(bkRows)].cash = bkWallet.cash /\ bkRows[Len(bkRows)].day <= bkDay
  BY DEF BookTypeOK, RowsCarry
<1>2. ASSUME NEW type \in RowTypes, NEW amount \in Nat, NEW cash \in Nat, NEW held \in Nat,
             Write(type, amount, cash, held), Carries(Row(type, amount, cash), bkRows[Len(bkRows)])
      PROVE  Writes(Row(type, amount, cash))
  BY <1>1, <1>2 DEF Write, Writes, Row, BookRows
<1>3. ASSUME NEW type, NEW amount, NEW cash
      PROVE  /\ Row(type, amount, cash).type = type /\ Row(type, amount, cash).amount = amount
             /\ Row(type, amount, cash).cash = cash /\ Row(type, amount, cash).day = bkDay
  BY DEF Row
<1>4. ASSUME Write("RESERVE", 1, bkWallet.cash, bkWallet.blocked + 1) PROVE \E row : Writes(row)
  <2>1. Carries(Row("RESERVE", 1, bkWallet.cash), bkRows[Len(bkRows)])
    BY <1>1, <1>3 DEF Carries
  <2> QED BY <1>1, <1>2, <1>4, <2>1 DEF RowTypes
<1>5. ASSUME Write("RELEASE", 1, bkWallet.cash, bkWallet.blocked - 1), bkWallet.blocked > 0
      PROVE  \E row : Writes(row)
  <2>1. Carries(Row("RELEASE", 1, bkWallet.cash), bkRows[Len(bkRows)])
    BY <1>1, <1>3 DEF Carries
  <2>2. bkWallet.blocked - 1 \in Nat
    BY <1>1, <1>5
  <2> QED BY <1>1, <1>2, <1>5, <2>1, <2>2 DEF RowTypes
<1>6. ASSUME Write("CREDIT", 1, bkWallet.cash + 1, bkWallet.blocked) PROVE \E row : Writes(row)
  <2>1. Carries(Row("CREDIT", 1, bkWallet.cash + 1), bkRows[Len(bkRows)])
    BY <1>1, <1>3 DEF Carries
  <2>2. bkWallet.cash + 1 \in Nat
    BY <1>1
  <2> QED BY <1>1, <1>2, <1>6, <2>1, <2>2 DEF RowTypes
<1>7. ASSUME Write("DEBIT", 1, bkWallet.cash - 1, bkWallet.blocked), bkWallet.cash > bkWallet.blocked
      PROVE  \E row : Writes(row)
  <2>1. Carries(Row("DEBIT", 1, bkWallet.cash - 1), bkRows[Len(bkRows)])
    BY <1>1, <1>3 DEF Carries
  <2>2. bkWallet.cash - 1 \in Nat
    BY <1>1, <1>7
  <2> QED BY <1>1, <1>2, <1>7, <2>1, <2>2 DEF RowTypes
<1>8. ASSUME Deposited PROVE \E row : Writes(row) /\ row.type = "DEPOSIT"
  <2>1. Carries(Row("DEPOSIT", 1, bkWallet.cash + 1), bkRows[Len(bkRows)])
    BY <1>1, <1>3 DEF Carries
  <2>2. bkWallet.cash + 1 \in Nat
    BY <1>1
  <2> QED BY <1>1, <1>2, <1>3, <1>8, <2>1, <2>2 DEF RowTypes, Deposited
<1>9. ASSUME Restored PROVE \E row : Writes(row) /\ row.type = "RESET"
  <2>1. Carries(Row("RESET", Start, Start), bkRows[Len(bkRows)])
    BY <1>1, <1>3 DEF Carries
  <2> QED BY <1>1, <1>2, <1>3, <1>9, <2>1, BookAssumption DEF RowTypes, Restored
<1> QED BY <1>4, <1>5, <1>6, <1>7, <1>8, <1>9 DEF Reserved, Executed

\* What the account may do while the pages look on.
AccountMoved ==
  \/ UNCHANGED bkBackend
  \/ \E row : Writes(row)
  \/ bkDay' = bkDay + 1 /\ UNCHANGED <<bkWallet, bkRows>>

BackendOK ==
  /\ bkDay \in Nat /\ bkWallet \in [cash : Nat, blocked : Nat] /\ bkRows \in Seq(BookRows)
  /\ RowsCarry

\* Rows are appended, and carry on.
LEMMA BookGrows ==
  ASSUME BookTypeOK, RowsCarry, AccountMoved
  PROVE  /\ BackendOK' /\ bkDay <= bkDay' /\ Len(bkRows) <= Len(bkRows')
         /\ \A i \in 1..Len(bkRows) : bkRows'[i] = bkRows[i]
<1>0. BackendOK /\ Len(bkRows) \in Nat
  BY DEF BookTypeOK, BackendOK
<1>1. CASE UNCHANGED bkBackend
  BY <1>0, <1>1 DEF BackendOK, RowsCarry, bkBackend
<1>2. CASE bkDay' = bkDay + 1 /\ UNCHANGED <<bkWallet, bkRows>>
  <2>1. \A i \in 1..Len(bkRows) : bkRows[i] \in BookRows
    BY <1>0 DEF BackendOK
  <2>2. RowsCarry'
    BY <1>0, <1>2, <2>1, SMTT(30) DEF BackendOK, RowsCarry, BookRows
  <2> QED BY <1>0, <1>2, <2>2 DEF BackendOK
<1>3. CASE \E row : Writes(row)
  <2>1. PICK row : Writes(row)
    BY <1>3
  <2>2. row \in BookRows /\ bkRows \in Seq(BookRows) /\ bkRows' = Append(bkRows, row)
    BY <1>0, <2>1 DEF BackendOK, Writes
  <2>3. /\ bkRows' \in Seq(BookRows) /\ Len(bkRows') = Len(bkRows) + 1
        /\ bkRows'[Len(bkRows) + 1] = row
        /\ \A i \in 1..Len(bkRows) : bkRows'[i] = bkRows[i]
    BY <1>0, <2>2
  <2>4. Len(bkRows) >= 1 /\ bkRows'[1] = bkRows[1]
    BY <1>0, <2>3 DEF BackendOK, RowsCarry
  <2>5. ASSUME NEW i \in 2..Len(bkRows') PROVE Carries(bkRows'[i], bkRows'[i - 1])
    <3>1. CASE i = Len(bkRows) + 1
      <4>1. i - 1 = Len(bkRows) /\ i - 1 \in 1..Len(bkRows)
        BY <1>0, <2>4, <3>1
      <4> QED BY <2>1, <2>3, <3>1, <4>1 DEF Writes
    <3>2. CASE i # Len(bkRows) + 1
      <4>1. i \in 2..Len(bkRows) /\ i \in 1..Len(bkRows) /\ i - 1 \in 1..Len(bkRows)
        BY <1>0, <2>3, <3>2
      <4>2. Carries(bkRows[i], bkRows[i - 1])
        BY <1>0, <4>1 DEF BackendOK, RowsCarry
      <4> QED BY <2>3, <4>1, <4>2
    <3> QED BY <3>1, <3>2
  <2>6. ASSUME NEW i \in 1..Len(bkRows') PROVE bkRows'[i].day <= bkDay'
    <3>1. i \in 1..Len(bkRows) \/ i = Len(bkRows) + 1
      BY <1>0, <2>3
    <3> QED BY <1>0, <2>1, <2>2, <2>3, <3>1, SMTT(30) DEF BackendOK, RowsCarry, Writes, BookRows
  <2>7. RowsCarry'
    BY <1>0, <2>1, <2>3, <2>4, <2>5, <2>6 DEF BackendOK, RowsCarry, Writes
  <2> QED BY <1>0, <2>1, <2>3, <2>7 DEF BackendOK, Writes
<1> QED BY <1>1, <1>2, <1>3 DEF AccountMoved

\* No deposit is unmade, and one more is one more.
LEMMA DepositsGrow ==
  ASSUME BookTypeOK, RowsCarry, AccountMoved
  PROVE  /\ Cardinality(Deposits) \in Nat /\ Cardinality(Deposits') \in Nat
         /\ Cardinality(Deposits) <= Cardinality(Deposits')
         /\ \A row : Writes(row) /\ row.type = "DEPOSIT" => Cardinality(Deposits') = Cardinality(Deposits) + 1
<1>1. /\ Len(bkRows) \in Nat /\ Len(bkRows') \in Nat /\ Len(bkRows) <= Len(bkRows')
      /\ \A i \in 1..Len(bkRows) : bkRows'[i] = bkRows[i]
  BY BookGrows DEF BookTypeOK, BackendOK
<1>2. IsFiniteSet(1..Len(bkRows)) /\ IsFiniteSet(1..Len(bkRows'))
  BY <1>1, FS_Interval
<1>3. IsFiniteSet(Deposits) /\ IsFiniteSet(Deposits')
  BY <1>2, FS_Subset DEF Deposits
<1>4. Deposits \subseteq Deposits'
  BY <1>1 DEF Deposits
<1>5. ASSUME NEW row, Writes(row), row.type = "DEPOSIT"
      PROVE  Cardinality(Deposits') = Cardinality(Deposits) + 1
  <2>1. bkRows \in Seq(BookRows) /\ row \in BookRows /\ bkRows' = Append(bkRows, row)
    BY <1>5 DEF BookTypeOK, Writes
  <2>2. Len(bkRows') = Len(bkRows) + 1 /\ bkRows'[Len(bkRows) + 1] = row
    BY <2>1
  <2>3. Deposits' = Deposits \cup {Len(bkRows) + 1} /\ Len(bkRows) + 1 \notin Deposits
    BY <1>1, <1>5, <2>2 DEF Deposits
  <2> QED BY <1>3, <2>3, FS_AddElement
<1>6. Cardinality(Deposits) \in Nat /\ Cardinality(Deposits') \in Nat
  BY <1>3, FS_CardinalityType
<1>7. Cardinality(Deposits) <= Cardinality(Deposits')
  BY <1>3, <1>4, FS_Subset
<1> QED BY <1>5, <1>6, <1>7
\* What is there of the backend after its step.
LEMMA BackendKept ==
  ASSUME BookInv, AccountMoved, bkPage' = bkPage
  PROVE  /\ RowsCarry' /\ Periods \subseteq Periods'
         /\ bkPeriod' \in Periods' /\ bkAsked' \in SUBSET Periods' => BookTypeOK'
<1>1. BackendOK' /\ bkDay <= bkDay' /\ bkDay \in Nat
  BY BookGrows DEF BookInv, BookTypeOK
<1>2. 0..bkDay \subseteq 0..bkDay'
  BY <1>1 DEF BackendOK
<1> QED BY <1>1, <1>2 DEF BackendOK, BookInv, BookTypeOK, Periods

\* The funds and the table look at the rows alone.
LEMMA FundsKept ==
  ASSUME BookInv, AccountMoved, bkFunds' \in [adding : BOOLEAN, resetting : BOOLEAN, done : Nat],
         \/ bkFunds'.done = bkFunds.done
         \/ bkFunds'.done = bkFunds.done + 1 /\ \E row : Writes(row) /\ row.type = "DEPOSIT"
  PROVE  DepositsAreRows'
<1>1. bkFunds.done \in Nat /\ bkFunds.done <= Cardinality(Deposits)
  BY DEF BookInv, DepositsAreRows
<1> QED BY <1>1, DepositsGrow DEF BookInv, DepositsAreRows

\* What a request for the rows makes of the table.
TableMoved ==
  /\ bkTable' \in Tables /\ bkTable'.known = bkTable.known
  /\ bkTable'.failed = bkTable.failed \/ bkTable.known = -1
  /\ \/ bkTable'.coming = bkTable.coming /\ bkTable'.inVain = bkTable.inVain
     \/ bkTable'.coming = Len(bkRows') /\ bkTable'.inVain = bkTable.inVain
     \/ /\ bkTable.known = -1 /\ bkTable.coming # -1 /\ bkTable'.coming = bkTable.coming
        /\ bkTable.inVain => bkTable'.inVain
        /\ bkTable'.inVain \/ bkTable.coming >= Len(bkRows')

LEMMA RequestsMove ==
  ASSUME bkTable \in Tables, Len(bkRows') \in Nat
  PROVE  /\ UNCHANGED bkTable => TableMoved
         /\ bkTable' = RowsFetch => TableMoved
         /\ Refetched => TableMoved
<1>1. UNCHANGED bkTable => TableMoved
  BY DEF TableMoved, Tables
<1>2. ASSUME bkTable' = RowsFetch PROVE TableMoved
  <2> DEFINE n == Len(bkRows')
  <2>1. CASE bkTable.known # -1
    <3>1. (bkTable.failed /\ bkTable.known # -1) = bkTable.failed
      BY <2>1 DEF Tables
    <3>2. bkTable' = [bkTable EXCEPT !.coming = n, !.failed = bkTable.failed /\ bkTable.known # -1]
      BY <1>2 DEF RowsFetch
    <3>3. bkTable' = [bkTable EXCEPT !.coming = n, !.failed = bkTable.failed] /\ n \in Nat
      BY <3>1, <3>2, Zenon
    <3> HIDE DEF n
    <3>4. /\ bkTable' \in Tables /\ bkTable'.known = bkTable.known /\ bkTable'.failed = bkTable.failed
          /\ bkTable'.coming = n /\ bkTable'.inVain = bkTable.inVain
      BY <3>3 DEF Tables
    <3> QED BY <3>4 DEF TableMoved, n
  <2>2. CASE bkTable.known = -1
    <3>1. (bkTable.failed /\ bkTable.known # -1) = FALSE
      BY <2>2 DEF Tables
    <3>2. bkTable' = [bkTable EXCEPT !.coming = n, !.failed = bkTable.failed /\ bkTable.known # -1]
      BY <1>2 DEF RowsFetch
    <3>3. bkTable' = [bkTable EXCEPT !.coming = n, !.failed = FALSE] /\ n \in Nat
      BY <3>1, <3>2, Zenon
    <3> HIDE DEF n
    <3>4. /\ bkTable' \in Tables /\ bkTable'.known = bkTable.known
          /\ bkTable'.coming = n /\ bkTable'.inVain = bkTable.inVain
      BY <3>3 DEF Tables
    <3> QED BY <2>2, <3>4 DEF TableMoved, n
  <2> QED BY <2>1, <2>2
<1>3. ASSUME Refetched PROVE TableMoved
  <2>1. CASE ~(bkTable.known = -1 /\ bkTable.coming # -1)
    BY <1>2, <1>3, <2>1 DEF Refetched
  <2>2. CASE bkTable.known = -1 /\ bkTable.coming # -1
    <3> DEFINE vain == bkTable.inVain \/ bkTable.coming < Len(bkRows')
    <3>1. bkTable' = [bkTable EXCEPT !.inVain = vain]
      BY <1>3, <2>2 DEF Refetched
    <3>2. vain \in BOOLEAN
      OBVIOUS
    <3>3. (bkTable.inVain => vain) /\ (vain \/ bkTable.coming >= Len(bkRows'))
      BY <2>2 DEF Tables
    <3> HIDE DEF vain
    <3>4. /\ bkTable' \in Tables /\ bkTable'.known = bkTable.known /\ bkTable'.failed = bkTable.failed
          /\ bkTable'.coming = bkTable.coming /\ bkTable'.inVain = vain
      BY <3>1, <3>2 DEF Tables
    <3> QED BY <2>2, <3>3, <3>4 DEF TableMoved
  <2> QED BY <2>1, <2>2
<1> QED BY <1>1, <1>2, <1>3

LEMMA TableKept ==
  ASSUME BookInv, AccountMoved, bkReset' = bkReset,
         UNCHANGED bkTable \/ bkTable' = RowsFetch \/ Refetched
  PROVE  TableFollows'
<1>1. /\ Len(bkRows) \in Nat /\ Len(bkRows') \in Nat /\ Len(bkRows) <= Len(bkRows')
      /\ \A i \in 1..Len(bkRows) : bkRows'[i] = bkRows[i]
  BY BookGrows DEF BookInv, BookTypeOK, BackendOK
<1>2. TableFollows
  BY DEF BookInv
<1>3. TableMoved
  BY <1>1, <1>2, RequestsMove DEF TableFollows
<1>4. bkReset.rows \in 1..Len(bkRows) =>
        bkReset.rows \in 1..Len(bkRows') /\ bkRows'[bkReset.rows] = bkRows[bkReset.rows]
        /\ bkReset.rows <= Len(bkRows')
  BY <1>1
<1>5. /\ bkTable.known \in Nat \cup {-1} /\ bkTable.coming \in Nat \cup {-1}
      /\ bkTable'.known \in Nat \cup {-1} /\ bkTable'.coming \in Nat \cup {-1}
  BY <1>2, <1>3 DEF TableFollows, TableMoved, Tables
<1>6. /\ bkTable'.known <= Len(bkRows') /\ bkTable'.coming <= Len(bkRows')
      /\ bkTable'.coming # -1 => bkTable'.known <= bkTable'.coming
  BY <1>1, <1>2, <1>3, <1>5 DEF TableFollows, TableMoved
<1>7. bkReset.phase = "refetching" =>
        bkTable'.coming >= bkReset.rows \/ (bkTable'.inVain /\ bkTable'.known = -1)
  BY <1>1, <1>2, <1>3, <1>4, <1>5 DEF TableFollows, TableMoved
<1>8. bkReset.says = "done" =>
        \/ bkTable'.coming = -1 \/ bkTable'.coming >= bkReset.rows
        \/ bkTable'.inVain /\ bkTable'.known = -1
  BY <1>1, <1>2, <1>3, <1>4, <1>5 DEF TableFollows, TableMoved
<1>9. bkReset.says = "done" =>
        \/ bkTable'.failed \/ bkTable'.known >= bkReset.rows
        \/ bkTable'.inVain \/ bkTable'.known = -1
  BY <1>1, <1>2, <1>3, <1>4, <1>5 DEF TableFollows, TableMoved
<1>10. bkTable' \in Tables
  BY <1>3 DEF TableMoved
<1> QED BY <1>2, <1>4, <1>6, <1>7, <1>8, <1>9, <1>10 DEF TableFollows

LEMMA ShownKept == ASSUME BookInv, bkShown' = bkShown PROVE ShownBalances'
BY DEF BookInv, ShownBalances

LEMMA AnswerBalances ==
  ASSUME BookInv, StatementAnswered
  PROVE  ShownBalances'
<1>1. PICK period \in bkAsked :
        LET s == Statement(period)
            answer == [period |-> period, asOf |-> bkDay, opening |-> s.opening, debit |-> s.debit,
                       credit |-> s.credit, closing |-> s.running, entries |-> Len(s.entries)]
        IN bkShown' \in {[statement |-> <<answer>>, loading |-> FALSE],
                         [statement |-> <<>>, loading |-> FALSE]}
  BY DEF StatementAnswered
<1> DEFINE s == Statement(period)
           answer == [period |-> period, asOf |-> bkDay, opening |-> s.opening, debit |-> s.debit,
                      credit |-> s.credit, closing |-> s.running, entries |-> Len(s.entries)]
<1>2. period.to = bkDay => s.opening + s.credit - s.debit = s.running
  <2>1. BookTypeOK /\ RowsCarry /\ period \in Periods
    BY DEF BookInv, BookTypeOK
  <2> QED BY <2>1, StatementSumsUp DEF SumsUp
<1>3. \/ bkShown' = [statement |-> <<answer>>, loading |-> FALSE]
      \/ bkShown' = [statement |-> <<>>, loading |-> FALSE]
  BY <1>1
<1> HIDE DEF s
<1>4. CASE bkShown' = [statement |-> <<answer>>, loading |-> FALSE]
  <2>1. bkShown'.statement[1] = answer
    BY <1>4
  <2>2. /\ answer.period.to = period.to /\ answer.asOf = bkDay /\ answer.opening = s.opening
        /\ answer.credit = s.credit /\ answer.debit = s.debit /\ answer.closing = s.running
    OBVIOUS
  <2>3. bkShown' = [statement |-> bkShown'.statement, loading |-> bkShown'.loading]
    BY <1>4
  <2> HIDE DEF answer
  <2> QED BY <1>2, <2>1, <2>2, <2>3 DEF ShownBalances
<1>5. CASE bkShown' = [statement |-> <<>>, loading |-> FALSE]
  BY <1>5 DEF ShownBalances
<1> QED BY <1>3, <1>4, <1>5

LEMMA BookStep == BookInv /\ [AccountBookNext]_bkVars => BookInv'
<1> SUFFICES ASSUME BookInv, [AccountBookNext]_bkVars PROVE BookInv'
  OBVIOUS
<1>0. BookTypeOK /\ RowsCarry /\ DepositsAreRows /\ TableFollows
  BY DEF BookInv
<1>1. ASSUME AccountMoved, bkPage' = bkPage, bkShown' = bkShown,
             bkPeriod' \in Periods', bkAsked' \in SUBSET Periods', DepositsAreRows', TableFollows'
      PROVE  BookInv'
  BY <1>1, BackendKept, ShownKept DEF BookInv
<1>2. ASSUME AccountMoved, bkPage' = bkPage, UNCHANGED bkView, DepositsAreRows', TableFollows'
      PROVE  BookInv'
  <2>1. Periods \subseteq Periods'
    BY <1>2, BackendKept
  <2>2. bkPeriod' \in Periods' /\ bkAsked' \in SUBSET Periods'
    BY <1>0, <1>2, <2>1 DEF BookTypeOK, bkView
  <2> QED BY <1>1, <1>2, <2>2 DEF bkView
<1>3. UNCHANGED bkFunds /\ AccountMoved => DepositsAreRows'
  BY <1>0, FundsKept DEF DepositsAreRows
<1>4. UNCHANGED bkBackend => AccountMoved /\ bkRows' = bkRows
  BY DEF AccountMoved, bkBackend
<1>5. /\ Reserved \/ Executed \/ Deposited \/ Restored => AccountMoved
      /\ Deposited => \E row : Writes(row) /\ row.type = "DEPOSIT"
      /\ Restored => \E row : Writes(row) /\ row.type = "RESET"
  BY <1>0, ChangesWrite DEF AccountMoved
<1>6. CASE UNCHANGED bkVars
  <2>1. UNCHANGED <<bkPage, bkBackend, bkView, bkTable, bkFunds, bkReset>>
    BY <1>6 DEF bkVars, bkBackend, bkView
  <2> QED BY <1>2, <1>3, <1>4, <2>1, TableKept
<1>7. CASE Elsewhere
  <2>1. AccountMoved
    BY <1>5, <1>7 DEF Elsewhere, AccountMoved
  <2> QED BY <1>2, <1>3, <1>7, <2>1, TableKept DEF Elsewhere, bkModals
<1>8. CASE ChoosePeriod
  <2>1. AccountMoved /\ bkDay' = bkDay /\ UNCHANGED <<bkPage, bkFunds, bkReset, bkTable>>
    BY <1>4, <1>8 DEF ChoosePeriod, bkModals, bkBackend
  <2>2. bkPeriod' \in Periods' /\ bkAsked' \in SUBSET Periods'
    BY <1>0, <1>8, <2>1 DEF ChoosePeriod, BookTypeOK, Periods
  <2>3. ShownBalances'
    <3>1. bkShown' = [bkShown EXCEPT !.loading = TRUE]
      BY <1>8 DEF ChoosePeriod
    <3>2. /\ bkShown'.statement = bkShown.statement
          /\ bkShown' = [statement |-> bkShown'.statement, loading |-> bkShown'.loading]
      BY <3>1 DEF BookInv, ShownBalances
    <3> QED BY <3>2 DEF BookInv, ShownBalances
  <2>4. RowsCarry' /\ BookTypeOK'
    BY <2>1, <2>2, BackendKept
  <2> QED BY <1>3, <2>1, <2>3, <2>4, TableKept DEF BookInv
<1>9. CASE StatementAnswered
  <2>1. AccountMoved /\ bkDay' = bkDay /\ UNCHANGED <<bkPage, bkFunds, bkReset, bkTable>>
    BY <1>4, <1>9 DEF StatementAnswered, bkModals, bkBackend
  <2>2. bkPeriod' \in Periods' /\ bkAsked' \in SUBSET Periods'
    BY <1>0, <1>9, <2>1 DEF StatementAnswered, BookTypeOK, Periods
  <2>3. RowsCarry' /\ BookTypeOK'
    BY <2>1, <2>2, BackendKept
  <2> QED BY <1>3, <1>9, <2>1, <2>3, AnswerBalances, TableKept DEF BookInv
<1>10. CASE BookTraded
  BY <1>2, <1>3, <1>5, <1>10, TableKept DEF BookTraded, bkModals
<1>11. CASE RowsAsked
  <2>1. AccountMoved /\ bkRows' = bkRows /\ bkPage' = bkPage /\ UNCHANGED <<bkView, bkFunds, bkReset>>
    BY <1>4, <1>11 DEF RowsAsked, bkModals
  <2>2. bkTable' = RowsFetch
    BY <1>11 DEF RowsAsked
  <2> QED BY <1>2, <1>3, <2>1, <2>2, TableKept
<1>12. CASE RowsAnswered
  <2>1. AccountMoved /\ bkRows' = bkRows /\ bkPage' = bkPage /\ UNCHANGED <<bkView, bkFunds>>
    BY <1>4, <1>12 DEF RowsAnswered
  <2>2. TableFollows'
    <3>1. \/ bkTable' = [known |-> bkTable.coming, coming |-> -1, failed |-> FALSE,
                          inVain |-> bkTable.inVain /\ bkTable.known = -1]
          \/ bkTable' = [bkTable EXCEPT !.coming = -1, !.failed = TRUE, !.inVain = FALSE]
      BY <1>12 DEF RowsAnswered
    <3>2. /\ bkTable' \in Tables /\ bkTable'.coming = -1
          /\ \/ bkTable'.failed /\ bkTable'.known = bkTable.known
             \/ /\ bkTable'.known = bkTable.coming
                /\ bkTable.inVain /\ bkTable.known = -1 => bkTable'.inVain
      <4> DEFINE vain == bkTable.inVain /\ bkTable.known = -1
      <4>1. bkTable \in Tables /\ -1 \in Nat \cup {-1} /\ bkTable.coming \in Nat \cup {-1}
        BY <1>0 DEF TableFollows, Tables
      <4>2. CASE bkTable' = [known |-> bkTable.coming, coming |-> -1, failed |-> FALSE, inVain |-> vain]
        <5>1. vain \in BOOLEAN
          OBVIOUS
        <5> HIDE DEF vain
        <5>2. bkTable' \in Tables /\ bkTable'.coming = -1 /\ bkTable'.known = bkTable.coming
              /\ bkTable'.inVain = vain
          BY <4>1, <4>2, <5>1 DEF Tables
        <5> QED BY <5>2 DEF vain
      <4>3. CASE bkTable' = [bkTable EXCEPT !.coming = -1, !.failed = TRUE, !.inVain = FALSE]
        BY <4>1, <4>3 DEF Tables
      <4> QED BY <3>1, <4>2, <4>3
    <3>3. /\ bkReset'.rows = bkReset.rows
          /\ bkReset' \in [phase : {"idle", "posted", "refetching"}, says : {"nothing", "done", "failed"}, rows : Nat]
          /\ bkReset'.phase # "refetching"
          /\ bkReset'.says = "done" =>
               \/ bkReset.phase = "refetching" /\ bkReset'.phase = "idle"
               \/ bkReset.says = "done" /\ bkReset' = bkReset
      BY <1>0, <1>12 DEF RowsAnswered, TableFollows
    <3>4. bkTable.coming # -1
      BY <1>12 DEF RowsAnswered
    <3>5. bkTable.coming \in Nat \cup {-1} /\ bkTable.known \in Nat \cup {-1}
      BY <1>0 DEF TableFollows, Tables
    <3>6. bkTable'.known <= Len(bkRows') /\ bkTable'.coming <= Len(bkRows')
      BY <1>0, <2>1, <3>2, <3>4, <3>5 DEF TableFollows, RowsCarry
    <3>7. bkReset'.says = "done" =>
            \/ bkTable'.failed \/ bkTable'.known >= bkReset'.rows
            \/ bkTable'.inVain \/ bkTable'.known = -1
      BY <1>0, <3>2, <3>3, <3>4, <3>5 DEF TableFollows
    <3> QED BY <1>0, <2>1, <3>2, <3>3, <3>4, <3>6, <3>7 DEF TableFollows
  <2> QED BY <1>2, <1>3, <2>1, <2>2
<1>13. CASE PressDeposit
  <2>1. AccountMoved /\ UNCHANGED <<bkPage, bkView, bkTable, bkReset>>
        /\ bkFunds' = [bkFunds EXCEPT !.adding = TRUE]
    BY <1>4, <1>13 DEF PressDeposit
  <2>2. DepositsAreRows'
    BY <1>0, <2>1, FundsKept DEF DepositsAreRows
  <2> QED BY <1>2, <2>1, <2>2, TableKept
<1>14. CASE DepositAnswered
  <2>1. UNCHANGED <<bkPage, bkView, bkReset>>
    BY <1>14 DEF DepositAnswered
  <2>2. \/ Deposited /\ bkFunds' = [bkFunds EXCEPT !.adding = FALSE, !.done = @ + 1] /\ Refetched
        \/ (Deposited \/ UNCHANGED bkBackend) /\ bkFunds' = [bkFunds EXCEPT !.adding = FALSE, !.done = @ + 0]
           /\ UNCHANGED bkTable
    BY <1>14 DEF DepositAnswered
  <2>3. AccountMoved
    BY <1>4, <1>5, <2>2
  <2>4. DepositsAreRows'
    <3>1. \/ bkFunds' = [bkFunds EXCEPT !.adding = FALSE, !.done = @ + 1] /\ \E row : Writes(row) /\ row.type = "DEPOSIT"
          \/ bkFunds' = [bkFunds EXCEPT !.adding = FALSE, !.done = @ + 0]
      BY <1>5, <2>2
    <3>2. /\ bkFunds' \in [adding : BOOLEAN, resetting : BOOLEAN, done : Nat]
          /\ \/ bkFunds'.done = bkFunds.done
             \/ bkFunds'.done = bkFunds.done + 1 /\ \E row : Writes(row) /\ row.type = "DEPOSIT"
      <4>1. bkFunds \in [adding : BOOLEAN, resetting : BOOLEAN, done : Nat]
        BY <1>0 DEF DepositsAreRows
      <4>2. CASE /\ bkFunds' = [bkFunds EXCEPT !.adding = FALSE, !.done = @ + 1]
                 /\ \E row : Writes(row) /\ row.type = "DEPOSIT"
        <5> DEFINE more == bkFunds.done + 1
        <5>1. bkFunds' = [bkFunds EXCEPT !.adding = FALSE, !.done = more] /\ more \in Nat
          BY <4>1, <4>2
        <5> HIDE DEF more
        <5>2. bkFunds' \in [adding : BOOLEAN, resetting : BOOLEAN, done : Nat] /\ bkFunds'.done = more
          BY <4>1, <5>1
        <5> QED BY <4>2, <5>2 DEF more
      <4>3. CASE bkFunds' = [bkFunds EXCEPT !.adding = FALSE, !.done = @ + 0]
        <5> DEFINE same == bkFunds.done + 0
        <5>1. bkFunds' = [bkFunds EXCEPT !.adding = FALSE, !.done = same] /\ same = bkFunds.done /\ same \in Nat
          BY <4>1, <4>3
        <5> HIDE DEF same
        <5> QED BY <4>1, <5>1
      <4> QED BY <3>1, <4>2, <4>3
    <3> QED BY <2>3, <3>2, FundsKept
  <2>5. TableFollows'
    BY <2>1, <2>2, <2>3, TableKept
  <2> QED BY <1>2, <2>1, <2>3, <2>4, <2>5
<1>15. CASE PressFundsReset
  <2>1. AccountMoved /\ UNCHANGED <<bkPage, bkView, bkTable, bkReset>>
        /\ bkFunds' = [bkFunds EXCEPT !.resetting = TRUE]
    BY <1>4, <1>15 DEF PressFundsReset
  <2>2. DepositsAreRows'
    BY <1>0, <2>1, FundsKept DEF DepositsAreRows
  <2> QED BY <1>2, <2>1, <2>2, TableKept
<1>16. CASE FundsResetAnswered
  <2>1. /\ UNCHANGED <<bkPage, bkView, bkReset>> /\ bkFunds' = [bkFunds EXCEPT !.resetting = FALSE]
        /\ Refetched \/ UNCHANGED bkTable
    BY <1>16 DEF FundsResetAnswered
  <2>2. AccountMoved
    BY <1>4, <1>5, <1>16 DEF FundsResetAnswered
  <2>3. DepositsAreRows'
    BY <1>0, <2>1, <2>2, FundsKept DEF DepositsAreRows
  <2>4. TableFollows'
    BY <2>1, <2>2, TableKept
  <2> QED BY <1>2, <2>1, <2>2, <2>3, <2>4
<1>17. CASE PressReset
  <2>1. AccountMoved /\ UNCHANGED <<bkPage, bkView, bkTable, bkRows, bkFunds>>
        /\ bkReset' = [bkReset EXCEPT !.phase = "posted", !.says = "nothing"]
    BY <1>4, <1>17 DEF PressReset
  <2>2. TableFollows'
    BY <1>0, <2>1 DEF TableFollows
  <2> QED BY <1>2, <1>3, <2>1, <2>2
<1>18. CASE BookResetAnswered
  <2>1. UNCHANGED <<bkPage, bkView, bkFunds>>
    BY <1>18 DEF BookResetAnswered
  <2>2. AccountMoved
    BY <1>4, <1>5, <1>18 DEF BookResetAnswered
  <2>3. /\ Len(bkRows) \in Nat /\ Len(bkRows') \in Nat /\ Len(bkRows) <= Len(bkRows')
        /\ \A i \in 1..Len(bkRows) : bkRows'[i] = bkRows[i]
    BY <1>0, <2>2, BookGrows DEF BookTypeOK, BackendOK
  <2>4. TableFollows'
    <3>1. CASE Restored /\ Refetched /\ bkReset' = [bkReset EXCEPT !.phase = "refetching", !.rows = Len(bkRows')]
      <4>1. PICK row : Writes(row) /\ row.type = "RESET"
        BY <1>5, <3>1
      <4>2. bkRows \in Seq(BookRows) /\ row \in BookRows /\ bkRows' = Append(bkRows, row)
        BY <1>0, <4>1 DEF BookTypeOK, Writes
      <4>3. Len(bkRows') \in 1..Len(bkRows') /\ bkRows'[Len(bkRows')].type = "RESET"
        BY <2>3, <4>1, <4>2
      <4>4. TableMoved
        BY <1>0, <2>3, <3>1, RequestsMove DEF TableFollows
      <4>5. /\ bkReset'.phase = "refetching" /\ bkReset'.rows = Len(bkRows') /\ bkReset'.says # "done"
            /\ bkReset' \in [phase : {"idle", "posted", "refetching"}, says : {"nothing", "done", "failed"}, rows : Nat]
        BY <1>0, <1>18, <2>3, <3>1 DEF BookResetAnswered, TableFollows
      <4>6. /\ bkTable.known \in Nat \cup {-1} /\ bkTable.coming \in Nat \cup {-1}
            /\ bkTable'.known \in Nat \cup {-1} /\ bkTable'.coming \in Nat \cup {-1}
        BY <1>0, <4>4 DEF TableFollows, TableMoved, Tables
      <4>7. bkTable'.coming >= Len(bkRows') \/ (bkTable'.inVain /\ bkTable'.known = -1)
        <5>1. (bkTable.known = -1 /\ bkTable.coming # -1) \/ bkTable' = RowsFetch
          BY <3>1 DEF Refetched
        <5>2. CASE bkTable' = RowsFetch
          <6>1. bkTable'.coming = Len(bkRows')
            BY <1>0, <2>3, <5>2 DEF RowsFetch, TableFollows, Tables
          <6> QED BY <2>3, <6>1
        <5>3. CASE bkTable.known = -1 /\ bkTable.coming # -1
          <6>1. bkTable' = [bkTable EXCEPT !.inVain = bkTable.inVain \/ bkTable.coming < Len(bkRows')]
            BY <3>1, <5>3 DEF Refetched
          <6>2. bkTable.coming < Len(bkRows')
            BY <1>0, <2>3, <4>2, <4>6 DEF TableFollows
          <6>3. (bkTable.inVain \/ bkTable.coming < Len(bkRows')) = TRUE
            BY <6>2
          <6>4. bkTable' = [bkTable EXCEPT !.inVain = TRUE]
            BY <6>1, <6>3, Zenon
          <6> QED BY <1>0, <5>3, <6>4 DEF TableFollows, Tables
        <5> QED BY <5>1, <5>2, <5>3
      <4>8. /\ bkTable'.known <= Len(bkRows') /\ bkTable'.coming <= Len(bkRows')
            /\ bkTable'.coming # -1 => bkTable'.known <= bkTable'.coming
        BY <1>0, <2>3, <4>4, <4>6 DEF TableFollows, TableMoved
      <4>9. bkTable' \in Tables
        BY <4>4 DEF TableMoved
      <4>10. bkReset'.rows \in 1..Len(bkRows') /\ bkRows'[bkReset'.rows].type = "RESET"
        BY <4>3, <4>5
      <4>11. bkTable'.coming >= bkReset'.rows \/ (bkTable'.inVain /\ bkTable'.known = -1)
        BY <4>5, <4>7
      <4> QED BY <4>5, <4>8, <4>9, <4>10, <4>11 DEF TableFollows
    <3>2. CASE bkReset' = [bkReset EXCEPT !.phase = "idle", !.says = "failed"] /\ UNCHANGED bkTable
      <4>1. /\ bkReset'.phase = "idle" /\ bkReset'.says = "failed"
            /\ bkReset' \in [phase : {"idle", "posted", "refetching"}, says : {"nothing", "done", "failed"}, rows : Nat]
        BY <1>0, <3>2 DEF TableFollows
      <4>2. bkTable'.known <= Len(bkRows') /\ bkTable'.coming <= Len(bkRows')
        BY <1>0, <2>3, <3>2 DEF TableFollows, Tables
      <4>3. bkTable' \in Tables /\ (bkTable'.coming # -1 => bkTable'.known <= bkTable'.coming)
        BY <1>0, <3>2 DEF TableFollows
      <4> QED BY <4>1, <4>2, <4>3 DEF TableFollows
    <3> QED BY <1>18, <3>1, <3>2 DEF BookResetAnswered
  <2> QED BY <1>2, <1>3, <2>1, <2>2, <2>4
<1> QED BY <1>6, <1>7, <1>8, <1>9, <1>10, <1>11, <1>12, <1>13, <1>14, <1>15, <1>16, <1>17, <1>18
    DEF AccountBookNext

LEMMA BookIsBalanced == BookInv => BookBalances
<1> SUFFICES ASSUME BookInv PROVE BookBalances
  OBVIOUS
<1>0. BookTypeOK /\ RowsCarry /\ ShownBalances /\ DepositsAreRows /\ TableFollows
  BY DEF BookInv
<1>1. ASSUME NEW from \in 0..bkDay
      PROVE  LET s == Statement([from |-> from, to |-> bkDay]) IN
             /\ s.running = bkWallet.cash
             /\ s.opening + s.credit - s.debit = s.running
             /\ \A i \in 1..Len(s.entries) : s.entries[i].balance = s.entries[i].row.cash
  <2> DEFINE period == [from |-> from, to |-> bkDay]
  <2>1. period \in Periods /\ period.to = bkDay
    BY <1>0 DEF BookTypeOK, Periods
  <2> HIDE DEF period
  <2>2. SumsUp(Statement(period), bkRows[Len(bkRows)], period)
    BY <1>0, <2>1, StatementSumsUp
  <2>3. bkRows[Len(bkRows)].cash = bkWallet.cash
    BY <1>0 DEF RowsCarry
  <2> QED BY <2>2, <2>3 DEF SumsUp, period
<1>2. bkFunds.done <= Cardinality({i \in 1..Len(bkRows) : bkRows[i].type = "DEPOSIT"})
  BY <1>0 DEF DepositsAreRows, Deposits
<1>3. ResetModal.body = "Account Reset Completed!" =>
        \/ bkTable.known >= bkReset.rows /\ TableBody("RESET") = "rows"
        \/ bkTable.failed \/ bkTable.known = -1
        \/ bkTable.inVain
  <2> SUFFICES ASSUME bkReset.says = "done", ~bkTable.failed, ~bkTable.inVain, bkTable.known # -1
               PROVE  bkTable.known >= bkReset.rows /\ TableBody("RESET") = "rows"
    BY DEF ResetModal
  <2>1. /\ bkTable.known >= bkReset.rows /\ bkTable.known \in Nat \cup {-1} /\ bkReset.rows \in 1..Len(bkRows)
        /\ bkRows[bkReset.rows].type = "RESET"
    BY <1>0 DEF TableFollows, Tables
  <2>2. bkReset.rows \in TableRows("RESET") /\ bkTable.known # -1
    BY <1>0, <2>1 DEF TableRows, Kind, BookTypeOK
  <2> QED BY <2>1, <2>2 DEF TableBody
<1>4. ASSUME NEW i \in 2..Len(bkRows)
      PROVE  /\ Sign(bkRows[i]) = "+" => bkRows[i].cash > bkRows[i - 1].cash
             /\ Sign(bkRows[i]) = "-" => (bkRows[i].cash < bkRows[i - 1].cash \/ bkRows[i].type = "RESERVE")
  <2>1. bkRows[i] \in BookRows /\ bkRows[i - 1] \in BookRows
    BY <1>0 DEF BookTypeOK
  <2>2. Carries(bkRows[i], bkRows[i - 1])
    BY <1>0 DEF RowsCarry
  <2> QED BY <2>1, <2>2 DEF Carries, Sign, BookRows
<1> QED BY <1>0, <1>1, <1>2, <1>3, <1>4 DEF BookBalances, ShownBalances

-----------------------------------------------------------------------------
\* The journal.

EntryRows == [tag : Setups, notes : Notes]
EditRows == [tag : Setups, notes : Notes, saving : BOOLEAN, saved : BOOLEAN]
SaveRows == [id : Ids, tag : Setups, notes : Notes, stored : BOOLEAN, waited : BOOLEAN]

JournalTypeOK ==
  /\ jrEntries \in [Ids -> EntryRows]
  /\ jrTrades # NoAnalytics => jrTrades \in [Ids -> EntryRows]
  /\ jrEdits \in [Ids -> EditRows \cup {NoEdit}]
  /\ jrSaves \in Seq(SaveRows)
  /\ jrTimers \subseteq {t \in Ids : jrEdits[t] # NoEdit}

\* A save under way is of a row that the user edits; while it is the only one of its
\* trade, the row does not say "Saved", and the backend holds it once it is stored.
SavesHold ==
  \A i \in 1..Len(jrSaves) :
    LET t == jrSaves[i].id IN
    /\ jrEdits[t] # NoEdit
    /\ t \notin jrOverlaps =>
         /\ ~jrEdits[t].saved
         /\ jrSaves[i].stored => jrEntries[t].tag = jrSaves[i].tag /\ jrEntries[t].notes = jrSaves[i].notes

SavesApart ==
  \A i, j \in 1..Len(jrSaves) : i # j /\ jrSaves[i].id = jrSaves[j].id => jrSaves[i].id \in jrOverlaps

\* A row that says "Saved" shows the entry.
SavedShown ==
  \A t \in Ids : t \notin jrOverlaps /\ jrEdits[t] # NoEdit /\ jrEdits[t].saved =>
    jrEdits[t].tag = jrEntries[t].tag /\ jrEdits[t].notes = jrEntries[t].notes

JournalInv == JournalTypeOK /\ SavesHold /\ SavesApart /\ SavedShown

LEMMA SavesTyped ==
  ASSUME JournalTypeOK
  PROVE  \A i \in 1..Len(jrSaves) : jrSaves[i] \in SaveRows /\ jrSaves[i].id \in Ids
<1>1. jrSaves \in Seq(SaveRows)
  BY DEF JournalTypeOK
<1>2. \A i \in 1..Len(jrSaves) : jrSaves[i] \in SaveRows
  BY <1>1
<1> QED BY <1>2 DEF SaveRows

LEMMA RowsAreRows ==
  /\ NoEdit \notin EditRows /\ EditedTrades \subseteq Ids
  /\ \A tag \in Setups, notes \in Notes : [tag |-> tag, notes |-> notes] \in EntryRows
  /\ \A tag \in Setups, notes \in Notes, saving, saved \in BOOLEAN :
       [tag |-> tag, notes |-> notes, saving |-> saving, saved |-> saved] \in EditRows
<1>1. NoEdit \notin EditRows /\ EditedTrades \subseteq Ids
  BY JournalAssumption, Zenon DEF EditRows, Ids
<1>2. \A tag \in Setups, notes \in Notes : [tag |-> tag, notes |-> notes] \in EntryRows
  BY DEF EntryRows
<1>3. \A tag \in Setups, notes \in Notes, saving, saved \in BOOLEAN :
        [tag |-> tag, notes |-> notes, saving |-> saving, saved |-> saved] \in EditRows
  BY DEF EditRows
<1> QED BY <1>1, <1>2, <1>3, Zenon

LEMMA JournalStart == TradeJournalInit => JournalInv
<1> SUFFICES ASSUME TradeJournalInit PROVE JournalInv
  OBVIOUS
<1>1. Blank \in EntryRows
  <2>1. "" \in Setups /\ "" \in Notes
    BY JournalAssumption, Zenon
  <2> QED BY <2>1, RowsAreRows, Zenon DEF Blank
<1>2. /\ jrEntries = [t \in Ids |-> Blank] /\ jrTrades = NoAnalytics /\ jrEdits = [t \in Ids |-> NoEdit]
      /\ jrSaves = <<>> /\ jrTimers = {}
  BY DEF TradeJournalInit
<1>3. <<>> \in Seq(SaveRows) /\ Len(<<>>) = 0
  OBVIOUS
<1> QED BY <1>1, <1>2, <1>3 DEF JournalInv, JournalTypeOK, SavesHold, SavesApart, SavedShown

\* What a row shows can be saved.
LEMMA RowsAreTyped ==
  ASSUME JournalInv, NEW t \in Ids, CanEdit(t)
  PROVE  JournalRow(t).tag \in Setups /\ JournalRow(t).notes \in Notes
<1>1. jrTrades # NoAnalytics
  BY DEF CanEdit, FilteredTrades, Listed
<1> QED BY <1>1 DEF JournalInv, JournalTypeOK, JournalRow, EntryRows, EditRows

\* What is left of the saves when one is taken out.
LEMMA TakenOut ==
  ASSUME JournalTypeOK, NEW i \in 1..Len(jrSaves)
  PROVE  LET rest == RemoveAt(jrSaves, i) IN
         /\ rest \in Seq(SaveRows) /\ Len(rest) \in Nat
         /\ \A k \in 1..Len(rest) : LET l == IF k < i THEN k ELSE k + 1 IN
              l \in 1..Len(jrSaves) /\ l # i /\ rest[k] = jrSaves[l]
<1>1. jrSaves \in Seq(SaveRows) /\ Len(jrSaves) \in Nat
  BY DEF JournalTypeOK
<1>2. LET rest == RemoveAt(jrSaves, i) IN
      /\ rest \in Seq(SaveRows) /\ Len(rest) = Len(jrSaves) - 1
      /\ \A k \in 1..Len(rest) : LET l == IF k < i THEN k ELSE k + 1 IN
           l \in 1..Len(jrSaves) /\ l # i /\ rest[k] = jrSaves[l]
  BY <1>1, RemovedFrom
<1>3. Len(jrSaves) - 1 \in Nat
  BY <1>1
<1> QED BY <1>2, <1>3, Zenon

\* Saves that end, or that nobody waits for any more.
FewerSaves ==
  /\ jrSaves' \in Seq(SaveRows) /\ SavesApart' /\ jrOverlaps' = jrOverlaps
  /\ \A k \in 1..Len(jrSaves') : \E l \in 1..Len(jrSaves) :
       /\ jrSaves'[k].id = jrSaves[l].id /\ jrSaves'[k].tag = jrSaves[l].tag
       /\ jrSaves'[k].notes = jrSaves[l].notes /\ jrSaves'[k].stored = jrSaves[l].stored

LEMMA TakingOut ==
  ASSUME JournalInv, NEW i \in 1..Len(jrSaves), jrSaves' = RemoveAt(jrSaves, i),
         jrOverlaps' = jrOverlaps
  PROVE  /\ FewerSaves
         /\ \A k \in 1..Len(jrSaves') : \E l \in 1..Len(jrSaves) : l # i /\ jrSaves'[k] = jrSaves[l]
<1>1. /\ jrSaves' \in Seq(SaveRows) /\ Len(jrSaves') \in Nat /\ Len(jrSaves) \in Nat
      /\ \A k \in 1..Len(jrSaves') : LET l == IF k < i THEN k ELSE k + 1 IN
           l \in 1..Len(jrSaves) /\ l # i /\ jrSaves'[k] = jrSaves[l]
  BY TakenOut DEF JournalInv, JournalTypeOK
<1>2. SavesApart'
  <2> SUFFICES ASSUME NEW k \in 1..Len(jrSaves'), NEW m \in 1..Len(jrSaves'), k # m,
                      jrSaves'[k].id = jrSaves'[m].id
               PROVE  jrSaves'[k].id \in jrOverlaps
    BY DEF SavesApart
  <2> DEFINE p == IF k < i THEN k ELSE k + 1
             q == IF m < i THEN m ELSE m + 1
  <2>1. p \in 1..Len(jrSaves) /\ jrSaves'[k] = jrSaves[p]
    BY <1>1
  <2>2. q \in 1..Len(jrSaves) /\ jrSaves'[m] = jrSaves[q]
    BY <1>1
  <2>3. p # q
    BY <1>1
  <2> HIDE DEF p, q
  <2> QED BY <2>1, <2>2, <2>3 DEF JournalInv, SavesApart
<1>3. \A k \in 1..Len(jrSaves') : \E l \in 1..Len(jrSaves) : l # i /\ jrSaves'[k] = jrSaves[l]
  BY <1>1
<1> QED BY <1>1, <1>2, <1>3 DEF FewerSaves

LEMMA SameSaves == ASSUME JournalInv, UNCHANGED <<jrSaves, jrOverlaps>> PROVE FewerSaves
  BY DEF JournalInv, JournalTypeOK, FewerSaves, SavesApart

LEMMA LetGo ==
  ASSUME JournalInv, NEW i \in 1..Len(jrSaves), jrSaves' = [jrSaves EXCEPT ![i].waited = FALSE],
         jrOverlaps' = jrOverlaps
  PROVE  FewerSaves
<1> DEFINE save == [jrSaves[i] EXCEPT !.waited = FALSE]
<1>1. jrSaves \in Seq(SaveRows) /\ jrSaves[i] \in SaveRows /\ Len(jrSaves) \in Nat
  BY DEF JournalInv, JournalTypeOK
<1>2. /\ save \in SaveRows /\ save.id = jrSaves[i].id /\ save.tag = jrSaves[i].tag
      /\ save.notes = jrSaves[i].notes /\ save.stored = jrSaves[i].stored
  BY <1>1 DEF SaveRows
<1> HIDE DEF save
<1>3. /\ jrSaves' \in Seq(SaveRows) /\ Len(jrSaves') = Len(jrSaves)
      /\ \A k \in 1..Len(jrSaves) : jrSaves'[k] = IF k = i THEN save ELSE jrSaves[k]
  BY <1>1, <1>2 DEF save
<1>4. \A k \in 1..Len(jrSaves) :
        /\ jrSaves'[k].id = jrSaves[k].id /\ jrSaves'[k].tag = jrSaves[k].tag
        /\ jrSaves'[k].notes = jrSaves[k].notes /\ jrSaves'[k].stored = jrSaves[k].stored
  BY <1>2, <1>3
<1>5. SavesApart'
  BY <1>3, <1>4 DEF SavesApart, JournalInv
<1> QED BY <1>3, <1>4, <1>5 DEF FewerSaves

\* A step that ends saves and leaves the rows, the backend and the list of trades.
LEMMA EndKeeps ==
  ASSUME JournalInv, FewerSaves, UNCHANGED <<jrEntries, jrEdits>>, jrTimers' \subseteq jrTimers,
         jrTrades' = jrTrades \/ jrTrades' \in [Ids -> EntryRows]
  PROVE  JournalInv'
<1>1. JournalTypeOK'
  BY DEF JournalInv, JournalTypeOK, FewerSaves
<1>2. SavesHold'
  <2> SUFFICES ASSUME NEW k \in 1..Len(jrSaves')
               PROVE  LET t == jrSaves'[k].id IN
                      /\ jrEdits[t] # NoEdit
                      /\ t \notin jrOverlaps =>
                           /\ ~jrEdits[t].saved
                           /\ jrSaves'[k].stored =>
                                jrEntries[t].tag = jrSaves'[k].tag /\ jrEntries[t].notes = jrSaves'[k].notes
    BY DEF SavesHold, FewerSaves
  <2>1. PICK l \in 1..Len(jrSaves) :
          /\ jrSaves'[k].id = jrSaves[l].id /\ jrSaves'[k].tag = jrSaves[l].tag
          /\ jrSaves'[k].notes = jrSaves[l].notes /\ jrSaves'[k].stored = jrSaves[l].stored
    BY DEF FewerSaves
  <2> QED BY <2>1 DEF JournalInv, SavesHold
<1>3. SavedShown'
  BY DEF JournalInv, SavedShown, FewerSaves
<1> QED BY <1>1, <1>2, <1>3 DEF JournalInv, FewerSaves

\* A row that says nothing, whatever saves end with it.
LEMMA TypingKeeps ==
  ASSUME JournalInv, FewerSaves, NEW t \in Ids, NEW tag \in Setups, NEW notes \in Notes,
         jrEdits' = [jrEdits EXCEPT ![t] = [tag |-> tag, notes |-> notes, saving |-> FALSE, saved |-> FALSE]],
         UNCHANGED <<jrEntries, jrTrades>>, jrTimers' \subseteq jrTimers
  PROVE  JournalInv'
<1> DEFINE row == [tag |-> tag, notes |-> notes, saving |-> FALSE, saved |-> FALSE]
<1>1. row \in EditRows /\ row.saved = FALSE /\ row # NoEdit
  <2>1. row \in EditRows /\ row # NoEdit
    BY RowsAreRows
  <2> QED BY <2>1
<1>2. jrEdits' = [jrEdits EXCEPT ![t] = row]
  OBVIOUS
<1> HIDE DEF row
<1>3. jrEdits' \in [Ids -> EditRows \cup {NoEdit}] /\ jrEdits'[t] = row
      /\ \A u \in Ids : u # t => jrEdits'[u] = jrEdits[u]
  BY <1>1, <1>2, ZenonT(60) DEF JournalInv, JournalTypeOK
<1>4. jrEntries' = jrEntries /\ jrTrades' = jrTrades /\ jrOverlaps' = jrOverlaps
  BY DEF FewerSaves
<1>5. JournalTypeOK'
  <2>1. jrTimers' \subseteq {u \in Ids : jrEdits'[u] # NoEdit}
    BY <1>1, <1>3 DEF JournalInv, JournalTypeOK
  <2>2. jrEntries' \in [Ids -> EntryRows] /\ (jrTrades' # NoAnalytics => jrTrades' \in [Ids -> EntryRows])
    BY <1>4 DEF JournalInv, JournalTypeOK
  <2> QED BY <1>3, <2>1, <2>2 DEF JournalTypeOK, FewerSaves
<1>6. SavesHold'
  <2> SUFFICES ASSUME NEW k \in 1..Len(jrSaves')
               PROVE  /\ jrEdits'[jrSaves'[k].id] # NoEdit
                      /\ jrSaves'[k].id \notin jrOverlaps =>
                           /\ ~jrEdits'[jrSaves'[k].id].saved
                           /\ jrSaves'[k].stored =>
                                /\ jrEntries[jrSaves'[k].id].tag = jrSaves'[k].tag
                                /\ jrEntries[jrSaves'[k].id].notes = jrSaves'[k].notes
    BY <1>4 DEF SavesHold
  <2>1. PICK l \in 1..Len(jrSaves) :
          /\ jrSaves'[k].id = jrSaves[l].id /\ jrSaves'[k].tag = jrSaves[l].tag
          /\ jrSaves'[k].notes = jrSaves[l].notes /\ jrSaves'[k].stored = jrSaves[l].stored
    BY DEF FewerSaves
  <2> DEFINE id == jrSaves[l].id
  <2>2. id \in Ids
    BY SavesTyped DEF JournalInv
  <2>3. /\ jrEdits[id] # NoEdit
        /\ id \notin jrOverlaps =>
             /\ ~jrEdits[id].saved
             /\ jrSaves[l].stored => jrEntries[id].tag = jrSaves[l].tag /\ jrEntries[id].notes = jrSaves[l].notes
    BY DEF JournalInv, SavesHold
  <2>4. jrEdits'[id] # NoEdit /\ (jrEdits'[id] = jrEdits[id] \/ ~jrEdits'[id].saved)
    BY <1>1, <1>3, <2>2, <2>3
  <2> HIDE DEF id
  <2>5. jrSaves'[k].id = id
    BY <2>1 DEF id
  <2> QED BY <2>1, <2>3, <2>4, <2>5
<1>7. SavedShown'
  BY <1>1, <1>3, <1>4 DEF JournalInv, SavedShown
<1> QED BY <1>5, <1>6, <1>7 DEF JournalInv, FewerSaves

LEMMA SaveKeeps ==
  ASSUME JournalInv, NEW t \in Ids, NEW tag \in Setups, NEW notes \in Notes,
         Save(t, tag, notes), UNCHANGED <<jrEntries, jrTrades, jrTimers>>
  PROVE  JournalInv'
<1> DEFINE row == [tag |-> tag, notes |-> notes, saving |-> TRUE, saved |-> FALSE]
           save == [id |-> t, tag |-> tag, notes |-> notes, stored |-> FALSE, waited |-> TRUE]
           n == Len(jrSaves)
<1>1. row \in EditRows /\ row.saved = FALSE /\ row # NoEdit
  <2>1. row \in EditRows /\ row # NoEdit
    BY RowsAreRows
  <2> QED BY <2>1
<1>2. save \in SaveRows /\ save.id = t /\ save.stored = FALSE
  BY DEF SaveRows
<1>3. /\ jrSaves' = Append(jrSaves, save) /\ jrEdits' = [jrEdits EXCEPT ![t] = row]
      /\ jrOverlaps' = IF SavesOf(t) = {} THEN jrOverlaps \ {t} ELSE jrOverlaps \cup {t}
  BY DEF Save
<1> HIDE DEF row, save
<1>4. jrSaves \in Seq(SaveRows) /\ n \in Nat /\ \A i \in 1..n : jrSaves[i].id \in Ids
  BY SavesTyped DEF JournalInv, JournalTypeOK
<1>5. /\ jrSaves' \in Seq(SaveRows) /\ Len(jrSaves') = n + 1 /\ jrSaves'[n + 1] = save
      /\ \A i \in 1..n : jrSaves'[i] = jrSaves[i]
  BY <1>2, <1>3, <1>4
<1> HIDE DEF n
<1>6. jrEdits' \in [Ids -> EditRows \cup {NoEdit}] /\ jrEdits'[t] = row
      /\ \A u \in Ids : u # t => jrEdits'[u] = jrEdits[u]
  BY <1>1, <1>3, ZenonT(60) DEF JournalInv, JournalTypeOK
<1>7. /\ t \notin jrOverlaps' => \A i \in 1..n : jrSaves[i].id # t
      /\ \A u \in Ids : u # t => (u \in jrOverlaps' <=> u \in jrOverlaps)
  <2>1. SavesOf(t) = {i \in 1..n : jrSaves[i].id = t}
    BY <1>4 DEF SavesOf, n
  <2> QED BY <1>3, <2>1
<1>8. JournalTypeOK'
  <2>1. jrTimers' \subseteq {u \in Ids : jrEdits'[u] # NoEdit}
    BY <1>1, <1>6 DEF JournalInv, JournalTypeOK
  <2> QED BY <1>5, <1>6, <2>1 DEF JournalInv, JournalTypeOK
<1>9. SavesHold'
  <2> SUFFICES ASSUME NEW k \in 1..n + 1
               PROVE  /\ jrEdits'[jrSaves'[k].id] # NoEdit
                      /\ jrSaves'[k].id \notin jrOverlaps' =>
                           /\ ~jrEdits'[jrSaves'[k].id].saved
                           /\ jrSaves'[k].stored =>
                                /\ jrEntries[jrSaves'[k].id].tag = jrSaves'[k].tag
                                /\ jrEntries[jrSaves'[k].id].notes = jrSaves'[k].notes
    BY <1>5 DEF SavesHold
  <2>1. CASE k = n + 1
    BY <1>1, <1>2, <1>5, <1>6, <2>1
  <2>2. CASE k # n + 1
    <3> DEFINE id == jrSaves[k].id
    <3>1. k \in 1..n /\ jrSaves'[k] = jrSaves[k] /\ id \in Ids
      BY <1>4, <1>5, <2>2
    <3>2. /\ jrEdits[id] # NoEdit
          /\ id \notin jrOverlaps =>
               /\ ~jrEdits[id].saved
               /\ jrSaves[k].stored => jrEntries[id].tag = jrSaves[k].tag /\ jrEntries[id].notes = jrSaves[k].notes
      BY <3>1 DEF JournalInv, SavesHold, n
    <3>3. /\ id # t => jrEdits'[id] = jrEdits[id] /\ (id \in jrOverlaps' <=> id \in jrOverlaps)
          /\ id = t => jrEdits'[id] # NoEdit /\ id \in jrOverlaps'
      BY <1>1, <1>6, <1>7, <3>1
    <3>4. jrSaves'[k].id = id
      BY <3>1
    <3> HIDE DEF id
    <3> QED BY <3>1, <3>2, <3>3, <3>4
  <2> QED BY <2>1, <2>2
<1>10. SavesApart'
  <2> SUFFICES ASSUME NEW i \in 1..n + 1, NEW j \in 1..n + 1, i # j, jrSaves'[i].id = jrSaves'[j].id
               PROVE  jrSaves'[i].id \in jrOverlaps'
    BY <1>5 DEF SavesApart
  <2>1. CASE i = n + 1 \/ j = n + 1
    BY <1>2, <1>4, <1>5, <1>7, <2>1
  <2>2. CASE i # n + 1 /\ j # n + 1
    <3>1. i \in 1..n /\ j \in 1..n /\ jrSaves'[i] = jrSaves[i] /\ jrSaves'[j] = jrSaves[j]
      BY <1>4, <1>5, <2>2
    <3>2. jrSaves[i].id \in jrOverlaps /\ jrSaves[i].id \in Ids
      BY <1>4, <3>1 DEF JournalInv, SavesApart, n
    <3> QED BY <1>7, <3>1, <3>2
  <2> QED BY <2>1, <2>2
<1>11. SavedShown'
  BY <1>1, <1>6, <1>7 DEF JournalInv, SavedShown
<1> QED BY <1>8, <1>9, <1>10, <1>11 DEF JournalInv

\* An edit that stays but for its two flags.
LEMMA Quieted ==
  ASSUME JournalInv, NEW t \in Ids, jrEdits[t] # NoEdit
  PROVE  [jrEdits EXCEPT ![t].saving = FALSE, ![t].saved = FALSE] =
           [jrEdits EXCEPT ![t] = [tag |-> jrEdits[t].tag, notes |-> jrEdits[t].notes,
                                   saving |-> FALSE, saved |-> FALSE]]
<1> DEFINE edit == jrEdits[t]
           row == [tag |-> edit.tag, notes |-> edit.notes, saving |-> FALSE, saved |-> FALSE]
           first == [edit EXCEPT !.saving = FALSE]
           second == [first EXCEPT !.saved = FALSE]
           f == [jrEdits EXCEPT ![t] = first]
<1>1. edit \in EditRows /\ DOMAIN jrEdits = Ids
  BY DEF JournalInv, JournalTypeOK
<1>2. second = row
  <2> HIDE DEF edit
  <2>1. first \in EditRows /\ first.tag = edit.tag /\ first.notes = edit.notes /\ first.saving = FALSE
    BY <1>1 DEF EditRows
  <2> HIDE DEF first
  <2>2. second \in EditRows /\ second.tag = edit.tag /\ second.notes = edit.notes
        /\ second.saving = FALSE /\ second.saved = FALSE
    BY <2>1 DEF EditRows
  <2>3. row \in EditRows /\ row.tag = edit.tag /\ row.notes = edit.notes
        /\ row.saving = FALSE /\ row.saved = FALSE
    BY <1>1 DEF EditRows
  <2> HIDE DEF second, row
  <2> QED BY <2>2, <2>3 DEF EditRows
<1>3. f[t] = first /\ [f EXCEPT ![t] = second] = [jrEdits EXCEPT ![t] = second]
  <2> HIDE DEF first, second
  <2> QED BY <1>1
<1>4. [jrEdits EXCEPT ![t].saving = FALSE, ![t].saved = FALSE] = [f EXCEPT ![t] = [f[t] EXCEPT !.saved = FALSE]]
  BY Zenon
<1> QED BY <1>2, <1>3, <1>4, Zenon

\* Whatever a save that is stored leaves of the others, the entry is its own.
LEMMA StoreKeeps ==
  ASSUME JournalInv, NEW i \in 1..Len(jrSaves), SaveStored(i)
  PROVE  JournalInv'
<1> DEFINE id == jrSaves[i].id
           entry == [tag |-> jrSaves[i].tag, notes |-> jrSaves[i].notes]
           save == [jrSaves[i] EXCEPT !.stored = TRUE]
<1>1. jrSaves \in Seq(SaveRows) /\ jrSaves[i] \in SaveRows /\ id \in Ids /\ Len(jrSaves) \in Nat
  BY SavesTyped DEF JournalInv, JournalTypeOK
<1>2. entry \in EntryRows /\ entry.tag = jrSaves[i].tag /\ entry.notes = jrSaves[i].notes
  <2>1. jrSaves[i].tag \in Setups /\ jrSaves[i].notes \in Notes
    BY <1>1 DEF SaveRows
  <2>2. entry \in EntryRows
    BY <2>1, RowsAreRows
  <2> QED BY <2>2
<1>3. save \in SaveRows /\ save.id = id /\ save.tag = jrSaves[i].tag /\ save.notes = jrSaves[i].notes
  BY <1>1 DEF SaveRows
<1>4. /\ UNCHANGED <<jrTrades, jrEdits, jrOverlaps, jrTimers>>
      /\ jrEntries' = [jrEntries EXCEPT ![id] = entry]
      /\ \/ jrSaves' = [jrSaves EXCEPT ![i] = save]
         \/ jrSaves' = RemoveAt(jrSaves, i)
  BY DEF SaveStored
<1> HIDE DEF id, entry, save
<1>5. jrEntries' \in [Ids -> EntryRows] /\ jrEntries'[id] = entry
      /\ \A u \in Ids : u # id => jrEntries'[u] = jrEntries[u]
  BY <1>1, <1>2, <1>4, ZenonT(60) DEF JournalInv, JournalTypeOK
\* A save that goes on is this one, or another that was there.
<1>6. /\ jrSaves' \in Seq(SaveRows) /\ SavesApart'
      /\ \A k \in 1..Len(jrSaves') : \/ jrSaves'[k] = save
                                     \/ \E l \in 1..Len(jrSaves) : l # i /\ jrSaves'[k] = jrSaves[l]
  <2>1. CASE jrSaves' = [jrSaves EXCEPT ![i] = save]
    <3>1. /\ jrSaves' \in Seq(SaveRows) /\ Len(jrSaves') = Len(jrSaves)
          /\ \A k \in 1..Len(jrSaves) : jrSaves'[k] = IF k = i THEN save ELSE jrSaves[k]
      BY <1>1, <1>3, <2>1
    <3>2. \A k \in 1..Len(jrSaves) : jrSaves'[k].id = jrSaves[k].id
      BY <1>3, <3>1 DEF id
    <3>3. SavesApart'
      BY <1>4, <3>1, <3>2 DEF SavesApart, JournalInv
    <3> QED BY <3>1, <3>3
  <2>2. CASE jrSaves' = RemoveAt(jrSaves, i)
    BY <1>4, <2>2, TakingOut DEF FewerSaves
  <2> QED BY <1>4, <2>1, <2>2
<1>7. JournalTypeOK'
  BY <1>4, <1>5, <1>6 DEF JournalInv, JournalTypeOK
<1>8. jrEdits[id] # NoEdit /\ (id \notin jrOverlaps => ~jrEdits[id].saved)
  BY DEF JournalInv, SavesHold, id
<1>9. SavesHold'
  <2> SUFFICES ASSUME NEW k \in 1..Len(jrSaves')
               PROVE  /\ jrEdits[jrSaves'[k].id] # NoEdit
                      /\ jrSaves'[k].id \notin jrOverlaps =>
                           /\ ~jrEdits[jrSaves'[k].id].saved
                           /\ jrSaves'[k].stored =>
                                /\ jrEntries'[jrSaves'[k].id].tag = jrSaves'[k].tag
                                /\ jrEntries'[jrSaves'[k].id].notes = jrSaves'[k].notes
    BY <1>4 DEF SavesHold
  <2>1. CASE jrSaves'[k] = save
    BY <1>2, <1>3, <1>5, <1>8, <2>1
  <2>2. ASSUME NEW l \in 1..Len(jrSaves), l # i, jrSaves'[k] = jrSaves[l]
        PROVE  /\ jrEdits[jrSaves'[k].id] # NoEdit
               /\ jrSaves'[k].id \notin jrOverlaps =>
                    /\ ~jrEdits[jrSaves'[k].id].saved
                    /\ jrSaves'[k].stored =>
                         /\ jrEntries'[jrSaves'[k].id].tag = jrSaves'[k].tag
                         /\ jrEntries'[jrSaves'[k].id].notes = jrSaves'[k].notes
    <3> DEFINE other == jrSaves[l].id
    <3>1. /\ jrEdits[other] # NoEdit
          /\ other \notin jrOverlaps =>
               /\ ~jrEdits[other].saved
               /\ jrSaves[l].stored =>
                    jrEntries[other].tag = jrSaves[l].tag /\ jrEntries[other].notes = jrSaves[l].notes
      BY DEF JournalInv, SavesHold
    <3>2. other \in Ids
      BY SavesTyped DEF JournalInv
    <3>3. other = id => other \in jrOverlaps
      BY <2>2 DEF JournalInv, SavesApart, id
    <3>4. other # id => jrEntries'[other] = jrEntries[other]
      BY <1>5, <3>2
    <3>5. jrSaves'[k].id = other
      BY <2>2
    <3> HIDE DEF other
    <3> QED BY <2>2, <3>1, <3>3, <3>4, <3>5
  <2> QED BY <1>6, <2>1, <2>2
<1>10. SavedShown'
  BY <1>4, <1>5, <1>8 DEF JournalInv, SavedShown
<1> QED BY <1>6, <1>7, <1>9, <1>10 DEF JournalInv

LEMMA AnswerKeeps ==
  ASSUME JournalInv, NEW i \in 1..Len(jrSaves), SaveAnswered(i)
  PROVE  JournalInv'
<1> DEFINE id == jrSaves[i].id
           row == [tag |-> jrSaves[i].tag, notes |-> jrSaves[i].notes, saving |-> FALSE, saved |-> TRUE]
<1>1. jrSaves[i] \in SaveRows /\ id \in Ids
  BY SavesTyped DEF JournalInv
<1>2. row \in EditRows /\ row # NoEdit /\ row.tag = jrSaves[i].tag /\ row.notes = jrSaves[i].notes
  <2>1. jrSaves[i].tag \in Setups /\ jrSaves[i].notes \in Notes
    BY <1>1 DEF SaveRows
  <2>2. row \in EditRows /\ row # NoEdit
    BY <2>1, RowsAreRows
  <2> QED BY <2>2
<1>3. /\ jrSaves[i].stored /\ jrSaves' = RemoveAt(jrSaves, i)
      /\ jrEdits' = [jrEdits EXCEPT ![id] = row] /\ jrTimers' = jrTimers \cup {id}
      /\ UNCHANGED <<jrEntries, jrTrades, jrOverlaps>>
  BY DEF SaveAnswered, SavedAs
<1>4. id \notin jrOverlaps => jrEntries[id].tag = row.tag /\ jrEntries[id].notes = row.notes
  BY <1>2, <1>3 DEF JournalInv, SavesHold
<1> HIDE DEF row
<1>5. jrEdits' \in [Ids -> EditRows \cup {NoEdit}] /\ jrEdits'[id] = row
      /\ \A u \in Ids : u # id => jrEdits'[u] = jrEdits[u]
  <2> HIDE DEF id
  <2> QED BY <1>1, <1>2, <1>3, ZenonT(60) DEF JournalInv, JournalTypeOK
<1>6. /\ jrSaves' \in Seq(SaveRows) /\ SavesApart'
      /\ \A k \in 1..Len(jrSaves') : \E l \in 1..Len(jrSaves) : l # i /\ jrSaves'[k] = jrSaves[l]
  BY <1>3, TakingOut DEF FewerSaves
<1>7. JournalTypeOK'
  <2>1. jrTimers' \subseteq {u \in Ids : jrEdits'[u] # NoEdit}
    BY <1>1, <1>2, <1>3, <1>5 DEF JournalInv, JournalTypeOK
  <2> QED BY <1>3, <1>5, <1>6, <2>1 DEF JournalInv, JournalTypeOK
<1>8. SavesHold'
  <2> SUFFICES ASSUME NEW k \in 1..Len(jrSaves')
               PROVE  /\ jrEdits'[jrSaves'[k].id] # NoEdit
                      /\ jrSaves'[k].id \notin jrOverlaps =>
                           /\ ~jrEdits'[jrSaves'[k].id].saved
                           /\ jrSaves'[k].stored =>
                                /\ jrEntries[jrSaves'[k].id].tag = jrSaves'[k].tag
                                /\ jrEntries[jrSaves'[k].id].notes = jrSaves'[k].notes
    BY <1>3 DEF SavesHold
  <2>1. PICK l \in 1..Len(jrSaves) : l # i /\ jrSaves'[k] = jrSaves[l]
    BY <1>6
  <2> DEFINE other == jrSaves[l].id
  <2>2. /\ jrEdits[other] # NoEdit
        /\ other \notin jrOverlaps =>
             /\ ~jrEdits[other].saved
             /\ jrSaves[l].stored =>
                  jrEntries[other].tag = jrSaves[l].tag /\ jrEntries[other].notes = jrSaves[l].notes
    BY DEF JournalInv, SavesHold
  <2>3. other \in Ids
    BY SavesTyped DEF JournalInv
  <2>4. other = id => other \in jrOverlaps
    BY <2>1 DEF JournalInv, SavesApart
  <2>5. /\ other # id => jrEdits'[other] = jrEdits[other]
        /\ other = id => jrEdits'[other] # NoEdit
    BY <1>2, <1>5, <2>3
  <2>6. jrSaves'[k].id = other
    BY <2>1
  <2> HIDE DEF other, id
  <2> QED BY <2>1, <2>2, <2>4, <2>5, <2>6
<1>9. SavedShown'
  <2> HIDE DEF id
  <2> QED BY <1>2, <1>3, <1>4, <1>5 DEF JournalInv, SavedShown
<1> QED BY <1>6, <1>7, <1>8, <1>9 DEF JournalInv

LEMMA FailKeeps ==
  ASSUME JournalInv, NEW i \in 1..Len(jrSaves), SaveFails(i)
  PROVE  JournalInv'
<1> DEFINE id == jrSaves[i].id
<1>1. id \in Ids /\ jrEdits[id] # NoEdit
  BY SavesTyped DEF JournalInv, SavesHold
<1>2. jrEdits[id] \in EditRows
  BY <1>1 DEF JournalInv, JournalTypeOK
<1>3. jrEdits[id].tag \in Setups /\ jrEdits[id].notes \in Notes
  BY <1>2 DEF EditRows
<1>4. jrEdits' = [jrEdits EXCEPT ![id].saving = FALSE, ![id].saved = FALSE]
  BY DEF SaveFails
<1> HIDE DEF id
<1>5. jrEdits' = [jrEdits EXCEPT ![id] = [tag |-> jrEdits[id].tag, notes |-> jrEdits[id].notes,
                                          saving |-> FALSE, saved |-> FALSE]]
  BY <1>1, <1>4, Quieted, Zenon
<1>6. /\ UNCHANGED <<jrEntries, jrTrades>> /\ jrOverlaps' = jrOverlaps /\ jrTimers' \subseteq jrTimers
      /\ jrSaves' = RemoveAt(jrSaves, i) \/ jrSaves' = [jrSaves EXCEPT ![i].waited = FALSE]
  BY DEF SaveFails
<1>7. FewerSaves
  BY <1>6, TakingOut, LetGo
<1> QED BY <1>1, <1>3, <1>5, <1>6, <1>7, TypingKeeps

LEMMA JournalStep == JournalInv /\ [TradeJournalNext]_jrVars => JournalInv'
<1> SUFFICES ASSUME JournalInv, [TradeJournalNext]_jrVars PROVE JournalInv'
  OBVIOUS
<1>0. EditedTrades \subseteq Ids /\ DOMAIN jrSaves = 1..Len(jrSaves)
  BY RowsAreRows DEF JournalInv, JournalTypeOK
<1>1. CASE UNCHANGED jrVars
  BY <1>1, SameSaves, EndKeeps DEF jrVars
<1>2. CASE FiguresAnswered \/ ChooseMonth
  BY <1>2, SameSaves, EndKeeps DEF FiguresAnswered, ChooseMonth
<1>3. CASE TradesAnswered
  <2>1. jrTrades' \in [Ids -> EntryRows]
    BY <1>3 DEF TradesAnswered, JournalInv, JournalTypeOK
  <2> QED BY <1>3, <2>1, SameSaves, EndKeeps DEF TradesAnswered
<1>4. ASSUME NEW i \in DOMAIN jrSaves, SaveStored(i) PROVE JournalInv'
  BY <1>0, <1>4, StoreKeeps
<1>5. ASSUME NEW i \in DOMAIN jrSaves, SaveAnswered(i) PROVE JournalInv'
  BY <1>0, <1>5, AnswerKeeps
<1>6. ASSUME NEW i \in DOMAIN jrSaves, SaveRefused(i) PROVE JournalInv'
  BY <1>0, <1>6, TakingOut, EndKeeps DEF SaveRefused
<1>7. ASSUME NEW i \in DOMAIN jrSaves, SaveFails(i) PROVE JournalInv'
  BY <1>0, <1>7, FailKeeps
<1>8. ASSUME NEW t \in EditedTrades, ChooseSetup(t) PROVE JournalInv'
  <2>1. PICK s \in Setups : Save(t, s, JournalRow(t).notes)
    BY <1>8 DEF ChooseSetup
  <2> QED BY <1>0, <1>8, <2>1, RowsAreTyped, SaveKeeps DEF ChooseSetup
<1>9. ASSUME NEW t \in EditedTrades, TypeNotes(t) PROVE JournalInv'
  <2>1. PICK n \in Notes : jrEdits' = [jrEdits EXCEPT ![t] = [tag |-> JournalRow(t).tag, notes |-> n,
                                                           saving |-> FALSE, saved |-> FALSE]]
    BY <1>9, Zenon DEF TypeNotes
  <2>2. /\ UNCHANGED <<jrEntries, jrTrades, jrSaves, jrOverlaps>> /\ jrTimers' \subseteq jrTimers
        /\ JournalRow(t).tag \in Setups
    BY <1>0, <1>9, RowsAreTyped DEF TypeNotes
  <2> QED BY <1>0, <2>1, <2>2, SameSaves, TypingKeeps
<1>10. ASSUME NEW t \in EditedTrades, LeaveNotes(t) PROVE JournalInv'
  BY <1>0, <1>10, RowsAreTyped, SaveKeeps DEF LeaveNotes
<1>11. ASSUME NEW t \in EditedTrades, SavedExpires(t) PROVE JournalInv'
  <2>1. t \in Ids /\ jrEdits[t] \in EditRows /\ jrEdits[t] # NoEdit
    BY <1>0, <1>11 DEF SavedExpires, JournalInv, JournalTypeOK
  <2>2. jrEdits[t].tag \in Setups /\ jrEdits[t].notes \in Notes
    BY <2>1 DEF EditRows
  <2>3. jrEdits' = [jrEdits EXCEPT ![t] = [tag |-> jrEdits[t].tag, notes |-> jrEdits[t].notes,
                                           saving |-> FALSE, saved |-> FALSE]]
    BY <1>11, <2>1, Quieted, Zenon DEF SavedExpires
  <2>4. UNCHANGED <<jrEntries, jrTrades, jrSaves, jrOverlaps>> /\ jrTimers' \subseteq jrTimers
    BY <1>11 DEF SavedExpires
  <2> QED BY <2>1, <2>2, <2>3, <2>4, SameSaves, TypingKeeps
<1> QED BY <1>1, <1>2, <1>3, <1>4, <1>5, <1>6, <1>7, <1>8, <1>9, <1>10, <1>11 DEF TradeJournalNext

\* The months of the heatmap add up to the trades.
LEMMA MonthsAddUp == PnlOf(Ids) = SumFunction([m \in Months |-> Heatmap(m).net])
<1> DEFINE pnl == [t \in Ids |-> JournalTrades[t].pnl]
           part == [m \in Months |-> OfMonth(m)]
           sums == [m \in Months |-> Heatmap(m).net]
<1>1. /\ IsFiniteSet(Ids) /\ IsFiniteSet(Months)
      /\ \A t \in Ids : JournalTrades[t].pnl \in Int /\ JournalTrades[t].month \in Months
  BY JournalAssumption DEF Ids
<1>2. \A t \in Ids : pnl[t] \in Int
  BY <1>1
<1>3. \A m \in Months : part[m] \subseteq Ids
  BY DEF OfMonth
<1>4. \A m, n \in Months : m # n => part[m] \cap part[n] = {}
  BY DEF OfMonth
<1>5. \A m \in Months : sums[m] = SumFunctionOnSet(pnl, part[m])
  BY DEF Heatmap, PnlOf
<1>6. UNION {part[m] : m \in Months} = Ids
  <2>1. \A t \in Ids : t \in part[JournalTrades[t].month]
    BY <1>1 DEF OfMonth
  <2> HIDE DEF part
  <2> QED BY <1>1, <1>3, <2>1
<1>7. PnlOf(Ids) = SumFunctionOnSet(pnl, Ids)
  BY DEF PnlOf
<1>8. SumFunction(sums) = SumFunctionOnSet(sums, Months)
  <2>1. DOMAIN sums = Months
    OBVIOUS
  <2> HIDE DEF sums
  <2> QED BY <2>1 DEF SumFunction
<1> HIDE DEF pnl, part, sums
<1>9. SumFunctionOnSet(sums, Months) = SumFunctionOnSet(pnl, UNION {part[m] : m \in Months})
  BY <1>1, <1>2, <1>3, <1>4, <1>5, SumOfParts
<1>10. SumFunction(sums) = PnlOf(Ids)
  BY <1>6, <1>7, <1>8, <1>9, Zenon
<1> QED BY <1>10, Zenon DEF sums

\* The products share the trades out.
LEMMA ProductsAddUp ==
  ASSUME Listed = Ids
  PROVE  SumFunction(Products) = Cardinality(Listed)
<1> DEFINE of(p) == {t \in Ids : JournalTrades[t].product = p}
           D == of("DELIVERY")  I == of("INTRADAY")  F == of("FNO")
           names == {"DELIVERY", "INTRADAY", "FNO"}
           counts == [p \in names |-> Cardinality(of(p))]
<1>1. /\ IsFiniteSet(D) /\ IsFiniteSet(I) /\ IsFiniteSet(F)
      /\ Cardinality(D) \in Nat /\ Cardinality(I) \in Nat /\ Cardinality(F) \in Nat
  <2>1. IsFiniteSet(Ids) /\ D \in SUBSET Ids /\ I \in SUBSET Ids /\ F \in SUBSET Ids
    BY JournalAssumption DEF Ids
  <2> HIDE DEF D, I, F
  <2> QED BY <2>1, FS_Subset, FS_CardinalityType
<1>2. D \cap I = {} /\ (D \cup I) \cap F = {} /\ (D \cup I) \cup F = Ids
  <2>1. \A t \in Ids : JournalTrades[t].product \in names
    BY JournalAssumption DEF Ids
  <2> QED BY <2>1
<1>3. Cardinality(Ids) = Cardinality(D) + Cardinality(I) + Cardinality(F)
  <2> HIDE DEF D, I, F
  <2>0. Cardinality(D \cap I) = 0 /\ Cardinality((D \cup I) \cap F) = 0
    BY <1>2, FS_EmptySet, Zenon
  <2>1. IsFiniteSet(D \cup I) /\ Cardinality(D \cup I) = Cardinality(D) + Cardinality(I) - Cardinality(D \cap I)
    BY <1>1, FS_Union, Zenon
  <2>2. Cardinality((D \cup I) \cup F) =
          Cardinality(D \cup I) + Cardinality(F) - Cardinality((D \cup I) \cap F)
    BY <1>1, <2>1, FS_Union, Zenon
  <2>3. Cardinality((D \cup I) \cup F) = Cardinality(D) + Cardinality(I) - 0 + Cardinality(F) - 0
    BY <2>0, <2>1, <2>2, Zenon
  <2> DEFINE d == Cardinality(D)  i == Cardinality(I)  f == Cardinality(F)
  <2>4. d + i - 0 + f - 0 = d + i + f
    <3>1. d \in Nat /\ i \in Nat /\ f \in Nat
      BY <1>1
    <3> HIDE DEF d, i, f
    <3> QED BY <3>1
  <2> QED BY <1>2, <2>3, <2>4, Zenon
<1>4. /\ counts["DELIVERY"] = Cardinality(D) /\ counts["INTRADAY"] = Cardinality(I)
      /\ counts["FNO"] = Cardinality(F) /\ DOMAIN counts = names
  OBVIOUS
<1>5. Products = counts
  BY DEF Products
<1> HIDE DEF counts, D, I, F, of
<1> DEFINE a == Cardinality(D)  b == Cardinality(I)  c == Cardinality(F)
           Sum(k) == SumFunctionOnSet(counts, k)
<1>6. \A k \in SUBSET names : /\ Sum({}) = 0 /\ Sum(k) \in Int
                              /\ \A x \in k : Sum(k) = counts[x] + Sum(k \ {x})
  <2>1. IsFiniteSet(names) /\ \A x \in names : counts[x] \in Int
    <3>1. IsFiniteSet({"DELIVERY"})
      BY FS_Singleton
    <3>2. IsFiniteSet({"DELIVERY"} \cup {"INTRADAY"})
      BY <3>1, FS_AddElement
    <3>3. IsFiniteSet(({"DELIVERY"} \cup {"INTRADAY"}) \cup {"FNO"})
      BY <3>2, FS_AddElement
    <3>4. ({"DELIVERY"} \cup {"INTRADAY"}) \cup {"FNO"} = names
      OBVIOUS
    <3> QED BY <1>1, <1>4, <3>3, <3>4
  <2> SUFFICES ASSUME NEW k \in SUBSET names
               PROVE  Sum({}) = 0 /\ Sum(k) \in Int /\ \A x \in k : Sum(k) = counts[x] + Sum(k \ {x})
    OBVIOUS
  <2>2. IsFiniteSet(k) /\ \A x \in k : counts[x] \in Int
    BY <2>1, FS_Subset
  <2> HIDE DEF names
  <2> QED BY <2>2, SumStep
<1> HIDE DEF Sum
<1>7. /\ names \ {"DELIVERY"} = {"INTRADAY", "FNO"} /\ {"INTRADAY", "FNO"} \ {"INTRADAY"} = {"FNO"}
      /\ {"FNO"} \ {"FNO"} = {}
  OBVIOUS
<1>8. /\ Sum(names) = counts["DELIVERY"] + Sum({"INTRADAY", "FNO"})
      /\ Sum({"INTRADAY", "FNO"}) = counts["INTRADAY"] + Sum({"FNO"})
      /\ Sum({"FNO"}) = counts["FNO"] + Sum({})
  BY <1>6, <1>7
<1>9. Sum(names) = a + (b + (c + 0))
  BY <1>4, <1>6, <1>8, Zenon
<1>10. a + (b + (c + 0)) = a + b + c
  <2>1. a \in Int /\ b \in Int /\ c \in Int
    BY <1>1
  <2> HIDE DEF a, b, c
  <2> QED BY <2>1
<1>11. SumFunction(Products) = Sum(names)
  BY <1>4, <1>5, Zenon DEF SumFunction, Sum
<1> QED BY <1>3, <1>9, <1>10, <1>11, Zenon

\* A rate is at most a hundred.
LEMMA RatesAreBounded ==
  ASSUME NEW tagged, IsFiniteSet(tagged), NEW won \in SUBSET tagged, won # {}
  PROVE  Rate(won, tagged) \in Int /\ Rate(won, tagged) <= 100
<1> DEFINE w == Cardinality(won)  t == Cardinality(tagged)
<1>1. w \in Nat /\ t \in Nat /\ w <= t /\ w # 0
  BY FS_Subset, FS_CardinalityType, FS_EmptySet
<1>2. Rate(won, tagged) = (200 * w + t) \div (2 * t)
  BY DEF Rate
<1> HIDE DEF w, t
<1> DEFINE n == 200 * w + t  d == 2 * t
<1>3. n \in Nat /\ d \in Nat /\ d > 0 /\ n < 101 * d
  BY <1>1
<1> HIDE DEF n, d
<1>4. n \div d \in Int /\ n \div d <= 100
  BY <1>3
<1> QED BY <1>2, <1>4 DEF n, d

LEMMA JournalIsTruthful == JournalInv => JournalTruthful
<1> SUFFICES ASSUME JournalInv PROVE JournalTruthful
  OBVIOUS
<1>1. ASSUME NEW t \in Listed, JournalRow(t).saved, t \notin jrOverlaps
      PROVE  [tag |-> JournalRow(t).tag, notes |-> JournalRow(t).notes] = jrEntries[t]
  <2>1. t \in Ids
    BY DEF Listed
  <2>2. jrEdits[t] # NoEdit
    BY <1>1 DEF JournalRow
  <2>3. JournalRow(t) = jrEdits[t]
    BY <2>2 DEF JournalRow
  <2>4. jrEdits[t].tag = jrEntries[t].tag /\ jrEdits[t].notes = jrEntries[t].notes
    BY <1>1, <2>1, <2>2, <2>3 DEF JournalInv, SavedShown
  <2>5. jrEntries[t] \in EntryRows
    BY <2>1 DEF JournalInv, JournalTypeOK
  <2>6. [tag |-> jrEntries[t].tag, notes |-> jrEntries[t].notes] = jrEntries[t]
    BY <2>5 DEF EntryRows
  <2> QED BY <2>3, <2>4, <2>6, Zenon
<1>2. ASSUME Listed # {}
      PROVE  /\ EquityNow = SumFunction([m \in Months |-> Heatmap(m).net])
             /\ SumFunction(Products) = Cardinality(Listed)
             /\ \A s \in DOMAIN SetupAccuracy : SetupAccuracy[s] \in 1..100
  <2>1. Listed = Ids
    BY <1>2 DEF Listed
  <2>2. EquityNow = SumFunction([m \in Months |-> Heatmap(m).net])
    BY <2>1, MonthsAddUp, Zenon DEF EquityNow
  <2>3. SumFunction(Products) = Cardinality(Listed)
    BY <2>1, ProductsAddUp
  <2>4. ASSUME NEW s \in DOMAIN SetupAccuracy PROVE SetupAccuracy[s] \in 1..100
    <3> DEFINE tagged == {t \in Listed : jrTrades[t].tag = s}
               won == {t \in tagged : JournalTrades[t].pnl > 0}
    <3>1. won # {} /\ Rate(won, tagged) > 0 /\ SetupAccuracy[s] = Rate(won, tagged)
      BY DEF SetupAccuracy
    <3>2. IsFiniteSet(tagged) /\ won \in SUBSET tagged
      <4>1. IsFiniteSet(Ids) /\ tagged \in SUBSET Ids
        BY <2>1, JournalAssumption DEF Ids
      <4> QED BY <4>1, FS_Subset
    <3> HIDE DEF tagged, won
    <3>3. Rate(won, tagged) \in Int /\ Rate(won, tagged) <= 100
      BY <3>1, <3>2, RatesAreBounded
    <3> QED BY <3>1, <3>3
  <2> QED BY <2>2, <2>3, <2>4
<1> QED BY <1>1, <1>2 DEF JournalTruthful

-----------------------------------------------------------------------------
\* The cards about the account.

Statuses == {"REALTIME", "STALE", "DEGRADED"}
FolioRows == [epoch : Nat, held : 0..1, status : Statuses]
FolioQueries == [data : FolioRows \cup {NoFolio}, coming : FolioRows \cup {NoFolio},
                 failed : BOOLEAN, inVain : BOOLEAN]
ResetRows == [phase : {"idle", "posted", "wallet", "refetching"},
              told : {"nothing", "failed", "restored"}, epoch : Nat]

\* What is on its way, and what is shown, is no older than the reset, unless the reset
\* fell on a first fetch or the page says that a poll failed.
ComingFollows ==
  acFolio.coming # NoFolio =>
    \/ acFolio.coming.epoch >= acReset.epoch
    \/ acFolio.inVain /\ acFolio.data = NoFolio
DataFollows ==
  \/ acFolio.failed \/ acFolio.inVain \/ acFolio.data = NoFolio
  \/ acFolio.data.epoch >= acReset.epoch

\* So it is of what is on its way from the refetch of a reset on, and of what is shown
\* once the toast is out.
CardsInv ==
  /\ acAccount \in [epoch : Nat, held : 0..1]
  /\ acFolio \in FolioQueries /\ acReset \in ResetRows
  /\ acReset.epoch <= acAccount.epoch
  /\ acReset.phase # "idle" => acReset.told = "nothing"
  /\ acReset.phase = "refetching" \/ acReset.told = "restored" => ComingFollows
  /\ acReset.told = "restored" => DataFollows

LEMMA CardsStart == AccountCardsInit => CardsInv
  BY DEF AccountCardsInit, CardsInv, FolioQueries, ResetRows

LEMMA FolioIsRow ==
  ASSUME NEW account \in [epoch : Nat, held : 0..1], NEW f \in FolioNow(account)
  PROVE  f \in FolioRows /\ f.epoch = account.epoch
  BY DEF FolioNow, FolioRows, Statuses

\* A fetch that starts now brings what is shown now, or an answer of this epoch.
LEMMA FetchFollows ==
  ASSUME CardsInv, NEW f \in FolioNow(acAccount), acFolio' = FolioFetch(f),
         acReset'.epoch = acReset.epoch
  PROVE  acFolio' \in FolioQueries /\ ComingFollows' /\ (DataFollows => DataFollows')
<1>1. /\ acAccount \in [epoch : Nat, held : 0..1] /\ acFolio \in FolioQueries
      /\ acReset \in ResetRows /\ acReset.epoch <= acAccount.epoch
  BY DEF CardsInv
<1>2. f \in FolioRows /\ f.epoch = acAccount.epoch
  BY <1>1, FolioIsRow
<1>3. /\ acFolio' \in FolioQueries /\ acFolio'.coming = f /\ acFolio'.inVain = acFolio.inVain
      /\ acFolio'.data = acFolio.data
      /\ acFolio'.failed = (acFolio.failed /\ acFolio.data # NoFolio)
  BY <1>1, <1>2 DEF FolioQueries, FolioFetch
<1>4. ComingFollows'
  BY <1>1, <1>2, <1>3 DEF ComingFollows
<1> QED BY <1>3, <1>4 DEF DataFollows

LEMMA CardsStep == CardsInv /\ [AccountCardsNext]_acVars => CardsInv'
<1> SUFFICES ASSUME CardsInv, [AccountCardsNext]_acVars PROVE CardsInv'
  OBVIOUS
<1>0. /\ acAccount \in [epoch : Nat, held : 0..1] /\ acFolio \in FolioQueries /\ acReset \in ResetRows
      /\ acReset.epoch <= acAccount.epoch
  BY DEF CardsInv
<1>1. CASE UNCHANGED acVars
  BY <1>1 DEF CardsInv, acVars, ComingFollows, DataFollows
<1>2. CASE AccountFilled
  <2>1. acAccount' \in [epoch : Nat, held : 0..1] /\ acAccount'.epoch = acAccount.epoch
    BY <1>0, <1>2 DEF AccountFilled
  <2> QED BY <1>2, <2>1 DEF CardsInv, AccountFilled, ComingFollows, DataFollows
<1>3. CASE FolioAsked
  <2>1. PICK f \in FolioNow(acAccount) : acFolio' = FolioFetch(f)
    BY <1>3 DEF FolioAsked
  <2>2. acAccount' = acAccount /\ acReset' = acReset
    BY <1>3 DEF FolioAsked
  <2>3. acFolio' \in FolioQueries /\ ComingFollows' /\ (DataFollows => DataFollows')
    BY <2>1, <2>2, FetchFollows
  <2> QED BY <1>0, <2>2, <2>3 DEF CardsInv
<1>4. CASE FolioAnswered
  <2>1. acFolio.coming \in FolioRows /\ acAccount' = acAccount /\ acFolio.coming # NoFolio
    BY <1>0, <1>4 DEF FolioAnswered, FolioQueries
  <2>2. /\ acFolio' \in FolioQueries /\ acFolio'.coming = NoFolio
        /\ \/ acFolio'.failed
           \/ /\ acFolio'.data = acFolio.coming
              /\ acFolio'.inVain = (acFolio.inVain /\ acFolio.data = NoFolio)
    <3>1. CASE acFolio' = [data |-> acFolio.coming, coming |-> NoFolio, failed |-> FALSE,
                           inVain |-> acFolio.inVain /\ acFolio.data = NoFolio]
      BY <1>0, <2>1, <3>1 DEF FolioQueries
    <3>2. CASE acFolio' = [acFolio EXCEPT !.coming = NoFolio, !.failed = TRUE, !.inVain = FALSE]
      BY <1>0, <3>2 DEF FolioQueries
    <3> QED BY <1>4, <3>1, <3>2 DEF FolioAnswered
  <2>3. ComingFollows'
    BY <2>2 DEF ComingFollows
  <2>4. acReset' \in ResetRows /\ acReset'.epoch = acReset.epoch
    BY <1>0, <1>4 DEF FolioAnswered, ResetRows
  <2>5. ASSUME ComingFollows PROVE DataFollows'
    BY <2>1, <2>2, <2>4, <2>5 DEF ComingFollows, DataFollows
  <2>6. CASE acReset.phase = "refetching"
    <3>1. acReset'.phase = "idle" /\ acReset'.told = "restored"
      BY <1>0, <1>4, <2>6 DEF FolioAnswered, ResetRows
    <3> QED BY <1>0, <2>1, <2>2, <2>3, <2>4, <2>5, <2>6, <3>1 DEF CardsInv
  <2>7. CASE acReset.phase # "refetching"
    <3>1. acReset' = acReset
      BY <1>4, <2>7 DEF FolioAnswered
    <3> QED BY <1>0, <2>1, <2>2, <2>3, <2>5, <2>7, <3>1 DEF CardsInv
  <2> QED BY <2>6, <2>7
<1>5. CASE ResetPressed
  <2>1. /\ acReset' \in ResetRows /\ acReset'.phase = "posted" /\ acReset'.told = "nothing"
        /\ acReset'.epoch = acAccount.epoch
    BY <1>0, <1>5 DEF ResetPressed, ResetRows
  <2>2. acAccount' = acAccount /\ acFolio' = acFolio
    BY <1>5 DEF ResetPressed
  <2> QED BY <1>0, <2>1, <2>2 DEF CardsInv
<1>6. CASE ResetAnswered
  <2> DEFINE fresh == [epoch |-> acAccount.epoch + 1, held |-> 0]
  <2>1. /\ fresh \in [epoch : Nat, held : 0..1] /\ fresh.epoch = acAccount.epoch + 1
        /\ acAccount.epoch \in Nat /\ acReset.epoch \in Nat
    BY <1>0 DEF ResetRows
  <2>2. acReset.phase = "posted" /\ acReset.told = "nothing" /\ acFolio' = acFolio
    BY <1>6 DEF ResetAnswered, CardsInv
  <2>3. \/ /\ acAccount' = fresh
           /\ acReset' = [acReset EXCEPT !.phase = "wallet", !.epoch = fresh.epoch]
        \/ /\ acAccount' \in {acAccount, fresh}
           /\ acReset' = [acReset EXCEPT !.phase = "idle", !.told = "failed"]
    BY <1>6, Zenon DEF ResetAnswered
  <2> HIDE DEF fresh
  <2>4. ASSUME acAccount' = fresh,
               acReset' = [acReset EXCEPT !.phase = "wallet", !.epoch = fresh.epoch]
        PROVE  CardsInv'
    <3>1. /\ acReset' \in ResetRows /\ acReset'.phase = "wallet" /\ acReset'.told = "nothing"
          /\ acReset'.epoch = fresh.epoch
      BY <1>0, <2>1, <2>2, <2>4 DEF ResetRows
    <3> QED BY <1>0, <2>1, <2>2, <2>4, <3>1 DEF CardsInv
  <2>5. ASSUME acAccount' \in {acAccount, fresh},
               acReset' = [acReset EXCEPT !.phase = "idle", !.told = "failed"]
        PROVE  CardsInv'
    <3>1. /\ acReset' \in ResetRows /\ acReset'.phase = "idle" /\ acReset'.told = "failed"
          /\ acReset'.epoch = acReset.epoch
      BY <1>0, <2>5 DEF ResetRows
    <3>2. acAccount' \in [epoch : Nat, held : 0..1] /\ acReset.epoch <= acAccount'.epoch
      <4>1. CASE acAccount' = acAccount
        BY <1>0, <4>1, Zenon
      <4>2. CASE acAccount' = fresh
        BY <1>0, <2>1, <4>2
      <4> QED BY <2>5, <4>1, <4>2
    <3> QED BY <1>0, <2>2, <2>5, <3>1, <3>2 DEF CardsInv
  <2> QED BY <2>3, <2>4, <2>5
<1>7. CASE WalletRefetched
  <2>1. acReset.phase = "wallet" /\ acReset.told = "nothing" /\ acAccount' = acAccount
    BY <1>7 DEF WalletRefetched, CardsInv
  <2>2. /\ acReset' \in ResetRows /\ acReset'.phase = "refetching" /\ acReset'.told = "nothing"
        /\ acReset'.epoch = acReset.epoch
    BY <1>0, <1>7, <2>1 DEF WalletRefetched, ResetRows
  <2>3. PICK f \in FolioNow(acAccount) : acFolio' = Refetch(f)
    BY <1>7 DEF WalletRefetched
  <2>4. acFolio' \in FolioQueries /\ ComingFollows'
    <3>1. CASE acFolio.data = NoFolio /\ acFolio.coming # NoFolio
      <4>1. /\ acFolio.coming.epoch \in Nat /\ acReset.epoch \in Nat
            /\ acFolio' = [acFolio EXCEPT !.inVain = acFolio.coming.epoch < acReset.epoch]
        BY <1>0, <2>3, <3>1 DEF Refetch, FolioQueries, FolioRows, ResetRows
      <4>2. CASE acFolio.coming.epoch < acReset.epoch
        <5>1. acFolio' = [acFolio EXCEPT !.inVain = TRUE]
          BY <4>1, <4>2
        <5>2. /\ acFolio' \in FolioQueries /\ acFolio'.data = NoFolio /\ acFolio'.inVain
          BY <1>0, <3>1, <5>1 DEF FolioQueries
        <5> QED BY <5>2 DEF ComingFollows
      <4>3. CASE ~(acFolio.coming.epoch < acReset.epoch)
        <5>1. acFolio' = [acFolio EXCEPT !.inVain = FALSE]
          <6>1. (acFolio.coming.epoch < acReset.epoch) = FALSE
            BY <4>3
          <6> QED BY <4>1, <6>1, Zenon
        <5>2. /\ acFolio' \in FolioQueries /\ acFolio'.coming = acFolio.coming
          BY <1>0, <5>1 DEF FolioQueries
        <5> QED BY <2>2, <4>1, <4>3, <5>2 DEF ComingFollows
      <4> QED BY <4>2, <4>3
    <3>2. CASE ~(acFolio.data = NoFolio /\ acFolio.coming # NoFolio)
      <4>1. acFolio' = FolioFetch(f)
        BY <2>3, <3>2 DEF Refetch
      <4> QED BY <2>2, <4>1, FetchFollows
    <3> QED BY <3>1, <3>2
  <2> QED BY <1>0, <2>1, <2>2, <2>4 DEF CardsInv
<1> QED BY <1>1, <1>2, <1>3, <1>4, <1>5, <1>6, <1>7 DEF AccountCardsNext

LEMMA CardsAreTrue == CardsInv => AccountCardsTrue
<1> SUFFICES ASSUME CardsInv PROVE AccountCardsTrue
  OBVIOUS
<1>1. InvestmentsCard.alert = acFolio.failed /\ PositionsCard.alert = acFolio.failed
  BY DEF InvestmentsCard, PositionsCard
<1>2. InvestmentsCard.pnl = (ShownStatus # "DEGRADED") /\ InvestmentsCard.note = (ShownStatus # "REALTIME")
  BY DEF InvestmentsCard
<1>3. acFolio.failed \in BOOLEAN /\ (acFolio.data # NoFolio => acFolio.data.status \in Statuses)
  BY DEF CardsInv, FolioQueries, FolioRows
<1>4. acReset.told = "restored" => DataFollows
  BY DEF CardsInv
<1> QED BY <1>1, <1>2, <1>3, <1>4 DEF AccountCardsTrue, ShownStatus, Statuses, DataFollows

-----------------------------------------------------------------------------
\* The review of an order.

AllBooks == {"DELIVERY", "INTRADAY", "FUTURE", "OPTION"}
Forms == [book : AllBooks, side : {"BUY", "SELL"}, type : {"MARKET", "LIMIT"}, lots : Nat, limit : Nat]
Quotes == [price : Nat, stale : BOOLEAN]
Bodies == [book : AllBooks, side : {"BUY", "SELL"}, type : {"MARKET", "LIMIT"}, qty : Nat, price : Nat]
Balances == [free : Int, book : AllBooks, qty : Int, avg : Nat, margin : Nat]
Estimates == [account : Balances, price : Nat]
Replies == [body : Bodies, data : Estimates \cup {NoReply}, fetching : BOOLEAN, failed : BOOLEAN]

\* The estimate on a ticket is of the order on it, and of one that the service does
\* not refuse; an F&O ticket without one has asked for it, or been told of a failure.
Estimated(form, quote, reply, posted) ==
  /\ reply \in Replies /\ reply.body = BodyOf(form, quote)
  /\ reply.data # NoReply => Estimable(reply.body, reply.data.account)
  /\ form.book \in FnoBooks /\ form.lots > 0 /\ ~posted /\ reply.data = NoReply /\ ~reply.failed =>
       reply.fetching

ReviewInv ==
  /\ rvForm \in Forms /\ rvQuote \in Quotes /\ rvAccount \in Accounts /\ rvPosted \in BOOLEAN
  /\ Estimated(rvForm, rvQuote, rvReply, rvPosted)

\* What the rules return are amounts.
LEMMA AmountsOfMargin ==
  ASSUME NEW book, NEW side, NEW n \in Nat
  PROVE  Rules!Margin(book, side, n) \in Int
<1> USE ReviewAssumption
<1>1. n \div MISLeverage \in Int
  OBVIOUS
<1>2. (n * FuturesMarginPercent) \div 100 \in Int
  <2>1. n * FuturesMarginPercent \in Int
    OBVIOUS
  <2> QED BY <2>1
<1>3. (n * OptionSellMarginPercent) \div 100 \in Int
  <2>1. n * OptionSellMarginPercent \in Int
    OBVIOUS
  <2> QED BY <2>1
<1> QED BY <1>1, <1>2, <1>3 DEF Rules!Margin

LEMMA AmountsOfSlippage ==
  ASSUME NEW qty \in Nat, NEW ltp \in Nat, NEW side
  PROVE  Rules!Slippage(qty, ltp, side) \in Nat
<1> DEFINE bps == Rules!Smaller(2 + qty \div 250, 6)
           raw == (ltp * bps) \div 10000
           slip == IF raw < 5 THEN 5 ELSE raw
<1>1. bps \in Nat
  BY DEF Rules!Smaller
<1>2. raw \in Nat
  <2> HIDE DEF bps
  <2>1. ltp * bps \in Nat
    BY <1>1
  <2> QED BY <2>1
<1>3. slip \in Nat
  <2> HIDE DEF raw
  <2> QED BY <1>2
<1>4. Rules!Slippage(qty, ltp, side) =
        IF qty <= 50 \/ ltp <= 0 THEN ltp
        ELSE IF side = "BUY" THEN ltp + slip
        ELSE IF ltp - slip <= 0 THEN 5 ELSE ltp - slip
  BY DEF Rules!Slippage
<1> HIDE DEF bps, raw, slip
<1> QED BY <1>3, <1>4

LEMMA AmountsOfAverage ==
  ASSUME NEW old \in Int, NEW avg \in Nat, NEW qty \in Nat, NEW price \in Nat, NEW side \in {"BUY", "SELL"}
  PROVE  /\ Rules!TransitionQty(old, qty, side) \in Int
         /\ Rules!TransitionAverage(old, avg, qty, price, side) \in Nat
<1> DEFINE new == Rules!TransitionQty(old, qty, side)
           delta == Rules!Delta(side, qty)
<1>1. delta \in Int /\ new = old + delta /\ delta \in {qty, -qty}
  BY DEF Rules!TransitionQty, Rules!Delta
<1>2. new \in Int
  BY <1>1
<1>3. Rules!Opposes(old, delta) <=> (old > 0 /\ delta < 0) \/ (old < 0 /\ delta > 0)
  BY DEF Rules!Opposes
<1>4. Rules!TransitionAverage(old, avg, qty, price, side) =
        IF Rules!Opposes(old, delta)
        THEN IF new = 0 THEN 0 ELSE IF (old > 0) = (new > 0) THEN avg ELSE price
        ELSE IF old = 0 THEN price
        ELSE (Rules!Magnitude(old) * avg + qty * price) \div Rules!Magnitude(new)
  BY Zenon DEF Rules!TransitionAverage
<1> HIDE DEF new, delta
<1>5. ASSUME ~Rules!Opposes(old, delta), old # 0
      PROVE  (Rules!Magnitude(old) * avg + qty * price) \div Rules!Magnitude(new) \in Nat
  <2> DEFINE m == Rules!Magnitude(old)  d == Rules!Magnitude(new)
  <2>1. m \in Nat /\ d \in Nat /\ d > 0
    BY <1>1, <1>3, <1>5 DEF Rules!Magnitude
  <2> HIDE DEF m, d
  <2>2. m * avg \in Nat /\ qty * price \in Nat
    BY <2>1
  <2>3. m * avg + qty * price \in Nat
    BY <2>2
  <2> DEFINE n == m * avg + qty * price
  <2> HIDE DEF n
  <2>4. n \div d \in Nat
    BY <2>1, <2>3 DEF n
  <2> QED BY <2>4 DEF n, m, d
<1> QED BY <1>2, <1>4, <1>5 DEF new

LEMMA AmountsOfPosition ==
  ASSUME NEW book, NEW qty \in Int, NEW avg \in Nat
  PROVE  Rules!MarginForPosition(book, qty, avg) \in Int
<1>1. Rules!Magnitude(qty) \in Nat
  BY DEF Rules!Magnitude
<1>2. Rules!Magnitude(qty) * avg \in Nat
  BY <1>1
<1> QED BY <1>2, AmountsOfMargin DEF Rules!MarginForPosition

LEMMA AmountsOfRealized ==
  ASSUME NEW old \in Int, NEW avg \in Nat, NEW qty \in Nat, NEW price \in Nat, NEW side
  PROVE  Rules!TransitionRealized(old, avg, qty, price, side) \in Int
<1> DEFINE closed == Rules!Smaller(qty, Rules!Magnitude(old))
<1>1. closed \in Int
  BY DEF Rules!Smaller, Rules!Magnitude
<1> HIDE DEF closed
<1>2. closed * price \in Int /\ closed * avg \in Int
  BY <1>1
<1>3. closed * price - closed * avg \in Int /\ closed * avg - closed * price \in Int
  BY <1>2
<1> QED BY <1>3 DEF Rules!TransitionRealized, closed

LEMMA AmountsOfFill ==
  ASSUME NEW b \in Bodies, NEW p \in Balances, NEW price \in Nat
  PROVE  /\ MarginDelta(b, p, price) \in Int /\ CashFlow(b, p, price) \in Int /\ b.qty * price \in Int
<1>1. /\ b.qty \in Nat /\ b.side \in {"BUY", "SELL"} /\ p.qty \in Int /\ p.avg \in Nat /\ p.margin \in Nat
  BY DEF Bodies, Balances
<1> DEFINE new == Rules!TransitionQty(p.qty, b.qty, b.side)
           avg == Rules!TransitionAverage(p.qty, p.avg, b.qty, price, b.side)
           margin == Rules!MarginForPosition(b.book, new, avg)
<1>2. new \in Int /\ avg \in Nat
  BY <1>1, AmountsOfAverage
<1>3. margin \in Int
  <2> HIDE DEF new, avg
  <2> QED BY <1>2, AmountsOfPosition
<1>4. MarginDelta(b, p, price) = margin - p.margin
  BY Zenon DEF MarginDelta
<1>5. b.qty * price \in Int
  BY <1>1
<1>6. Rules!TransitionRealized(p.qty, p.avg, b.qty, price, b.side) \in Int
  BY <1>1, AmountsOfRealized
<1> HIDE DEF margin
<1>7. MarginDelta(b, p, price) \in Int
  BY <1>1, <1>3, <1>4
<1>8. CashFlow(b, p, price) \in Int
  BY <1>5, <1>6 DEF CashFlow
<1> QED BY <1>5, <1>7, <1>8

LEMMA LargestOfFour ==
  ASSUME NEW a \in Int, NEW b \in Int, NEW c \in Int, NEW d \in Int
  PROVE  /\ Max({a, b, c, d}) \in {a, b, c, d}
         /\ a <= Max({a, b, c, d}) /\ b <= Max({a, b, c, d}) /\ c <= Max({a, b, c, d}) /\ d <= Max({a, b, c, d})
<1> DEFINE S == {a, b, c, d}
<1>1. \E x \in S : \A y \in S : x >= y
  <2>1. \E x \in {a, b} : x >= a /\ x >= b
    OBVIOUS
  <2>2. \E x \in {c, d} : x >= c /\ x >= d
    OBVIOUS
  <2> QED BY <2>1, <2>2
<1>2. Max(S) = CHOOSE x \in S : \A y \in S : x >= y
  BY Zenon DEF Max
<1>3. Max(S) \in S /\ \A y \in S : Max(S) >= y
  BY <1>1, <1>2
<1> QED BY <1>3

\* A position of another book is none.
LEMMA HeldIsBalance ==
  ASSUME NEW b \in Bodies, NEW account \in Balances
  PROVE  HeldIn(b, account) \in Balances /\ HeldIn(b, account).free = account.free
<1> DEFINE first == [account EXCEPT !.qty = 0]
           second == [first EXCEPT !.avg = 0]
           third == [second EXCEPT !.margin = 0]
<1>1. first \in Balances /\ first.free = account.free
  BY DEF Balances
<1>2. second \in Balances /\ second.free = account.free
  <2> HIDE DEF first
  <2> QED BY <1>1 DEF Balances
<1>3. third \in Balances /\ third.free = account.free
  <2> HIDE DEF second
  <2> QED BY <1>2 DEF Balances
<1>4. [account EXCEPT !.qty = 0, !.avg = 0, !.margin = 0] = third
  BY Zenon
<1> HIDE DEF third
<1> QED BY <1>3, <1>4 DEF HeldIn

\* Whoever has the required funds is not refused.
LEMMA SufficientIsPlaced ==
  ASSUME NEW b \in Bodies, NEW account \in Balances, NEW quoted \in Nat, Estimable(b, account),
         RequiredFunds(b, account, quoted) <= account.free
  PROVE  Placed(b, account, quoted)
<1> DEFINE price == EstimatedPrice(b, quoted)
           p == HeldIn(b, account)
           order == [book |-> b.book, side |-> b.side, type |-> b.type, qty |-> b.qty, price |-> b.price]
           total == b.qty * price
           delta == MarginDelta(b, p, price)
           cash == CashFlow(b, p, price)
           paid == IF b.book = "OPTION" /\ b.side = "BUY" THEN total ELSE 0
<1>1. b.qty \in Nat /\ b.price \in Nat /\ b.type \in {"MARKET", "LIMIT"} /\ b.side \in {"BUY", "SELL"}
      /\ b.book \in AllBooks
  BY DEF Bodies
<1>2. price \in Nat
  BY <1>1, AmountsOfSlippage DEF EstimatedPrice
<1>3. p \in Balances /\ account.free \in Int
  BY HeldIsBalance DEF Balances
<1>4. delta \in Int /\ cash \in Int /\ total \in Int
  <2> HIDE DEF price, p
  <2> QED BY <1>2, <1>3, AmountsOfFill
<1>5. RequiredFunds(b, account, quoted) =
        IF b.book = "DELIVERY" THEN IF b.side = "BUY" THEN total ELSE 0
        ELSE IF b.type = "LIMIT" THEN Rules!Margin(b.book, b.side, total)
        ELSE Max({0, delta, delta - cash, paid})
  BY Zenon DEF RequiredFunds
<1>6. Placed(b, account, quoted) <=>
        IF b.book = "DELIVERY" /\ b.side = "SELL" THEN b.qty <= p.qty
        ELSE IF b.type = "LIMIT" THEN Rules!Reservation(order) <= account.free
        ELSE IF b.book = "DELIVERY" THEN total <= account.free
        ELSE /\ delta <= account.free
             /\ b.book = "OPTION" /\ b.side = "BUY" => total <= account.free
             /\ delta - cash <= account.free
  BY Zenon DEF Placed
<1>7. CASE b.book = "DELIVERY" /\ b.side = "SELL"
  BY <1>6, <1>7 DEF Estimable
<1>8. CASE ~(b.book = "DELIVERY" /\ b.side = "SELL") /\ b.type = "LIMIT"
  <2>1. b.price > 0 /\ price = b.price
    BY <1>8 DEF Estimable, EstimatedPrice
  <2>2. /\ order.type = "LIMIT" /\ order.book = b.book /\ order.side = b.side /\ order.qty = b.qty
        /\ order.price = b.price
    BY <1>8
  <2>3. Rules!BasePathPrice(Rules!BasePrice(order)) = b.price
    <3> HIDE DEF order
    <3> QED BY <1>1, <2>1, <2>2 DEF Rules!BasePathPrice, Rules!BasePrice
  <2>4. order.qty * Rules!BasePathPrice(Rules!BasePrice(order)) = total
    BY <2>1, <2>2, <2>3, Zenon
  <2> HIDE DEF order, total
  <2>5. Rules!Reservation(order) = IF b.book = "DELIVERY" THEN total ELSE Rules!Margin(b.book, b.side, total)
    BY <1>8, <2>2, <2>4 DEF Rules!Reservation
  <2>6. Rules!Reservation(order) = RequiredFunds(b, account, quoted)
    BY <1>1, <1>5, <1>8, <2>5
  <2> QED BY <1>6, <1>8, <2>6
<1>9. CASE b.book = "DELIVERY" /\ b.side = "BUY" /\ b.type = "MARKET"
  BY <1>5, <1>6, <1>9
<1>10. CASE b.book # "DELIVERY" /\ b.type = "MARKET"
  <2> HIDE DEF delta, cash, total
  <2>1. 0 \in Int /\ delta \in Int /\ delta - cash \in Int /\ paid \in Int
    BY <1>4
  <2> DEFINE net == delta - cash
             most == Max({0, delta, net, paid})
  <2>2. most = RequiredFunds(b, account, quoted)
    BY <1>5, <1>10
  <2>3. most \in Int /\ delta <= most /\ delta - cash <= most /\ paid <= most
    <3>1. 0 \in Int /\ delta \in Int /\ net \in Int /\ paid \in Int
      BY <2>1
    <3> HIDE DEF paid, net
    <3>2. /\ most \in {0, delta, net, paid} /\ delta <= most /\ net <= most /\ paid <= most
      BY <3>1, LargestOfFour, Zenon
    <3> HIDE DEF most
    <3> QED BY <3>1, <3>2 DEF net
  <2>4. most <= account.free
    BY <2>2
  <2> HIDE DEF most
  <2>5. delta <= account.free /\ delta - cash <= account.free /\ paid <= account.free
    <3> HIDE DEF paid
    <3> QED BY <1>3, <2>1, <2>3, <2>4
  <2> QED BY <1>6, <1>10, <2>5
<1> QED BY <1>1, <1>7, <1>8, <1>9, <1>10
LEMMA FormsHaveBodies ==
  ASSUME NEW form \in Forms, NEW quote \in Quotes
  PROVE  /\ BodyOf(form, quote) \in Bodies /\ BodyOf(form, quote).qty = form.lots
         /\ BodyOf(form, quote).book = form.book /\ BodyOf(form, quote).type = form.type
         /\ BodyOf(form, quote).side = form.side
<1> DEFINE price == IF form.type = "MARKET" THEN 0
                    ELSE IF form.book \in FnoBooks /\ form.limit = 0 THEN quote.price ELSE form.limit
           body == [book |-> form.book, side |-> form.side, type |-> form.type, qty |-> form.lots,
                    price |-> price]
<1>1. price \in Nat
  BY DEF Forms, Quotes
<1>2. BodyOf(form, quote) = body
  BY Zenon DEF BodyOf
<1> HIDE DEF price
<1>3. /\ body \in Bodies /\ body.qty = form.lots /\ body.book = form.book /\ body.type = form.type
      /\ body.side = form.side
  BY <1>1 DEF Forms, Bodies
<1> QED BY <1>2, <1>3, Zenon

LEMMA NewFormsAreForms ==
  ASSUME NEW book \in AllBooks, NEW type \in {"MARKET", "LIMIT"}
  PROVE  NewForm(book, type) \in Forms /\ NewForm(book, type).book = book
BY DEF NewForm, Forms

LEMMA EstimatesAreTyped ==
  ASSUME NEW account \in Accounts, NEW p \in ReviewPrices
  PROVE  /\ [account |-> account, price |-> p] \in Estimates /\ [account |-> account, price |-> p] # NoReply
         /\ [account |-> account, price |-> p].account = account
<1>1. account \in Balances /\ p \in Nat
  BY ReviewAssumption DEF Balances, AllBooks
<1>2. [account |-> account, price |-> p] \in [account : Accounts, price : ReviewPrices]
  OBVIOUS
<1>3. [account |-> account, price |-> p] # NoReply
  BY <1>2, ReviewAssumption, Zenon
<1> QED BY <1>1, <1>3 DEF Estimates

\* Another query is of the order on the ticket.
LEMMA NewReplyIsOfOrder ==
  ASSUME NEW form \in Forms, NEW quote \in Quotes, NEW posted \in BOOLEAN, rvAccount \in Accounts,
         NEW r \in NewReply(form, quote, posted)
  PROVE  Estimated(form, quote, r, posted)
<1> DEFINE body == BodyOf(form, quote)
           asks == Asks(form, quote, posted)
           earlier == IF form.lots > 0 /\ Estimable(body, rvAccount)
                      THEN {[account |-> rvAccount, price |-> p] : p \in ReviewPrices} ELSE {}
           empty == [body |-> body, data |-> NoReply, fetching |-> asks, failed |-> FALSE]
           full(d, f) == [body |-> body, data |-> d, fetching |-> f /\ asks, failed |-> FALSE]
<1>1. body \in Bodies
  BY FormsHaveBodies
<1>2. asks \in BOOLEAN /\ (form.book \in FnoBooks /\ form.lots > 0 /\ ~posted => asks)
  BY DEF Asks
<1>3. ASSUME NEW d \in earlier PROVE d \in Estimates /\ d # NoReply /\ Estimable(body, d.account)
  <2>1. PICK p \in ReviewPrices : d = [account |-> rvAccount, price |-> p]
    OBVIOUS
  <2>2. Estimable(body, rvAccount)
    OBVIOUS
  <2>3. d \in Estimates /\ d # NoReply /\ d.account = rvAccount
    BY <2>1, EstimatesAreTyped
  <2> QED BY <2>2, <2>3, Zenon
<1>4. NewReply(form, quote, posted) = {empty} \cup {full(d, f) : d \in earlier, f \in BOOLEAN}
  BY DEF NewReply
<1>5. r = empty \/ \E d \in earlier, f \in BOOLEAN : r = full(d, f)
  <2> HIDE DEF empty, full, earlier
  <2> QED BY <1>4
<1> HIDE DEF body, asks, earlier
<1>6. CASE r = empty
  <2>1. r \in Replies /\ r.body = body /\ r.data = NoReply /\ r.fetching = asks
    BY <1>1, <1>2, <1>6 DEF Replies
  <2> QED BY <1>2, <2>1 DEF Estimated, body
<1>7. ASSUME NEW d \in earlier, NEW f \in BOOLEAN, r = full(d, f) PROVE Estimated(form, quote, r, posted)
  <2>1. d \in Estimates /\ d # NoReply /\ Estimable(body, d.account)
    BY <1>3
  <2> DEFINE on == f /\ asks
  <2>2. on \in BOOLEAN
    OBVIOUS
  <2>3. r = [body |-> body, data |-> d, fetching |-> on, failed |-> FALSE]
    BY <1>7
  <2> HIDE DEF on
  <2>4. r \in Replies /\ r.body = body /\ r.data = d
    BY <1>1, <2>1, <2>2, <2>3 DEF Replies
  <2>5. Estimable(r.body, r.data.account)
    BY <2>1, <2>4, Zenon
  <2> QED BY <2>1, <2>4, <2>5 DEF Estimated, body
<1> QED BY <1>5, <1>6, <1>7

LEMMA ReviewStart == ReviewInit => ReviewInv
<1> SUFFICES ASSUME ReviewInit PROVE ReviewInv
  OBVIOUS
<1>1. PICK book \in AllBooks : rvForm = NewForm(book, "MARKET")
  BY DEF ReviewInit, AllBooks, StockBooks, FnoBooks
<1>2. rvForm \in Forms /\ rvForm.book = book
  BY <1>1, NewFormsAreForms
<1>3. rvQuote \in Quotes /\ rvAccount \in Accounts /\ rvPosted = FALSE
  BY DEF ReviewInit, NoQuoteYet, Quotes
<1> DEFINE body == BodyOf(rvForm, rvQuote)
           asked == rvForm.book \in FnoBooks
<1>4. body \in Bodies
  BY <1>2, <1>3, FormsHaveBodies
<1>5. rvReply = [body |-> body, data |-> NoReply, fetching |-> asked, failed |-> FALSE]
  BY DEF ReviewInit, OrderBody, InFno
<1>6. asked \in BOOLEAN
  OBVIOUS
<1> HIDE DEF body, asked
<1>7. rvReply \in Replies /\ rvReply.body = body /\ rvReply.data = NoReply /\ rvReply.fetching = asked
  BY <1>4, <1>5, <1>6 DEF Replies
<1> QED BY <1>2, <1>3, <1>7 DEF ReviewInv, Estimated, body, asked

\* A query that stays is of the order still.
LEMMA KeptReplyIsOfOrder ==
  ASSUME NEW form \in Forms, NEW quote \in Quotes, NEW form2 \in Forms, NEW quote2 \in Quotes,
         NEW reply, NEW posted \in BOOLEAN,
         Estimated(form, quote, reply, posted), BodyOf(form2, quote2) = reply.body
  PROVE  Estimated(form2, quote2, reply, posted)
<1>1. reply.body.book = form.book /\ reply.body.qty = form.lots
  BY FormsHaveBodies DEF Estimated
<1>2. reply.body.book = form2.book /\ reply.body.qty = form2.lots
  BY FormsHaveBodies, Zenon
<1> QED BY <1>1, <1>2 DEF Estimated

LEMMA RequeryIsOfOrder ==
  ASSUME ReviewInv, NEW form \in Forms, NEW quote \in Quotes, NEW r \in Requeried(form, quote, rvPosted)
  PROVE  Estimated(form, quote, r, rvPosted)
<1>1. rvForm \in Forms /\ rvQuote \in Quotes /\ rvAccount \in Accounts /\ rvPosted \in BOOLEAN
      /\ Estimated(rvForm, rvQuote, rvReply, rvPosted)
  BY DEF ReviewInv
<1>2. CASE BodyOf(form, quote) = rvReply.body
  <2>1. r = rvReply
    BY <1>2 DEF Requeried
  <2> QED BY <1>1, <1>2, <2>1, KeptReplyIsOfOrder
<1>3. CASE BodyOf(form, quote) # rvReply.body
  <2>1. r \in NewReply(form, quote, rvPosted)
    BY <1>3 DEF Requeried
  <2> QED BY <1>1, <2>1, NewReplyIsOfOrder
<1> QED BY <1>2, <1>3
LEMMA FieldKeeps ==
  ASSUME ReviewInv, NEW form \in Forms, ChangeField(form)
  PROVE  ReviewInv'
<1>1. rvForm' = form /\ rvReply' \in Requeried(form, rvQuote, rvPosted)
      /\ rvQuote' = rvQuote /\ rvAccount' = rvAccount /\ rvPosted' = rvPosted
  BY DEF ChangeField
<1>2. rvQuote \in Quotes /\ rvAccount \in Accounts /\ rvPosted \in BOOLEAN
  BY DEF ReviewInv
<1>3. Estimated(form, rvQuote, rvReply', rvPosted)
  BY <1>1, <1>2, RequeryIsOfOrder
<1> QED BY <1>1, <1>2, <1>3, Zenon DEF ReviewInv

LEMMA EditedFormsAreForms ==
  ASSUME NEW form \in Forms
  PROVE  /\ \A side \in {"BUY", "SELL"} : [form EXCEPT !.side = side] \in Forms
         /\ \A type \in {"MARKET", "LIMIT"} : [form EXCEPT !.type = type] \in Forms
         /\ \A lots \in LotInputs : [form EXCEPT !.lots = lots] \in Forms
         /\ \A limit \in TypedLimits : [form EXCEPT !.limit = limit] \in Forms
         /\ \A book \in StockBooks : [form EXCEPT !.book = book] \in Forms
<1>1. LotInputs \subseteq Nat /\ TypedLimits \subseteq Nat /\ StockBooks \subseteq AllBooks
  BY ReviewAssumption DEF StockBooks, AllBooks
<1>2. \A side \in {"BUY", "SELL"} : [form EXCEPT !.side = side] \in Forms
  BY DEF Forms
<1>3. \A type \in {"MARKET", "LIMIT"} : [form EXCEPT !.type = type] \in Forms
  BY DEF Forms
<1>4. \A lots \in LotInputs : [form EXCEPT !.lots = lots] \in Forms
  BY <1>1 DEF Forms
<1>5. \A limit \in TypedLimits : [form EXCEPT !.limit = limit] \in Forms
  BY <1>1 DEF Forms
<1>6. \A book \in StockBooks : [form EXCEPT !.book = book] \in Forms
  BY <1>1 DEF Forms
<1> QED BY <1>2, <1>3, <1>4, <1>5, <1>6, Zenon

\* The queries that a step makes of the estimate on the ticket.
LEMMA AskKeeps ==
  ASSUME ReviewInv, EstimateAsked
  PROVE  ReviewInv'
<1>1. rvReply \in Replies /\ rvReply' = [rvReply EXCEPT !.fetching = TRUE]
  BY DEF ReviewInv, Estimated, EstimateAsked
<1>2. rvReply' \in Replies /\ rvReply'.body = rvReply.body /\ rvReply'.data = rvReply.data /\ rvReply'.fetching
  BY <1>1 DEF Replies
<1>3. Estimated(rvForm, rvQuote, rvReply', rvPosted)
  BY <1>2 DEF ReviewInv, Estimated
<1>4. rvForm' = rvForm /\ rvQuote' = rvQuote /\ rvAccount' = rvAccount /\ rvPosted' = rvPosted
  BY DEF EstimateAsked
<1> QED BY <1>3, <1>4, Zenon DEF ReviewInv

LEMMA EstimateKeeps ==
  ASSUME ReviewInv, EstimateAnswered
  PROVE  ReviewInv'
<1>1. rvReply \in Replies /\ rvAccount \in Accounts /\ Estimated(rvForm, rvQuote, rvReply, rvPosted)
  BY DEF ReviewInv, Estimated
<1>2. rvForm' = rvForm /\ rvQuote' = rvQuote /\ rvAccount' = rvAccount /\ rvPosted' = rvPosted
  BY DEF EstimateAnswered
<1>3. ASSUME Estimable(rvReply.body, rvAccount), NEW p \in ReviewPrices,
             rvReply' = [rvReply EXCEPT !.data = [account |-> rvAccount, price |-> p],
                                        !.fetching = FALSE, !.failed = FALSE]
      PROVE  Estimated(rvForm, rvQuote, rvReply', rvPosted)
  <2> DEFINE seen == [account |-> rvAccount, price |-> p]
             first == [rvReply EXCEPT !.data = seen]
             second == [first EXCEPT !.fetching = FALSE]
             third == [second EXCEPT !.failed = FALSE]
  <2>1. seen \in Estimates /\ seen # NoReply /\ seen.account = rvAccount
    BY <1>1, EstimatesAreTyped
  <2>2. rvReply' = third
    BY <1>3, Zenon
  <2> HIDE DEF seen
  <2>3. first \in Replies /\ first.body = rvReply.body /\ first.data = seen
    BY <1>1, <2>1 DEF Replies
  <2> HIDE DEF first
  <2>4. second \in Replies /\ second.body = rvReply.body /\ second.data = seen
    BY <2>3 DEF Replies
  <2> HIDE DEF second
  <2>5. third \in Replies /\ third.body = rvReply.body /\ third.data = seen
    BY <2>4 DEF Replies
  <2> HIDE DEF third
  <2>6. Estimable(third.body, third.data.account)
    BY <1>3, <2>1, <2>5, Zenon
  <2>7. Estimated(rvForm, rvQuote, third, rvPosted)
    BY <1>1, <2>1, <2>5, <2>6 DEF Estimated
  <2> QED BY <2>2, <2>7, Zenon
<1>4. ASSUME rvReply' = [rvReply EXCEPT !.fetching = FALSE, !.failed = TRUE]
      PROVE  Estimated(rvForm, rvQuote, rvReply', rvPosted)
  <2> DEFINE first == [rvReply EXCEPT !.fetching = FALSE]
             second == [first EXCEPT !.failed = TRUE]
  <2>1. rvReply' = second
    BY <1>4, Zenon
  <2>2. first \in Replies /\ first.body = rvReply.body /\ first.data = rvReply.data
    BY <1>1 DEF Replies
  <2> HIDE DEF first
  <2>3. second \in Replies /\ second.body = rvReply.body /\ second.data = rvReply.data /\ second.failed
    BY <2>2 DEF Replies
  <2> HIDE DEF second
  <2>4. Estimated(rvForm, rvQuote, second, rvPosted)
    BY <1>1, <2>3 DEF Estimated
  <2> QED BY <2>1, <2>4, Zenon
<1>5. Estimated(rvForm, rvQuote, rvReply', rvPosted)
  <2>1. \/ /\ Estimable(rvReply.body, rvAccount)
           /\ \E p \in ReviewPrices :
                rvReply' = [rvReply EXCEPT !.data = [account |-> rvAccount, price |-> p],
                                           !.fetching = FALSE, !.failed = FALSE]
        \/ rvReply' = [rvReply EXCEPT !.fetching = FALSE, !.failed = TRUE]
    BY Zenon DEF EstimateAnswered
  <2> QED BY <1>3, <1>4, <2>1
<1> QED BY <1>1, <1>2, <1>5, Zenon DEF ReviewInv

LEMMA ReviewStep == ReviewInv /\ [ReviewNext]_rvVars => ReviewInv'
<1> SUFFICES ASSUME ReviewInv, [ReviewNext]_rvVars PROVE ReviewInv'
  OBVIOUS
<1>0. /\ rvForm \in Forms /\ rvQuote \in Quotes /\ rvAccount \in Accounts /\ rvPosted \in BOOLEAN
      /\ Estimated(rvForm, rvQuote, rvReply, rvPosted)
  BY DEF ReviewInv
<1>1. CASE UNCHANGED rvVars
  BY <1>1, Zenon DEF ReviewInv, rvVars
<1>2. CASE EditOrder
  <2>1. Rules!Sides = {"BUY", "SELL"}
    BY DEF Rules!Sides
  <2>2. \E form \in Forms : ChangeField(form)
    BY <1>0, <1>2, <2>1, EditedFormsAreForms, Zenon DEF EditOrder
  <2> QED BY <2>2, FieldKeeps
<1>3. CASE ReopenTicket
  <2>1. rvForm.book \in AllBooks /\ rvForm.type \in {"MARKET", "LIMIT"}
    BY <1>0 DEF Forms
  <2>2. rvForm' \in Forms
    BY <1>3, <2>1, NewFormsAreForms DEF ReopenTicket
  <2>3. rvQuote' \in Quotes /\ rvPosted' = FALSE /\ rvAccount' = rvAccount
    BY <1>3 DEF ReopenTicket, NoQuoteYet, Quotes
  <2>4. rvReply' \in NewReply(rvForm', rvQuote', FALSE)
    BY <1>3 DEF ReopenTicket
  <2>5. Estimated(rvForm', rvQuote', rvReply', FALSE)
    BY <1>0, <2>2, <2>3, <2>4, NewReplyIsOfOrder
  <2> QED BY <1>0, <2>2, <2>3, <2>5 DEF ReviewInv
<1>4. CASE TicketQuoted
  <2>1. rvQuote' \in Quotes
    <3>1. \A p \in ReviewPrices : [price |-> p, stale |-> FALSE] \in Quotes
      BY ReviewAssumption DEF Quotes
    <3>2. NoQuoteYet \in Quotes
      BY DEF NoQuoteYet, Quotes
    <3>3. [rvQuote EXCEPT !.stale = rvQuote.price > 0] \in Quotes
      <4> DEFINE old == rvQuote.price > 0
      <4>1. old \in BOOLEAN
        OBVIOUS
      <4> HIDE DEF old
      <4>2. [rvQuote EXCEPT !.stale = old] \in Quotes
        BY <1>0, <4>1 DEF Quotes
      <4> QED BY <4>2 DEF old
    <3> QED BY <1>4, <3>1, <3>2, <3>3 DEF TicketQuoted
  <2>2. /\ rvReply' \in Requeried(rvForm, rvQuote', rvPosted)
        /\ rvForm' = rvForm /\ rvAccount' = rvAccount /\ rvPosted' = rvPosted
    BY <1>4 DEF TicketQuoted
  <2>3. Estimated(rvForm, rvQuote', rvReply', rvPosted)
    BY <1>0, <2>1, <2>2, RequeryIsOfOrder
  <2> QED BY <1>0, <2>1, <2>2, <2>3, Zenon DEF ReviewInv
<1>5. CASE EstimateAsked
  BY <1>5, AskKeeps
<1>6. CASE EstimateAnswered
  BY <1>6, EstimateKeeps
<1>7. CASE BalanceMoves
  <2>1. rvAccount' \in Accounts /\ rvForm' = rvForm /\ rvQuote' = rvQuote /\ rvReply' = rvReply /\ rvPosted' = rvPosted
    BY <1>7 DEF BalanceMoves
  <2> QED BY <1>0, <2>1, Zenon DEF ReviewInv
<1>8. CASE FundsAnswered
  <2>1. rvAccount' = rvAccount /\ rvForm' = rvForm /\ rvQuote' = rvQuote /\ rvReply' = rvReply /\ rvPosted' = rvPosted
    BY <1>8 DEF FundsAnswered
  <2> QED BY <1>0, <2>1, Zenon DEF ReviewInv
<1>9. CASE PressOrder
  <2>1. rvAccount' = rvAccount /\ rvForm' = rvForm /\ rvQuote' = rvQuote /\ rvReply' = rvReply /\ rvPosted' = TRUE
    BY <1>9 DEF PressOrder
  <2>2. Estimated(rvForm, rvQuote, rvReply, TRUE)
    BY <1>0 DEF Estimated
  <2> QED BY <1>0, <2>1, <2>2 DEF ReviewInv
<1>10. CASE OrderExecuted
  <2>1. /\ rvAccount' = rvAccount /\ rvForm' = rvForm /\ rvQuote' = rvQuote /\ rvReply' = rvReply
        /\ rvPosted' = FALSE /\ rvForm.book \notin FnoBooks
    BY <1>10 DEF OrderExecuted, InFno
  <2>2. Estimated(rvForm, rvQuote, rvReply, FALSE)
    BY <1>0, <2>1 DEF Estimated
  <2> QED BY <1>0, <2>1, <2>2 DEF ReviewInv
<1> QED BY <1>1, <1>2, <1>3, <1>4, <1>5, <1>6, <1>7, <1>8, <1>9, <1>10 DEF ReviewNext
\* A ticket whose button can be pressed shows what it places.
LEMMA ReviewIsOfOrder ==
  ASSUME ReviewInv, OrderButton.enabled
  PROVE  LET seen == rvReply.data IN
         /\ rvReply.body = OrderBody /\ seen # NoReply
         /\ RequiredLine = RequiredFunds(OrderBody, seen.account, seen.price)
         /\ OrderButton.label = "order"
         /\ IF InFno THEN StatusLine = "Server estimate" /\ ~ShortLine
            ELSE StockNotice = "none" /\ StockFunds.required = RequiredLine
         /\ Placed(OrderBody, seen.account, seen.price)
<1> DEFINE seen == rvReply.data
<1>1. /\ rvReply \in Replies /\ rvReply.body = OrderBody
      /\ seen # NoReply => Estimable(rvReply.body, seen.account)
      /\ InFno /\ rvForm.lots > 0 /\ ~rvPosted /\ seen = NoReply /\ ~rvReply.failed => rvReply.fetching
  BY DEF ReviewInv, Estimated, OrderBody, InFno
<1>2. Reviewed /\ (~InFno => ServerEstimate # NoReply /\ QuoteLine = "LIVE")
  BY DEF OrderButton, FnoButton, StockButton
<1>3. ValidQuantity /\ rvForm.lots > 0 /\ ~rvPosted /\ ~rvReply.fetching /\ ~rvReply.failed /\ FundsSuffice
  BY <1>2 DEF Reviewed, ValidQuantity
<1>4. ServerEstimate = seen
  BY <1>3 DEF ServerEstimate
<1>5. seen # NoReply
  BY <1>1, <1>2, <1>3, <1>4, Zenon
<1>6. Sufficient(seen)
  BY <1>3, <1>4, <1>5, Zenon DEF FundsSuffice
<1>7. RequiredLine = RequiredFunds(OrderBody, seen.account, seen.price)
  BY <1>1, <1>4, <1>5, Zenon DEF RequiredLine
<1>8. OrderButton.label = "order"
  BY <1>3 DEF OrderButton, FnoButton, StockButton
<1>9. IF InFno THEN StatusLine = "Server estimate" /\ ~ShortLine
      ELSE StockNotice = "none" /\ StockFunds.required = RequiredLine
  BY <1>2, <1>3 DEF StatusLine, ShortLine, StockNotice, StockFunds
<1>10. Placed(OrderBody, seen.account, seen.price)
  <2>1. OrderBody \in Bodies /\ seen \in Estimates
    BY <1>1, <1>5 DEF Replies
  <2>2. seen.account \in Balances /\ seen.price \in Nat
    BY <2>1 DEF Estimates
  <2>3. Estimable(OrderBody, seen.account)
    BY <1>1, <1>5, Zenon
  <2>4. RequiredFunds(OrderBody, seen.account, seen.price) <= seen.account.free
    BY <1>1, <1>6, Zenon DEF Sufficient
  <2> QED BY <2>1, <2>2, <2>3, <2>4, SufficientIsPlaced
<1> QED BY <1>1, <1>5, <1>7, <1>8, <1>9, <1>10

\* What the F&O ticket takes for the rules is what they are.
TicketRules == FuturesMarginPercent = 20 /\ OptionSellMarginPercent = 30

\* What opens a position of fifty or less asks for its margin or its premium.
LEMMA OpeningFunds ==
  ASSUME NEW b \in Bodies, b.book \in FnoBooks, b.qty <= 50, b.qty > 0, NEW account \in Balances,
         NEW quoted \in Nat
  PROVE  RequiredFunds(b, [account EXCEPT !.book = "none"], quoted) =
           Rules!Margin(b.book, b.side, b.qty * (IF b.type = "LIMIT" THEN b.price ELSE quoted))
<1> DEFINE other == [account EXCEPT !.book = "none"]
           price == EstimatedPrice(b, quoted)
           p == HeldIn(b, other)
           total == b.qty * price
           delta == MarginDelta(b, p, price)
           cash == CashFlow(b, p, price)
           paid == IF b.book = "OPTION" /\ b.side = "BUY" THEN total ELSE 0
<1>1. /\ b.qty \in Nat /\ b.price \in Nat /\ b.type \in {"MARKET", "LIMIT"} /\ b.side \in {"BUY", "SELL"}
      /\ b.book \in {"FUTURE", "OPTION"}
  BY DEF Bodies, FnoBooks
<1>2. price = IF b.type = "LIMIT" THEN b.price ELSE quoted
  BY <1>1 DEF EstimatedPrice, Rules!Slippage
<1>3. price \in Nat
  <2> HIDE DEF price
  <2> QED BY <1>1, <1>2
<1>4. p.qty = 0 /\ p.avg = 0 /\ p.margin = 0
  <2> DEFINE first == [other EXCEPT !.qty = 0]
             second == [first EXCEPT !.avg = 0]
             third == [second EXCEPT !.margin = 0]
  <2>1. other.book = "none" /\ {"qty", "avg", "margin"} \subseteq DOMAIN other
    BY DEF Balances
  <2>2. p = third
    BY <1>1, <2>1 DEF HeldIn
  <2> HIDE DEF other
  <2>3. first.qty = 0 /\ {"avg", "margin"} \subseteq DOMAIN first
    BY <2>1
  <2> HIDE DEF first
  <2>4. second.qty = 0 /\ second.avg = 0 /\ {"margin"} \subseteq DOMAIN second
    BY <2>3
  <2> HIDE DEF second
  <2>5. third.qty = 0 /\ third.avg = 0 /\ third.margin = 0
    BY <2>4
  <2> HIDE DEF third, p
  <2> QED BY <2>2, <2>5, Zenon
<1>5. RequiredFunds(b, other, quoted) =
        IF b.type = "LIMIT" THEN Rules!Margin(b.book, b.side, total) ELSE Max({0, delta, delta - cash, paid})
  BY <1>1 DEF RequiredFunds
<1> HIDE DEF p, price, other
<1>6. total \in Nat
  BY <1>1, <1>3
<1> DEFINE new == Rules!TransitionQty(p.qty, b.qty, b.side)
           avg == Rules!TransitionAverage(p.qty, p.avg, b.qty, price, b.side)
<1>7. new = (IF b.side = "BUY" THEN b.qty ELSE -b.qty) /\ new # 0 /\ Rules!Magnitude(new) = b.qty
      /\ (new > 0 <=> b.side = "BUY")
  BY <1>1, <1>4 DEF Rules!TransitionQty, Rules!Delta, Rules!Magnitude
<1>8. avg = price /\ Rules!TransitionRealized(p.qty, p.avg, b.qty, price, b.side) = 0
  BY <1>4 DEF Rules!TransitionAverage, Rules!TransitionRealized, Rules!Opposes
<1> DEFINE margin == Rules!Margin(b.book, b.side, total)
<1>9. delta = IF b.book = "OPTION" /\ b.side = "BUY" THEN 0 ELSE margin
  <2>1. delta = Rules!MarginForPosition(b.book, new, avg) - p.margin
    BY Zenon DEF MarginDelta
  <2>2. (IF new < 0 THEN "SELL" ELSE "BUY") = b.side
    BY <1>1, <1>7
  <2>3. Rules!Magnitude(new) * avg = total
    BY <1>7, <1>8
  <2> HIDE DEF new, avg, total, delta
  <2>4. Rules!MarginForPosition(b.book, new, avg) = IF b.book = "OPTION" /\ b.side = "BUY" THEN 0 ELSE margin
    BY <1>7, <2>2, <2>3 DEF Rules!MarginForPosition
  <2>5. margin \in Int
    BY <1>6, AmountsOfMargin
  <2> HIDE DEF margin
  <2> QED BY <1>4, <2>1, <2>4, <2>5
<1>10. cash = IF b.book = "OPTION" THEN IF b.side = "SELL" THEN total ELSE -total ELSE 0
  BY <1>8 DEF CashFlow
<1>11. margin \in Int /\ margin >= 0 /\ (b.book = "OPTION" /\ b.side = "BUY" => margin = total)
  <2> HIDE DEF total
  <2>1. margin = (CASE b.book = "FUTURE" -> (total * FuturesMarginPercent) \div 100
                   [] b.book = "OPTION" -> IF b.side = "BUY" THEN total
                                           ELSE (total * OptionSellMarginPercent) \div 100)
    BY <1>1 DEF Rules!Margin
  <2>2. ASSUME NEW percent \in 1..100 PROVE (total * percent) \div 100 \in Nat
    <3>1. total * percent \in Nat
      BY <1>6
    <3> QED BY <3>1
  <2>3. (total * FuturesMarginPercent) \div 100 \in Nat /\ (total * OptionSellMarginPercent) \div 100 \in Nat
    BY <2>2, ReviewAssumption
  <2> HIDE DEF margin
  <2> QED BY <1>1, <1>6, <2>1, <2>3
<1> HIDE DEF total, delta, cash, margin
<1>12. CASE b.type = "MARKET"
  <2> DEFINE net == delta - cash
             most == Max({0, delta, net, paid})
  <2>1. 0 \in Int /\ delta \in Int /\ net \in Int /\ paid \in Int
    BY <1>6, <1>9, <1>10, <1>11
  <2>2. most \in {0, delta, net, paid} /\ 0 <= most /\ delta <= most /\ net <= most /\ paid <= most
    <3> HIDE DEF net, paid
    <3> QED BY <2>1, LargestOfFour, Zenon
  <2>3. RequiredFunds(b, other, quoted) = most
    BY <1>5, <1>12
  <2> HIDE DEF most
  <2>4. most = margin
    BY <1>1, <1>6, <1>9, <1>10, <1>11, <2>1, <2>2
  <2> QED BY <1>2, <2>3, <2>4 DEF margin, total, price, other
<1>13. CASE b.type = "LIMIT"
  BY <1>2, <1>5, <1>13 DEF margin, total, price, other
<1> QED BY <1>1, <1>12, <1>13

LEMMA HalvesAreClose ==
  ASSUME NEW percent \in 1..100, NEW n \in Nat
  PROVE  Rounded(percent, n) - (n * percent) \div 100 \in -1..1
<1> DEFINE m == percent * n
<1>1. m \in Nat /\ n * percent = m
  OBVIOUS
<1>2. Rounded(percent, n) = (m + 50) \div 100
  BY DEF Rounded
<1> HIDE DEF m
<1>3. (m + 50) \div 100 - m \div 100 \in -1..1
  BY <1>1
<1> QED BY <1>1, <1>2, <1>3, Zenon

LEMMA EstimatesAreClose ==
  ASSUME TicketRules, ReviewInv, ClientEstimate # NoReply, OrderBody.qty <= 50
  PROVE  ClientEstimate - RequiredFunds(OrderBody, [rvAccount EXCEPT !.book = "none"], rvQuote.price) \in -1..1
<1> DEFINE b == OrderBody
           price == IF b.type = "LIMIT" THEN b.price ELSE rvQuote.price
           n == b.qty * price
<1>1. /\ rvForm \in Forms /\ rvQuote \in Quotes /\ rvAccount \in Balances
  BY ReviewAssumption DEF ReviewInv, Balances, AllBooks
<1>2. /\ b \in Bodies /\ b.qty = rvForm.lots /\ b.book = rvForm.book /\ b.type = rvForm.type
      /\ b.side = rvForm.side
  BY <1>1, FormsHaveBodies DEF OrderBody
<1>3. /\ rvQuote.price \in Nat /\ b.qty \in Nat /\ b.price \in Nat /\ b.type \in {"MARKET", "LIMIT"}
      /\ b.side \in {"BUY", "SELL"} /\ rvForm.limit \in Nat
  BY <1>1, <1>2 DEF Bodies, Quotes, Forms
<1>4. InFno /\ ValidQuantity
  BY DEF ClientEstimate
<1>5. b.book \in FnoBooks /\ b.qty > 0 /\ b.qty <= 50 /\ b.book \in {"FUTURE", "OPTION"}
  BY <1>2, <1>4 DEF InFno, ValidQuantity, FnoBooks
<1>6. price = IF rvForm.type = "LIMIT" /\ rvForm.limit > 0 THEN rvForm.limit ELSE rvQuote.price
  <2>1. b.type = "LIMIT" => b.price = IF rvForm.limit = 0 THEN rvQuote.price ELSE rvForm.limit
    BY <1>2, <1>4 DEF OrderBody, BodyOf, InFno
  <2> HIDE DEF b
  <2> QED BY <1>2, <1>3, <2>1
<1>7. n = rvForm.lots * (IF rvForm.type = "LIMIT" /\ rvForm.limit > 0 THEN rvForm.limit ELSE rvQuote.price)
  BY <1>2, <1>6, Zenon
<1>8. ClientEstimate = IF b.book = "FUTURE" THEN Rounded(20, n) ELSE IF b.side = "BUY" THEN n ELSE Rounded(30, n)
  <2> HIDE DEF n, b
  <2> QED BY <1>2, <1>4, <1>7 DEF ClientEstimate
<1>9. n \in Nat
  <2>1. price \in Nat
    BY <1>3
  <2> HIDE DEF price, b
  <2> QED BY <1>3, <2>1
<1>10. RequiredFunds(b, [rvAccount EXCEPT !.book = "none"], rvQuote.price) = Rules!Margin(b.book, b.side, n)
  <2> HIDE DEF b
  <2> QED BY <1>1, <1>2, <1>3, <1>5, OpeningFunds, Zenon
<1> HIDE DEF n, b
<1>11. Rules!Margin(b.book, b.side, n) = IF b.book = "FUTURE" THEN (n * 20) \div 100
                                         ELSE IF b.side = "BUY" THEN n ELSE (n * 30) \div 100
  BY <1>5 DEF Rules!Margin, TicketRules
<1>12. Rounded(20, n) - (n * 20) \div 100 \in -1..1 /\ Rounded(30, n) - (n * 30) \div 100 \in -1..1
  BY <1>9, HalvesAreClose
<1>13. n - n \in -1..1
  BY <1>9
<1>14. ClientEstimate - RequiredFunds(b, [rvAccount EXCEPT !.book = "none"], rvQuote.price) \in -1..1
  <2>1. CASE b.book = "FUTURE"
    BY <1>8, <1>10, <1>11, <1>12, <2>1, Zenon
  <2>2. CASE b.book # "FUTURE" /\ b.side = "BUY"
    BY <1>8, <1>10, <1>11, <1>13, <2>2, Zenon
  <2>3. CASE b.book # "FUTURE" /\ b.side # "BUY"
    BY <1>8, <1>10, <1>11, <1>12, <2>3, Zenon
  <2> QED BY <2>1, <2>2, <2>3
<1> QED BY <1>14 DEF b

LEMMA ReviewIsAgreed == ASSUME TicketRules PROVE ReviewInv => ReviewAgrees
<1> SUFFICES ASSUME ReviewInv PROVE ReviewAgrees
  OBVIOUS
<1> QED BY ReviewIsOfOrder, EstimatesAreClose, Zenon DEF ReviewAgrees

-----------------------------------------------------------------------------
\* The pages of the market.

PageMoves == Percents \cup {NoMove, NoQuote}
Bars == [of : Indices \cup {NoData}, failed : BOOLEAN]
Views == [movers : {"gainers", "losers", "volume"}, filter : {"all", "gainers", "losers"}, index : Indices]

\* The quotes are typed, and what is plotted of an index is its own.
PagesInv ==
  /\ pgQuotes \in [PageStocks -> PageMoves]
  /\ pgBars \in [Indices -> Bars] /\ \A i \in Indices : pgBars[i].of \in {i, NoData}
  /\ pgView \in Views

\* A set of stocks has an order by a movement.
Orderings(stocks, move) ==
  {rows \in [1..Cardinality(stocks) -> stocks] :
     /\ Range(rows) = stocks /\ IsInjective(rows)
     /\ \A i, j \in DOMAIN rows : i < j => move[rows[i]] >= move[rows[j]]}

LEMMA LeastMover ==
  ASSUME NEW S, IsFiniteSet(S), S # {}, NEW move, \A s \in S : move[s] \in Int
  PROVE  \E x \in S : \A y \in S : move[y] >= move[x]
<1> DEFINE below(x) == {y \in S : move[y] <= move[x]}
           T == {below(x) : x \in S}
<1>1. PICK m \in T : \A k \in T : k \subseteq m => k = m
  <2>1. T \in SUBSET SUBSET S /\ T # {}
    OBVIOUS
  <2> HIDE DEF T
  <2> QED BY <2>1, LeastSet
<1>2. PICK x \in S : m = below(x)
  BY <1>1
<1>3. ASSUME NEW y \in S, move[y] < move[x] PROVE FALSE
  <2>1. below(y) \subseteq below(x)
    BY <1>3
  <2>2. below(y) = below(x)
    BY <1>1, <1>2, <2>1
  <2>3. x \in below(x) /\ x \notin below(y)
    BY <1>3
  <2> QED BY <2>2, <2>3
<1> QED BY <1>3

LEMMA Orderable ==
  ASSUME NEW S, IsFiniteSet(S), NEW move, \A s \in S : move[s] \in Int
  PROVE  Orderings(S, move) # {}
<1> DEFINE Bad == {k \in SUBSET S : Orderings(k, move) = {}}
<1>1. SUFFICES ASSUME S \in Bad PROVE FALSE
  OBVIOUS
<1>2. PICK m \in Bad : \A k \in Bad : k \subseteq m => k = m
  <2>1. Bad \in SUBSET SUBSET S /\ Bad # {}
    BY <1>1
  <2> HIDE DEF Bad
  <2> QED BY <2>1, LeastSet
<1>3. m \in SUBSET S /\ IsFiniteSet(m)
  BY <1>2, FS_Subset
<1>4. m # {}
  <2>1. Cardinality({}) = 0 /\ 1..0 = {}
    BY FS_EmptySet
  <2>2. [i \in 1..0 |-> 0] \in Orderings({}, move)
    BY <2>1 DEF Orderings, Range, IsInjective
  <2> QED BY <1>2, <2>2
<1>5. PICK x \in m : \A y \in m : move[y] >= move[x]
  BY <1>3, <1>4, LeastMover
<1> DEFINE k == m \ {x}
           n == Cardinality(m)
<1>6. PICK rows : rows \in Orderings(k, move)
  BY <1>2, <1>3, <1>5
<1>7. n \in Nat \ {0} /\ Cardinality(k) = n - 1
  BY <1>3, <1>4, FS_RemoveElement, FS_CardinalityType, FS_EmptySet
<1>8. rows \in [1..(n - 1) -> k] /\ Range(rows) = k /\ IsInjective(rows)
      /\ \A i, j \in 1..(n - 1) : i < j => move[rows[i]] >= move[rows[j]]
  BY <1>6, <1>7 DEF Orderings
<1> HIDE DEF n
<1> DEFINE more == [i \in 1..n |-> IF i = n THEN x ELSE rows[i]]
<1>9. more \in [1..n -> m] /\ DOMAIN more = 1..n
  BY <1>7, <1>8
<1>10. Range(more) = m
  <2>1. \A y \in k : \E i \in 1..(n - 1) : rows[i] = y
    BY <1>8 DEF Range
  <2>2. \A y \in k : \E i \in 1..n : more[i] = y
    BY <2>1, <1>7
  <2>3. more[n] = x /\ n \in 1..n
    BY <1>7
  <2> QED BY <1>9, <2>2, <2>3 DEF Range
<1>11. IsInjective(more)
  <2>1. \A i \in 1..(n - 1) : rows[i] # x
    BY <1>8
  <2>2. \A i, j \in 1..(n - 1) : rows[i] = rows[j] => i = j
    BY <1>8 DEF IsInjective
  <2> QED BY <1>7, <2>1, <2>2 DEF IsInjective
<1>12. \A i, j \in 1..n : i < j => move[more[i]] >= move[more[j]]
  <2> SUFFICES ASSUME NEW i \in 1..n, NEW j \in 1..n, i < j
               PROVE  move[more[i]] >= move[more[j]]
    OBVIOUS
  <2>1. i \in 1..(n - 1) /\ rows[i] \in m /\ more[i] = rows[i]
    BY <1>7, <1>8
  <2>2. CASE j = n
    BY <2>1, <2>2, <1>5
  <2>3. CASE j # n
    BY <2>1, <2>3, <1>7, <1>8
  <2> QED BY <2>2, <2>3
<1>13. more \in Orderings(m, move)
  BY <1>9, <1>10, <1>11, <1>12 DEF Orderings, n
<1> QED BY <1>2, <1>13

LEMMA RankedInOrder ==
  ASSUME NEW S, IsFiniteSet(S), NEW move, \A s \in S : move[s] \in Int
  PROVE  LET rows == Ranked(S, move) IN
         /\ rows \in [1..Cardinality(S) -> S] /\ Range(rows) = S
         /\ \A i, j \in DOMAIN rows : i < j => move[rows[i]] >= move[rows[j]]
BY Orderable DEF Ranked, Orderings

LEMMA ListedOnce ==
  ASSUME NEW S, IsFiniteSet(S)
  PROVE  SetToSeq(S) \in [1..Cardinality(S) -> S]
<1> DEFINE move == [s \in S |-> 0]
<1>1. Orderings(S, move) # {}
  <2>1. \A s \in S : move[s] \in Int
    OBVIOUS
  <2> HIDE DEF move
  <2> QED BY <2>1, Orderable
<1> QED BY <1>1 DEF Orderings, SetToSeq

\* The first rows of an enumeration are rows of it, and none are left of none only.
LEMMA FirstRowsOf ==
  ASSUME NEW n \in Nat, NEW S, NEW rows \in [1..n -> S]
  PROVE  /\ DOMAIN FirstRows(rows) \subseteq 1..n
         /\ \A i \in DOMAIN FirstRows(rows) : FirstRows(rows)[i] = rows[i]
         /\ n > 0 => FirstRows(rows) # <<>> /\ 1 \in DOMAIN FirstRows(rows)
<1> DEFINE size == IF n < MoverLimit THEN n ELSE MoverLimit
<1>1. rows \in Seq(S) /\ Len(rows) = n
  BY SeqDef
<1>2. FirstRows(rows) = SubSeq(rows, 1, size)
  BY <1>1 DEF FirstRows
<1>3. size \in 0..n /\ (n > 0 => size > 0)
  BY PagesAssumption
<1> HIDE DEF size
<1>4. \A i \in 1..size : rows[i] \in S
  BY <1>3
<1>5. /\ SubSeq(rows, 1, size) \in Seq(S)
      /\ Len(SubSeq(rows, 1, size)) = IF 1 <= size THEN size - 1 + 1 ELSE 0
      /\ \A i \in 1..size - 1 + 1 : SubSeq(rows, 1, size)[i] = rows[1 + i - 1]
  BY <1>3, <1>4, SubSeqProperties
<1> DEFINE first == SubSeq(rows, 1, size)
<1> HIDE DEF first
<1>6. first \in Seq(S) /\ Len(first) = size /\ \A i \in 1..size : first[i] = rows[i]
  BY <1>3, <1>5 DEF first
<1>7. DOMAIN first = 1..size
  BY <1>6, LenProperties
<1>8. first = <<>> => size = 0
  BY <1>6
<1>9. FirstRows(rows) = first
  BY <1>2 DEF first
<1> QED BY <1>3, <1>6, <1>7, <1>8, <1>9

LEMMA NoneListed ==
  ASSUME NEW S, IsFiniteSet(S), FirstRows(SetToSeq(S)) = <<>>
  PROVE  S = {}
<1> SUFFICES ASSUME NEW n, NEW rows, n = Cardinality(S), rows = SetToSeq(S)
             PROVE  n = 0
  BY FS_EmptySet
<1>1. n \in Nat /\ rows \in [1..n -> S]
  BY FS_CardinalityType, ListedOnce
<1>2. n > 0 => FirstRows(rows) # <<>>
  BY <1>1, FirstRowsOf, Zenon
<1>3. ~(n > 0)
  BY <1>2
<1> QED BY <1>1, <1>3

\* A sum of movements none of which is up is not above zero.
LEMMA SumOfFalls ==
  ASSUME NEW S, IsFiniteSet(S), NEW f, \A x \in S : f[x] \in Int /\ f[x] <= 0
  PROVE  SumFunctionOnSet(f, S) <= 0
<1> DEFINE Bad == {k \in SUBSET S : ~(SumFunctionOnSet(f, k) <= 0)}
<1>1. SUFFICES ASSUME S \in Bad PROVE FALSE
  OBVIOUS
<1>2. PICK m \in Bad : \A k \in Bad : k \subseteq m => k = m
  <2>1. Bad \in SUBSET SUBSET S /\ Bad # {}
    BY <1>1
  <2> HIDE DEF Bad
  <2> QED BY <2>1, LeastSet
<1>3. m \in SUBSET S /\ IsFiniteSet(m) /\ \A x \in m : f[x] \in Int /\ f[x] <= 0
  BY <1>2, FS_Subset
<1> DEFINE Sum(k) == SumFunctionOnSet(f, k)
<1>4. /\ Sum({}) = 0 /\ Sum(m) \in Int
      /\ \A x \in m : Sum(m) = f[x] + Sum(m \ {x})
  BY <1>3, SumStep
<1>5. ~(Sum(m) <= 0)
  BY <1>2
<1>6. PICK x \in m : TRUE
  BY <1>4, <1>5
<1> DEFINE k == m \ {x}
<1>7. Sum(k) <= 0
  BY <1>2, <1>3, <1>6
<1>8. IsFiniteSet(k) /\ Sum(k) \in Int
  <2>1. IsFiniteSet(k) /\ \A y \in k : f[y] \in Int
    BY <1>3, FS_Subset
  <2> QED BY <2>1, SumStep
<1> HIDE DEF Sum, k
<1>9. Sum(m) = f[x] + Sum(k)
  BY <1>4, <1>6 DEF k
<1> QED BY <1>3, <1>4, <1>5, <1>6, <1>7, <1>8, <1>9

-----------------------------------------------------------------------------
\* The steps.

LEMMA PagesStart == MarketPagesInit => PagesInv
BY PagesAssumption DEF MarketPagesInit, PagesInv, PageMoves, Bars, Views

LEMMA PagesStep == PagesInv /\ [MarketPagesNext]_pgVars => PagesInv'
<1> SUFFICES ASSUME PagesInv, [MarketPagesNext]_pgVars PROVE PagesInv'
  OBVIOUS
<1>1. ASSUME NEW s \in PageStocks, Tick(s) PROVE PagesInv'
  BY <1>1 DEF PagesInv, Tick, PageMoves
<1>2. ASSUME MoversAnswered PROVE PagesInv'
  BY <1>2 DEF PagesInv, MoversAnswered
<1>3. ASSUME HistoryAnswered PROVE PagesInv'
  <2> DEFINE i == pgView.index
  <2>1. i \in Indices /\ pgBars[i] \in Bars /\ UNCHANGED <<pgQuotes, pgView>>
    BY <1>3 DEF HistoryAnswered, PagesInv, Views
  <2>2. \E b \in Bars : b.of \in {i, NoData} /\ pgBars' = [pgBars EXCEPT ![i] = b]
    <3>1. CASE \E bars \in {i, NoData} : pgBars' = [pgBars EXCEPT ![i] = [of |-> bars, failed |-> FALSE]]
      BY <2>1, <3>1 DEF Bars
    <3>2. CASE pgBars' = [pgBars EXCEPT ![i].failed = TRUE]
      <4>1. [pgBars[i] EXCEPT !.failed = TRUE] \in Bars /\ [pgBars[i] EXCEPT !.failed = TRUE].of = pgBars[i].of
        BY <2>1 DEF Bars
      <4>2. pgBars' = [pgBars EXCEPT ![i] = [pgBars[i] EXCEPT !.failed = TRUE]]
        BY <3>2
      <4> QED BY <2>1, <4>1, <4>2 DEF PagesInv
    <3> QED BY <1>3, <3>1, <3>2 DEF HistoryAnswered
  <2> QED BY <2>1, <2>2 DEF PagesInv
<1>4. ASSUME ChooseView PROVE PagesInv'
  BY <1>4 DEF PagesInv, ChooseView, Views
<1>5. ASSUME UNCHANGED pgVars PROVE PagesInv'
  BY <1>5 DEF PagesInv, pgVars
<1> QED BY <1>1, <1>2, <1>3, <1>4, <1>5 DEF MarketPagesNext

-----------------------------------------------------------------------------
\* What the pages show.

LEMMA MovesTyped ==
  ASSUME PagesInv
  PROVE  \A s \in PageStocks :
           /\ Move(s) \in Int /\ (Moved(s) => Known(s) /\ Move(s) = pgQuotes[s])
           /\ StockCard(s).price = Known(s) /\ (StockCard(s).move # NoMove <=> Moved(s))
           /\ Mood(s) = "Bullish" <=> Moved(s) /\ Move(s) > 0
BY PagesAssumption DEF PagesInv, PageMoves, Move, Moved, Known, StockCard, Mood

LEMMA SectorsAgree ==
  ASSUME PagesInv, NEW r \in SectorRows
  PROVE  /\ r.observed = Cardinality({s \in PageSectors[r.id] : StockCard(s).move # NoMove})
         /\ pgView.filter = "gainers" => \E s \in PageSectors[r.id] : Mood(s) = "Bullish"
         /\ \A s \in r.top : StockCard(s).price /\ (r.gainers > 0 => Mood(s) = "Bullish")
<1>1. PICK id \in DOMAIN PageSectors : r = Sector(id)
  BY DEF SectorRows
<1> DEFINE of == Constituents(id)
           rising == {s \in of : Move(s) > 0}
           move == [s \in of |-> Move(s)]
<1>2. PageSectors[id] \subseteq PageStocks
  BY PagesAssumption
<1>3. of \subseteq PageStocks /\ IsFiniteSet(of) /\ IsFiniteSet(rising)
  <2>1. of \subseteq PageStocks /\ rising \subseteq PageStocks
    BY <1>2 DEF Constituents
  <2> QED BY <2>1, PagesAssumption, FS_Subset
<1>4. /\ r.id = id /\ r.observed = Cardinality(of) /\ r.gainers = Cardinality(rising)
      /\ r.sum = SumFunctionOnSet(move, of)
      /\ r.top = {s \in of : \A t \in of : Move(t) <= Move(s)}
  BY <1>1 DEF Sector
<1>5. of = {s \in PageSectors[r.id] : StockCard(s).move # NoMove}
  BY <1>2, <1>4, MovesTyped DEF Constituents
<1>6. \A s \in of : s \in PageSectors[id] /\ Moved(s) /\ move[s] = Move(s) /\ Move(s) \in Int
  BY <1>3, MovesTyped DEF Constituents
<1>7. ASSUME pgView.filter = "gainers" PROVE \E s \in PageSectors[r.id] : Mood(s) = "Bullish"
  <2>1. SumFunctionOnSet(move, of) > 0
    BY <1>4, <1>7 DEF SectorRows
  <2>2. SumFunctionOnSet(move, of) \in Int
    <3> HIDE DEF of, move
    <3> QED BY <1>3, <1>6, SumStep
  <2>3. \E s \in of : ~(move[s] <= 0)
    <3> HIDE DEF of, move
    <3> QED BY <1>3, <1>6, <2>1, <2>2, SumOfFalls
  <2> QED BY <1>3, <1>4, <1>6, <2>3, MovesTyped
<1>8. ASSUME NEW s \in r.top PROVE StockCard(s).price /\ (r.gainers > 0 => Mood(s) = "Bullish")
  <2>1. s \in of /\ \A t \in of : Move(t) <= Move(s)
    BY <1>4
  <2>2. r.gainers > 0 => \E t \in of : Move(t) > 0
    BY <1>3, <1>4, FS_EmptySet
  <2> QED BY <1>3, <1>6, <2>1, <2>2, MovesTyped
<1> QED BY <1>4, <1>5, <1>7, <1>8

LEMMA OwnGainers ==
  ASSUME PagesInv, pgRanked \in {NoData, NoRanks}, pgView.movers = "gainers"
  PROVE  /\ \A i \in DOMAIN MoverRows : Mood(MoverRows[i]) = "Bullish"
         /\ \A id \in DOMAIN PageSectors : \A s \in Sector(id).top :
              Mood(s) = "Bullish" => MoverRows # <<>> /\ Move(MoverRows[1]) >= Move(s)
<1> DEFINE G == {s \in PageStocks : Moved(s) /\ Move(s) > 0}
           move == [s \in PageStocks |-> Move(s)]
           rows == Ranked(G, move)
           n == Cardinality(G)
<1>1. G \subseteq PageStocks /\ IsFiniteSet(G) /\ n \in Nat
  <2>1. G \subseteq PageStocks
    OBVIOUS
  <2> HIDE DEF G
  <2> QED BY <2>1, PagesAssumption, FS_Subset, FS_CardinalityType
<1>2. \A s \in PageStocks : move[s] = Move(s) /\ Move(s) \in Int
  BY MovesTyped
<1>3. /\ rows \in [1..n -> G] /\ Range(rows) = G
      /\ \A i, j \in DOMAIN rows : i < j => move[rows[i]] >= move[rows[j]]
  <2> HIDE DEF G, move
  <2> QED BY <1>1, <1>2, RankedInOrder
<1>4. MoverRows = FirstRows(rows)
  BY DEF MoverRows, OwnMovers, NoRanks
<1> HIDE DEF rows, n
<1>5. /\ DOMAIN FirstRows(rows) \subseteq 1..n
      /\ \A i \in DOMAIN FirstRows(rows) : FirstRows(rows)[i] = rows[i]
      /\ n > 0 => FirstRows(rows) # <<>> /\ 1 \in DOMAIN FirstRows(rows)
  <2> HIDE DEF G
  <2>1. rows \in [1..n -> G] /\ n \in Nat
    BY <1>1, <1>3
  <2> QED BY <2>1, FirstRowsOf, Zenon
<1>6. \A i \in DOMAIN MoverRows : MoverRows[i] \in G
  BY <1>3, <1>4, <1>5
<1>7. ASSUME NEW id \in DOMAIN PageSectors, NEW s \in Sector(id).top, Mood(s) = "Bullish"
      PROVE  MoverRows # <<>> /\ Move(MoverRows[1]) >= Move(s)
  <2>1. s \in PageStocks
    BY PagesAssumption DEF Sector, Constituents
  <2>2. s \in G
    BY <1>7, <2>1, MovesTyped
  <2>3. PICK i \in 1..n : rows[i] = s
    BY <1>3, <2>2 DEF Range
  <2>4. n > 0 /\ 1 \in 1..n /\ rows[1] \in G
    BY <1>1, <1>3, <2>3
  <2>5. move[rows[1]] >= move[s]
    <3>1. DOMAIN rows = 1..n /\ i \in Int /\ i >= 1 /\ move[s] \in Int
      BY <1>2, <1>3, <2>1
    <3>2. CASE i = 1
      BY <2>3, <3>1, <3>2
    <3>3. CASE i # 1
      <4>1. 1 < i
        BY <3>1, <3>3
      <4> HIDE DEF G, move
      <4>2. move[rows[1]] >= move[rows[i]]
        BY <1>3, <2>4, <3>1, <4>1
      <4> QED BY <2>3, <4>2
    <3> QED BY <3>2, <3>3
  <2> QED BY <1>2, <1>4, <1>5, <2>1, <2>4, <2>5
<1> QED BY <1>6, <1>7, MovesTyped

LEMMA NothingIsKnown ==
  ASSUME PagesInv, MoversBody = "No market mover updates available", pgView.movers = "volume"
  PROVE  \A s \in PageStocks : ~StockCard(s).price
<1> DEFINE K == {s \in PageStocks : Known(s)}
<1>1. FirstRows(SetToSeq(K)) = <<>>
  BY DEF MoverRows, OwnMovers, MoversBody
<1>2. IsFiniteSet(K)
  BY PagesAssumption, FS_Subset
<1>3. K = {}
  <2> HIDE DEF K
  <2> QED BY <1>1, <1>2, NoneListed, Zenon
<1> QED BY <1>3, MovesTyped

LEMMA PagesTellTheSame == PagesInv => PagesAgree
<1> SUFFICES ASSUME PagesInv PROVE PagesAgree
  OBVIOUS
<1>1. CardBody \in {"Fetching", "No Fresh Rankings Available"} => ~pgCard.failed
  BY DEF CardBody
<1>2. Chart.drawn \in {NoData, pgView.index}
  BY DEF PagesInv, Views, Chart
<1> QED BY <1>1, <1>2, SectorsAgree, OwnGainers, NothingIsKnown DEF PagesAgree

-----------------------------------------------------------------------------
\* More about sums.

\* What holds of no element, and of a set when of the set without one of its elements.
LEMMA FromNothing ==
  ASSUME NEW S, IsFiniteSet(S), NEW P \in SUBSET SUBSET S, {} \in P,
         \A k \in SUBSET S : \A x \in k : k \ {x} \in P => k \in P
  PROVE  S \in P
<1> DEFINE Bad == (SUBSET S) \ P
<1>1. SUFFICES ASSUME S \in Bad PROVE FALSE
  OBVIOUS
<1>2. PICK m \in Bad : \A k \in Bad : k \subseteq m => k = m
  <2>1. Bad \in SUBSET SUBSET S /\ Bad # {}
    BY <1>1
  <2> HIDE DEF Bad
  <2> QED BY <2>1, LeastSet
<1>3. m \in SUBSET S /\ m \notin P
  BY <1>2
<1>4. PICK x \in m : TRUE
  BY <1>3
<1>5. m \ {x} \in P
  BY <1>2, <1>3, <1>4
<1> QED BY <1>3, <1>4, <1>5

\* A sum of a part, and one without an element of it.
LEMMA SumOfPart ==
  ASSUME NEW S, IsFiniteSet(S), NEW f, \A x \in S : f[x] \in Int
  PROVE  /\ SumFunctionOnSet(f, {}) = 0
         /\ \A k \in SUBSET S :
              /\ SumFunctionOnSet(f, k) \in Int
              /\ \A x \in k : SumFunctionOnSet(f, k) = f[x] + SumFunctionOnSet(f, k \ {x})
<1>1. \A k \in SUBSET S : IsFiniteSet(k) /\ \A x \in k : f[x] \in Int
  BY FS_Subset
<1> QED BY <1>1, SumStep

LEMMA SumOfBalanced ==
  ASSUME NEW S, IsFiniteSet(S), NEW a, NEW b, NEW c, NEW d,
         \A x \in S : a[x] \in Int /\ b[x] \in Int /\ c[x] \in Int /\ d[x] \in Int,
         \A x \in S : a[x] + b[x] = c[x] + d[x]
  PROVE  SumFunctionOnSet(a, S) + SumFunctionOnSet(b, S) = SumFunctionOnSet(c, S) + SumFunctionOnSet(d, S)
<1> DEFINE Sum(f, k) == SumFunctionOnSet(f, k)
           P == {k \in SUBSET S : Sum(a, k) + Sum(b, k) = Sum(c, k) + Sum(d, k)}
<1>1. /\ Sum(a, {}) = 0 /\ \A k \in SUBSET S : Sum(a, k) \in Int /\ \A x \in k : Sum(a, k) = a[x] + Sum(a, k \ {x})
      /\ Sum(b, {}) = 0 /\ \A k \in SUBSET S : Sum(b, k) \in Int /\ \A x \in k : Sum(b, k) = b[x] + Sum(b, k \ {x})
      /\ Sum(c, {}) = 0 /\ \A k \in SUBSET S : Sum(c, k) \in Int /\ \A x \in k : Sum(c, k) = c[x] + Sum(c, k \ {x})
      /\ Sum(d, {}) = 0 /\ \A k \in SUBSET S : Sum(d, k) \in Int /\ \A x \in k : Sum(d, k) = d[x] + Sum(d, k \ {x})
  <2>1. Sum(a, {}) = 0 /\ \A k \in SUBSET S : Sum(a, k) \in Int /\ \A x \in k : Sum(a, k) = a[x] + Sum(a, k \ {x})
    <3>1. \A x \in S : a[x] \in Int
      OBVIOUS
    <3> QED BY <3>1, SumOfPart
  <2>2. Sum(b, {}) = 0 /\ \A k \in SUBSET S : Sum(b, k) \in Int /\ \A x \in k : Sum(b, k) = b[x] + Sum(b, k \ {x})
    <3>1. \A x \in S : b[x] \in Int
      OBVIOUS
    <3> QED BY <3>1, SumOfPart
  <2>3. Sum(c, {}) = 0 /\ \A k \in SUBSET S : Sum(c, k) \in Int /\ \A x \in k : Sum(c, k) = c[x] + Sum(c, k \ {x})
    <3>1. \A x \in S : c[x] \in Int
      OBVIOUS
    <3> QED BY <3>1, SumOfPart
  <2>4. Sum(d, {}) = 0 /\ \A k \in SUBSET S : Sum(d, k) \in Int /\ \A x \in k : Sum(d, k) = d[x] + Sum(d, k \ {x})
    <3>1. \A x \in S : d[x] \in Int
      OBVIOUS
    <3> QED BY <3>1, SumOfPart
  <2> QED BY <2>1, <2>2, <2>3, <2>4, Zenon
<1> HIDE DEF Sum
<1>2. {} \in P
  BY <1>1
<1>3. ASSUME NEW k \in SUBSET S, NEW x \in k, k \ {x} \in P PROVE k \in P
  <2> DEFINE r == k \ {x}
  <2>1. r \in SUBSET S /\ Sum(a, r) + Sum(b, r) = Sum(c, r) + Sum(d, r)
    BY <1>3
  <2>2. /\ Sum(a, k) = a[x] + Sum(a, r) /\ Sum(b, k) = b[x] + Sum(b, r)
        /\ Sum(c, k) = c[x] + Sum(c, r) /\ Sum(d, k) = d[x] + Sum(d, r)
    BY <1>1
  <2>3. Sum(a, r) \in Int /\ Sum(b, r) \in Int /\ Sum(c, r) \in Int /\ Sum(d, r) \in Int
    BY <1>1, <2>1
  <2>4. a[x] \in Int /\ b[x] \in Int /\ c[x] \in Int /\ d[x] \in Int /\ a[x] + b[x] = c[x] + d[x]
    OBVIOUS
  <2> HIDE DEF r
  <2>5. Sum(a, k) + Sum(b, k) = Sum(c, k) + Sum(d, k)
    BY <2>1, <2>2, <2>3, <2>4
  <2> QED BY <2>5
<1>4. S \in P
  <2> HIDE DEF P
  <2>1. P \in SUBSET SUBSET S
    BY DEF P
  <2> QED BY <1>2, <1>3, <2>1, FromNothing
<1> QED BY <1>4 DEF Sum

LEMMA SumOfBounded ==
  ASSUME NEW S, IsFiniteSet(S), NEW f, NEW g,
         \A x \in S : f[x] \in Int /\ g[x] \in Int /\ 0 <= f[x] /\ f[x] <= g[x]
  PROVE  SumFunctionOnSet(f, S) \in 0..SumFunctionOnSet(g, S)
<1> DEFINE Sum(h, k) == SumFunctionOnSet(h, k)
           P == {k \in SUBSET S : 0 <= Sum(f, k) /\ Sum(f, k) <= Sum(g, k)}
<1>1. /\ Sum(f, {}) = 0 /\ \A k \in SUBSET S : Sum(f, k) \in Int /\ \A x \in k : Sum(f, k) = f[x] + Sum(f, k \ {x})
      /\ Sum(g, {}) = 0 /\ \A k \in SUBSET S : Sum(g, k) \in Int /\ \A x \in k : Sum(g, k) = g[x] + Sum(g, k \ {x})
  <2>1. Sum(f, {}) = 0 /\ \A k \in SUBSET S : Sum(f, k) \in Int /\ \A x \in k : Sum(f, k) = f[x] + Sum(f, k \ {x})
    <3>1. \A x \in S : f[x] \in Int
      OBVIOUS
    <3> QED BY <3>1, SumOfPart
  <2>2. Sum(g, {}) = 0 /\ \A k \in SUBSET S : Sum(g, k) \in Int /\ \A x \in k : Sum(g, k) = g[x] + Sum(g, k \ {x})
    <3>1. \A x \in S : g[x] \in Int
      OBVIOUS
    <3> QED BY <3>1, SumOfPart
  <2> QED BY <2>1, <2>2, Zenon
<1> HIDE DEF Sum
<1>2. {} \in P
  BY <1>1
<1>3. ASSUME NEW k \in SUBSET S, NEW x \in k, k \ {x} \in P PROVE k \in P
  <2> DEFINE r == k \ {x}
  <2>1. r \in SUBSET S /\ 0 <= Sum(f, r) /\ Sum(f, r) <= Sum(g, r)
    BY <1>3
  <2>2. Sum(f, k) = f[x] + Sum(f, r) /\ Sum(g, k) = g[x] + Sum(g, r)
    BY <1>1
  <2>3. Sum(f, r) \in Int /\ Sum(g, r) \in Int
    BY <1>1, <2>1
  <2>4. f[x] \in Int /\ g[x] \in Int /\ 0 <= f[x] /\ f[x] <= g[x]
    OBVIOUS
  <2> HIDE DEF r
  <2>5. 0 <= Sum(f, k) /\ Sum(f, k) <= Sum(g, k)
    BY <2>1, <2>2, <2>3, <2>4
  <2> QED BY <2>5
<1>4. S \in P
  <2> HIDE DEF P
  <2>1. P \in SUBSET SUBSET S
    BY DEF P
  <2> QED BY <1>2, <1>3, <2>1, FromNothing
<1>5. Sum(f, S) \in Int /\ Sum(g, S) \in Int /\ 0 <= Sum(f, S) /\ Sum(f, S) <= Sum(g, S)
  BY <1>1, <1>4
<1> QED BY <1>5 DEF Sum

LEMMA SumOfNothing ==
  ASSUME NEW S, IsFiniteSet(S), NEW f, \A x \in S : f[x] = 0
  PROVE  SumFunctionOnSet(f, S) = 0
<1> DEFINE P == {k \in SUBSET S : SumFunctionOnSet(f, k) = 0}
<1>1. /\ SumFunctionOnSet(f, {}) = 0
      /\ \A k \in SUBSET S : \A x \in k : SumFunctionOnSet(f, k) = f[x] + SumFunctionOnSet(f, k \ {x})
  <2>1. \A x \in S : f[x] \in Int
    OBVIOUS
  <2> QED BY <2>1, SumOfPart
<1>2. {} \in P /\ \A k \in SUBSET S : \A x \in k : k \ {x} \in P => k \in P
  BY <1>1
<1>3. S \in P
  <2> HIDE DEF P
  <2>1. P \in SUBSET SUBSET S
    BY DEF P
  <2> QED BY <1>2, <2>1, FromNothing
<1> QED BY <1>3

LEMMA SumOfOnes ==
  ASSUME NEW S, IsFiniteSet(S), NEW f, \A x \in S : f[x] = 1
  PROVE  SumFunctionOnSet(f, S) = Cardinality(S)
<1> DEFINE P == {k \in SUBSET S : SumFunctionOnSet(f, k) = Cardinality(k)}
<1>1. /\ SumFunctionOnSet(f, {}) = 0
      /\ \A k \in SUBSET S : \A x \in k : SumFunctionOnSet(f, k) = f[x] + SumFunctionOnSet(f, k \ {x})
  <2>1. \A x \in S : f[x] \in Int
    OBVIOUS
  <2> QED BY <2>1, SumOfPart
<1>2. {} \in P
  BY <1>1, FS_EmptySet
<1>3. ASSUME NEW k \in SUBSET S, NEW x \in k, k \ {x} \in P PROVE k \in P
  <2>1. IsFiniteSet(k) /\ Cardinality(k) \in Nat
    BY FS_Subset, FS_CardinalityType
  <2>2. Cardinality(k \ {x}) = Cardinality(k) - 1
    BY <2>1, FS_RemoveElement
  <2>3. SumFunctionOnSet(f, k) = 1 + SumFunctionOnSet(f, k \ {x})
    BY <1>1
  <2>4. SumFunctionOnSet(f, k) = Cardinality(k)
    BY <1>3, <2>1, <2>2, <2>3
  <2> QED BY <2>4
<1>4. S \in P
  <2> HIDE DEF P
  <2>1. P \in SUBSET SUBSET S
    BY DEF P
  <2> QED BY <1>2, <1>3, <2>1, FromNothing
<1> QED BY <1>4

\* What is made of the elements of a finite set is finite.
LEMMA MadeOfFinite ==
  ASSUME NEW S, IsFiniteSet(S), NEW made
  PROVE  IsFiniteSet({made[x] : x \in S})
<1> DEFINE P == {k \in SUBSET S : IsFiniteSet({made[x] : x \in k})}
<1>1. {} \in P
  BY FS_EmptySet
<1>2. ASSUME NEW k \in SUBSET S, NEW x \in k, k \ {x} \in P PROVE k \in P
  <2>1. {made[y] : y \in k} = {made[y] : y \in k \ {x}} \cup {made[x]}
    OBVIOUS
  <2>2. IsFiniteSet({made[y] : y \in k \ {x}})
    BY <1>2
  <2>3. IsFiniteSet({made[y] : y \in k \ {x}} \cup {made[x]})
    BY <2>2, FS_AddElement, Zenon
  <2> QED BY <2>1, <2>3
<1>3. S \in P
  <2> HIDE DEF P
  <2>1. P \in SUBSET SUBSET S
    BY DEF P
  <2> QED BY <1>1, <1>2, <2>1, FromNothing
<1> QED BY <1>3

\* A sum over what is made of the elements of a set is one over the elements.
LEMMA SumOfMade ==
  ASSUME NEW S, IsFiniteSet(S), NEW made, NEW f, NEW g,
         \A x, y \in S : made[x] = made[y] => x = y,
         \A x \in S : f[made[x]] \in Int /\ g[x] = f[made[x]]
  PROVE  /\ IsFiniteSet({made[x] : x \in S})
         /\ SumFunctionOnSet(f, {made[x] : x \in S}) = SumFunctionOnSet(g, S)
<1> DEFINE T == {made[x] : x \in S}
           part == [x \in S |-> {made[x]}]
<1>1. IsFiniteSet(T)
  BY MadeOfFinite
<1>2. \A y \in T : f[y] \in Int
  OBVIOUS
<1>3. ASSUME NEW x \in S PROVE g[x] = SumFunctionOnSet(f, part[x])
  <2>1. {made[x]} \subseteq T /\ made[x] \in {made[x]} /\ {made[x]} \ {made[x]} = {}
    OBVIOUS
  <2>2. SumFunctionOnSet(f, {}) = 0 /\ SumFunctionOnSet(f, {made[x]}) = f[made[x]] + SumFunctionOnSet(f, {})
    <3> HIDE DEF T
    <3> QED BY <1>1, <1>2, <2>1, SumOfPart
  <2> QED BY <2>2
<1>4. UNION {part[x] : x \in S} = T
  OBVIOUS
<1>5. /\ \A x \in S : part[x] \subseteq T
      /\ \A x, y \in S : x # y => part[x] \cap part[y] = {}
  OBVIOUS
<1> HIDE DEF part, T
<1>6. SumFunctionOnSet(g, S) = SumFunctionOnSet(f, UNION {part[x] : x \in S})
  BY <1>1, <1>2, <1>3, <1>5, SumOfParts
<1>7. SumFunctionOnSet(g, S) = SumFunctionOnSet(f, T)
  BY <1>4, <1>6
<1> QED BY <1>1, <1>7 DEF T

-----------------------------------------------------------------------------
\* The figures of an account.

\* What a page may have of an account: an answer and the prices of its positions.
Answers == [loaded : BOOLEAN, positions : Portfolios \cup {{}}, failed : BOOLEAN]

FiguresInv ==
  /\ figPositions \in Portfolios /\ figAnswer \in Answers
  /\ figQuotes \in [FigureIds -> Nat]

LEMMA FiguresStart == FiguresInit => FiguresInv
BY DEF FiguresInit, FiguresInv, Answers

LEMMA FiguresStep == FiguresInv /\ [FiguresNext]_figVars => FiguresInv'
<1> SUFFICES ASSUME FiguresInv, [FiguresNext]_figVars PROVE FiguresInv'
  OBVIOUS
<1>1. ASSUME AccountMoves PROVE FiguresInv'
  BY <1>1 DEF AccountMoves, FiguresInv
<1>2. ASSUME PortfolioPolled PROVE FiguresInv'
  <2>1. figPositions \in Portfolios /\ figAnswer \in Answers /\ UNCHANGED <<figPositions, figQuotes>>
    BY <1>2 DEF PortfolioPolled, FiguresInv
  <2>2. figAnswer' \in Answers
    <3>1. [loaded |-> TRUE, positions |-> figPositions, failed |-> FALSE] \in Answers
      BY <2>1 DEF Answers
    <3>2. [figAnswer EXCEPT !.failed = TRUE] \in Answers
      BY <2>1 DEF Answers
    <3> QED BY <1>2, <3>1, <3>2 DEF PortfolioPolled
  <2> QED BY <2>1, <2>2 DEF FiguresInv
<1>3. ASSUME NEW id \in FigureIds, QuoteTicks(id) PROVE FiguresInv'
  <2>1. Ticks \subseteq Nat
    BY FiguresAssumption
  <2>2. /\ figQuotes \in [FigureIds -> Nat] /\ UNCHANGED <<figPositions, figAnswer>>
        /\ \E price \in Ticks : figQuotes' = [figQuotes EXCEPT ![id] = price]
    BY <1>3 DEF QuoteTicks, FiguresInv
  <2>3. figQuotes' \in [FigureIds -> Nat]
    BY <2>1, <2>2
  <2> QED BY <2>2, <2>3 DEF FiguresInv
<1>4. ASSUME UNCHANGED <<figPositions, figAnswer, figQuotes>> PROVE FiguresInv'
  BY <1>4 DEF FiguresInv
<1>5. UNCHANGED figVars => UNCHANGED <<figPositions, figAnswer, figQuotes>>
  BY DEF figVars
<1>6. WalletPolled \/ RiskPolled => UNCHANGED <<figPositions, figAnswer, figQuotes>>
  BY DEF WalletPolled, RiskPolled
<1>7. ASSUME NEW tab, NEW segment, NEW sector,
             OpenTab(tab) \/ SelectSegment(segment) \/ SelectSector(sector)
      PROVE  UNCHANGED <<figPositions, figAnswer, figQuotes>>
  BY <1>7 DEF OpenTab, SelectSegment, SelectSector
<1> QED BY <1>1, <1>2, <1>3, <1>4, <1>5, <1>6, <1>7 DEF FiguresNext

-----------------------------------------------------------------------------
\* One position.

LEMMA PositionTyped ==
  ASSUME NEW positions \in Portfolios \cup {{}}, NEW p \in positions
  PROVE  /\ p.id \in FigureIds /\ p.qty \in Int \ {0} /\ Size(p) \in Nat \ {0}
         /\ p.cost \in Nat /\ p.mark \in Nat /\ p.avg \in Nat
         /\ p.avg * Size(p) <= p.cost /\ p.cost < p.avg * Size(p) + Size(p)
         /\ p.status = "FRESH" => p.mark > 0
         /\ p.status \in {"FRESH", "STALE", "UNAVAILABLE"}
         /\ p.qty > 0 => Size(p) = p.qty
<1>1. positions \in Portfolios /\ Kept(p)
  BY FiguresAssumption
<1>2. p.id \in FigureIds
  BY <1>1 DEF FigureIds
<1>3. /\ p.qty \in Int \ {0} /\ p.cost \in Nat /\ p.mark \in Nat
      /\ p.status \in {"FRESH", "STALE", "UNAVAILABLE"} /\ (p.status = "FRESH" => p.mark > 0)
      /\ p = Position(p.id, p.kind, p.qty, p.cost, p.mark, p.status, p.margin)
  BY <1>1 DEF Kept
<1> DEFINE size == Size(p)
<1>4. size \in Nat \ {0} /\ (p.qty > 0 => size = p.qty) /\ size = Magnitude(p.qty)
  BY <1>3 DEF Size, Magnitude
<1>5. p.avg = p.cost \div size
  BY <1>3, <1>4 DEF Position
<1> HIDE DEF size
<1>6. /\ p.cost \div size \in Nat
      /\ (p.cost \div size) * size <= p.cost /\ p.cost < (p.cost \div size) * size + size
  <2> SUFFICES ASSUME NEW c \in Nat, NEW s \in Nat \ {0}
               PROVE  c \div s \in Nat /\ (c \div s) * s <= c /\ c < (c \div s) * s + s
    BY <1>3, <1>4
  <2> QED OBVIOUS
<1> QED BY <1>2, <1>3, <1>4, <1>5, <1>6 DEF size

LEMMA SamePosition ==
  ASSUME NEW positions \in Portfolios \cup {{}}
  PROVE  IsFiniteSet(positions) /\ \A p, q \in positions : p.id = q.id => p = q
BY FiguresAssumption, FS_EmptySet

\* A holding on the page.
LEMMA HoldingShows ==
  ASSUME NEW positions \in Portfolios \cup {{}}, NEW p \in positions, p.qty > 0,
         NEW live \in Nat, NEW failed \in BOOLEAN
  PROVE  LET h == Holding(p, live, failed) IN
         /\ h.id = p.id /\ h.qty = p.qty /\ h.invested = p.cost
         /\ h.value \in Nat /\ h.invested \in Nat /\ h.pnl \in Int
         /\ h.avail = IsAvail(p, live, failed)
         /\ h.avail => h.pnl = h.value - h.invested
         /\ h.avail => ~failed /\ h.value = Ltp(p, live, failed) * p.qty
         /\ ~h.avail /\ ~failed => h.value = 0
<1> DEFINE h == Holding(p, live, failed)
           ltp == Ltp(p, live, failed)
           avail == IsAvail(p, live, failed)
<1>1. /\ p.qty \in Nat /\ p.cost \in Nat /\ p.mark \in Nat /\ p.avg \in Nat
      /\ Size(p) \in Nat /\ Size(p) = p.qty
  BY PositionTyped
<1>2. ltp \in Nat /\ avail \in BOOLEAN
  BY <1>1 DEF Ltp, IsAvail
<1>3. ServedValue(p) \in Nat /\ ServedPnl(p) \in Int /\ ltp * p.qty \in Nat
  BY <1>1, <1>2 DEF ServedValue, ServedPnl, Gain
<1>4. avail => ~failed
  BY DEF IsAvail
<1>5. ~avail /\ ~failed => ServedValue(p) = 0
  BY <1>1 DEF IsAvail, ServedValue
<1> HIDE DEF ltp, avail
<1>6. h = [id |-> p.id, qty |-> p.qty, ltp |-> ltp, avail |-> avail, invested |-> p.cost,
           value |-> IF avail THEN ltp * p.qty ELSE ServedValue(p),
           pnl |-> IF avail THEN (IF avail THEN ltp * p.qty ELSE ServedValue(p)) - p.cost
                   ELSE ServedPnl(p)]
  BY DEF Holding, Invested, ltp, avail
<1> HIDE DEF h
<1>7. /\ h.id = p.id /\ h.qty = p.qty /\ h.invested = p.cost /\ h.avail = avail
      /\ h.value = IF avail THEN ltp * p.qty ELSE ServedValue(p)
      /\ h.pnl = IF avail THEN h.value - p.cost ELSE ServedPnl(p)
  BY <1>6
<1>8. h.value \in Nat
  BY <1>3, <1>7
<1>9. h.pnl \in Int
  BY <1>1, <1>3, <1>7, <1>8
<1> QED BY <1>1, <1>2, <1>4, <1>5, <1>7, <1>8, <1>9 DEF h, ltp, avail

\* A position on the page, and the table's row of it: the same figure, the same status.
LEMMA ActiveShows ==
  ASSUME NEW positions \in Portfolios \cup {{}}, NEW p \in positions,
         NEW live \in Nat, NEW failed \in BOOLEAN
  PROVE  LET a == ActiveItem(p, live, failed)
             r == PositionRow(a, live) IN
         /\ a.p = p /\ r.p = p /\ a.pnl \in Int
         /\ r.status = a.status
         /\ ~failed => r.pnl = a.pnl
<1> DEFINE a == ActiveItem(p, live, failed)
           r == PositionRow(a, live)
           ltp == Ltp(p, live, failed)
           avail == IsAvail(p, live, failed)
           quoted == live > 0
           pnl == IF avail /\ ltp > 0 THEN Gain(p, ltp) ELSE ServedPnl(p)
           status == IF quoted THEN "FRESH" ELSE p.status
<1>1. /\ p.cost \in Nat /\ p.mark \in Nat /\ p.avg \in Nat /\ Size(p) \in Nat
  BY PositionTyped
<1>2. ltp \in Nat /\ (quoted => ltp = live) /\ (quoted /\ ~failed => avail)
  BY <1>1 DEF Ltp, IsAvail
<1>3. pnl \in Int
  BY <1>1, <1>2 DEF ServedPnl, Gain
<1> HIDE DEF ltp, avail
<1>4. a.p = p /\ a.ltp = ltp /\ a.avail = avail /\ a.pnl = pnl /\ a.status = status
  BY DEF ActiveItem, ltp, avail
<1> HIDE DEF a, pnl, status
<1>5. /\ r.p = a.p /\ r.status = IF quoted THEN "FRESH" ELSE a.status
      /\ r.pnl = LET price == IF quoted THEN live ELSE a.ltp IN
                 IF (quoted \/ a.avail) /\ price > 0 THEN Gain(a.p, price) ELSE a.pnl
  BY DEF PositionRow
<1> HIDE DEF r
<1>6. r.status = a.status
  BY <1>4, <1>5 DEF status
<1>7. ASSUME ~failed PROVE r.pnl = a.pnl
  <2>1. CASE quoted
    <3>1. r.pnl = Gain(p, live)
      BY <1>4, <1>5, <2>1
    <3>2. pnl = Gain(p, live)
      BY <1>2, <1>7, <2>1 DEF pnl
    <3> QED BY <1>4, <3>1, <3>2
  <2>2. CASE ~quoted
    <3>1. r.pnl = IF avail /\ ltp > 0 THEN Gain(p, ltp) ELSE pnl
      BY <1>4, <1>5, <2>2
    <3> QED BY <1>4, <3>1 DEF pnl
  <2> QED BY <2>1, <2>2
<1> QED BY <1>3, <1>4, <1>5, <1>6, <1>7 DEF a, r

\* With no live price and a quote of some kind, the page and the server tell the same
\* profit of a position, and of a holding but for the rounding of its average.
LEMMA ServerAgrees ==
  ASSUME NEW positions \in Portfolios \cup {{}}, NEW p \in positions, p.status # "UNAVAILABLE"
  PROVE  /\ ServedPnl(p) \in Int
         /\ ActiveItem(p, 0, FALSE).pnl = ServedPnl(p)
         /\ p.qty > 0 => ServedPnl(p) - Holding(p, 0, FALSE).value + p.cost \in 0..(p.qty - 1)
<1> DEFINE size == Size(p)
           ltp == Ltp(p, 0, FALSE)
           value == ltp * size
           paid == p.avg * size
           worth == p.mark * size
           served == ServedPnl(p)
<1>1. /\ p.cost \in Nat /\ p.mark \in Nat /\ p.avg \in Nat /\ p.qty \in Int \ {0}
      /\ size \in Nat \ {0} /\ paid <= p.cost /\ p.cost < paid + size
      /\ p.qty > 0 => size = p.qty
  BY PositionTyped
<1>2. IsAvail(p, 0, FALSE)
  BY DEF IsAvail
<1>3. ltp = IF p.mark > 0 THEN p.mark ELSE p.avg
  BY <1>2 DEF Ltp
<1>4. paid \in Int /\ worth \in Int
  BY <1>1
<1>5. \A x, y, z \in Int : /\ (x - y) * z \in Int /\ (x - y) * z = x * z - y * z
                           /\ (x - x) * z = 0
  OBVIOUS
<1>6. /\ Gain(p, p.mark) \in Int /\ Gain(p, p.avg) = 0
      /\ p.qty > 0 => Gain(p, p.mark) = worth - paid
  <2>1. /\ Gain(p, p.mark) = IF p.qty < 0 THEN (p.avg - p.mark) * size ELSE (p.mark - p.avg) * size
        /\ Gain(p, p.avg) = IF p.qty < 0 THEN (p.avg - p.avg) * size ELSE (p.avg - p.avg) * size
    BY DEF Gain
  <2>2. p.avg \in Int /\ p.mark \in Int /\ size \in Int
    BY <1>1
  <2>3. /\ (p.avg - p.mark) * size \in Int /\ (p.mark - p.avg) * size \in Int
        /\ (p.mark - p.avg) * size = worth - paid /\ (p.avg - p.avg) * size = 0
    BY <1>5, <2>2, Zenon
  <2> DEFINE down == (p.avg - p.mark) * size
             up == (p.mark - p.avg) * size
             same == (p.avg - p.avg) * size
  <2> HIDE DEF down, up, same, size, worth, paid
  <2>4. down \in Int /\ up \in Int /\ up = worth - paid /\ same = 0
    BY <2>3 DEF down, up, same
  <2>5. /\ Gain(p, p.mark) = IF p.qty < 0 THEN down ELSE up
        /\ Gain(p, p.avg) = same
    BY <2>1, Zenon DEF down, up, same
  <2> QED BY <1>1, <2>4, <2>5
<1>7. served = IF p.mark = 0 THEN 0 ELSE Gain(p, p.mark)
  BY <1>1 DEF ServedPnl
<1>8. ActiveItem(p, 0, FALSE).pnl = IF ltp > 0 THEN Gain(p, ltp) ELSE served
  BY <1>2 DEF ActiveItem
<1>9. p.qty > 0 => Holding(p, 0, FALSE).value = value
  BY <1>1, <1>2 DEF Holding
<1>10. value = IF p.mark > 0 THEN worth ELSE paid
  BY <1>3, Zenon
<1> HIDE DEF value, paid, worth, served, size, ltp
<1>11. served \in Int
  BY <1>6, <1>7
<1>12. ActiveItem(p, 0, FALSE).pnl = served
  <2>1. CASE p.mark = 0
    <3>1. ltp = p.avg /\ served = 0
      BY <1>1, <1>3, <1>7, <2>1
    <3>2. Gain(p, ltp) = 0
      BY <1>6, <3>1
    <3> QED BY <1>8, <3>1, <3>2
  <2>2. CASE p.mark # 0
    <3>1. ltp = p.mark /\ p.mark > 0
      BY <1>1, <1>3, <2>2
    <3> QED BY <1>7, <1>8, <2>2, <3>1
  <2> QED BY <2>1, <2>2
<1>13. ASSUME p.qty > 0 PROVE served - value + p.cost \in 0..(p.qty - 1)
  <2>1. served - value = -paid
    <3>1. CASE p.mark = 0
      BY <1>4, <1>7, <1>10, <3>1
    <3>2. CASE p.mark # 0
      <4>1. p.mark > 0 /\ Gain(p, p.mark) = worth - paid
        BY <1>1, <1>6, <1>13, <3>2
      <4> QED BY <1>4, <1>7, <1>10, <3>2, <4>1
    <3> QED BY <3>1, <3>2
  <2> QED BY <1>1, <1>4, <1>13, <2>1
<1> QED BY <1>9, <1>11, <1>12, <1>13 DEF served

-----------------------------------------------------------------------------
\* All of them.

Held(positions) == {p \in positions : p.product = "DELIVERY" /\ p.qty > 0}
Others(positions) == {p \in positions : p.product # "DELIVERY" \/ p.qty < 0}

LEMMA HoldingsShow ==
  ASSUME NEW positions \in Portfolios \cup {{}}, NEW quotes \in [FigureIds -> Nat],
         NEW failed \in BOOLEAN
  PROVE  LET hs == Holdings(positions, quotes, failed) IN
         /\ IsFiniteSet(hs)
         /\ \A h \in hs :
              /\ h.value \in Nat /\ h.invested \in Nat /\ h.pnl \in Int
              /\ h.avail => ~failed /\ h.pnl = h.value - h.invested
              /\ ~h.avail /\ ~failed => h.value = 0
         /\ \A f : (\A h \in hs : f[h] \in Int) =>
              SumFunctionOnSet(f, hs) =
              SumFunctionOnSet([p \in Held(positions) |-> f[Holding(p, quotes[p.id], failed)]],
                               Held(positions))
<1> DEFINE hs == Holdings(positions, quotes, failed)
           H == Held(positions)
           made == [p \in H |-> Holding(p, quotes[p.id], failed)]
<1>1. hs = {made[p] : p \in H}
  BY DEF Holdings, Held
<1>2. ASSUME NEW p \in H
      PROVE  /\ p \in positions /\ p.qty > 0 /\ quotes[p.id] \in Nat
             /\ made[p] = Holding(p, quotes[p.id], failed)
  BY PositionTyped DEF Held
<1>3. ASSUME NEW p \in H
      PROVE  /\ made[p].id = p.id
             /\ made[p].value \in Nat /\ made[p].invested \in Nat /\ made[p].pnl \in Int
             /\ made[p].avail => ~failed /\ made[p].pnl = made[p].value - made[p].invested
             /\ ~made[p].avail /\ ~failed => made[p].value = 0
  <2> HIDE DEF made, H
  <2>1. p \in positions /\ p.qty > 0 /\ quotes[p.id] \in Nat
    BY <1>2
  <2> QED BY <1>2, <2>1, HoldingShows
<1>4. \A p, q \in H : made[p] = made[q] => p = q
  <2> HIDE DEF made
  <2> QED BY <1>3, SamePosition DEF Held
<1>5. IsFiniteSet(H)
  BY SamePosition, FS_Subset DEF Held
<1> HIDE DEF hs, H, made
<1>6. IsFiniteSet(hs)
  BY <1>1, <1>5, MadeOfFinite
<1>7. ASSUME NEW f, \A h \in hs : f[h] \in Int
      PROVE  SumFunctionOnSet(f, hs) =
             SumFunctionOnSet([p \in H |-> f[Holding(p, quotes[p.id], failed)]], H)
  <2> DEFINE g == [p \in H |-> f[Holding(p, quotes[p.id], failed)]]
  <2>1. \A p \in H : f[made[p]] \in Int /\ g[p] = f[made[p]]
    BY <1>1, <1>2, <1>7
  <2> HIDE DEF g
  <2>2. SumFunctionOnSet(f, hs) = SumFunctionOnSet(g, H)
    BY <1>1, <1>4, <1>5, <2>1, SumOfMade
  <2> QED BY <2>2 DEF g
<1> QED BY <1>1, <1>3, <1>6, <1>7 DEF hs, H

\* The value of the holdings, less what was paid, is what they gained, and their
\* weights fill the whole.
LEMMA TotalsOfHoldings ==
  ASSUME NEW hs, IsFiniteSet(hs),
         \A h \in hs : /\ h.value \in Nat /\ h.invested \in Nat /\ h.pnl \in Int
                       /\ h.avail => h.pnl = h.value - h.invested
  PROVE  /\ Total(hs, LAMBDA h : h.value) \in Int /\ Total(hs, LAMBDA h : h.invested) \in Int
         /\ (\A h \in hs : h.avail) =>
              Total(hs, LAMBDA h : h.pnl) = Total(hs, LAMBDA h : h.value) - Total(hs, LAMBDA h : h.invested)
<1> DEFINE value == [h \in hs |-> h.value]
           invested == [h \in hs |-> h.invested]
           pnl == [h \in hs |-> h.pnl]
           none == [h \in hs |-> 0]
<1>1. \A h \in hs : /\ value[h] \in Int /\ invested[h] \in Int /\ pnl[h] \in Int /\ none[h] \in Int
                    /\ none[h] = 0 /\ (h.avail => pnl[h] + invested[h] = value[h] + none[h])
  OBVIOUS
<1>2. /\ Total(hs, LAMBDA h : h.value) = SumFunctionOnSet(value, hs)
      /\ Total(hs, LAMBDA h : h.invested) = SumFunctionOnSet(invested, hs)
      /\ Total(hs, LAMBDA h : h.pnl) = SumFunctionOnSet(pnl, hs)
  BY DEF Total
<1> HIDE DEF value, invested, pnl, none
<1>3. \A h \in hs : value[h] \in Int
  BY <1>1
<1>4. \A h \in hs : invested[h] \in Int
  BY <1>1
<1>5. \A h \in hs : pnl[h] \in Int
  BY <1>1
<1>6. SumFunctionOnSet(value, hs) \in Int
  BY <1>3, SumStep
<1>7. SumFunctionOnSet(invested, hs) \in Int
  BY <1>4, SumStep
<1>8. SumFunctionOnSet(pnl, hs) \in Int
  BY <1>5, SumStep
<1>9. ASSUME \A h \in hs : h.avail
      PROVE  SumFunctionOnSet(pnl, hs) = SumFunctionOnSet(value, hs) - SumFunctionOnSet(invested, hs)
  <2>1. SumFunctionOnSet(none, hs) = 0
    BY <1>1, SumOfNothing
  <2>2. \A h \in hs : pnl[h] + invested[h] = value[h] + none[h]
    BY <1>1, <1>9
  <2>3. \A h \in hs : pnl[h] \in Int /\ invested[h] \in Int /\ value[h] \in Int /\ none[h] \in Int
    BY <1>1
  <2>4. SumFunctionOnSet(pnl, hs) + SumFunctionOnSet(invested, hs) =
        SumFunctionOnSet(value, hs) + SumFunctionOnSet(none, hs)
    BY <2>2, <2>3, SumOfBalanced
  <2> QED BY <1>6, <1>7, <1>8, <2>1, <2>4
<1> QED BY <1>2, <1>6, <1>7, <1>9

LEMMA WeightsFill ==
  ASSUME NEW hs, IsFiniteSet(hs), NEW failed,
         \A h \in hs : /\ h.value \in Nat /\ (h.avail => ~failed)
                       /\ ~h.avail /\ ~failed => h.value = 0
  PROVE  LET weights == {<<h, Weight(h, hs)>> : h \in hs} IN
         \A w \in weights : Total(weights, LAMBDA v : v[2][1]) = w[2][2]
<1> DEFINE total == HoldingsTotal(hs)
           one == [h \in hs |-> IF total > 0 THEN h.value ELSE 1]
           whole == IF total > 0 THEN total ELSE Cardinality(hs)
           made == [h \in hs |-> <<h, Weight(h, hs)>>]
           weights == {<<h, Weight(h, hs)>> : h \in hs}
           first == [v \in weights |-> v[2][1]]
           quoted == {h \in hs : h.avail}
           value == [h \in hs |-> h.value]
<1>1. \A h \in hs : Weight(h, hs) = <<one[h], whole>>
  BY DEF Weight
<1>2. \A h \in hs : one[h] \in Int
  OBVIOUS
<1>3. weights = {made[h] : h \in hs} /\ \A g, h \in hs : made[g] = made[h] => g = h
  OBVIOUS
<1>4. total = SumFunctionOnSet([h \in quoted |-> h.value], quoted)
  BY DEF HoldingsTotal, Total
<1>5. \A h \in hs : value[h] \in Int /\ value[h] = h.value
  OBVIOUS
<1>6. IsFiniteSet(quoted) /\ quoted \subseteq hs /\ IsFiniteSet(hs \ quoted)
  BY FS_Subset
<1>7. total = SumFunctionOnSet(value, quoted)
  <2> DEFINE part == [h \in quoted |-> h.value]
  <2>1. \A h \in quoted : value[h] \in Int /\ part[h] = value[h]
    OBVIOUS
  <2> HIDE DEF part, value, quoted
  <2>2. SumFunctionOnSet(part, quoted) = SumFunctionOnSet(value, quoted)
    BY <1>6, <2>1, SumAlike
  <2> QED BY <1>4, <2>2 DEF part
<1>8. total \in Int /\ (quoted = {} => total = 0)
  <2> HIDE DEF total, value, quoted
  <2>1. \A h \in quoted : value[h] \in Int
    BY <1>5, <1>6
  <2> QED BY <1>6, <1>7, <2>1, SumStep
<1>9. SumFunctionOnSet(one, hs) = whole
  <2>1. CASE total > 0
    <3>1. ~failed
      BY <1>8, <2>1
    <3>2. \A h \in hs \ quoted : value[h] = 0
      BY <3>1
    <3>3. \A h \in hs : one[h] = value[h]
      BY <2>1
    <3> HIDE DEF total, value, quoted, one
    <3>4. SumFunctionOnSet(value, hs \ quoted) = 0
      BY <1>6, <3>2, SumOfNothing
    <3>5. SumFunctionOnSet(value, quoted \cup (hs \ quoted)) =
          SumFunctionOnSet(value, quoted) + SumFunctionOnSet(value, hs \ quoted)
      <4>1. quoted \in SUBSET hs /\ hs \ quoted \in SUBSET hs /\ quoted \cap (hs \ quoted) = {}
        BY <1>6
      <4>2. \A h \in hs : value[h] \in Int
        BY <1>5
      <4> QED BY <4>1, <4>2, SumApart
    <3>6. quoted \cup (hs \ quoted) = hs
      BY <1>6
    <3>7. SumFunctionOnSet(value, hs) = total
      <4>1. total = SumFunctionOnSet(value, quoted) /\ total \in Int
        BY <1>7, <1>8
      <4>2. SumFunctionOnSet(value, hs) = total + 0
        BY <3>4, <3>5, <3>6, <4>1, Zenon
      <4> QED BY <4>1, <4>2
    <3>8. SumFunctionOnSet(one, hs) = SumFunctionOnSet(value, hs)
      BY <1>5, <3>3, SumAlike
    <3> QED BY <2>1, <3>7, <3>8
  <2>2. CASE ~(total > 0)
    <3>1. \A h \in hs : one[h] = 1
      BY <2>2
    <3> HIDE DEF one
    <3> QED BY <2>2, <3>1, SumOfOnes
  <2> QED BY <2>1, <2>2
<1>10. \A h \in hs : made[h] = <<h, <<one[h], whole>>>> /\ made[h] \in weights
  BY <1>1
<1>11. \A h \in hs : first[made[h]] = one[h]
  BY <1>10
<1>12. Total(weights, LAMBDA v : v[2][1]) = SumFunctionOnSet(first, weights)
  BY DEF Total
<1>13. \A w \in weights : w[2][2] = whole
  BY <1>1
<1> HIDE DEF made, one, whole, first, weights
<1>14. SumFunctionOnSet(first, weights) = SumFunctionOnSet(one, hs)
  BY <1>2, <1>3, <1>11, SumOfMade, SMTT(30)
<1>15. \A w \in weights : Total(weights, LAMBDA v : v[2][1]) = w[2][2]
  BY <1>9, <1>12, <1>13, <1>14
<1> QED BY <1>15 DEF weights

LEMMA ActivesShow ==
  ASSUME NEW positions \in Portfolios \cup {{}}, NEW quotes \in [FigureIds -> Nat],
         NEW failed \in BOOLEAN
  PROVE  LET as == Actives(positions, quotes, failed) IN
         /\ IsFiniteSet(as)
         /\ \A a \in as :
              /\ a.p \in Others(positions) /\ a = ActiveItem(a.p, quotes[a.p.id], failed)
              /\ a.pnl \in Int
              /\ LET r == PositionRow(a, quotes[a.p.id]) IN
                 r.p = a.p /\ r.status = a.status /\ (~failed => r.pnl = a.pnl)
         /\ \A f : (\A a \in as : f[a] \in Int) =>
              SumFunctionOnSet(f, as) =
              SumFunctionOnSet([p \in Others(positions) |-> f[ActiveItem(p, quotes[p.id], failed)]],
                               Others(positions))
<1> DEFINE as == Actives(positions, quotes, failed)
           A == Others(positions)
           made == [p \in A |-> ActiveItem(p, quotes[p.id], failed)]
<1>1. as = {made[p] : p \in A}
  BY DEF Actives, Others
<1>2. ASSUME NEW p \in A
      PROVE  /\ p \in positions /\ quotes[p.id] \in Nat
             /\ made[p] = ActiveItem(p, quotes[p.id], failed)
  BY PositionTyped DEF Others
<1>3. ASSUME NEW p \in A
      PROVE  /\ made[p].p = p /\ made[p].pnl \in Int
             /\ LET r == PositionRow(made[p], quotes[p.id]) IN
                r.p = p /\ r.status = made[p].status /\ (~failed => r.pnl = made[p].pnl)
  <2> HIDE DEF made, A
  <2>1. p \in positions /\ quotes[p.id] \in Nat
    BY <1>2
  <2> QED BY <1>2, <2>1, ActiveShows
<1>4. \A p, q \in A : made[p] = made[q] => p = q
  <2> HIDE DEF made, A
  <2> QED BY <1>3
<1>5. IsFiniteSet(A)
  BY SamePosition, FS_Subset DEF Others
<1> HIDE DEF as, A, made
<1>6. IsFiniteSet(as)
  BY <1>1, <1>5, MadeOfFinite
<1>7. ASSUME NEW f, \A a \in as : f[a] \in Int
      PROVE  SumFunctionOnSet(f, as) =
             SumFunctionOnSet([p \in A |-> f[ActiveItem(p, quotes[p.id], failed)]], A)
  <2> DEFINE g == [p \in A |-> f[ActiveItem(p, quotes[p.id], failed)]]
  <2>1. \A p \in A : f[made[p]] \in Int /\ g[p] = f[made[p]]
    BY <1>1, <1>2, <1>7
  <2> HIDE DEF g
  <2>2. SumFunctionOnSet(f, as) = SumFunctionOnSet(g, A)
    BY <1>1, <1>4, <1>5, <2>1, SumOfMade
  <2> QED BY <2>2 DEF g
<1>8. ASSUME NEW a \in as
      PROVE  /\ a.p \in A /\ a = ActiveItem(a.p, quotes[a.p.id], failed) /\ a.pnl \in Int
             /\ LET r == PositionRow(a, quotes[a.p.id]) IN
                r.p = a.p /\ r.status = a.status /\ (~failed => r.pnl = a.pnl)
  BY <1>1, <1>2, <1>3
<1> QED BY <1>6, <1>7, <1>8 DEF as, A

LEMMA SumSplit ==
  ASSUME NEW S, IsFiniteSet(S), NEW f, \A x \in S : f[x] \in Int, NEW A \in SUBSET S
  PROVE  SumFunctionOnSet(f, S) = SumFunctionOnSet(f, A) + SumFunctionOnSet(f, S \ A)
<1>1. S \ A \in SUBSET S /\ A \cap (S \ A) = {} /\ A \cup (S \ A) = S
  OBVIOUS
<1> DEFINE B == S \ A
<1> HIDE DEF B
<1>2. B \in SUBSET S /\ A \cap B = {}
  BY <1>1 DEF B
<1>3. SumFunctionOnSet(f, A \cup B) = SumFunctionOnSet(f, A) + SumFunctionOnSet(f, B)
  BY <1>2, SumApart
<1>4. A \cup B = S
  BY <1>1 DEF B
<1> QED BY <1>3, <1>4, Zenon DEF B

\* The strip of the table is the header's profit without the positions that have no quote.
LEMMA StripIsHeader ==
  ASSUME NEW positions \in Portfolios \cup {{}}, NEW quotes \in [FigureIds -> Nat]
  PROVE  LET as == Actives(positions, quotes, FALSE)
             rows == {PositionRow(a, quotes[a.p.id]) : a \in as} IN
         SegmentStats(rows, "ALL").pnl \in
           {Unknown, Total(as, LAMBDA a : a.pnl)
                     - Total({a \in as : a.status = "UNAVAILABLE"}, LAMBDA a : a.pnl)}
<1> DEFINE as == Actives(positions, quotes, FALSE)
           made == [a \in as |-> PositionRow(a, quotes[a.p.id])]
           rows == {PositionRow(a, quotes[a.p.id]) : a \in as}
           left == {a \in as : a.status = "UNAVAILABLE"}
           kept == as \ left
           counted == {r \in rows : RowKnown(r)}
           pnl == [a \in as |-> a.pnl]
           rowPnl == [r \in counted |-> r.pnl]
           strip == SegmentStats(rows, "ALL").pnl
           known == \A r \in rows : r.avail /\ r.p.status # "STALE"
<1>1. /\ IsFiniteSet(as)
      /\ \A a \in as : /\ a.p \in Others(positions) /\ a = ActiveItem(a.p, quotes[a.p.id], FALSE)
                       /\ a.pnl \in Int /\ made[a].p = a.p /\ made[a].status = a.status
                       /\ made[a].pnl = a.pnl
  <2> HIDE DEF as
  <2>1. IsFiniteSet(as) /\ \A a \in as :
           /\ a.p \in Others(positions) /\ a = ActiveItem(a.p, quotes[a.p.id], FALSE)
           /\ a.pnl \in Int
           /\ LET r == PositionRow(a, quotes[a.p.id]) IN
              r.p = a.p /\ r.status = a.status /\ r.pnl = a.pnl
    BY ActivesShow DEF as
  <2> QED BY <2>1
<1>2. {r \in rows : InSegment(r, "ALL")} = rows
  BY DEF InSegment
<1>3. strip = IF known THEN SumFunctionOnSet(rowPnl, counted) ELSE Unknown
  BY <1>2 DEF SegmentStats, Total
<1>4. /\ Total(as, LAMBDA a : a.pnl) = SumFunctionOnSet(pnl, as)
      /\ Total(left, LAMBDA a : a.pnl) = SumFunctionOnSet([a \in left |-> a.pnl], left)
  BY DEF Total
<1>5. rows = {made[a] : a \in as}
  OBVIOUS
<1>6. \A a \in as : pnl[a] = a.pnl /\ pnl[a] \in Int
  BY <1>1
<1>7. left \subseteq as /\ kept \subseteq as /\ left \cap kept = {} /\ left \cup kept = as
  OBVIOUS
<1>8. SumFunctionOnSet([a \in left |-> a.pnl], left) = SumFunctionOnSet(pnl, left)
  <2> DEFINE part == [a \in left |-> a.pnl]
  <2>1. IsFiniteSet(left) /\ \A a \in left : pnl[a] \in Int /\ part[a] = pnl[a]
    BY <1>1, <1>6, FS_Subset
  <2> HIDE DEF part, left, pnl
  <2>2. SumFunctionOnSet(part, left) = SumFunctionOnSet(pnl, left)
    BY <2>1, SumAlike
  <2> QED BY <2>2 DEF part
<1>9. ASSUME known PROVE SumFunctionOnSet(rowPnl, counted) = SumFunctionOnSet(pnl, kept)
  <2>1. counted = {made[a] : a \in kept}
    <3>1. \A a \in as : RowKnown(made[a]) <=> a \in kept
      <4>1. \A a \in as : made[a].avail
        BY <1>9
      <4>2. \A a \in as : RowKnown(made[a]) <=> made[a].status # "UNAVAILABLE"
        BY <4>1 DEF RowKnown
      <4>3. \A a \in as : a \in kept <=> a.status # "UNAVAILABLE"
        OBVIOUS
      <4> HIDE DEF as, made, kept
      <4> QED BY <1>1, <4>2, <4>3, ZenonT(60)
    <3>2. counted = {r \in {made[a] : a \in as} : RowKnown(r)}
      OBVIOUS
    <3> HIDE DEF as, made, kept, counted, rows
    <3> QED BY <1>7, <3>1, <3>2
  <2>2. \A a, b \in kept : made[a] = made[b] => a = b
    <3> HIDE DEF made, as, kept
    <3> SUFFICES ASSUME NEW a \in as, NEW b \in as, made[a] = made[b] PROVE a = b
      BY <1>7
    <3>1. a.p = b.p
      BY <1>1
    <3>2. a = ActiveItem(a.p, quotes[a.p.id], FALSE) /\ b = ActiveItem(b.p, quotes[b.p.id], FALSE)
      BY <1>1, Zenon
    <3> QED BY <3>1, <3>2, Zenon
  <2>3. \A a \in kept : rowPnl[made[a]] \in Int /\ pnl[a] = rowPnl[made[a]]
    BY <1>1, <1>6, <1>7, <2>1
  <2>4. IsFiniteSet(kept)
    BY <1>1, <1>7, FS_Subset
  <2> HIDE DEF rowPnl, pnl, kept, counted, made
  <2> QED BY <2>1, <2>2, <2>3, <2>4, SumOfMade
<1> HIDE DEF as, left, kept, pnl, rowPnl, counted, strip, known, rows, made
<1>10. SumFunctionOnSet(pnl, as) = SumFunctionOnSet(pnl, left) + SumFunctionOnSet(pnl, kept)
  <2>1. \A a \in as : pnl[a] \in Int
    BY <1>6
  <2>2. left \in SUBSET as /\ kept \in SUBSET as
    BY <1>7
  <2>3. IsFiniteSet(as)
    BY <1>1
  <2>4. kept = as \ left
    BY DEF kept
  <2> QED BY <2>1, <2>2, <2>3, <2>4, SumSplit
<1>11. /\ SumFunctionOnSet(pnl, left) \in Int /\ SumFunctionOnSet(pnl, kept) \in Int
       /\ SumFunctionOnSet(pnl, as) \in Int
  <2>1. \A a \in as : pnl[a] \in Int
    BY <1>6
  <2> QED BY <1>1, <1>7, <2>1, SumOfPart
<1>12. SumFunctionOnSet(pnl, kept) = SumFunctionOnSet(pnl, as) - SumFunctionOnSet(pnl, left)
  BY <1>10, <1>11
<1>13. strip \in {Unknown, Total(as, LAMBDA a : a.pnl) - Total(left, LAMBDA a : a.pnl)}
  BY <1>3, <1>4, <1>8, <1>9, <1>12
<1> QED BY <1>13 DEF strip, left, as, rows

\* Without a live price and with some quote of each position, the server's profit is that
\* of the page's two tabs and a part of a paisa a share that the average was rounded by.
LEMMA ServerIsPage ==
  ASSUME NEW positions \in Portfolios \cup {{}}, \A p \in positions : p.status # "UNAVAILABLE",
         NEW quotes \in [FigureIds -> Nat], \A id \in FigureIds : quotes[id] = 0
  PROVE  LET hs == Holdings(positions, quotes, FALSE)
             as == Actives(positions, quotes, FALSE) IN
         Total(positions, ServedPnl)
           - (Total(hs, LAMBDA h : h.value) - Total(hs, LAMBDA h : h.invested))
           - Total(as, LAMBDA a : a.pnl)
         \in 0..Total(hs, LAMBDA h : h.qty - 1)
<1> DEFINE hs == Holdings(positions, quotes, FALSE)
           as == Actives(positions, quotes, FALSE)
           H == Held(positions)
           A == Others(positions)
           served == [p \in positions |-> ServedPnl(p)]
           value == [p \in H |-> Holding(p, 0, FALSE).value]
           cost == [p \in H |-> p.cost]
           shares == [p \in H |-> p.qty - 1]
           rest == [p \in H |-> ServedPnl(p) - Holding(p, 0, FALSE).value + p.cost]
           active == [p \in A |-> ActiveItem(p, 0, FALSE).pnl]
<1>1. /\ IsFiniteSet(positions) /\ H \subseteq positions /\ A \subseteq positions
      /\ H \cap A = {} /\ H \cup A = positions /\ IsFiniteSet(H) /\ IsFiniteSet(A)
  <2>1. IsFiniteSet(positions)
    BY SamePosition
  <2>2. H \subseteq positions /\ A \subseteq positions
    BY DEF Held, Others
  <2>3. \A p \in positions : p.qty \in Int \ {0}
    BY PositionTyped
  <2>4. H \cap A = {} /\ H \cup A = positions
    BY <2>3 DEF Held, Others
  <2> QED BY <2>1, <2>2, <2>4, FS_Subset
<1>2. \A p \in positions : quotes[p.id] = 0
  BY PositionTyped
<1>3. \A p \in positions : served[p] \in Int
  BY ServerAgrees
<1>4. ASSUME NEW p \in H
      PROVE  /\ value[p] \in Int /\ cost[p] \in Int /\ shares[p] \in Int /\ rest[p] \in Int
             /\ 0 <= rest[p] /\ rest[p] <= shares[p] /\ served[p] \in Int
             /\ served[p] + cost[p] = value[p] + rest[p]
             /\ Holding(p, 0, FALSE).invested = p.cost /\ Holding(p, 0, FALSE).qty = p.qty
  <2>1. p \in positions /\ p.qty > 0 /\ p.qty \in Int /\ p.cost \in Int
    BY <1>1, PositionTyped DEF Held
  <2>2. /\ Holding(p, 0, FALSE).value \in Int /\ Holding(p, 0, FALSE).invested = p.cost
        /\ Holding(p, 0, FALSE).qty = p.qty
    <3>1. 0 \in Nat /\ FALSE \in BOOLEAN
      OBVIOUS
    <3>2. LET h == Holding(p, 0, FALSE) IN
          /\ h.id = p.id /\ h.qty = p.qty /\ h.invested = p.cost
          /\ h.value \in Nat /\ h.invested \in Nat /\ h.pnl \in Int
      BY <2>1, <3>1, HoldingShows, Zenon
    <3> DEFINE h == Holding(p, 0, FALSE)
    <3>3. h.qty = p.qty /\ h.invested = p.cost /\ h.value \in Nat
      BY <3>2
    <3> HIDE DEF h
    <3>4. h.value \in Int
      BY <3>3
    <3> QED BY <3>3, <3>4, Zenon DEF h
  <2>3. ServedPnl(p) \in Int /\ ServedPnl(p) - Holding(p, 0, FALSE).value + p.cost \in 0..(p.qty - 1)
    BY <2>1, ServerAgrees
  <2>4. /\ served[p] = ServedPnl(p) /\ value[p] = Holding(p, 0, FALSE).value /\ cost[p] = p.cost
        /\ shares[p] = p.qty - 1 /\ rest[p] = ServedPnl(p) - Holding(p, 0, FALSE).value + p.cost
    BY <2>1
  <2> DEFINE worth == Holding(p, 0, FALSE).value
             gain == ServedPnl(p)
             qty == p.qty
             paid == p.cost
  <2>5. /\ qty \in Int /\ paid \in Int /\ worth \in Int /\ gain \in Int
        /\ gain - worth + paid \in 0..(qty - 1)
        /\ served[p] = gain /\ value[p] = worth /\ cost[p] = paid
        /\ shares[p] = qty - 1 /\ rest[p] = gain - worth + paid
    BY <2>1, <2>2, <2>3, <2>4
  <2> HIDE DEF served, value, cost, shares, rest, worth, gain, qty, paid
  <2>6. /\ value[p] \in Int /\ cost[p] \in Int /\ shares[p] \in Int /\ served[p] \in Int
        /\ rest[p] \in Int /\ 0 <= rest[p] /\ rest[p] <= shares[p]
    BY <2>5
  <2>7. served[p] + cost[p] = value[p] + rest[p]
    BY <2>5
  <2> QED BY <2>2, <2>6, <2>7
<1>5. \A p \in A : active[p] \in Int /\ served[p] = active[p]
  <2>1. \A p \in A : p \in positions
    BY <1>1
  <2> QED BY <2>1, ServerAgrees
<1>6. Total(positions, ServedPnl) = SumFunctionOnSet(served, positions)
  BY DEF Total
<1>7. /\ Total(hs, LAMBDA h : h.value) = SumFunctionOnSet(value, H)
      /\ Total(hs, LAMBDA h : h.invested) = SumFunctionOnSet(cost, H)
      /\ Total(hs, LAMBDA h : h.qty - 1) = SumFunctionOnSet(shares, H)
  <2> DEFINE made == [p \in H |-> Holding(p, 0, FALSE)]
             v == [h \in hs |-> h.value]
             i == [h \in hs |-> h.invested]
             q == [h \in hs |-> h.qty - 1]
  <2>1. hs = {made[p] : p \in H}
    BY <1>1, <1>2 DEF Holdings, Held
  <2>2. \A p \in H : made[p].id = p.id
    BY DEF Holding
  <2>3. \A p, r \in H : made[p] = made[r] => p = r
    <3> HIDE DEF made, H
    <3> QED BY <1>1, <2>2, SamePosition
  <2>4. \A p \in H : v[made[p]] \in Int /\ value[p] = v[made[p]]
    BY <1>4, <2>1
  <2>5. \A p \in H : i[made[p]] \in Int /\ cost[p] = i[made[p]]
    BY <1>4, <2>1
  <2>6. \A p \in H : q[made[p]] \in Int /\ shares[p] = q[made[p]]
    BY <1>4, <2>1
  <2>7. /\ Total(hs, LAMBDA h : h.value) = SumFunctionOnSet(v, hs)
        /\ Total(hs, LAMBDA h : h.invested) = SumFunctionOnSet(i, hs)
        /\ Total(hs, LAMBDA h : h.qty - 1) = SumFunctionOnSet(q, hs)
    BY DEF Total
  <2> HIDE DEF made, v, i, q, hs, H, value, cost, shares
  <2> IsFiniteSet(H)
    BY <1>1
  <2>8. SumFunctionOnSet(v, {made[p] : p \in H}) = SumFunctionOnSet(value, H)
    BY <2>3, <2>4, SumOfMade
  <2>9. SumFunctionOnSet(i, {made[p] : p \in H}) = SumFunctionOnSet(cost, H)
    BY <2>3, <2>5, SumOfMade
  <2>10. SumFunctionOnSet(q, {made[p] : p \in H}) = SumFunctionOnSet(shares, H)
    BY <2>3, <2>6, SumOfMade
  <2> QED BY <2>1, <2>7, <2>8, <2>9, <2>10
<1>8. Total(as, LAMBDA a : a.pnl) = SumFunctionOnSet(active, A)
  <2> DEFINE made == [p \in A |-> ActiveItem(p, 0, FALSE)]
             f == [a \in as |-> a.pnl]
  <2>1. as = {made[p] : p \in A}
    BY <1>1, <1>2 DEF Actives, Others
  <2>2. \A p \in A : made[p].p = p
    BY DEF ActiveItem
  <2>3. \A p, r \in A : made[p] = made[r] => p = r
    BY <2>2
  <2>4. \A p \in A : f[made[p]] \in Int /\ active[p] = f[made[p]]
    BY <1>5, <2>1
  <2>5. Total(as, LAMBDA a : a.pnl) = SumFunctionOnSet(f, as)
    BY DEF Total
  <2> HIDE DEF made, f, as, A, active
  <2> IsFiniteSet(A)
    BY <1>1
  <2>6. SumFunctionOnSet(f, {made[p] : p \in A}) = SumFunctionOnSet(active, A)
    BY <2>3, <2>4, SumOfMade
  <2> QED BY <2>1, <2>5, <2>6
<1> HIDE DEF hs, as, H, A, served, value, cost, shares, rest, active
<1>9. SumFunctionOnSet(served, positions) = SumFunctionOnSet(served, H) + SumFunctionOnSet(served, A)
  <2>1. H \in SUBSET positions /\ A \in SUBSET positions
    BY <1>1
  <2>2. SumFunctionOnSet(served, H \cup A) = SumFunctionOnSet(served, H) + SumFunctionOnSet(served, A)
    BY <1>1, <1>3, <2>1, SumApart
  <2> QED BY <1>1, <2>2
<1>10. SumFunctionOnSet(served, A) = SumFunctionOnSet(active, A)
  <2>1. \A p \in A : active[p] \in Int /\ served[p] = active[p]
    BY <1>5
  <2> QED BY <1>1, <2>1, SumAlike
<1>11. SumFunctionOnSet(served, H) + SumFunctionOnSet(cost, H)
       = SumFunctionOnSet(value, H) + SumFunctionOnSet(rest, H)
  <2>1. \A p \in H : served[p] \in Int /\ cost[p] \in Int /\ value[p] \in Int /\ rest[p] \in Int
    BY <1>4
  <2>2. \A p \in H : served[p] + cost[p] = value[p] + rest[p]
    BY <1>4
  <2> QED BY <1>1, <2>1, <2>2, SumOfBalanced
<1>12. SumFunctionOnSet(rest, H) \in 0..SumFunctionOnSet(shares, H)
  <2>1. \A p \in H : rest[p] \in Int /\ shares[p] \in Int /\ 0 <= rest[p] /\ rest[p] <= shares[p]
    BY <1>4
  <2> QED BY <1>1, <2>1, SumOfBounded
<1>13. /\ SumFunctionOnSet(served, H) \in Int /\ SumFunctionOnSet(cost, H) \in Int
       /\ SumFunctionOnSet(value, H) \in Int /\ SumFunctionOnSet(active, A) \in Int
       /\ SumFunctionOnSet(rest, H) \in Int /\ SumFunctionOnSet(shares, H) \in Int
  <2>1. (\A p \in H : served[p] \in Int) /\ (\A p \in H : cost[p] \in Int)
        /\ (\A p \in H : value[p] \in Int) /\ (\A p \in H : rest[p] \in Int)
        /\ (\A p \in H : shares[p] \in Int) /\ (\A p \in A : active[p] \in Int)
    BY <1>4, <1>5
  <2> QED BY <1>1, <2>1, SumStep
<1> DEFINE s == SumFunctionOnSet(served, H)
           c == SumFunctionOnSet(cost, H)
           v == SumFunctionOnSet(value, H)
           r == SumFunctionOnSet(rest, H)
           n == SumFunctionOnSet(shares, H)
           x == SumFunctionOnSet(active, A)
<1>14. /\ s \in Int /\ c \in Int /\ v \in Int /\ r \in Int /\ n \in Int /\ x \in Int
       /\ s + c = v + r /\ r \in 0..n
  BY <1>11, <1>12, <1>13
<1>15. /\ Total(positions, ServedPnl) = s + x /\ Total(hs, LAMBDA h : h.value) = v
       /\ Total(hs, LAMBDA h : h.invested) = c /\ Total(hs, LAMBDA h : h.qty - 1) = n
       /\ Total(as, LAMBDA a : a.pnl) = x
  BY <1>6, <1>7, <1>8, <1>9, <1>10, Zenon
<1> HIDE DEF s, c, v, r, n, x
<1>16. (s + x) - (v - c) - x \in 0..n
  BY <1>14
<1>17. Total(positions, ServedPnl)
         - (Total(hs, LAMBDA h : h.value) - Total(hs, LAMBDA h : h.invested))
         - Total(as, LAMBDA a : a.pnl) \in 0..Total(hs, LAMBDA h : h.qty - 1)
  BY <1>15, <1>16
<1> QED BY <1>17 DEF hs, as

\* What the header says when it says anything.
LEMMA HeadlineSays ==
  ASSUME NEW positions, NEW quotes, NEW failed \in BOOLEAN, NEW tab,
         Headline(positions, quotes, failed, tab).known
  PROVE  LET hs == Holdings(positions, quotes, failed)
             as == Actives(positions, quotes, failed)
             head == Headline(positions, quotes, failed, tab) IN
         /\ ~failed
         /\ tab = "POSITIONS" => head.pnl = Total(as, LAMBDA a : a.pnl)
         /\ tab = "HOLDINGS" =>
              /\ head.value = Total(hs, LAMBDA h : h.value)
              /\ head.pnl = Total(hs, LAMBDA h : h.value) - Total(hs, LAMBDA h : h.invested)
BY DEF Headline

LEMMA FiguresTellTheSame == FiguresInv => FiguresAgree
<1> SUFFICES ASSUME FiguresInv PROVE FiguresAgree
  OBVIOUS
<1> DEFINE ps == figAnswer.positions
           failed == figAnswer.failed
           hs == Holdings(ps, figQuotes, failed)
           as == Actives(ps, figQuotes, failed)
<1>1. /\ ps \in Portfolios \cup {{}} /\ failed \in BOOLEAN /\ figQuotes \in [FigureIds -> Nat]
      /\ figAnswer.loaded \in BOOLEAN
  BY DEF FiguresInv, Answers
<1>2. /\ ShownHoldings = hs /\ ShownActives = as
      /\ \A tab : ShownHeadline(tab) = Headline(ps, figQuotes, failed, tab)
  BY DEF ShownHoldings, ShownActives, ShownHeadline
<1>3. /\ IsFiniteSet(hs)
      /\ \A h \in hs : /\ h.value \in Nat /\ h.invested \in Nat /\ h.pnl \in Int
                       /\ h.avail => ~failed /\ h.pnl = h.value - h.invested
                       /\ ~h.avail /\ ~failed => h.value = 0
  <2> HIDE DEF ps, failed
  <2> QED BY <1>1, HoldingsShow
<1>4. ASSUME HeadlineKnown, Body = "POSITIONS", figView.segment = "ALL"
      PROVE  PositionsBody.stats.pnl \in
               {Unknown, ShownHeadline("POSITIONS").pnl
                  - Total({a \in ShownActives : a.status = "UNAVAILABLE"}, LAMBDA a : a.pnl)}
  <2>1. figView.tab = "POSITIONS"
    BY <1>4 DEF Body
  <2>2. Headline(ps, figQuotes, failed, "POSITIONS").known
    BY <1>2, <1>4, <2>1 DEF HeadlineKnown
  <2>3. failed = FALSE /\ ShownHeadline("POSITIONS").pnl = Total(as, LAMBDA a : a.pnl)
    <3> HIDE DEF ps, failed
    <3> QED BY <1>1, <1>2, <2>2, HeadlineSays DEF as
  <2>4. PositionsBody.stats.pnl =
        SegmentStats({PositionRow(a, figQuotes[a.p.id]) : a \in Actives(ps, figQuotes, FALSE)}, "ALL").pnl
    BY <1>2, <1>4, <2>3 DEF PositionsBody
  <2>5. SegmentStats({PositionRow(a, figQuotes[a.p.id]) : a \in Actives(ps, figQuotes, FALSE)}, "ALL").pnl
        \in {Unknown, Total(Actives(ps, figQuotes, FALSE), LAMBDA a : a.pnl)
               - Total({a \in Actives(ps, figQuotes, FALSE) : a.status = "UNAVAILABLE"}, LAMBDA a : a.pnl)}
    <3> HIDE DEF ps
    <3> QED BY <1>1, StripIsHeader
  <2>6. as = Actives(ps, figQuotes, FALSE)
    BY <2>3
  <2> HIDE DEF ps, failed, as
  <2> QED BY <1>2, <2>3, <2>4, <2>5, <2>6
<1>5. ASSUME HeadlineKnown, Body = "HOLDINGS", figView.sector = "ALL"
      PROVE  /\ HoldingsBody.totals.value \in {Unknown, ShownHeadline("HOLDINGS").value}
             /\ (\A h \in ShownHoldings : h.avail) =>
                  HoldingsBody.totals.pnl \in {Unknown, ShownHeadline("HOLDINGS").pnl}
  <2>1. figView.tab = "HOLDINGS"
    BY <1>5 DEF Body
  <2>2. Headline(ps, figQuotes, failed, "HOLDINGS").known
    BY <1>2, <1>5, <2>1 DEF HeadlineKnown
  <2>3. /\ ShownHeadline("HOLDINGS").value = Total(hs, LAMBDA h : h.value)
        /\ ShownHeadline("HOLDINGS").pnl =
             Total(hs, LAMBDA h : h.value) - Total(hs, LAMBDA h : h.invested)
    <3> HIDE DEF ps, failed
    <3> QED BY <1>1, <1>2, <2>2, HeadlineSays, ZenonT(60) DEF hs
  <2>4. HoldingsBody.totals = HoldingTotals(hs)
    <3>1. {h \in ShownHoldings : figView.sector = "ALL" \/ h.id \in Sectors[figView.sector]} = hs
      <4> HIDE DEF hs
      <4> QED BY <1>2, <1>5
    <3> HIDE DEF hs
    <3> QED BY <3>1 DEF HoldingsBody
  <2> HIDE DEF hs
  <2>5. /\ HoldingTotals(hs).value \in {Unknown, Total(hs, LAMBDA h : h.value)}
        /\ HoldingTotals(hs).pnl \in {Unknown, Total(hs, LAMBDA h : h.pnl)}
    BY DEF HoldingTotals
  <2>6. (\A h \in hs : h.avail) =>
          Total(hs, LAMBDA h : h.pnl) = Total(hs, LAMBDA h : h.value) - Total(hs, LAMBDA h : h.invested)
    BY <1>3, TotalsOfHoldings
  <2> QED BY <1>2, <2>3, <2>4, <2>5, <2>6
<1>6. HeaderMatchesTable
  BY <1>4, <1>5 DEF HeaderMatchesTable
<1>7. WeightsAddUp
  <2> HIDE DEF hs, failed
  <2>1. LET weights == {<<h, Weight(h, hs)>> : h \in hs} IN
        \A w \in weights : Total(weights, LAMBDA v : v[2][1]) = w[2][2]
    BY <1>3, WeightsFill
  <2> QED BY <1>2, <2>1 DEF WeightsAddUp
<1>8. ASSUME ShownSnapshot.pnl # Unknown, \A id \in FigureIds : figQuotes[id] = 0,
             \A page \in {ShownHeadline(tab) : tab \in {"HOLDINGS", "POSITIONS"}} : page.known
      PROVE  ShownSnapshot.pnl - ShownHeadline("HOLDINGS").pnl - ShownHeadline("POSITIONS").pnl
               \in 0..Total(ShownHoldings, LAMBDA h : h.qty - 1)
  <2>1. /\ Headline(ps, figQuotes, failed, "HOLDINGS").known
        /\ Headline(ps, figQuotes, failed, "POSITIONS").known
    BY <1>2, <1>8
  <2>2. /\ failed = FALSE
        /\ ShownHeadline("POSITIONS").pnl = Total(as, LAMBDA a : a.pnl)
        /\ ShownHeadline("HOLDINGS").pnl =
             Total(hs, LAMBDA h : h.value) - Total(hs, LAMBDA h : h.invested)
    <3> HIDE DEF ps, failed
    <3> QED BY <1>1, <1>2, <2>1, HeadlineSays DEF as, hs
  <2>3. /\ \A p \in ps : p.status # "UNAVAILABLE"
        /\ ShownSnapshot.pnl = Total(ps, ServedPnl)
    <3> DEFINE priced == {p \in ps : p.status # "UNAVAILABLE" \/ p.mark > 0}
               known == SnapshotStatus(figAnswer.loaded, ps, failed) # "DEGRADED"
    <3>1. ShownSnapshot.pnl = IF known THEN Total(priced, ServedPnl) ELSE Unknown
      BY DEF ShownSnapshot, Snapshot
    <3>2. known
      BY <1>8, <3>1
    <3>3. \A p \in ps : p.status # "UNAVAILABLE"
      <4> HIDE DEF ps, failed
      <4> QED BY <1>1, <3>2 DEF SnapshotStatus, ServedStatus
    <3>4. priced = ps
      BY <3>3
    <3> HIDE DEF priced, ps, known
    <3> QED BY <3>1, <3>2, <3>3, <3>4
  <2>4. /\ hs = Holdings(ps, figQuotes, FALSE) /\ as = Actives(ps, figQuotes, FALSE)
    BY <2>2
  <2> HIDE DEF ps, failed, hs, as
  <2>5. Total(ps, ServedPnl)
          - (Total(Holdings(ps, figQuotes, FALSE), LAMBDA h : h.value)
             - Total(Holdings(ps, figQuotes, FALSE), LAMBDA h : h.invested))
          - Total(Actives(ps, figQuotes, FALSE), LAMBDA a : a.pnl)
        \in 0..Total(Holdings(ps, figQuotes, FALSE), LAMBDA h : h.qty - 1)
    BY <1>1, <1>8, <2>3, ServerIsPage
  <2> QED BY <1>2, <2>2, <2>3, <2>4, <2>5
<1>9. DashboardMatchesPortfolio
  BY <1>8 DEF DashboardMatchesPortfolio
<1> QED BY <1>6, <1>7, <1>9 DEF FiguresAgree

-----------------------------------------------------------------------------
\* A step of the desk, for each of its parts.

LEMMA DeskSteps ==
  ASSUME [Next]_deskVars
  PROVE  /\ [SubscriptionsNext]_sbVars /\ [MarketFeedNext]_mfVars
         /\ [QuoteHubNext]_hbVars /\ [IntentsNext]_itVars
         /\ [OrdersNext \/ NoteNext]_odVars /\ [WatchlistsNext]_wlVars
         /\ [PriceChartNext]_pcVars /\ [AccountBookNext]_bkVars
         /\ [TradeJournalNext]_jrVars /\ [AccountCardsNext]_acVars /\ [ReviewNext]_rvVars
         /\ [MarketPagesNext]_pgVars /\ [FiguresNext]_figVars
BY DEF Next, deskVars

-----------------------------------------------------------------------------
\* Whatever views, selections and watchlists come and go, on this connection or before it,
\* a connected browser asks for names it wishes for, for fewer only when the limit is
\* reached, and for what is on the page first; and the backend streams these names and no
\* other once it has handled what it was sent.
THEOREM SubscriptionsFollow == DeskSpec => []SubscriptionsFollowViews
<1>1. Init => SubsInv
  BY SubsStart DEF Init
<1>2. SubsInv /\ [Next]_deskVars => SubsInv'
  BY DeskSteps, SubsStep
<1>3. SubsInv => SubscriptionsFollowViews
  BY ScreenComesFirst
<1> QED BY <1>1, <1>2, <1>3, PTL DEF DeskSpec

\* However many names an instrument has, and under whichever it is streamed, answered or
\* polled, nothing stops the polling of it while the store has no fresh quote of it under
\* any of them: a page that is hidden, a reconnection, a stale tick or an answer that is
\* late do not.
THEOREM SuspendedPollingIsFresh == DeskSpec => []SuspendedOnlyWhileFresh
<1>1. Init => FeedInv
  BY FeedStart DEF Init
<1>2. FeedInv /\ [Next]_deskVars => FeedInv'
  BY DeskSteps, FeedStep
<1>3. FeedInv => SuspendedOnlyWhileFresh
  BY SuspendedIsFresh
<1> QED BY <1>1, <1>2, <1>3, PTL DEF DeskSpec

\* Every client the hub serves is fed or dropped.
THEOREM ClientsAreFedOrDropped == DeskSpec => []HubFeedsOrDrops
<1>1. Init => HubInv
  BY HubStart DEF Init
<1>2. HubInv /\ [Next]_deskVars => HubInv'
  BY DeskSteps, HubStep
<1>3. HubInv => HubFeedsOrDrops
  BY DEF HubInv
<1> QED BY <1>1, <1>2, <1>3, PTL DEF DeskSpec

\* However many requests of a name are under way, the next key of a name is made only when
\* the outcome of the one before it has been heard, or when the answer to a request with
\* an older key of the name, whose outcome it tells, took that one out of the storage.
THEOREM KeysAreHeardInTurn == DeskSpec => []NewIntentAfterTerminal
<1>1. Init => KeysInv /\ TicketsInv
  BY KeysStart, TicketsStart DEF Init
<1>2. (KeysInv /\ TicketsInv) /\ [Next]_deskVars => (KeysInv /\ TicketsInv)'
  BY DeskSteps, KeysStep, TicketsStep
<1>3. KeysInv => NewIntentAfterTerminal
  BY OlderKeysHeard
<1> QED BY <1>1, <1>2, <1>3, PTL DEF DeskSpec

\* A ticket that was never told of the execution of its order sends no other, however
\* many requests of a name are under way.
THEOREM UnsureTicketsWait == DeskSpec => TicketPostsOnce
<1>1. Init => KeysInv /\ TicketsInv
  BY KeysStart, TicketsStart DEF Init
<1>2. (KeysInv /\ TicketsInv) /\ [Next]_deskVars => (KeysInv /\ TicketsInv)'
  BY DeskSteps, KeysStep, TicketsStep
<1>3. KeysInv /\ TicketsInv /\ [Next]_deskVars =>
        [\A s \in Slots :
           LET from == itPost'[s].from IN
           itPost[s].phase = "idle" /\ itPost'[s].phase = "sent" =>
             /\ from = "stock" => ~itStock.unsure
             /\ from = "fno" => ~itFno.unsure]_itVars
  BY DeskSteps, PostingTicketIsSure
<1> QED BY <1>1, <1>2, <1>3, PTL DEF DeskSpec, TicketPostsOnce

\* The tables of the orders page and the note of the day show what the backend has.
THEOREM OrdersDeskIsTruthful == DeskSpec => []OrdersDeskTruthful
<1>1. Init => TablesInv /\ NoteInv
  BY OrdersStart DEF Init
<1>2. (TablesInv /\ NoteInv) /\ [Next]_deskVars => (TablesInv /\ NoteInv)'
  BY DeskSteps, TablesStep, NoteStep
<1>3. TablesInv /\ NoteInv => OrdersDeskTruthful
  BY DeskIsTruthful
<1> QED BY <1>1, <1>2, <1>3, PTL DEF DeskSpec

\* A page that is loaded again has the tabs and lists it shows, and once more the list of
\* an older version; and an answer from before a change of the account's list is not the
\* last word on it, unless a request or a call failed or fell on the page's first request.
THEOREM ListsOutliveReloads == DeskSpec => []WatchlistsKept
<1>1. Init => WatchInv
  BY WatchStart DEF Init
<1>2. WatchInv /\ [Next]_deskVars => WatchInv'
  BY DeskSteps, WatchStep
<1>3. WatchInv => WatchlistsKept
  BY ListsAreKept
<1> QED BY <1>1, <1>2, <1>3, PTL DEF DeskSpec

\* The bars and the price beside them tell one story, whatever order the archive, the
\* quotes and the ticks come in and however often the reader changes the chart.
THEOREM ChartIsHonest == DeskSpec => []ChartHonest
<1>1. Init => ChartInv
  BY ChartStart DEF Init
<1>2. ChartInv /\ [Next]_deskVars => ChartInv'
  BY DeskSteps, ChartStep
<1>3. ChartInv => ChartHonest
  BY ChartTellsOneStory
<1> QED BY <1>1, <1>2, <1>3, PTL DEF DeskSpec

\* A statement of any period leads from what it opens with to the balance of the
\* wallet, by its credits and debits and row by row; a row's sign is the way its cash
\* went, no deposit is announced that was not booked, and a reset that is told
\* complete is in the table, unless the table failed or fell on its first request.
THEOREM StatementsBalance == DeskSpec => []BookBalances
<1>1. Init => BookInv
  BY BookStart DEF Init
<1>2. BookInv /\ [Next]_deskVars => BookInv'
  BY DeskSteps, BookStep
<1>3. BookInv => BookBalances
  BY BookIsBalanced
<1> QED BY <1>1, <1>2, <1>3, PTL DEF DeskSpec

\* The journal shows of a trade what was saved of it, unless two saves of the trade were
\* under way together; the equity is what the months made, every listed trade counts for
\* one product, and an accuracy is a percentage that is not zero.
THEOREM JournalStaysTruthful == DeskSpec => []JournalTruthful
<1>1. Init => JournalInv
  BY JournalStart DEF Init
<1>2. JournalInv /\ [Next]_deskVars => JournalInv'
  BY DeskSteps, JournalStep
<1>3. JournalInv => JournalTruthful
  BY JournalIsTruthful
<1> QED BY <1>1, <1>2, <1>3, PTL DEF DeskSpec

\* While the ticket knows the percentages of the settlement, two places that show one
\* fact agree: the figures of the portfolio pages and of the dashboard, the lists, the
\* sectors and the charts of the market, the cards of an account that was reset (unless
\* the reset fell on their first request), and the funds a ticket asks for and the order
\* it places.
THEOREM ScreensTellTheSame == ASSUME TicketRules PROVE DeskSpec => []ScreensAgree
<1> DEFINE Screens == FiguresInv /\ PagesInv /\ CardsInv /\ ReviewInv
<1>1. Init => Screens
  BY FiguresStart, PagesStart, CardsStart, ReviewStart DEF Init
<1>2. Screens /\ [Next]_deskVars => Screens'
  BY DeskSteps, FiguresStep, PagesStep, CardsStep, ReviewStep
<1>3. Screens => ScreensAgree
  BY FiguresTellTheSame, PagesTellTheSame, CardsAreTrue, ReviewIsAgreed DEF ScreensAgree
<1> HIDE DEF Screens
<1> QED BY <1>1, <1>2, <1>3, PTL DEF DeskSpec
=============================================================================
