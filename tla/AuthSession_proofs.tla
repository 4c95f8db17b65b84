------------------------- MODULE AuthSession_proofs -------------------------
(***************************************************************************)
(* The session of a browser for any number of accounts, tabs, requests,    *)
(* sign-ins and lost answers: what the table of refresh sessions, the      *)
(* cookies and the tabs keep true of each other.                           *)
(***************************************************************************)
EXTENDS AuthSession, TLAPS

SessionRows == [user : Users, login : Nat, live : BOOLEAN,
                next : Nat, retry : BOOLEAN, fresh : BOOLEAN]
CallRecords ==
  [phase : {"idle", "sent", "waiting", "refreshed", "resent"}, write : BOOLEAN,
   scope : Scopes, changed : BOOLEAN, access : Nat, refresh : Nat, go : BOOLEAN]
RefreshRecords ==
  [phase : {"idle", "queued", "sent", "arrived"}, scope : Scopes, changed : BOOLEAN,
   row : Nat, answer : {"none", "ok", "denied", "502", "lost"}]
FormRecords ==
  [phase : {"idle", "queued", "sent", "arrived"}, kind : {"login", "logout"},
   user : Scopes, refresh : Nat]

(* The table of refresh sessions: a row belongs to a sign-in that happened, *)
(* a replacement to the account and the sign-in of the row it replaces, an  *)
(* answer kept for a retry names a replacement, and the rows of a sign-in   *)
(* hold one live token.                                                     *)
Chained ==
  \A r \in 1..Len(sessions) :
    /\ sessions[r].login <= Len(sessions)
    /\ sessions[r].retry => sessions[r].next # 0
    /\ sessions[r].next # 0 =>
         /\ sessions[r].next <= Len(sessions)
         /\ sessions[sessions[r].next].user = sessions[r].user
         /\ sessions[sessions[r].next].login = sessions[r].login
OneLive ==
  \A r, q \in 1..Len(sessions) :
    sessions[r].live /\ sessions[q].live /\ sessions[r].login = sessions[q].login => r = q
TableInv == sessions \in Seq(SessionRows) /\ Chained /\ OneLive

(* What holds a token: the cookies, a request, a refresh, a sign-out.  The  *)
(* token was issued, and to the account the holder takes it for.            *)
SoundJar(j, T) ==
  /\ j \in [access : Nat, refresh : Nat, scope : Scopes]
  /\ j.access <= Len(T) /\ j.refresh <= Len(T)
  /\ j.scope # NoUser =>
       /\ j.access # 0 /\ T[j.access].user = j.scope
       /\ j.refresh # 0 /\ T[j.refresh].user = j.scope
SoundCall(c, T) ==
  /\ c \in CallRecords
  /\ c.access <= Len(T)
  /\ c.write /\ c.scope # NoUser /\ c.access # 0 => T[c.access].user = c.scope
SoundRefresh(r, T) ==
  /\ r \in RefreshRecords
  /\ r.row <= Len(T)
  /\ r.row # 0 /\ r.scope # NoUser => T[r.row].user = r.scope
SoundForm(f, T) ==
  /\ f \in FormRecords
  /\ f.refresh <= Len(T)
  /\ f.phase = "queued" => f.kind = "logout"
  /\ f.phase = "sent" /\ f.kind = "login" => f.user \in Users

SoundCalls(calls, T) ==
  calls = [c \in Calls |-> calls[c]] /\ \A c \in Calls : SoundCall(calls[c], T)
SoundRefreshes(refreshes, T) ==
  refreshes = [t \in Tabs |-> refreshes[t]] /\ \A t \in Tabs : SoundRefresh(refreshes[t], T)
SoundForms(forms, T) ==
  forms = [t \in Tabs |-> forms[t]] /\ \A t \in Tabs : SoundForm(forms[t], T)
HoldersInv ==
  /\ SoundJar(jar, sessions) /\ SoundCalls(call, sessions)
  /\ SoundRefreshes(refresh, sessions) /\ SoundForms(form, sessions)

SessionInv ==
  /\ TableInv /\ HoldersInv
  /\ shown \in [Tabs -> Scopes] /\ lock \in Tabs \cup {NoTab} /\ faults \in Nat

UnderWay(p) == p.phase \in {"sent", "arrived"}
LeavingForm(f) == f.kind = "logout" /\ UnderWay(f)
SigningOut(t) == LeavingForm(form[t])
AboutToAnnounce(f) == f.phase = "arrived" /\ f.kind = "login"

(* Only a login that is about to announce itself, or a rotation under the   *)
(* marker of the cookies, excuses a tab that shows another account.         *)
NewsOnItsWay ==
  \A t \in Tabs : shown[t] # jar.scope /\ jar.scope # NoUser =>
    \/ t \in stale
    \/ \E u \in Tabs : AboutToAnnounce(form[u])
    \/ \E u \in Tabs : /\ refresh[u].phase = "arrived" /\ refresh[u].answer = "ok"
                       /\ refresh[u].scope = jar.scope

(* One refresh or sign-out of the whole browser at a time.                  *)
OneAtATime ==
  \A t \in Tabs :
    /\ UnderWay(refresh[t]) \/ SigningOut(t) => lock = t
    /\ ~ (UnderWay(refresh[t]) /\ SigningOut(t))

(* As long as no answer was lost, what is or will be presented is live.     *)
PresentedLive ==
  faults = 0 =>
    /\ jar.refresh # 0 => sessions[jar.refresh].live
    /\ \A t \in Tabs : refresh[t].phase = "sent" /\ refresh[t].row # 0 =>
         sessions[refresh[t].row].live

Orderly == OneAtATime /\ PresentedLive /\ NewsOnItsWay

-----------------------------------------------------------------------------
(* What the operations of internal/auth make of the table.                  *)

(* A row is what a sign-in or a rotation inserts.                          *)
LEMMA NewSessionRow ==
  ASSUME NEW u \in Users, NEW n \in Nat
  PROVE  /\ NewSession(u, n) \in SessionRows
         /\ NewSession(u, n).user = u /\ NewSession(u, n).login = n
         /\ NewSession(u, n).live /\ ~ NewSession(u, n).retry /\ NewSession(u, n).next = 0
BY DEF NewSession, SessionRows

(* A sign-in adds one row and leaves the others alone. *)
LEMMA LoginTable ==
  ASSUME sessions \in Seq(SessionRows), NEW u \in Users
  PROVE  LET T == LoginRows(u) IN
         /\ T \in Seq(SessionRows) /\ Len(T) = Len(sessions) + 1
         /\ \A q \in 1..Len(sessions) : T[q] = sessions[q]
         /\ T[Len(T)] = NewSession(u, Len(sessions) + 1)
<1>1. NewSession(u, Len(sessions) + 1) \in SessionRows
  BY NewSessionRow
<1> QED BY <1>1 DEF LoginRows

(* A rotation revokes the row presented and adds its replacement. *)
LEMMA RotatedTable ==
  ASSUME sessions \in Seq(SessionRows), NEW r \in 1..Len(sessions)
  PROVE  LET T == RotatedRows(r) IN
         /\ T \in Seq(SessionRows) /\ Len(T) = Len(sessions) + 1
         /\ \A q \in 1..Len(sessions) : q # r => T[q] = sessions[q]
         /\ T[r].user = sessions[r].user /\ T[r].login = sessions[r].login
         /\ ~ T[r].live /\ T[r].retry /\ T[r].next = Len(T)
         /\ T[Len(T)] = NewSession(sessions[r].user, sessions[r].login)
<1> DEFINE new == NewSession(sessions[r].user, sessions[r].login)
<1>1. sessions[r] \in SessionRows /\ Len(sessions) \in Nat
  OBVIOUS
<1>2. PICK row : row = [sessions[r] EXCEPT !.live = FALSE, !.retry = TRUE,
                                           !.next = Len(sessions) + 1]
  OBVIOUS
<1> DEFINE T == [sessions EXCEPT ![r] = row]
<1>3. row \in SessionRows
  <2>1. Len(sessions) + 1 \in Nat
    BY <1>1
  <2> QED BY <1>1, <1>2, <2>1, Zenon DEF SessionRows
<1>8. row.user = sessions[r].user /\ row.login = sessions[r].login /\ row.next = Len(sessions) + 1
  BY <1>1, <1>2 DEF SessionRows
<1>9. ~ row.live /\ row.retry
  BY <1>1, <1>2 DEF SessionRows
<1>4. new \in SessionRows
  BY <1>1, NewSessionRow DEF SessionRows
<1>5. RotatedRows(r) = Append(T, new)
  BY <1>2 DEF RotatedRows
<1> HIDE DEF new
<1>6. /\ T \in Seq(SessionRows) /\ Len(T) = Len(sessions) /\ T[r] = row
      /\ \A q \in 1..Len(sessions) : q # r => T[q] = sessions[q]
  BY <1>3
<1> HIDE DEF T
<1>7. /\ Append(T, new) \in Seq(SessionRows) /\ Len(Append(T, new)) = Len(sessions) + 1
      /\ Append(T, new)[Len(sessions) + 1] = new
      /\ \A q \in 1..Len(sessions) : Append(T, new)[q] = T[q]
  BY <1>4, <1>6
<1> QED BY <1>5, <1>6, <1>7, <1>8, <1>9 DEF new

(* Revoking an account's sessions, or one session, only ends rows. *)
LEMMA EndedTable ==
  ASSUME sessions \in Seq(SessionRows), NEW T,
         (\E u \in Users : T = RevokedRows(u)) \/ (\E r \in Nat : T = LogoutRows(r))
  PROVE  /\ T \in Seq(SessionRows) /\ Len(T) = Len(sessions)
         /\ \A q \in 1..Len(sessions) :
              /\ T[q].user = sessions[q].user /\ T[q].login = sessions[q].login
              /\ T[q].next = sessions[q].next /\ T[q].retry = sessions[q].retry
              /\ T[q].live => sessions[q].live
<1> DEFINE End(q) == [sessions[q] EXCEPT !.live = FALSE]
<1>1. ASSUME NEW q \in 1..Len(sessions)
      PROVE  /\ sessions[q] \in SessionRows /\ End(q) \in SessionRows
             /\ End(q).user = sessions[q].user /\ End(q).login = sessions[q].login
             /\ End(q).next = sessions[q].next /\ End(q).retry = sessions[q].retry
             /\ ~ End(q).live
  <2>1. sessions[q] \in SessionRows
    OBVIOUS
  <2>2. PICK e : e = End(q)
    OBVIOUS
  <2>3. e \in SessionRows
    BY <2>1, <2>2, Zenon DEF SessionRows
  <2>4. e.user = sessions[q].user /\ e.login = sessions[q].login /\ e.next = sessions[q].next
        /\ e.retry = sessions[q].retry
    BY <2>1, <2>2 DEF SessionRows
  <2>5. ~ e.live
    BY <2>1, <2>2 DEF SessionRows
  <2> HIDE DEF End
  <2> QED BY <2>1, <2>2, <2>3, <2>4, <2>5
<1> HIDE DEF End
<1> SUFFICES ASSUME TRUE
             PROVE  /\ T \in Seq(SessionRows) /\ Len(T) = Len(sessions)
                    /\ \A q \in 1..Len(sessions) : T[q] = sessions[q] \/ T[q] = End(q)
  BY <1>1
<1>2. CASE \E u \in Users : T = RevokedRows(u)
  <2>1. DOMAIN sessions = 1..Len(sessions)
    OBVIOUS
  <2>2. T \in [1..Len(sessions) -> SessionRows]
    BY <1>1, <1>2, <2>1 DEF RevokedRows, Rows, End
  <2>3. T \in Seq(SessionRows) /\ Len(T) = Len(sessions)
    BY <2>2
  <2>4. \A q \in 1..Len(sessions) : T[q] = sessions[q] \/ T[q] = End(q)
    BY <1>2, <2>1 DEF RevokedRows, Rows, End
  <2> QED BY <2>3, <2>4
<1>3. CASE \E r \in Nat : T = LogoutRows(r)
  <2>1. DOMAIN sessions = 1..Len(sessions)
    OBVIOUS
  <2>2. PICK r \in Nat : T = IF r \in 1..Len(sessions) THEN [sessions EXCEPT ![r] = End(r)]
                             ELSE sessions
    BY <1>3, <2>1 DEF LogoutRows, Rows, End
  <2> QED BY <1>1, <2>2
<1> QED BY <1>2, <1>3

(* What a step does to the table. *)
TableMove ==
  \/ UNCHANGED sessions
  \/ \E u \in Users : sessions' = LoginRows(u)
  \/ \E r \in 1..Len(sessions) : sessions[r].live /\ sessions' = RotatedRows(r)
  \/ \E u \in Users : sessions' = RevokedRows(u)
  \/ \E r \in Nat : sessions' = LogoutRows(r)
  \/ \E r \in 1..Len(sessions) :
        sessions' = [sessions EXCEPT ![r] = [@ EXCEPT !.retry = FALSE]]
  \/ \E r \in 1..Len(sessions) :
        sessions' = [sessions EXCEPT ![r] = [@ EXCEPT !.fresh = FALSE]]

(* Rows stay, and stay the account's and the sign-in's they were.           *)
RowsKept ==
  /\ Len(sessions') >= Len(sessions) /\ Len(sessions) \in Nat /\ Len(sessions') \in Nat
  /\ \A q \in 1..Len(sessions) :
       sessions'[q].user = sessions[q].user /\ sessions'[q].login = sessions[q].login

(* A window that closes changes nothing else of a row. *)
LEMMA WindowTable ==
  ASSUME sessions \in Seq(SessionRows), NEW r \in 1..Len(sessions), NEW T,
         \/ T = [sessions EXCEPT ![r] = [@ EXCEPT !.retry = FALSE]]
         \/ T = [sessions EXCEPT ![r] = [@ EXCEPT !.fresh = FALSE]]
  PROVE  /\ T \in Seq(SessionRows) /\ Len(T) = Len(sessions)
         /\ \A q \in 1..Len(sessions) :
              /\ T[q].user = sessions[q].user /\ T[q].login = sessions[q].login
              /\ T[q].next = sessions[q].next /\ T[q].live = sessions[q].live
              /\ T[q].retry => sessions[q].retry
<1>1. sessions[r] \in SessionRows
  OBVIOUS
<1>2. PICK e : /\ T = [sessions EXCEPT ![r] = e]
               /\ \/ e = [sessions[r] EXCEPT !.retry = FALSE]
                  \/ e = [sessions[r] EXCEPT !.fresh = FALSE]
  OBVIOUS
<1>3. e \in SessionRows
  BY <1>1, <1>2, Zenon DEF SessionRows
<1>4. e.user = sessions[r].user /\ e.login = sessions[r].login /\ e.next = sessions[r].next
      /\ e.live = sessions[r].live
  BY <1>1, <1>2 DEF SessionRows
<1>5. e.retry => sessions[r].retry
  BY <1>1, <1>2 DEF SessionRows
<1> QED BY <1>2, <1>3, <1>4, <1>5

(* However the table moves, replacements stay in their chain and no chain  *)
(* gets a second live token.                                                *)
LEMMA TableStep ==
  ASSUME TableInv, TableMove
  PROVE  TableInv' /\ RowsKept
<1> USE DEF TableInv
<1>0. Len(sessions) \in Nat /\ \A q \in 1..Len(sessions) : sessions[q] \in SessionRows
  OBVIOUS
<1>1. ASSUME sessions' \in Seq(SessionRows), Len(sessions') = Len(sessions),
             \A q \in 1..Len(sessions) :
               /\ sessions'[q].user = sessions[q].user /\ sessions'[q].login = sessions[q].login
               /\ sessions'[q].next = sessions[q].next
               /\ sessions'[q].retry => sessions[q].retry
               /\ sessions'[q].live => sessions[q].live
      PROVE  TableInv' /\ RowsKept
  <2>1. Chained'
    <3> SUFFICES ASSUME NEW r \in 1..Len(sessions)
                 PROVE  /\ sessions'[r].login <= Len(sessions)
                        /\ sessions'[r].retry => sessions'[r].next # 0
                        /\ sessions'[r].next # 0 =>
                             /\ sessions'[r].next <= Len(sessions)
                             /\ sessions'[sessions'[r].next].user = sessions'[r].user
                             /\ sessions'[sessions'[r].next].login = sessions'[r].login
      BY <1>1 DEF Chained
    <3>1. sessions[r].next \in Nat /\ sessions'[r].next = sessions[r].next
      BY <1>0, <1>1 DEF SessionRows
    <3>2. sessions[r].next # 0 => sessions[r].next \in 1..Len(sessions)
      BY <1>0, <3>1 DEF Chained
    <3> QED BY <1>1, <3>1, <3>2 DEF Chained
  <2>2. OneLive'
    BY <1>1 DEF OneLive
  <2> QED BY <1>0, <1>1, <2>1, <2>2 DEF RowsKept
<1>2. ASSUME NEW u \in Users, sessions' = LoginRows(u) PROVE TableInv' /\ RowsKept
  <2> DEFINE n == Len(sessions) + 1
  <2>1. /\ sessions' \in Seq(SessionRows) /\ Len(sessions') = n
        /\ \A q \in 1..Len(sessions) : sessions'[q] = sessions[q]
        /\ sessions'[n] = NewSession(u, n)
    BY <1>2, LoginTable
  <2>2. sessions'[n].login = n /\ sessions'[n].next = 0 /\ ~ sessions'[n].retry
    BY <2>1, NewSessionRow
  <2>3. Chained'
    <3> SUFFICES ASSUME NEW r \in 1..n
                 PROVE  /\ sessions'[r].login <= n
                        /\ sessions'[r].retry => sessions'[r].next # 0
                        /\ sessions'[r].next # 0 =>
                             /\ sessions'[r].next <= n
                             /\ sessions'[sessions'[r].next].user = sessions'[r].user
                             /\ sessions'[sessions'[r].next].login = sessions'[r].login
      BY <2>1 DEF Chained
    <3>1. CASE r = n
      BY <2>1, <2>2, <3>1, <1>0
    <3>2. CASE r # n
      <4>1. r \in 1..Len(sessions) /\ sessions'[r] = sessions[r]
        BY <1>0, <2>1, <3>2
      <4>2. sessions[r].next \in Nat /\ sessions[r].login \in Nat
        BY <1>0, <4>1 DEF SessionRows
      <4>3. sessions[r].next # 0 => sessions[r].next \in 1..Len(sessions)
        BY <1>0, <4>1, <4>2 DEF Chained
      <4> QED BY <1>0, <2>1, <4>1, <4>2, <4>3 DEF Chained
    <3> QED BY <3>1, <3>2
  <2>4. OneLive'
    <3>1. \A r \in 1..Len(sessions) : sessions[r].login <= Len(sessions) /\ sessions[r].login \in Nat
      BY <1>0 DEF Chained, SessionRows
    <3>2. \A r \in 1..n : r = n \/ r \in 1..Len(sessions)
      BY <1>0
    <3> QED BY <1>0, <2>1, <2>2, <3>1, <3>2 DEF OneLive
  <2> QED BY <1>0, <2>1, <2>3, <2>4 DEF RowsKept
<1>3. ASSUME NEW x \in 1..Len(sessions), sessions[x].live, sessions' = RotatedRows(x)
      PROVE  TableInv' /\ RowsKept
  <2> DEFINE n == Len(sessions) + 1
  <2>1. /\ sessions' \in Seq(SessionRows) /\ Len(sessions') = n
        /\ \A q \in 1..Len(sessions) : q # x => sessions'[q] = sessions[q]
        /\ sessions'[x].user = sessions[x].user /\ sessions'[x].login = sessions[x].login
        /\ ~ sessions'[x].live /\ sessions'[x].next = n
        /\ sessions'[n] = NewSession(sessions[x].user, sessions[x].login)
    BY <1>3, RotatedTable
  <2>2. /\ sessions'[n].user = sessions[x].user /\ sessions'[n].login = sessions[x].login
        /\ sessions'[n].next = 0 /\ ~ sessions'[n].retry
    <3>1. sessions[x].user \in Users /\ sessions[x].login \in Nat
      BY <1>0 DEF SessionRows
    <3> QED BY <2>1, <3>1, NewSessionRow
  <2>3. RowsKept
    BY <1>0, <2>1 DEF RowsKept
  <2>4. Chained'
    <3> SUFFICES ASSUME NEW r \in 1..n
                 PROVE  /\ sessions'[r].login <= n
                        /\ sessions'[r].retry => sessions'[r].next # 0
                        /\ sessions'[r].next # 0 =>
                             /\ sessions'[r].next <= n
                             /\ sessions'[sessions'[r].next].user = sessions'[r].user
                             /\ sessions'[sessions'[r].next].login = sessions'[r].login
      BY <2>1 DEF Chained
    <3>0. sessions[x].login <= Len(sessions) /\ sessions[x].login \in Nat
      BY <1>0 DEF Chained, SessionRows
    <3>1. CASE r = n
      BY <2>1, <2>2, <3>0, <3>1, <1>0
    <3>2. CASE r = x
      BY <1>0, <2>1, <2>2, <3>0, <3>2
    <3>3. CASE r # n /\ r # x
      <4>1. r \in 1..Len(sessions) /\ sessions'[r] = sessions[r]
        BY <1>0, <2>1, <3>3
      <4>2. sessions[r].next \in Nat /\ sessions[r].login \in Nat
        BY <1>0, <4>1 DEF SessionRows
      <4>3. sessions[r].next # 0 => sessions[r].next \in 1..Len(sessions)
        BY <1>0, <4>1, <4>2 DEF Chained
      <4> QED BY <1>0, <2>1, <2>3, <4>1, <4>2, <4>3 DEF Chained, RowsKept
    <3> QED BY <3>1, <3>2, <3>3
  <2>5. OneLive'
    <3>1. \A r \in 1..n : r = n \/ r \in 1..Len(sessions)
      BY <1>0
    <3>2. \A r \in 1..Len(sessions) :
             sessions'[r].live => r # x /\ sessions[r].live /\ sessions'[r].login = sessions[r].login
      BY <2>1
    <3>3. \A r \in 1..Len(sessions) : sessions'[r].live => sessions'[r].login # sessions'[n].login
      BY <1>3, <2>2, <3>2 DEF OneLive
    <3> QED BY <2>1, <3>1, <3>2, <3>3 DEF OneLive
  <2> QED BY <2>1, <2>3, <2>4, <2>5
<1>4. ASSUME (\E u \in Users : sessions' = RevokedRows(u)) \/ (\E r \in Nat : sessions' = LogoutRows(r))
      PROVE  TableInv' /\ RowsKept
  BY <1>1, <1>4, EndedTable
<1>5. ASSUME NEW r \in 1..Len(sessions),
             \/ sessions' = [sessions EXCEPT ![r] = [@ EXCEPT !.retry = FALSE]]
             \/ sessions' = [sessions EXCEPT ![r] = [@ EXCEPT !.fresh = FALSE]]
      PROVE  TableInv' /\ RowsKept
  BY <1>1, <1>5, WindowTable
<1>6. CASE UNCHANGED sessions
  BY <1>1, <1>6
<1> QED BY <1>2, <1>3, <1>4, <1>5, <1>6 DEF TableMove

-----------------------------------------------------------------------------
(* What holds a token goes on holding it while rows are added or ended.     *)
LEMMA HoldersFrame ==
  ASSUME HoldersInv, RowsKept, sessions \in Seq(SessionRows)
  PROVE  /\ SoundJar(jar, sessions') /\ SoundCalls(call, sessions')
         /\ SoundRefreshes(refresh, sessions') /\ SoundForms(form, sessions')
<1>1. SoundJar(jar, sessions')
  BY DEF HoldersInv, SoundJar, RowsKept
<1>2. ASSUME NEW c, SoundCall(c, sessions) PROVE SoundCall(c, sessions')
  BY <1>2 DEF SoundCall, RowsKept, CallRecords
<1>3. ASSUME NEW r, SoundRefresh(r, sessions) PROVE SoundRefresh(r, sessions')
  BY <1>3 DEF SoundRefresh, RowsKept, RefreshRecords
<1>4. ASSUME NEW f, SoundForm(f, sessions) PROVE SoundForm(f, sessions')
  BY <1>4 DEF SoundForm, RowsKept, FormRecords
<1> QED BY <1>1, <1>2, <1>3, <1>4 DEF HoldersInv, SoundCalls, SoundRefreshes, SoundForms

(* What is idle, or absent, holds no token. *)
LEMMA IdleSound ==
  ASSUME NEW T \in Seq(SessionRows)
  PROVE  /\ SoundJar(EmptyJar, T) /\ SoundCall(IdleCall, T)
         /\ SoundRefresh(IdleRefresh, T) /\ SoundForm(IdleForm, T)
<1> Len(T) \in Nat
  OBVIOUS
<1>1. SoundJar(EmptyJar, T)
  BY DEF SoundJar, EmptyJar, Scopes
<1>2. SoundCall(IdleCall, T)
  BY DEF SoundCall, IdleCall, Scopes, CallRecords
<1>3. SoundRefresh(IdleRefresh, T)
  BY DEF SoundRefresh, IdleRefresh, Scopes, RefreshRecords
<1>4. SoundForm(IdleForm, T)
  BY DEF SoundForm, IdleForm, Scopes, FormRecords
<1> QED BY <1>1, <1>2, <1>3, <1>4

(* A change of account that is announced marks what is in flight and      *)
(* touches neither its tokens nor how far it has come.                      *)
LEMMA ChangedSound ==
  ASSUME NEW T, NEW p
  PROVE  /\ SoundCall(p, T) => SoundCall(Changed(p), T) /\ Changed(p).phase = p.phase
         /\ SoundRefresh(p, T) => /\ SoundRefresh(Changed(p), T)
                                  /\ Changed(p).phase = p.phase /\ Changed(p).row = p.row
                                  /\ Changed(p).scope = p.scope /\ Changed(p).answer = p.answer
<1>1. PICK e : e = [p EXCEPT !.changed = TRUE]
  OBVIOUS
<1>2. Changed(p) = p \/ Changed(p) = e
  BY <1>1 DEF Changed
<1>3. ASSUME SoundCall(p, T) PROVE SoundCall(e, T) /\ e.phase = p.phase
  <2>1. p \in CallRecords
    BY <1>3 DEF SoundCall
  <2>2. e \in CallRecords
    BY <1>1, <2>1, Zenon DEF CallRecords
  <2>3. e.access = p.access /\ e.scope = p.scope /\ e.phase = p.phase
    BY <1>1, <2>1 DEF CallRecords
  <2>4. e.write => p.write
    BY <1>1, <2>1 DEF CallRecords
  <2> QED BY <1>3, <2>2, <2>3, <2>4 DEF SoundCall
<1>4. ASSUME SoundRefresh(p, T)
      PROVE  SoundRefresh(e, T) /\ e.phase = p.phase /\ e.row = p.row /\ e.scope = p.scope
             /\ e.answer = p.answer
  <2>1. p \in RefreshRecords
    BY <1>4 DEF SoundRefresh
  <2>2. e \in RefreshRecords
    BY <1>1, <2>1, Zenon DEF RefreshRecords
  <2>3. e.row = p.row /\ e.scope = p.scope /\ e.phase = p.phase /\ e.answer = p.answer
    BY <1>1, <2>1 DEF RefreshRecords
  <2> QED BY <1>4, <2>2, <2>3 DEF SoundRefresh
<1> QED BY <1>2, <1>3, <1>4

(* A refresh that resolves lets the calls of its tab go on, with the tokens *)
(* they have given up.                                                      *)
LEMMA ResolvedSound ==
  ASSUME NEW T, NEW t, NEW ok \in BOOLEAN, NEW calls, SoundCalls(calls, T)
  PROVE  SoundCalls(Resolved(t, ok, calls), T)
<1>1. ASSUME NEW c \in Calls
      PROVE  SoundCall([calls[c] EXCEPT !.phase = "refreshed", !.go = ok], T)
  <2>1. PICK e : e = [calls[c] EXCEPT !.phase = "refreshed", !.go = ok]
    OBVIOUS
  <2>2. calls[c] \in CallRecords /\ SoundCall(calls[c], T)
    BY DEF SoundCalls, SoundCall
  <2>3. e \in CallRecords
    BY <2>1, <2>2, Zenon DEF CallRecords
  <2>4. e.access = calls[c].access /\ e.scope = calls[c].scope
    BY <2>1, <2>2 DEF CallRecords
  <2>5. e.write => calls[c].write
    BY <2>1, <2>2 DEF CallRecords
  <2> QED BY <2>1, <2>2, <2>3, <2>4, <2>5 DEF SoundCall
<1> QED BY <1>1 DEF Resolved, SoundCalls

-----------------------------------------------------------------------------
(* The steps, a component at a time.                                        *)

(* A step that leaves the table alone preserves what is left alone with it. *)
LEMMA SameTable ==
  ASSUME SessionInv, UNCHANGED sessions,
         SoundJar(jar', sessions), SoundCalls(call', sessions),
         SoundRefreshes(refresh', sessions), SoundForms(form', sessions),
         shown' \in [Tabs -> Scopes], lock' \in Tabs \cup {NoTab}, faults' \in Nat
  PROVE  SessionInv'
<1>1. TableInv' /\ sessions' = sessions
  BY TableStep DEF SessionInv, TableMove
<1> QED BY <1>1 DEF SessionInv, HoldersInv

(* Losing the session in the middle of a call, a refresh or a sign-out. *)
LEMMA ClearStep ==
  ASSUME SessionInv, NEW t \in Tabs, NEW cookies, NEW calls, NEW refreshes,
         NEW holder \in Tabs \cup {NoTab},
         SoundJar(cookies, sessions), SoundCalls(calls, sessions),
         SoundRefreshes(refreshes, sessions),
         ClearAndRedirect(t, cookies, calls, refreshes, holder)
  PROVE  SessionInv'
<1> USE DEF ClearAndRedirect
<1>1. sessions \in Seq(SessionRows) /\ NoUser \in Scopes
  BY DEF SessionInv, TableInv, Scopes
<1>2. SoundJar(jar', sessions)
  BY DEF SoundJar, Scopes
<1>3. SoundCalls(call', sessions)
  BY <1>1, IdleSound, ChangedSound DEF SoundCalls
<1>4. SoundRefreshes(refresh', sessions)
  BY <1>1, IdleSound, ChangedSound DEF SoundRefreshes
<1>5. SoundForms(form', sessions)
  BY <1>1, IdleSound DEF SoundForms, SessionInv, HoldersInv
<1>6. shown' \in [Tabs -> Scopes]
  BY <1>1 DEF SessionInv
<1>7. lock' \in Tabs \cup {NoTab} /\ faults' \in Nat
  BY DEF SessionInv
<1> QED BY <1>2, <1>3, <1>4, <1>5, <1>6, <1>7, SameTable

(* An answer, refused or not, goes to the page. *)
LEMMA FinishStep ==
  ASSUME SessionInv, NEW c \in Calls, NEW refused, NEW cookies,
         SoundJar(cookies, sessions), FinishCall(c, refused, cookies)
  PROVE  SessionInv'
<1> DEFINE calls == [call EXCEPT ![c] = IdleCall]
<1>1. SoundCalls(calls, sessions)
  BY IdleSound DEF SessionInv, TableInv, HoldersInv, SoundCalls
<1> HIDE DEF calls
<1>2. CASE ClearAndRedirect(TabOf(c), cookies, calls, refresh, lock)
  BY <1>1, <1>2, ClearStep, TabOfAssumption DEF SessionInv, HoldersInv
<1>3. CASE /\ call' = calls /\ jar' = cookies
           /\ UNCHANGED <<sessions, shown, route, stale, refresh, form, lock, faults>>
  BY <1>1, <1>3, SameTable DEF SessionInv, HoldersInv
<1> QED BY <1>2, <1>3 DEF FinishCall, calls

(* Everything a private request goes through. *)
LEMMA CallSteps ==
  ASSUME SessionInv, NEW c \in Calls, NEW w \in BOOLEAN,
         NewCall(c, w) \/ CallLost(c) \/ Answer(c) \/ Resume(c)
  PROVE  SessionInv'
<1>0. /\ sessions \in Seq(SessionRows) /\ SoundJar(jar, sessions) /\ SoundCalls(call, sessions)
      /\ SoundRefreshes(refresh, sessions) /\ SoundForms(form, sessions)
      /\ shown \in [Tabs -> Scopes] /\ lock \in Tabs \cup {NoTab} /\ faults \in Nat
  BY DEF SessionInv, TableInv, HoldersInv
<1>c. SoundCall(call[c], sessions) /\ call[c] \in CallRecords
  BY <1>0 DEF SoundCalls, SoundCall
<1>j. jar \in [access : Nat, refresh : Nat, scope : Scopes]
  BY <1>0 DEF SoundJar
<1>1. ASSUME NewCall(c, w) PROVE SessionInv'
  <2>1. PICK e : e = [IdleCall EXCEPT !.phase = "sent", !.write = w, !.scope = jar.scope,
                        !.access = jar.access, !.refresh = jar.refresh]
    OBVIOUS
  <2>2. e \in CallRecords
    BY <1>j, <2>1 DEF CallRecords, IdleCall, Scopes
  <2>3. e.access = jar.access /\ e.scope = jar.scope
    BY <2>1 DEF IdleCall
  <2>4. SoundCall(e, sessions)
    BY <1>0, <2>2, <2>3 DEF SoundCall, SoundJar
  <2>5. call' = [call EXCEPT ![c] = e]
    BY <1>1, <2>1 DEF NewCall
  <2>6. SoundCalls(call', sessions)
    BY <1>0, <2>4, <2>5 DEF SoundCalls
  <2> QED BY <1>0, <1>1, <2>6, SameTable DEF NewCall
<1>2. ASSUME CallLost(c) PROVE SessionInv'
  <2>1. SoundCalls(call', sessions)
    BY <1>0, <1>2, IdleSound DEF CallLost, SoundCalls
  <2> QED BY <1>0, <1>2, <2>1, SameTable DEF CallLost
<1>3. SoundJar(JarAfter(c), sessions)
  BY <1>0, IdleSound DEF JarAfter
<1>4. ASSUME Answer(c) PROVE SessionInv'
  <2>1. CASE FinishCall(c, ~Accepted(c), JarAfter(c))
    BY <1>3, <2>1, FinishStep
  <2>2. ASSUME /\ jar' = JarAfter(c)
               /\ call' = [call EXCEPT ![c] = [@ EXCEPT
                       !.phase = "waiting", !.changed = FALSE, !.access = 0, !.refresh = 0]]
               /\ refresh' = IF refresh[TabOf(c)].phase # "idle" THEN refresh
                     ELSE [refresh EXCEPT ![TabOf(c)] = [IdleRefresh EXCEPT
                             !.phase = "queued", !.scope = call[c].scope,
                             !.changed = call[c].changed]]
               /\ UNCHANGED <<sessions, shown, route, stale, form, lock, faults>>
        PROVE  SessionInv'
    <3>1. PICK e : e = [call[c] EXCEPT !.phase = "waiting", !.changed = FALSE,
                                       !.access = 0, !.refresh = 0]
      OBVIOUS
    <3>2. e \in CallRecords
      BY <1>c, <3>1, Zenon DEF CallRecords
    <3>3. e.access = 0
      BY <1>c, <3>1 DEF CallRecords
    <3>4. SoundCall(e, sessions)
      BY <1>0, <3>2, <3>3 DEF SoundCall
    <3>5. SoundCalls(call', sessions)
      BY <1>0, <2>2, <3>1, <3>4 DEF SoundCalls
    <3>6. PICK r : r = [IdleRefresh EXCEPT !.phase = "queued", !.scope = call[c].scope,
                                           !.changed = call[c].changed]
      OBVIOUS
    <3>7. r \in RefreshRecords
      BY <1>c, <3>6 DEF RefreshRecords, CallRecords, IdleRefresh, Scopes
    <3>8. r.row = 0
      BY <3>6 DEF IdleRefresh
    <3>9. SoundRefresh(r, sessions)
      BY <1>0, <3>7, <3>8 DEF SoundRefresh
    <3>10. SoundRefreshes(refresh', sessions)
      BY <1>0, <2>2, <3>6, <3>9, TabOfAssumption DEF SoundRefreshes
    <3> QED BY <1>0, <1>3, <2>2, <3>5, <3>10, SameTable
  <2> QED BY <1>4, <2>1, <2>2 DEF Answer
<1>5. ASSUME Resume(c) PROVE SessionInv'
  <2>1. CASE FinishCall(c, TRUE, jar)
    BY <1>0, <2>1, FinishStep
  <2>2. ASSUME /\ call[c].go /\ MayRepeat(c)
               /\ call' = [call EXCEPT ![c] = [@ EXCEPT !.phase = "resent", !.go = FALSE,
                              !.access = jar.access, !.refresh = jar.refresh]]
               /\ UNCHANGED <<sessions, jar, shown, route, stale, refresh, form, lock, faults>>
        PROVE  SessionInv'
    <3>1. PICK e : e = [call[c] EXCEPT !.phase = "resent", !.go = FALSE,
                              !.access = jar.access, !.refresh = jar.refresh]
      OBVIOUS
    <3>2. e \in CallRecords
      BY <1>c, <1>j, <3>1, Zenon DEF CallRecords
    <3>3. e.access = jar.access /\ e.scope = call[c].scope
      BY <1>c, <3>1 DEF CallRecords
    <3>4. e.write => jar.scope = call[c].scope
      BY <1>c, <2>2, <3>1 DEF CallRecords, MayRepeat
    <3>5. SoundCall(e, sessions)
      BY <1>0, <3>2, <3>3, <3>4 DEF SoundCall, SoundJar
    <3>6. SoundCalls(call', sessions)
      BY <1>0, <2>2, <3>1, <3>5 DEF SoundCalls
    <3> QED BY <1>0, <2>2, <3>6, SameTable
  <2> QED BY <1>5, <2>1, <2>2 DEF Resume
<1> QED BY <1>1, <1>2, <1>4, <1>5

(* What a refresh hands out belongs to the account of the row presented,   *)
(* whether it is rotated now or was rotated by an attempt whose answer was  *)
(* lost.                                                                    *)
LEMMA OutcomeTable ==
  ASSUME TableInv, NEW r \in 0..Len(sessions)
  PROVE  LET out == RefreshOutcome(r) IN
         /\ sessions' = out.rows => TableMove
         /\ out.rows \in Seq(SessionRows)
         /\ out.answer \in {"ok", "denied"}
         /\ out.answer = "ok" =>
              /\ r # 0 /\ out.row \in 1..Len(out.rows)
              /\ out.rows[out.row].user = sessions[r].user
<1> DEFINE out == RefreshOutcome(r)
<1>0. /\ sessions \in Seq(SessionRows) /\ Len(sessions) \in Nat
      /\ \A q \in 1..Len(sessions) : sessions[q] \in SessionRows
  BY DEF TableInv
<1>1. CASE r = 0
  BY <1>0, <1>1 DEF RefreshOutcome, TableMove
<1>2. ASSUME r \in 1..Len(sessions), sessions[r].live
      PROVE  /\ out = [answer |-> "ok", row |-> Len(sessions) + 1, rows |-> RotatedRows(r)]
             /\ out.rows \in Seq(SessionRows) /\ Len(out.rows) = Len(sessions) + 1
             /\ out.rows[Len(sessions) + 1].user = sessions[r].user
  <2>1. out = [answer |-> "ok", row |-> Len(sessions) + 1, rows |-> RotatedRows(r)]
    BY <1>2 DEF RefreshOutcome
  <2>2. sessions[r].user \in Users /\ sessions[r].login \in Nat
    BY <1>0, <1>2 DEF SessionRows
  <2> QED BY <1>0, <1>2, <2>1, <2>2, RotatedTable, NewSessionRow
<1>3. ASSUME r \in 1..Len(sessions), ~ sessions[r].live, sessions[r].retry
      PROVE  /\ out.rows = sessions
             /\ out.answer = "ok" \/ out.answer = "denied"
             /\ out.answer = "ok" => out.row = sessions[r].next
  BY <1>3 DEF RefreshOutcome
<1>4. ASSUME r \in 1..Len(sessions), ~ sessions[r].live, ~ sessions[r].retry
      PROVE  /\ out = [answer |-> "denied", row |-> 0, rows |-> RevokedRows(sessions[r].user)]
             /\ sessions[r].user \in Users
  BY <1>0, <1>4 DEF RefreshOutcome, SessionRows
<1> HIDE DEF out
<1>5. CASE r \in 1..Len(sessions) /\ sessions[r].live
  BY <1>0, <1>2, <1>5 DEF out, TableMove
<1>6. CASE r \in 1..Len(sessions) /\ ~ sessions[r].live /\ sessions[r].retry
  <2>1. sessions[r].next \in Nat
    BY <1>0, <1>6 DEF SessionRows
  <2>2. sessions[r].next \in 1..Len(sessions) /\ sessions[sessions[r].next].user = sessions[r].user
    BY <1>0, <1>6, <2>1 DEF TableInv, Chained
  <2> QED BY <1>0, <1>3, <1>6, <2>2 DEF out, TableMove
<1>7. CASE r \in 1..Len(sessions) /\ ~ sessions[r].live /\ ~ sessions[r].retry
  <2>1. out.rows \in Seq(SessionRows)
    BY <1>0, <1>4, <1>7, EndedTable
  <2> QED BY <1>0, <1>4, <1>7, <2>1 DEF out, TableMove
<1> QED BY <1>1, <1>5, <1>6, <1>7

(* A refresh that has its answer, whatever the answer, gives up its row. *)
LEMMA ArrivedSound ==
  ASSUME NEW T \in Seq(SessionRows), NEW r, NEW e, SoundRefresh(r, T),
         NEW answer \in {"ok", "denied", "502", "lost"},
         e = [r EXCEPT !.phase = "arrived", !.answer = answer, !.row = 0]
  PROVE  /\ SoundRefresh(e, T)
         /\ e.phase = "arrived" /\ e.answer = answer /\ e.row = 0 /\ e.scope = r.scope
<1>1. r \in RefreshRecords
  BY DEF SoundRefresh
<1>2. e \in RefreshRecords
  BY <1>1, Zenon DEF RefreshRecords
<1>3. e.row = 0 /\ e.phase = "arrived" /\ e.answer = answer /\ e.scope = r.scope
  BY <1>1 DEF RefreshRecords
<1> QED BY <1>2, <1>3 DEF SoundRefresh

(* The request of a refresh at the gateway and the backend. *)
LEMMA RefreshArriveStep ==
  ASSUME SessionInv, NEW t \in Tabs, RefreshArrive(t)
  PROVE  SessionInv'
<1> DEFINE out == RefreshOutcome(refresh[t].row)
<1>0. /\ TableInv /\ sessions \in Seq(SessionRows) /\ HoldersInv
      /\ SoundRefresh(refresh[t], sessions) /\ refresh[t] \in RefreshRecords
      /\ refresh[t].row \in 0..Len(sessions)
  BY DEF SessionInv, TableInv, HoldersInv, SoundRefreshes, SoundRefresh, RefreshRecords
<1>1. PICK answer \in {"ok", "denied", "502", "lost"} :
        /\ refresh' = [refresh EXCEPT ![t] =
                        [@ EXCEPT !.phase = "arrived", !.answer = answer, !.row = 0]]
        /\ sessions' = sessions \/ sessions' = out.rows
        /\ \/ UNCHANGED jar
           \/ /\ sessions' = out.rows
              /\ jar' = IF out.answer = "ok" THEN RefreshCookies(t, out.row) ELSE EmptyJar
        /\ faults' = faults \/ faults' = faults + 1
  <2>1. out.answer \in {"ok", "denied"}
    BY <1>0, OutcomeTable
  <2> QED BY <2>1 DEF RefreshArrive
<1>2. UNCHANGED <<shown, lock, call, form>>
  BY DEF RefreshArrive
<1>3. TableMove /\ (sessions' = out.rows \/ UNCHANGED sessions)
  BY <1>0, <1>1, OutcomeTable DEF TableMove
<1>4. TableInv' /\ RowsKept
  BY <1>0, <1>3, TableStep
<1>5. /\ SoundJar(jar, sessions') /\ SoundCalls(call, sessions')
      /\ SoundRefreshes(refresh, sessions') /\ SoundForms(form, sessions')
  BY <1>0, <1>4, HoldersFrame
<1>6. sessions' \in Seq(SessionRows) /\ SoundRefresh(refresh[t], sessions')
  BY <1>4, <1>5 DEF TableInv, SoundRefreshes
<1>7. SoundRefreshes(refresh', sessions')
  <2>1. PICK e : e = [refresh[t] EXCEPT !.phase = "arrived", !.answer = answer, !.row = 0]
    OBVIOUS
  <2>2. SoundRefresh(e, sessions')
    BY <1>6, <2>1, ArrivedSound
  <2> QED BY <1>1, <1>5, <2>1, <2>2 DEF SoundRefreshes
<1>8. SoundJar(jar', sessions')
  <2>1. CASE UNCHANGED jar
    BY <1>5, <2>1
  <2>2. CASE jar' = EmptyJar
    BY <1>6, <2>2, IdleSound
  <2>3. ASSUME out.answer = "ok", sessions' = out.rows, jar' = RefreshCookies(t, out.row)
        PROVE  SoundJar(jar', sessions')
    <3>1. /\ refresh[t].row # 0 /\ out.row \in 1..Len(sessions')
          /\ sessions'[out.row].user = sessions[refresh[t].row].user
      BY <1>0, <2>3, OutcomeTable
    <3>2. refresh[t].scope # NoUser => sessions[refresh[t].row].user = refresh[t].scope
      BY <1>0, <3>1 DEF SoundRefresh
    <3>3. refresh[t].scope \in Scopes
      BY <1>0 DEF RefreshRecords
    <3>4. Len(sessions') \in Nat
      BY <1>6
    <3>5. /\ jar'.access = out.row /\ jar'.refresh = out.row /\ jar'.scope = refresh[t].scope
          /\ jar' = [access |-> out.row, refresh |-> out.row, scope |-> refresh[t].scope]
      BY <2>3 DEF RefreshCookies
    <3> QED BY <3>1, <3>2, <3>3, <3>4, <3>5 DEF SoundJar
  <2> QED BY <1>1, <2>1, <2>2, <2>3
<1> QED BY <1>1, <1>2, <1>4, <1>5, <1>7, <1>8 DEF SessionInv, HoldersInv

(* A tab that takes the lock and one that hears the answer. *)
LEMMA RefreshSteps ==
  ASSUME SessionInv, NEW t \in Tabs, RefreshLock(t) \/ RefreshSettle(t)
  PROVE  SessionInv'
<1>0. /\ sessions \in Seq(SessionRows) /\ SoundJar(jar, sessions) /\ SoundCalls(call, sessions)
      /\ SoundRefreshes(refresh, sessions) /\ SoundForms(form, sessions)
      /\ shown \in [Tabs -> Scopes] /\ lock \in Tabs \cup {NoTab} /\ faults \in Nat
      /\ jar.scope \in Scopes
  BY DEF SessionInv, TableInv, HoldersInv, SoundJar
<1>c. SoundRefresh(refresh[t], sessions) /\ refresh[t] \in RefreshRecords
  BY <1>0 DEF SoundRefreshes, SoundRefresh
<1>1. ASSUME RefreshLock(t), Superseded(t) PROVE SessionInv'
  <2>0. PICK ok \in BOOLEAN : call' = Resolved(t, ok, call)
    BY <1>1 DEF RefreshLock
  <2>1. SoundCalls(call', sessions)
    BY <1>0, <2>0, ResolvedSound
  <2>2. SoundRefreshes(refresh', sessions)
    BY <1>0, <1>1, IdleSound DEF RefreshLock, SoundRefreshes
  <2> QED BY <1>0, <1>1, <2>1, <2>2, SameTable DEF RefreshLock
<1>2. ASSUME RefreshLock(t), ~ Superseded(t) PROVE SessionInv'
  <2>1. PICK e : e = [refresh[t] EXCEPT !.phase = "sent", !.row = jar.refresh]
    OBVIOUS
  <2>2. e \in RefreshRecords
    BY <1>0, <1>c, <2>1, Zenon DEF RefreshRecords, SoundJar
  <2>3. e.row = jar.refresh /\ e.scope = refresh[t].scope
    BY <1>c, <2>1 DEF RefreshRecords
  <2>4. jar.scope = e.scope
    BY <1>2, <2>3 DEF Superseded
  <2>5. SoundRefresh(e, sessions)
    BY <1>0, <2>2, <2>3, <2>4 DEF SoundRefresh, SoundJar
  <2>6. SoundRefreshes(refresh', sessions)
    BY <1>0, <1>2, <2>1, <2>5 DEF RefreshLock, SoundRefreshes
  <2> QED BY <1>0, <1>2, <2>6, SameTable DEF RefreshLock
<1>3. ASSUME RefreshSettle(t) PROVE SessionInv'
  <2> DEFINE idle == [refresh EXCEPT ![t] = IdleRefresh]
  <2>1. SoundRefreshes(idle, sessions)
    BY <1>0, IdleSound DEF SoundRefreshes
  <2>2. CASE ClearAndRedirect(t, jar, Resolved(t, FALSE, call), idle, NoTab)
    <3>1. SoundCalls(Resolved(t, FALSE, call), sessions)
      BY <1>0, ResolvedSound
    <3> QED BY <1>0, <2>1, <2>2, <3>1, ClearStep
  <2>3. ASSUME NEW rotated \in BOOLEAN, NEW ok \in BOOLEAN,
               /\ lock' = NoTab
               /\ call' = Resolved(t, ok,
                            IF rotated THEN [c \in Calls |-> Changed(call[c])] ELSE call)
               /\ refresh' = [u \in Tabs |-> IF u = t THEN IdleRefresh
                                ELSE IF rotated THEN Changed(refresh[u]) ELSE refresh[u]]
               /\ shown' = IF rotated THEN [shown EXCEPT ![t] = jar.scope] ELSE shown
               /\ UNCHANGED <<sessions, jar, route, form, faults>>
        PROVE  SessionInv'
    <3>1. SoundCalls([c \in Calls |-> Changed(call[c])], sessions)
      BY <1>0, ChangedSound DEF SoundCalls
    <3>2. SoundCalls(call', sessions)
      BY <1>0, <2>3, <3>1, ResolvedSound
    <3>3. SoundRefreshes(refresh', sessions)
      BY <1>0, <2>3, IdleSound, ChangedSound DEF SoundRefreshes
    <3>4. shown' \in [Tabs -> Scopes]
      BY <1>0, <2>3
    <3> QED BY <1>0, <2>3, <3>2, <3>3, <3>4, SameTable
  <2> QED BY <1>3, <2>2, <2>3 DEF RefreshSettle
<1> QED BY <1>1, <1>2, <1>3

(* The login form and the sign-out on the browser's side. *)
LEMMA FormSteps ==
  ASSUME SessionInv, NEW t \in Tabs,
         (\E u \in Users : Submit(t, u)) \/ SignOut(t) \/ SignOutLock(t)
           \/ LoginSettle(t) \/ LogoutSettle(t)
  PROVE  SessionInv'
<1>0. /\ sessions \in Seq(SessionRows) /\ SoundJar(jar, sessions) /\ SoundCalls(call, sessions)
      /\ SoundRefreshes(refresh, sessions) /\ SoundForms(form, sessions)
      /\ shown \in [Tabs -> Scopes] /\ lock \in Tabs \cup {NoTab} /\ faults \in Nat
      /\ jar.scope \in Scopes /\ NoUser \in Scopes /\ Len(sessions) \in Nat
      /\ jar.refresh \in Nat /\ jar.refresh <= Len(sessions)
  BY DEF SessionInv, TableInv, HoldersInv, SoundJar, Scopes
<1>f. SoundForm(form[t], sessions) /\ form[t] \in FormRecords
  BY <1>0 DEF SoundForms, SoundForm
<1>1. ASSUME NEW e, SoundForm(e, sessions), form' = [form EXCEPT ![t] = e]
      PROVE  SoundForms(form', sessions)
  BY <1>0, <1>1 DEF SoundForms
<1>2. ASSUME NEW u \in Users, Submit(t, u) PROVE SessionInv'
  <2>1. PICK e : e = [IdleForm EXCEPT !.phase = "sent", !.user = u]
    OBVIOUS
  <2>a. e = [phase |-> "sent", kind |-> "login", user |-> u, refresh |-> 0]
    BY <2>1 DEF IdleForm
  <2>b. e \in FormRecords
    BY <2>a DEF FormRecords, Scopes
  <2>2. SoundForm(e, sessions)
    BY <1>0, <2>a, <2>b DEF SoundForm
  <2>3. SoundForms(form', sessions)
    BY <1>1, <1>2, <2>1, <2>2 DEF Submit
  <2> QED BY <1>0, <1>2, <2>3, SameTable DEF Submit
<1>3. ASSUME SignOut(t) PROVE SessionInv'
  <2>1. PICK e : e = [IdleForm EXCEPT !.phase = "queued", !.kind = "logout"]
    OBVIOUS
  <2>a. e = [phase |-> "queued", kind |-> "logout", user |-> NoUser, refresh |-> 0]
    BY <2>1 DEF IdleForm
  <2>b. e \in FormRecords
    BY <1>0, <2>a DEF FormRecords
  <2>2. SoundForm(e, sessions)
    BY <1>0, <2>a, <2>b DEF SoundForm
  <2>3. SoundForms(form', sessions)
    BY <1>1, <1>3, <2>1, <2>2 DEF SignOut
  <2> QED BY <1>0, <1>3, <2>3, SameTable DEF SignOut
<1>4. ASSUME SignOutLock(t) PROVE SessionInv'
  <2>1. PICK e : e = [form[t] EXCEPT !.phase = "sent", !.refresh = jar.refresh]
    OBVIOUS
  <2>2. /\ e \in FormRecords /\ e.refresh = jar.refresh
        /\ e.kind = form[t].kind /\ e.phase = "sent"
    BY <1>0, <1>f, <2>1 DEF FormRecords
  <2>3. e.kind = "logout"
    BY <1>4, <1>f, <2>2 DEF SignOutLock, SoundForm
  <2>4. SoundForm(e, sessions)
    BY <1>0, <2>2, <2>3 DEF SoundForm
  <2>5. SoundForms(form', sessions)
    BY <1>1, <1>4, <2>1, <2>4 DEF SignOutLock
  <2> QED BY <1>0, <1>4, <2>5, SameTable DEF SignOutLock
<1>5. ASSUME LoginSettle(t) \/ LogoutSettle(t) PROVE SessionInv'
  <2>1. SoundForms(form', sessions)
    BY <1>0, <1>1, <1>5, IdleSound DEF LoginSettle, LogoutSettle
  <2>2. SoundCalls(call', sessions)
    BY <1>0, <1>5, ChangedSound DEF LoginSettle, LogoutSettle, Notify, SoundCalls
  <2>3. SoundRefreshes(refresh', sessions)
    BY <1>0, <1>5, ChangedSound DEF LoginSettle, LogoutSettle, SoundRefreshes
  <2>4. SoundJar(jar', sessions)
    BY <1>0, <1>5 DEF LoginSettle, LogoutSettle, SoundJar
  <2>5. shown' \in [Tabs -> Scopes]
    BY <1>0, <1>5 DEF LoginSettle, LogoutSettle, Notify
  <2> QED BY <1>0, <1>5, <2>1, <2>2, <2>3, <2>4, <2>5, SameTable DEF LoginSettle, LogoutSettle
<1> QED BY <1>2, <1>3, <1>4, <1>5

(* A sign-in or a sign-out at the gateway and the backend. *)
LEMMA FormArriveSteps ==
  ASSUME SessionInv, NEW t \in Tabs, LoginArrive(t) \/ LogoutArrive(t)
  PROVE  SessionInv'
<1>0. /\ TableInv /\ HoldersInv /\ sessions \in Seq(SessionRows)
      /\ SoundForm(form[t], sessions) /\ form[t] \in FormRecords /\ Len(sessions) \in Nat
      /\ shown \in [Tabs -> Scopes] /\ lock \in Tabs \cup {NoTab} /\ faults \in Nat
  BY DEF SessionInv, TableInv, HoldersInv, SoundForms, SoundForm
<1>1. ASSUME TableMove, UNCHANGED <<shown, call, refresh, lock>>, faults' \in Nat,
             NEW e, SoundForm(e, sessions'), form' = [form EXCEPT ![t] = e],
             jar' = jar \/ SoundJar(jar', sessions')
      PROVE  SessionInv'
  <2>1. TableInv' /\ RowsKept
    BY <1>0, <1>1, TableStep
  <2>2. /\ SoundJar(jar, sessions') /\ SoundCalls(call, sessions')
        /\ SoundRefreshes(refresh, sessions') /\ SoundForms(form, sessions')
    BY <1>0, <2>1, HoldersFrame
  <2>3. SoundForms(form', sessions')
    BY <1>1, <2>2 DEF SoundForms
  <2> QED BY <1>0, <1>1, <2>1, <2>2, <2>3 DEF SessionInv, HoldersInv
<1>2. ASSUME LoginArrive(t) PROVE SessionInv'
  <2>1. form[t].user \in Users
    BY <1>0, <1>2 DEF LoginArrive, SoundForm
  <2> DEFINE n == Len(sessions) + 1
  <2>2. /\ LoginRows(form[t].user) \in Seq(SessionRows) /\ Len(LoginRows(form[t].user)) = n
        /\ LoginRows(form[t].user)[n].user = form[t].user
    BY <1>0, <2>1, LoginTable, NewSessionRow
  <2>3. sessions' = sessions \/ sessions' = LoginRows(form[t].user)
    BY <1>2 DEF LoginArrive
  <2>4. TableMove /\ sessions' \in Seq(SessionRows)
    BY <1>0, <2>1, <2>2, <2>3 DEF TableMove
  <2>5. CASE form' = [form EXCEPT ![t] = IdleForm] /\ UNCHANGED jar
    <3>1. SoundForm(IdleForm, sessions')
      BY <2>4, IdleSound
    <3>2. UNCHANGED <<shown, call, refresh, lock>> /\ faults' \in Nat
      BY <1>0, <1>2 DEF LoginArrive
    <3> QED BY <1>1, <2>4, <2>5, <3>1, <3>2
  <2>6. CASE /\ sessions' = LoginRows(form[t].user)
             /\ jar' = [access |-> n, refresh |-> n, scope |-> form[t].user]
             /\ form' = [form EXCEPT ![t] = [@ EXCEPT !.phase = "arrived", !.user = NoUser]]
             /\ UNCHANGED faults
    <3>1. PICK e : e = [form[t] EXCEPT !.phase = "arrived", !.user = NoUser]
      OBVIOUS
    <3>2. e \in FormRecords /\ e.phase = "arrived" /\ e.refresh = form[t].refresh
      BY <1>0, <3>1 DEF FormRecords, Scopes
    <3>3. SoundForm(e, sessions')
      BY <1>0, <2>2, <2>6, <3>2 DEF SoundForm, FormRecords
    <3>4. SoundJar(jar', sessions')
      BY <1>0, <2>1, <2>2, <2>6 DEF SoundJar, Scopes
    <3>5. UNCHANGED <<shown, call, refresh, lock>>
      BY <1>2 DEF LoginArrive
    <3> QED BY <1>0, <1>1, <2>4, <2>6, <3>1, <3>3, <3>4, <3>5
  <2> QED BY <1>2, <2>5, <2>6 DEF LoginArrive
<1>3. ASSUME LogoutArrive(t) PROVE SessionInv'
  <2>1. form[t].refresh \in Nat /\ form[t].refresh <= Len(sessions)
    BY <1>0 DEF SoundForm, FormRecords
  <2>2. sessions' = sessions \/ sessions' = LogoutRows(form[t].refresh)
    BY <1>3 DEF LogoutArrive
  <2>3. TableMove
    BY <2>1, <2>2 DEF TableMove
  <2>4. sessions' \in Seq(SessionRows) /\ Len(sessions') \in Nat
    BY <1>0, <2>3, TableStep DEF TableInv
  <2>5. PICK e : e = [form[t] EXCEPT !.phase = "arrived", !.refresh = 0]
    OBVIOUS
  <2>6. e \in FormRecords /\ e.phase = "arrived" /\ e.refresh = 0
    BY <1>0, <2>5 DEF FormRecords
  <2>7. SoundForm(e, sessions')
    BY <2>4, <2>6 DEF SoundForm
  <2>8. jar' = jar \/ SoundJar(jar', sessions')
    BY <1>3, <2>4, IdleSound DEF LogoutArrive
  <2>9. UNCHANGED <<shown, call, refresh, lock>> /\ faults' \in Nat
    BY <1>0, <1>3 DEF LogoutArrive
  <2>10. form' = [form EXCEPT ![t] = e]
    BY <1>3, <2>5 DEF LogoutArrive
  <2> QED BY <1>1, <2>3, <2>7, <2>8, <2>9, <2>10
<1> QED BY <1>2, <1>3

(* Cookies, tokens and retry windows that end, and what the pages show. *)
LEMMA ClockSteps ==
  ASSUME SessionInv,
         (\E r \in 1..MaxSessions : RetryWindowCloses(r)) \/ AccessExpires \/ CookiesExpire
           \/ \E t \in Tabs : StorageEvent(t) \/ RequireAuth(t) \/ SignedInRedirect(t)
  PROVE  SessionInv'
<1>0. /\ TableInv /\ HoldersInv /\ sessions \in Seq(SessionRows) /\ Len(sessions) \in Nat
      /\ SoundJar(jar, sessions) /\ SoundCalls(call, sessions)
      /\ SoundRefreshes(refresh, sessions) /\ SoundForms(form, sessions)
      /\ shown \in [Tabs -> Scopes] /\ lock \in Tabs \cup {NoTab} /\ faults \in Nat
      /\ jar.scope \in Scopes /\ NoUser \in Scopes
      /\ jar.access \in Nat /\ jar.access <= Len(sessions)
  BY DEF SessionInv, TableInv, HoldersInv, SoundJar, Scopes
<1>1. ASSUME TableMove, UNCHANGED <<jar, shown, call, refresh, form, lock, faults>>
      PROVE  SessionInv'
  BY <1>0, <1>1, TableStep, HoldersFrame DEF SessionInv, HoldersInv
<1>2. ASSUME NEW r \in 1..MaxSessions, RetryWindowCloses(r) PROVE SessionInv'
  <2>1. r \in 1..Len(sessions)
    BY <1>0, <1>2 DEF RetryWindowCloses, Rows
  <2> QED BY <1>1, <1>2, <2>1 DEF RetryWindowCloses, TableMove
<1>3. ASSUME AccessExpires PROVE SessionInv'
  <2>1. jar.access \in 1..Len(sessions)
    BY <1>0, <1>3 DEF AccessExpires
  <2> QED BY <1>1, <1>3, <2>1 DEF AccessExpires, TableMove
<1>4. ASSUME CookiesExpire PROVE SessionInv'
  <2>j. jar \in [access : Nat, refresh : Nat, scope : Scopes] /\ jar.refresh <= Len(sessions)
    BY <1>0 DEF SoundJar
  <2>e. /\ jar' \in [access : Nat, refresh : Nat, scope : Scopes]
        /\ jar'.access = 0 /\ jar'.refresh = jar.refresh /\ jar'.scope = NoUser
    BY <1>0, <1>4, <2>j DEF CookiesExpire
  <2>1. SoundJar(jar', sessions)
    BY <1>0, <2>j, <2>e DEF SoundJar
  <2> QED BY <1>0, <1>4, <2>1, SameTable DEF CookiesExpire
<1>5. ASSUME NEW t \in Tabs, StorageEvent(t) \/ RequireAuth(t) \/ SignedInRedirect(t)
      PROVE  SessionInv'
  <2>1. shown' \in [Tabs -> Scopes]
    BY <1>0, <1>5 DEF StorageEvent, RequireAuth, SignedInRedirect
  <2> QED BY <1>0, <1>5, <2>1, SameTable DEF StorageEvent, RequireAuth, SignedInRedirect
<1> QED BY <1>2, <1>3, <1>4, <1>5

(* A fresh browser. *)
LEMMA SessionInit == Init => SessionInv
<1> SUFFICES ASSUME Init PROVE SessionInv
  OBVIOUS
<1> USE DEF Init
<1>1. sessions \in Seq(SessionRows) /\ Len(sessions) = 0
  OBVIOUS
<1>2. TableInv
  BY <1>1 DEF TableInv, Chained, OneLive
<1>3. HoldersInv
  BY <1>1, IdleSound DEF HoldersInv, SoundCalls, SoundRefreshes, SoundForms
<1> QED BY <1>2, <1>3 DEF SessionInv, Scopes

(* One step of anybody. *)
LEMMA SessionNext == SessionInv /\ [Next]_vars => SessionInv'
<1> SUFFICES ASSUME SessionInv, [Next]_vars PROVE SessionInv'
  OBVIOUS
<1>1. CASE UNCHANGED vars
  BY <1>1, SameTable DEF vars, SessionInv, HoldersInv
<1>2. CASE Environment
  BY <1>2, ClockSteps, CallSteps DEF Environment
<1>3. CASE User
  <2>1. ASSUME NEW c \in Writers, NewCall(c, TRUE) PROVE SessionInv'
    BY <2>1, CallSteps, ActorsAssumption
  <2>2. ASSUME NEW t \in Tabs, NEW u \in LoginsOf(t), Submit(t, u) PROVE SessionInv'
    BY <2>2, FormSteps, LoginsOfAssumption
  <2>3. ASSUME NEW t \in SignsOut, SignOut(t) PROVE SessionInv'
    BY <2>3, FormSteps, ActorsAssumption
  <2> QED BY <1>3, <2>1, <2>2, <2>3 DEF User
<1>4. ASSUME NEW c \in Readers, Poll(c) PROVE SessionInv'
  BY <1>4, CallSteps, ActorsAssumption DEF Poll
<1>5. ASSUME NEW c \in Calls, CallStep(c) PROVE SessionInv'
  BY <1>5, CallSteps DEF CallStep
<1>6. ASSUME NEW t \in Tabs, TabStep(t) \/ RefreshLock(t) \/ SignOutLock(t) PROVE SessionInv'
  BY <1>6, ClockSteps, RefreshArriveStep, RefreshSteps, FormSteps, FormArriveSteps DEF TabStep
<1> QED BY <1>1, <1>2, <1>3, <1>4, <1>5, <1>6 DEF Next

(* The table, the cookies and what every tab holds of them fit together,   *)
(* whatever the tabs, the backend and the clock do.                         *)
THEOREM SessionInvariant == Spec => []SessionInv
<1>1. Init => SessionInv
  BY SessionInit
<1>2. SessionInv /\ [Next]_vars => SessionInv'
  BY SessionNext
<1> QED BY <1>1, <1>2, PTL DEF Spec

(* However often a rotation is lost, retried or raced, one sign-in never   *)
(* has two live refresh tokens.                                             *)
THEOREM SessionOneLivePerLogin == Spec => []OneLivePerLogin
<1>1. SessionInv => OneLivePerLogin
  BY DEF SessionInv, TableInv, OneLive, OneLivePerLogin, Rows
<1> QED BY <1>1, SessionInvariant, PTL

(* The marker the pages read names the owner of the tokens beside it. *)
THEOREM SessionMarkerNamesOwner == Spec => []MarkerNamesOwner
<1>1. SessionInv => MarkerNamesOwner
  BY DEF SessionInv, TableInv, HoldersInv, SoundJar, MarkerNamesOwner, PairJar, Rows
<1> QED BY <1>1, SessionInvariant, PTL

(* A write goes out, first or again, with the tokens of the account it was *)
(* issued under.                                                            *)
THEOREM SessionMutationScoped == Spec => []MutationScoped
<1>1. SessionInv => MutationScoped
  BY DEF SessionInv, HoldersInv, SoundCalls, SoundCall, MutationScoped
<1> QED BY <1>1, SessionInvariant, PTL

-----------------------------------------------------------------------------
(* Who waits for whom.                                                      *)

(* A refresh that resolves leaves no call of its tab waiting. *)
LEMMA ResolvedPhase ==
  ASSUME NEW T, NEW t, NEW ok, NEW calls, SoundCalls(calls, T), NEW c \in Calls,
         Resolved(t, ok, calls)[c].phase = "waiting"
  PROVE  TabOf(c) # t /\ calls[c].phase = "waiting"
<1>1. calls[c] \in CallRecords
  BY DEF SoundCalls, SoundCall
<1>2. [calls[c] EXCEPT !.phase = "refreshed", !.go = ok].phase = "refreshed"
  BY <1>1 DEF CallRecords
<1> QED BY <1>1, <1>2 DEF Resolved

(* A tab that loses its session leaves nothing behind that waits for it. *)
LEMMA ClearUnstuck ==
  ASSUME SessionInv, NEW t \in Tabs, NEW cookies, NEW calls, NEW refreshes,
         NEW holder \in Tabs \cup {NoTab},
         SoundCalls(calls, sessions), SoundRefreshes(refreshes, sessions),
         ClearAndRedirect(t, cookies, calls, refreshes, holder),
         \A c \in Calls : calls[c].phase = "waiting" => refreshes[TabOf(c)].phase # "idle",
         holder # NoTab => UnderWay(refreshes[holder]) \/ SigningOut(holder)
  PROVE  NoTabStuck'
<1> USE DEF ClearAndRedirect
<1>0. form = [u \in Tabs |-> form[u]]
  BY DEF SessionInv, HoldersInv, SoundForms
<1>1. \A c \in Calls : \/ call'[c] = IdleCall /\ TabOf(c) = t /\ route[t] = "desk"
                       \/ /\ call'[c] = Changed(calls[c]) /\ call'[c].phase = calls[c].phase
                          /\ ~ (TabOf(c) = t /\ route[t] = "desk")
  BY ChangedSound DEF SoundCalls
<1>2. \A u \in Tabs : \/ refresh'[u] = IdleRefresh /\ u = t /\ route[t] = "desk"
                      \/ refresh'[u].phase = refreshes[u].phase /\ ~ (u = t /\ route[t] = "desk")
  BY ChangedSound DEF SoundRefreshes
<1>3. \A u \in Tabs : form'[u] = form[u] \/ (u = t /\ route[t] = "desk")
  BY <1>0
<1>4. ASSUME NEW c \in Calls, call'[c].phase = "waiting" PROVE refresh'[TabOf(c)].phase # "idle"
  BY <1>1, <1>2, <1>4, TabOfAssumption DEF IdleCall
<1>5. ASSUME lock' # NoTab
      PROVE  \/ refresh'[lock'].phase \in {"sent", "arrived"}
             \/ form'[lock'].kind = "logout" /\ form'[lock'].phase \in {"sent", "arrived"}
  BY <1>2, <1>3, <1>5 DEF UnderWay, LeavingForm, SigningOut
<1> QED BY <1>4, <1>5 DEF NoTabStuck

(* Handing an answer to the page ends a call and no refresh. *)
LEMMA FinishUnstuck ==
  ASSUME SessionInv, NoTabStuck, NEW c \in Calls, NEW refused, NEW cookies,
         FinishCall(c, refused, cookies)
  PROVE  NoTabStuck'
<1> DEFINE calls == [call EXCEPT ![c] = IdleCall]
<1>0. /\ SoundCalls(call, sessions) /\ SoundRefreshes(refresh, sessions)
      /\ sessions \in Seq(SessionRows) /\ lock \in Tabs \cup {NoTab}
  BY DEF SessionInv, TableInv, HoldersInv
<1>1. SoundCalls(calls, sessions)
  BY <1>0, IdleSound DEF SoundCalls
<1>2. \A d \in Calls : calls[d].phase = "waiting" => call[d].phase = "waiting"
  BY <1>0 DEF SoundCalls, IdleCall
<1> HIDE DEF calls
<1>3. CASE ClearAndRedirect(TabOf(c), cookies, calls, refresh, lock)
  <2>1. \A d \in Calls : calls[d].phase = "waiting" => refresh[TabOf(d)].phase # "idle"
    BY <1>2 DEF NoTabStuck
  <2>2. lock # NoTab => UnderWay(refresh[lock]) \/ SigningOut(lock)
    BY DEF NoTabStuck, UnderWay, LeavingForm, SigningOut
  <2> QED BY <1>0, <1>1, <1>3, <2>1, <2>2, ClearUnstuck, TabOfAssumption
<1>4. CASE call' = calls /\ UNCHANGED <<refresh, form, lock>>
  BY <1>2, <1>4 DEF NoTabStuck
<1> QED BY <1>3, <1>4 DEF FinishCall, calls

(* Everything a private request goes through. *)
LEMMA CallsUnstuck ==
  ASSUME SessionInv, NoTabStuck, NEW c \in Calls, NEW w \in BOOLEAN,
         NewCall(c, w) \/ CallLost(c) \/ Answer(c) \/ Resume(c)
  PROVE  NoTabStuck'
<1>0. /\ call = [d \in Calls |-> call[d]] /\ call[c] \in CallRecords
      /\ refresh = [t \in Tabs |-> refresh[t]] /\ TabOf(c) \in Tabs
  BY TabOfAssumption DEF SessionInv, HoldersInv, SoundCalls, SoundCall, SoundRefreshes
<1>1. ASSUME NewCall(c, w) PROVE NoTabStuck'
  <2>1. /\ \A d \in Calls : call'[d].phase = "waiting" => call[d].phase = "waiting"
        /\ UNCHANGED <<refresh, form, lock>>
    BY <1>0, <1>1 DEF NewCall, IdleCall
  <2> QED BY <2>1 DEF NoTabStuck
<1>2. ASSUME CallLost(c) PROVE NoTabStuck'
  <2>1. /\ \A d \in Calls : call'[d].phase = "waiting" => call[d].phase = "waiting"
        /\ UNCHANGED <<refresh, form, lock>>
    BY <1>0, <1>2 DEF CallLost, IdleCall
  <2> QED BY <2>1 DEF NoTabStuck
<1>3. ASSUME Answer(c) PROVE NoTabStuck'
  <2>1. CASE FinishCall(c, ~Accepted(c), JarAfter(c))
    BY <2>1, FinishUnstuck
  <2>2. ASSUME /\ call' = [call EXCEPT ![c] = [@ EXCEPT
                       !.phase = "waiting", !.changed = FALSE, !.access = 0, !.refresh = 0]]
               /\ refresh' = IF refresh[TabOf(c)].phase # "idle" THEN refresh
                     ELSE [refresh EXCEPT ![TabOf(c)] = [IdleRefresh EXCEPT
                             !.phase = "queued", !.scope = call[c].scope,
                             !.changed = call[c].changed]]
               /\ UNCHANGED <<form, lock>>
        PROVE  NoTabStuck'
    <3>1. PICK e : e = [IdleRefresh EXCEPT !.phase = "queued", !.scope = call[c].scope,
                                           !.changed = call[c].changed]
      OBVIOUS
    <3>2. e.phase = "queued"
      BY <3>1 DEF IdleRefresh
    <3>3. \A u \in Tabs : \/ refresh'[u] = refresh[u] /\ (u = TabOf(c) => refresh[u].phase # "idle")
                          \/ u = TabOf(c) /\ refresh[u].phase = "idle" /\ refresh'[u].phase = "queued"
      BY <1>0, <2>2, <3>1, <3>2
    <3>4. \A d \in Calls : call'[d] = call[d] \/ d = c
      BY <1>0, <2>2
    <3>5. \A d \in Calls : call'[d].phase = "waiting" => refresh'[TabOf(d)].phase # "idle"
      BY <3>3, <3>4, TabOfAssumption DEF NoTabStuck
    <3>6. lock \in Tabs \cup {NoTab}
      BY DEF SessionInv
    <3>7. lock' # NoTab => \/ refresh'[lock'].phase \in {"sent", "arrived"}
                           \/ form'[lock'].kind = "logout" /\ form'[lock'].phase \in {"sent", "arrived"}
      BY <2>2, <3>3, <3>6 DEF NoTabStuck
    <3> QED BY <3>5, <3>7 DEF NoTabStuck
  <2> QED BY <1>3, <2>1, <2>2 DEF Answer
<1>4. ASSUME Resume(c) PROVE NoTabStuck'
  <2>1. CASE FinishCall(c, TRUE, jar)
    BY <2>1, FinishUnstuck
  <2>2. ASSUME /\ call' = [call EXCEPT ![c] = [@ EXCEPT !.phase = "resent", !.go = FALSE,
                              !.access = jar.access, !.refresh = jar.refresh]]
               /\ UNCHANGED <<refresh, form, lock>>
        PROVE  NoTabStuck'
    <3>1. PICK e : e = [call[c] EXCEPT !.phase = "resent", !.go = FALSE,
                              !.access = jar.access, !.refresh = jar.refresh]
      OBVIOUS
    <3>2. e.phase = "resent"
      BY <1>0, <3>1 DEF CallRecords
    <3>3. \A d \in Calls : call'[d].phase = "waiting" => call[d].phase = "waiting"
      BY <1>0, <2>2, <3>1, <3>2
    <3> QED BY <2>2, <3>3 DEF NoTabStuck
  <2> QED BY <1>4, <2>1, <2>2 DEF Resume
<1> QED BY <1>1, <1>2, <1>3, <1>4

(* A refresh that queues, goes out, is answered and resolves. *)
LEMMA RefreshesUnstuck ==
  ASSUME SessionInv, NoTabStuck, NEW t \in Tabs,
         RefreshLock(t) \/ RefreshArrive(t) \/ RefreshSettle(t)
  PROVE  NoTabStuck'
<1>0. /\ SoundCalls(call, sessions) /\ SoundRefreshes(refresh, sessions)
      /\ refresh = [u \in Tabs |-> refresh[u]] /\ refresh[t] \in RefreshRecords
      /\ lock \in Tabs \cup {NoTab} /\ sessions \in Seq(SessionRows)
  BY DEF SessionInv, TableInv, HoldersInv, SoundRefreshes, SoundRefresh
<1>1. ASSUME RefreshLock(t), Superseded(t) PROVE NoTabStuck'
  <2>1. PICK ok \in BOOLEAN : call' = Resolved(t, ok, call)
    BY <1>1 DEF RefreshLock
  <2>2. /\ refresh' = [refresh EXCEPT ![t] = IdleRefresh] /\ lock = NoTab /\ lock' = NoTab
    BY <1>1 DEF RefreshLock
  <2>3. ASSUME NEW c \in Calls, call'[c].phase = "waiting"
        PROVE  TabOf(c) # t /\ call[c].phase = "waiting"
    BY <1>0, <2>1, <2>3, ResolvedPhase
  <2>4. \A u \in Tabs : u # t => refresh'[u] = refresh[u]
    BY <1>0, <2>2
  <2>5. \A c \in Calls : call'[c].phase = "waiting" => refresh'[TabOf(c)].phase # "idle"
    BY <2>3, <2>4, TabOfAssumption DEF NoTabStuck
  <2> QED BY <2>2, <2>5 DEF NoTabStuck
<1>2. ASSUME NEW e, UnderWay(e), refresh' = [refresh EXCEPT ![t] = e],
             UNCHANGED <<call, form>>, lock' = lock \/ lock' = t
      PROVE  NoTabStuck'
  <2>1. \A u \in Tabs : \/ refresh'[u] = refresh[u] /\ u # t
                        \/ u = t /\ refresh'[u].phase \in {"sent", "arrived"}
    BY <1>0, <1>2 DEF UnderWay
  <2>2. \A c \in Calls : call'[c].phase = "waiting" => refresh'[TabOf(c)].phase # "idle"
    BY <1>2, <2>1, TabOfAssumption DEF NoTabStuck
  <2>3. lock' # NoTab => \/ refresh'[lock'].phase \in {"sent", "arrived"}
                         \/ form'[lock'].kind = "logout" /\ form'[lock'].phase \in {"sent", "arrived"}
    BY <1>0, <1>2, <2>1 DEF NoTabStuck
  <2> QED BY <2>2, <2>3 DEF NoTabStuck
<1>3. ASSUME RefreshLock(t), ~ Superseded(t) PROVE NoTabStuck'
  <2>1. PICK e : e = [refresh[t] EXCEPT !.phase = "sent", !.row = jar.refresh]
    OBVIOUS
  <2>2. UnderWay(e)
    BY <1>0, <2>1 DEF RefreshRecords, UnderWay
  <2>3. refresh' = [refresh EXCEPT ![t] = e] /\ lock' = t /\ UNCHANGED <<call, form>>
    BY <1>3, <2>1 DEF RefreshLock
  <2> QED BY <1>2, <2>2, <2>3
<1>4. ASSUME RefreshArrive(t) PROVE NoTabStuck'
  <2>1. PICK answer : refresh' = [refresh EXCEPT ![t] =
                        [@ EXCEPT !.phase = "arrived", !.answer = answer, !.row = 0]]
    BY <1>4 DEF RefreshArrive
  <2>2. PICK e : e = [refresh[t] EXCEPT !.phase = "arrived", !.answer = answer, !.row = 0]
    OBVIOUS
  <2>3. UnderWay(e)
    BY <1>0, <2>2 DEF RefreshRecords, UnderWay
  <2>4. refresh' = [refresh EXCEPT ![t] = e] /\ UNCHANGED <<call, form, lock>>
    BY <1>4, <2>1, <2>2 DEF RefreshArrive
  <2> QED BY <1>2, <2>3, <2>4
<1>5. ASSUME RefreshSettle(t) PROVE NoTabStuck'
  <2> DEFINE idle == [refresh EXCEPT ![t] = IdleRefresh]
  <2>1. CASE ClearAndRedirect(t, jar, Resolved(t, FALSE, call), idle, NoTab)
    <3>1. SoundRefreshes(idle, sessions) /\ SoundCalls(Resolved(t, FALSE, call), sessions)
      BY <1>0, IdleSound, ResolvedSound DEF SoundRefreshes
    <3>2. ASSUME NEW c \in Calls, Resolved(t, FALSE, call)[c].phase = "waiting"
          PROVE  idle[TabOf(c)].phase # "idle"
      <4>0. PICK ok \in BOOLEAN : Resolved(t, FALSE, call) = Resolved(t, ok, call)
        OBVIOUS
      <4>1. Resolved(t, ok, call)[c].phase = "waiting"
        BY <3>2, <4>0
      <4>2. TabOf(c) # t /\ call[c].phase = "waiting"
        BY <1>0, <4>1, ResolvedPhase
      <4> QED BY <1>0, <4>2, TabOfAssumption DEF NoTabStuck
    <3> QED BY <2>1, <3>1, <3>2, ClearUnstuck
  <2>2. ASSUME NEW rotated \in BOOLEAN, NEW ok \in BOOLEAN,
               /\ lock' = NoTab
               /\ call' = Resolved(t, ok,
                            IF rotated THEN [c \in Calls |-> Changed(call[c])] ELSE call)
               /\ refresh' = [u \in Tabs |-> IF u = t THEN IdleRefresh
                                ELSE IF rotated THEN Changed(refresh[u]) ELSE refresh[u]]
        PROVE  NoTabStuck'
    <3> DEFINE calls == IF rotated THEN [c \in Calls |-> Changed(call[c])] ELSE call
    <3>1. SoundCalls(calls, sessions) /\ \A c \in Calls : calls[c].phase = call[c].phase
      BY <1>0, ChangedSound DEF SoundCalls
    <3> HIDE DEF calls
    <3>2. ASSUME NEW c \in Calls, call'[c].phase = "waiting"
          PROVE  TabOf(c) # t /\ call[c].phase = "waiting"
      <4>1. call' = Resolved(t, ok, calls)
        BY <2>2 DEF calls
      <4> QED BY <3>1, <3>2, <4>1, ResolvedPhase
    <3>3. \A u \in Tabs : u # t => refresh'[u].phase = refresh[u].phase
      BY <1>0, <2>2, ChangedSound DEF SoundRefreshes
    <3>4. \A c \in Calls : call'[c].phase = "waiting" => refresh'[TabOf(c)].phase # "idle"
      BY <3>2, <3>3, TabOfAssumption DEF NoTabStuck
    <3> QED BY <2>2, <3>4 DEF NoTabStuck
  <2> QED BY <1>5, <2>1, <2>2 DEF RefreshSettle
<1> QED BY <1>1, <1>3, <1>4, <1>5

(* The login form and the sign-out. *)
LEMMA FormsUnstuck ==
  ASSUME SessionInv, NoTabStuck, NEW t \in Tabs,
         (\E u \in Users : Submit(t, u)) \/ SignOut(t) \/ SignOutLock(t)
           \/ LoginArrive(t) \/ LogoutArrive(t) \/ LoginSettle(t) \/ LogoutSettle(t)
  PROVE  NoTabStuck'
<1>0. /\ SoundCalls(call, sessions) /\ SoundRefreshes(refresh, sessions)
      /\ form = [u \in Tabs |-> form[u]] /\ form[t] \in FormRecords /\ SoundForm(form[t], sessions)
      /\ lock \in Tabs \cup {NoTab}
  BY DEF SessionInv, TableInv, HoldersInv, SoundForms, SoundForm
<1>1. ASSUME NEW e, form' = [form EXCEPT ![t] = e],
             SigningOut(t) => e.kind = "logout" /\ UnderWay(e),
             UNCHANGED <<call, refresh>>,
             lock' = lock \/ (lock' = t /\ e.kind = "logout" /\ UnderWay(e))
      PROVE  NoTabStuck'
  <2>1. \A u \in Tabs : \/ form'[u] = form[u] /\ u # t
                        \/ u = t /\ form'[u] = e
    BY <1>0, <1>1
  <2>2. lock' # NoTab => \/ refresh'[lock'].phase \in {"sent", "arrived"}
                         \/ form'[lock'].kind = "logout" /\ form'[lock'].phase \in {"sent", "arrived"}
    BY <1>0, <1>1, <2>1 DEF NoTabStuck, LeavingForm, SigningOut, UnderWay
  <2> QED BY <1>1, <2>2 DEF NoTabStuck
<1>2. ASSUME (\E u \in Users : Submit(t, u)) \/ SignOut(t) PROVE NoTabStuck'
  <2>1. PICK e : form' = [form EXCEPT ![t] = e]
    BY <1>2 DEF Submit, SignOut
  <2>2. ~ SigningOut(t) /\ UNCHANGED <<call, refresh, lock>>
    BY <1>2 DEF Submit, SignOut, LeavingForm, SigningOut, UnderWay
  <2> QED BY <1>1, <2>1, <2>2
<1>3. ASSUME SignOutLock(t) PROVE NoTabStuck'
  <2>1. PICK e : e = [form[t] EXCEPT !.phase = "sent", !.refresh = jar.refresh]
    OBVIOUS
  <2>2. e.phase = "sent" /\ e.kind = form[t].kind
    BY <1>0, <2>1 DEF FormRecords
  <2>3. form[t].kind = "logout"
    BY <1>0, <1>3 DEF SignOutLock, SoundForm
  <2>4. form' = [form EXCEPT ![t] = e] /\ lock' = t /\ UNCHANGED <<call, refresh>>
    BY <1>3, <2>1 DEF SignOutLock
  <2> QED BY <1>1, <2>2, <2>3, <2>4 DEF UnderWay
<1>4. ASSUME LoginArrive(t) PROVE NoTabStuck'
  <2>1. PICK e : form' = [form EXCEPT ![t] = e]
    BY <1>4 DEF LoginArrive
  <2>2. ~ SigningOut(t) /\ UNCHANGED <<call, refresh, lock>>
    BY <1>4 DEF LoginArrive, LeavingForm, SigningOut
  <2> QED BY <1>1, <2>1, <2>2
<1>5. ASSUME LogoutArrive(t) PROVE NoTabStuck'
  <2>1. PICK e : e = [form[t] EXCEPT !.phase = "arrived", !.refresh = 0]
    OBVIOUS
  <2>2. e.phase = "arrived" /\ e.kind = "logout"
    BY <1>0, <1>5, <2>1 DEF FormRecords, LogoutArrive
  <2>3. form' = [form EXCEPT ![t] = e] /\ UNCHANGED <<call, refresh, lock>>
    BY <1>5, <2>1 DEF LogoutArrive
  <2> QED BY <1>1, <2>2, <2>3 DEF UnderWay
<1>6. ASSUME LoginSettle(t) \/ LogoutSettle(t) PROVE NoTabStuck'
  <2>1. \A c \in Calls : call'[c].phase = call[c].phase
    BY <1>0, <1>6, ChangedSound DEF LoginSettle, LogoutSettle, Notify, SoundCalls
  <2>2. \A u \in Tabs : refresh'[u].phase = refresh[u].phase
    BY <1>0, <1>6, ChangedSound DEF LoginSettle, LogoutSettle, SoundRefreshes
  <2>3. form' = [form EXCEPT ![t] = IdleForm] /\ (lock' = NoTab \/ (lock' = lock /\ ~ SigningOut(t)))
    BY <1>6 DEF LoginSettle, LogoutSettle, LeavingForm, SigningOut
  <2>4. \A u \in Tabs : form'[u] = form[u] \/ u = t
    BY <1>0, <2>3
  <2>5. lock' # NoTab => \/ refresh'[lock'].phase \in {"sent", "arrived"}
                         \/ form'[lock'].kind = "logout" /\ form'[lock'].phase \in {"sent", "arrived"}
    BY <1>0, <2>2, <2>3, <2>4 DEF NoTabStuck, LeavingForm, SigningOut, UnderWay
  <2> QED BY <2>1, <2>2, <2>5, TabOfAssumption DEF NoTabStuck
<1> QED BY <1>2, <1>3, <1>4, <1>5, <1>6

(* A call that waits has a refresh under way in its own tab, and the lock of *)
(* the browser is held by a tab that has something to finish.                *)
THEOREM SessionNoTabStuck == Spec => []NoTabStuck
<1>1. Init => NoTabStuck
  BY DEF Init, NoTabStuck, IdleCall
<1>2. ASSUME SessionInv, NoTabStuck, [Next]_vars PROVE NoTabStuck'
  <2>1. CASE UNCHANGED <<call, refresh, form, lock>>
    BY <1>2, <2>1 DEF NoTabStuck
  <2>2. CASE Environment
    BY <1>2, <2>1, <2>2, CallsUnstuck
       DEF Environment, RetryWindowCloses, AccessExpires, CookiesExpire
  <2>3. CASE User
    <3>1. ASSUME NEW c \in Writers, NewCall(c, TRUE) PROVE NoTabStuck'
      BY <1>2, <3>1, CallsUnstuck, ActorsAssumption
    <3>2. ASSUME NEW t \in Tabs, NEW u \in LoginsOf(t), Submit(t, u) PROVE NoTabStuck'
      BY <1>2, <3>2, FormsUnstuck, LoginsOfAssumption
    <3>3. ASSUME NEW t \in SignsOut, SignOut(t) PROVE NoTabStuck'
      BY <1>2, <3>3, FormsUnstuck, ActorsAssumption
    <3> QED BY <2>3, <3>1, <3>2, <3>3 DEF User
  <2>4. ASSUME NEW c \in Readers, Poll(c) PROVE NoTabStuck'
    BY <1>2, <2>4, CallsUnstuck, ActorsAssumption DEF Poll
  <2>5. ASSUME NEW c \in Calls, CallStep(c) PROVE NoTabStuck'
    BY <1>2, <2>5, CallsUnstuck DEF CallStep
  <2>6. ASSUME NEW t \in Tabs, StorageEvent(t) \/ RequireAuth(t) \/ SignedInRedirect(t)
        PROVE  NoTabStuck'
    BY <2>1, <2>6 DEF StorageEvent, RequireAuth, SignedInRedirect
  <2>7. ASSUME NEW t \in Tabs, TabStep(t) \/ RefreshLock(t) \/ SignOutLock(t) PROVE NoTabStuck'
    BY <1>2, <2>6, <2>7, RefreshesUnstuck, FormsUnstuck DEF TabStep
  <2> QED BY <1>2, <2>1, <2>2, <2>3, <2>4, <2>5, <2>7 DEF Next, vars
<1> QED BY <1>1, <1>2, SessionInvariant, PTL DEF Spec

-----------------------------------------------------------------------------
(* One at a time, nothing presented that is spent, no tab out of date       *)
(* without news on its way.                                                 *)

(* Steps that neither take nor give back the lock, and announce what they   *)
(* change or leave the marker as it was.                                    *)
LEMMA QuietOrder ==
  ASSUME SessionInv, Orderly,
         \A u \in Tabs :
           \/ /\ refresh'[u].phase = refresh[u].phase /\ refresh'[u].row = refresh[u].row
              /\ refresh'[u].scope = refresh[u].scope /\ refresh'[u].answer = refresh[u].answer
           \/ refresh[u].phase \in {"idle", "queued"} /\ refresh'[u].phase \in {"idle", "queued"},
         \A u \in Tabs :
           \/ form'[u] = form[u]
           \/ /\ ~ LeavingForm(form[u]) /\ ~ LeavingForm(form'[u])
              /\ ~ AboutToAnnounce(form[u]) /\ ~ AboutToAnnounce(form'[u]),
         jar'.scope \in {jar.scope, NoUser}, jar'.refresh \in {jar.refresh, 0},
         UNCHANGED lock, faults' = faults \/ faults' = faults + 1,
         \A u \in Tabs : shown'[u] # jar'.scope /\ jar'.scope # NoUser =>
           shown'[u] = shown[u] /\ (u \in stale => u \in stale'),
         \A r \in 1..Len(sessions) : sessions'[r].live = sessions[r].live
  PROVE  Orderly'
<1>0. /\ faults \in Nat /\ jar.refresh \in 0..Len(sessions)
      /\ \A u \in Tabs : refresh[u].row \in 0..Len(sessions)
  BY DEF SessionInv, TableInv, HoldersInv, SoundJar, SoundRefreshes, SoundRefresh, RefreshRecords
<1>1. OneAtATime'
  BY DEF Orderly, OneAtATime, UnderWay, SigningOut
<1>2. PresentedLive'
  <2> SUFFICES ASSUME faults' = 0
               PROVE  /\ jar'.refresh # 0 => sessions'[jar'.refresh].live
                      /\ \A t \in Tabs : refresh'[t].phase = "sent" /\ refresh'[t].row # 0 =>
                           sessions'[refresh'[t].row].live
    BY DEF PresentedLive
  <2>1. faults = 0
    BY <1>0
  <2>2. jar.refresh # 0 => sessions[jar.refresh].live
    BY <2>1 DEF Orderly, PresentedLive
  <2>3. \A t \in Tabs : refresh[t].phase = "sent" /\ refresh[t].row # 0 =>
          sessions[refresh[t].row].live
    BY <2>1 DEF Orderly, PresentedLive
  <2>4. jar'.refresh # 0 => sessions'[jar'.refresh].live
    BY <1>0, <2>2
  <2>5. ASSUME NEW t \in Tabs, refresh'[t].phase = "sent", refresh'[t].row # 0
        PROVE  sessions'[refresh'[t].row].live
    BY <1>0, <2>3, <2>5
  <2> QED BY <2>4, <2>5
<1>3. NewsOnItsWay'
  <2> SUFFICES ASSUME NEW t \in Tabs, shown'[t] # jar'.scope, jar'.scope # NoUser
               PROVE  \/ t \in stale'
                      \/ \E u \in Tabs : AboutToAnnounce(form'[u])
                      \/ \E u \in Tabs : /\ refresh'[u].phase = "arrived" /\ refresh'[u].answer = "ok"
                                         /\ refresh'[u].scope = jar'.scope
    BY DEF NewsOnItsWay
  <2>1. jar'.scope = jar.scope /\ shown'[t] = shown[t]
    OBVIOUS
  <2>2. CASE t \in stale
    BY <2>2
  <2>3. CASE \E u \in Tabs : AboutToAnnounce(form[u])
    BY <2>3
  <2>4. CASE \E u \in Tabs : /\ refresh[u].phase = "arrived" /\ refresh[u].answer = "ok"
                             /\ refresh[u].scope = jar.scope
    BY <2>1, <2>4
  <2> QED BY <2>1, <2>2, <2>3, <2>4 DEF Orderly, NewsOnItsWay
<1> QED BY <1>1, <1>2, <1>3 DEF Orderly

(* Losing the session, with the lock kept by the tab that has it or given   *)
(* back by the tab that clears.                                             *)
LEMMA ClearOrder ==
  ASSUME SessionInv, Orderly, NEW t \in Tabs, NEW cookies, NEW calls, NEW refreshes, NEW holder,
         SoundJar(cookies, sessions), SoundRefreshes(refreshes, sessions),
         ClearAndRedirect(t, cookies, calls, refreshes, holder),
         cookies.refresh \in {jar.refresh, 0},
         \A u \in Tabs : refreshes[u] = refresh[u] \/ refreshes[u] = IdleRefresh,
         \/ holder = lock
         \/ refreshes[t] = IdleRefresh /\ UnderWay(refresh[t]) /\ holder = NoTab
  PROVE  Orderly'
<1> USE DEF ClearAndRedirect
<1>0. /\ form = [u \in Tabs |-> form[u]] /\ lock \in Tabs \cup {NoTab}
      /\ cookies \in [access : Nat, refresh : Nat, scope : Scopes]
  BY DEF SessionInv, HoldersInv, SoundForms, SoundJar
<1>1. /\ jar'.scope = NoUser /\ jar'.refresh = cookies.refresh
      /\ UNCHANGED <<sessions, faults>>
  BY <1>0
<1>2. \A u \in Tabs : \/ refresh'[u] = IdleRefresh /\ u = t /\ route[t] = "desk"
                      \/ /\ refresh'[u].phase = refreshes[u].phase
                         /\ refresh'[u].row = refreshes[u].row
  BY ChangedSound DEF SoundRefreshes
<1>3. \A u \in Tabs : \/ form'[u] = IdleForm /\ u = t /\ route[t] = "desk"
                      \/ form'[u] = form[u]
  BY <1>0
<1>4. NewsOnItsWay'
  BY <1>1 DEF NewsOnItsWay
<1>5. ASSUME NEW u \in Tabs
      PROVE  /\ UnderWay(refresh'[u]) =>
                  UnderWay(refresh[u]) /\ refreshes[u] = refresh[u] /\ ~ (u = t /\ route[t] = "desk")
             /\ SigningOut(u)' => SigningOut(u) /\ ~ (u = t /\ route[t] = "desk")
             /\ refresh'[u].phase = "sent" =>
                  refresh[u].phase = "sent" /\ refresh'[u].row = refresh[u].row
  <2>1. ~ UnderWay(IdleRefresh) /\ ~ LeavingForm(IdleForm) /\ IdleRefresh.phase = "idle"
    BY DEF UnderWay, IdleRefresh, IdleForm, LeavingForm
  <2>2. UnderWay(refresh'[u]) =>
                  UnderWay(refresh[u]) /\ refreshes[u] = refresh[u] /\ ~ (u = t /\ route[t] = "desk")
    BY <1>2, <2>1 DEF UnderWay
  <2>3. SigningOut(u)' => SigningOut(u) /\ ~ (u = t /\ route[t] = "desk")
    <3>1. CASE u = t /\ route[t] = "desk"
      <4>1. form'[u] = IdleForm
        BY <1>0, <3>1
      <4> QED BY <2>1, <4>1 DEF SigningOut
    <3>2. CASE ~ (u = t /\ route[t] = "desk")
      BY <1>3, <3>2 DEF SigningOut
    <3> QED BY <3>1, <3>2
  <2>4. refresh'[u].phase = "sent" =>
                  refresh[u].phase = "sent" /\ refresh'[u].row = refresh[u].row
    BY <1>2, <2>1
  <2> QED BY <2>2, <2>3, <2>4
<1>6. OneAtATime'
  <2> SUFFICES ASSUME NEW u \in Tabs
               PROVE  /\ UnderWay(refresh'[u]) \/ SigningOut(u)' => lock' = u
                      /\ ~ (UnderWay(refresh'[u]) /\ SigningOut(u)')
    BY DEF OneAtATime
  <2>1. ~ (UnderWay(refresh'[u]) /\ SigningOut(u)')
    BY <1>5 DEF Orderly, OneAtATime
  <2>2. ASSUME UnderWay(refresh'[u]) \/ SigningOut(u)' PROVE lock' = u
    <3>1. lock = u /\ ~ (u = t /\ route[t] = "desk")
      BY <1>5, <2>2 DEF Orderly, OneAtATime
    <3>2. CASE holder = lock
      BY <3>1, <3>2
    <3>3. CASE refreshes[t] = IdleRefresh /\ UnderWay(refresh[t]) /\ holder = NoTab
      <4>1. lock = t /\ ~ SigningOut(t)
        BY <3>3 DEF Orderly, OneAtATime
      <4>2. refreshes[t] # refresh[t]
        BY <3>3 DEF UnderWay, IdleRefresh
      <4> QED BY <1>5, <2>2, <3>1, <4>1, <4>2
    <3> QED BY <3>2, <3>3
  <2> QED BY <2>1, <2>2
<1>7. PresentedLive'
  BY <1>1, <1>5 DEF Orderly, PresentedLive
<1> QED BY <1>4, <1>6, <1>7 DEF Orderly

(* An answer, refused or not, goes to the page. *)
LEMMA FinishOrder ==
  ASSUME SessionInv, Orderly, NEW c \in Calls, NEW refused, NEW cookies,
         SoundJar(cookies, sessions), FinishCall(c, refused, cookies),
         cookies.refresh \in {jar.refresh, 0}, cookies.scope \in {jar.scope, NoUser}
  PROVE  Orderly'
<1> DEFINE calls == [call EXCEPT ![c] = IdleCall]
<1>1. CASE ClearAndRedirect(TabOf(c), cookies, calls, refresh, lock)
  <2>1. SoundRefreshes(refresh, sessions)
    BY DEF SessionInv, HoldersInv
  <2> HIDE DEF calls
  <2> QED BY <1>1, <2>1, ClearOrder, TabOfAssumption
<1>2. CASE jar' = cookies /\ UNCHANGED <<sessions, shown, stale, refresh, form, lock, faults>>
  BY <1>2, QuietOrder
<1> QED BY <1>1, <1>2 DEF FinishCall

(* Everything a private request goes through. *)
LEMMA CallsOrder ==
  ASSUME SessionInv, Orderly, NEW c \in Calls, NEW w \in BOOLEAN,
         NewCall(c, w) \/ CallLost(c) \/ Answer(c) \/ Resume(c)
  PROVE  Orderly'
<1>0. /\ refresh = [t \in Tabs |-> refresh[t]] /\ TabOf(c) \in Tabs
      /\ sessions \in Seq(SessionRows) /\ SoundJar(jar, sessions)
  BY TabOfAssumption DEF SessionInv, TableInv, HoldersInv, SoundRefreshes
<1>1. CASE NewCall(c, w) \/ CallLost(c)
  BY <1>1, QuietOrder DEF NewCall, CallLost
<1>2. /\ SoundJar(JarAfter(c), sessions) /\ JarAfter(c).refresh \in {jar.refresh, 0}
      /\ JarAfter(c).scope \in {jar.scope, NoUser}
  BY <1>0, IdleSound DEF JarAfter, EmptyJar
<1>3. ASSUME Answer(c) PROVE Orderly'
  <2>1. CASE FinishCall(c, ~Accepted(c), JarAfter(c))
    BY <1>2, <2>1, FinishOrder
  <2>2. ASSUME /\ jar' = JarAfter(c)
               /\ refresh' = IF refresh[TabOf(c)].phase # "idle" THEN refresh
                     ELSE [refresh EXCEPT ![TabOf(c)] = [IdleRefresh EXCEPT
                             !.phase = "queued", !.scope = call[c].scope,
                             !.changed = call[c].changed]]
               /\ UNCHANGED <<sessions, shown, stale, form, lock, faults>>
        PROVE  Orderly'
    <3>1. PICK e : e = [IdleRefresh EXCEPT !.phase = "queued", !.scope = call[c].scope,
                                           !.changed = call[c].changed]
      OBVIOUS
    <3>2. e.phase = "queued"
      BY <3>1 DEF IdleRefresh
    <3>3. \A u \in Tabs : \/ refresh'[u] = refresh[u]
                          \/ refresh[u].phase = "idle" /\ refresh'[u].phase = "queued"
      BY <1>0, <2>2, <3>1, <3>2
    <3> QED BY <1>2, <2>2, <3>3, QuietOrder
  <2> QED BY <1>3, <2>1, <2>2 DEF Answer
<1>4. ASSUME Resume(c) PROVE Orderly'
  <2>1. CASE FinishCall(c, TRUE, jar)
    BY <1>0, <2>1, FinishOrder
  <2>2. CASE UNCHANGED <<sessions, jar, shown, route, stale, refresh, form, lock, faults>>
    BY <2>2, QuietOrder
  <2> QED BY <1>4, <2>1, <2>2 DEF Resume
<1> QED BY <1>1, <1>3, <1>4

(* The clock of cookies and tokens, and the listeners of the pages. *)
LEMMA ClockOrder ==
  ASSUME SessionInv, Orderly,
         (\E r \in 1..MaxSessions : RetryWindowCloses(r)) \/ AccessExpires \/ CookiesExpire
           \/ \E t \in Tabs : StorageEvent(t) \/ RequireAuth(t) \/ SignedInRedirect(t)
  PROVE  Orderly'
<1>0. /\ sessions \in Seq(SessionRows) /\ shown \in [Tabs -> Scopes]
      /\ jar \in [access : Nat, refresh : Nat, scope : Scopes]
      /\ jar.access \in 0..Len(sessions)
  BY DEF SessionInv, TableInv, HoldersInv, SoundJar
<1>1. ASSUME NEW r \in 1..MaxSessions, RetryWindowCloses(r) PROVE Orderly'
  <2>1. \A q \in 1..Len(sessions) : sessions'[q].live = sessions[q].live
    BY <1>0, <1>1, WindowTable DEF RetryWindowCloses, Rows
  <2> QED BY <1>1, <2>1, QuietOrder DEF RetryWindowCloses
<1>2. ASSUME AccessExpires PROVE Orderly'
  <2>1. \A q \in 1..Len(sessions) : sessions'[q].live = sessions[q].live
    BY <1>0, <1>2, WindowTable DEF AccessExpires
  <2> QED BY <1>2, <2>1, QuietOrder DEF AccessExpires
<1>3. ASSUME CookiesExpire PROVE Orderly'
  <2>1. jar'.scope = NoUser /\ jar'.refresh = jar.refresh
    BY <1>0, <1>3 DEF CookiesExpire
  <2> QED BY <1>3, <2>1, QuietOrder DEF CookiesExpire
<1>4. ASSUME NEW t \in Tabs, StorageEvent(t) \/ RequireAuth(t) \/ SignedInRedirect(t)
      PROVE  Orderly'
  <2>1. \A u \in Tabs : shown'[u] # jar.scope =>
           shown'[u] = shown[u] /\ (u \in stale => u \in stale')
    BY <1>0, <1>4 DEF StorageEvent, RequireAuth, SignedInRedirect
  <2>2. UNCHANGED <<sessions, jar, call, refresh, form, lock, faults>>
    BY <1>4 DEF StorageEvent, RequireAuth, SignedInRedirect
  <2> QED BY <2>1, <2>2, QuietOrder
<1> QED BY <1>1, <1>2, <1>3, <1>4

(* A refresh that takes the lock, one that was overtaken while it queued,   *)
(* and one that gives the lock back.                                        *)
LEMMA RefreshesOrder ==
  ASSUME SessionInv, Orderly, NEW t \in Tabs, RefreshLock(t) \/ RefreshSettle(t)
  PROVE  Orderly'
<1>0. /\ SoundRefreshes(refresh, sessions) /\ SoundJar(jar, sessions)
      /\ refresh = [u \in Tabs |-> refresh[u]] /\ refresh[t] \in RefreshRecords
      /\ lock \in Tabs \cup {NoTab} /\ sessions \in Seq(SessionRows) /\ shown \in [Tabs -> Scopes]
  BY DEF SessionInv, TableInv, HoldersInv, SoundRefreshes, SoundRefresh
<1>1. ASSUME RefreshLock(t), Superseded(t) PROVE Orderly'
  <2>1. /\ refresh' = [refresh EXCEPT ![t] = IdleRefresh] /\ refresh[t].phase = "queued"
        /\ UNCHANGED <<sessions, jar, shown, stale, form, lock, faults>>
    BY <1>1 DEF RefreshLock
  <2>2. \A u \in Tabs : \/ refresh'[u] = refresh[u]
                        \/ refresh[u].phase = "queued" /\ refresh'[u].phase = "idle"
    BY <1>0, <2>1 DEF IdleRefresh
  <2> QED BY <2>1, <2>2, QuietOrder
<1>2. ASSUME RefreshLock(t), ~ Superseded(t) PROVE Orderly'
  <2>1. PICK e : e = [refresh[t] EXCEPT !.phase = "sent", !.row = jar.refresh]
    OBVIOUS
  <2>2. e.phase = "sent" /\ e.row = jar.refresh
    BY <1>0, <2>1 DEF RefreshRecords
  <2>3. /\ refresh' = [refresh EXCEPT ![t] = e] /\ lock = NoTab /\ lock' = t
        /\ refresh[t].phase = "queued"
        /\ UNCHANGED <<sessions, jar, shown, stale, form, faults>>
    BY <1>2, <2>1 DEF RefreshLock
  <2>4. \A u \in Tabs : \/ u # t /\ refresh'[u] = refresh[u]
                        \/ u = t /\ refresh'[u].phase = "sent" /\ refresh'[u].row = jar.refresh
    BY <1>0, <2>2, <2>3
  <2>5. \A u \in Tabs : ~ UnderWay(refresh[u]) /\ ~ SigningOut(u)
    BY <2>3, NoTabAssumption DEF Orderly, OneAtATime
  <2>6. OneAtATime'
    <3>1. \A u \in Tabs : ~ SigningOut(u)'
      BY <2>3, <2>5 DEF SigningOut
    <3>2. \A u \in Tabs : UnderWay(refresh'[u]) => u = t
      BY <2>4, <2>5
    <3> QED BY <2>3, <3>1, <3>2 DEF OneAtATime
  <2>7. PresentedLive'
    BY <2>3, <2>4 DEF Orderly, PresentedLive
  <2>8. NewsOnItsWay'
    BY <2>3, <2>4 DEF Orderly, NewsOnItsWay
  <2> QED BY <2>6, <2>7, <2>8 DEF Orderly
<1>3. ASSUME RefreshSettle(t) PROVE Orderly'
  <2> DEFINE idle == [refresh EXCEPT ![t] = IdleRefresh]
             rotated == jar.scope = refresh[t].scope /\ refresh[t].answer = "ok"
  <2>0. UnderWay(refresh[t]) /\ refresh[t].phase = "arrived"
    BY <1>3 DEF RefreshSettle, UnderWay
  <2>1. CASE ClearAndRedirect(t, jar, Resolved(t, FALSE, call), idle, NoTab)
    <3>1. SoundRefreshes(idle, sessions)
      BY <1>0, IdleSound DEF SoundRefreshes
    <3>2. idle[t] = IdleRefresh /\ \A u \in Tabs : idle[u] = refresh[u] \/ idle[u] = IdleRefresh
      BY <1>0
    <3> HIDE DEF idle
    <3> QED BY <1>0, <2>0, <2>1, <3>1, <3>2, ClearOrder
  <2>2. CASE /\ lock' = NoTab
             /\ refresh' = [u \in Tabs |-> IF u = t THEN IdleRefresh
                              ELSE IF rotated THEN Changed(refresh[u]) ELSE refresh[u]]
             /\ shown' = IF rotated THEN [shown EXCEPT ![t] = jar.scope] ELSE shown
             /\ stale' = IF rotated THEN (stale \cup Tabs) \ {t} ELSE stale
             /\ UNCHANGED <<sessions, jar, form, faults>>
    <3>1. \A u \in Tabs :
             \/ u = t /\ refresh'[u] = IdleRefresh
             \/ /\ u # t
                /\ refresh'[u].phase = refresh[u].phase /\ refresh'[u].row = refresh[u].row
                /\ refresh'[u].scope = refresh[u].scope /\ refresh'[u].answer = refresh[u].answer
      BY <1>0, <2>2, ChangedSound DEF SoundRefreshes
    <3>2. /\ \A u \in Tabs : ~ UnderWay(refresh'[u]) /\ ~ SigningOut(u)'
      <4>1. \A u \in Tabs : (UnderWay(refresh[u]) => u = t) /\ ~ SigningOut(u)
        BY <2>0 DEF Orderly, OneAtATime
      <4>2. \A u \in Tabs : ~ UnderWay(refresh'[u])
        BY <3>1, <4>1 DEF UnderWay, IdleRefresh
      <4> QED BY <2>2, <4>1, <4>2 DEF SigningOut
    <3>3. OneAtATime'
      BY <3>2 DEF OneAtATime
    <3>4. PresentedLive'
      BY <2>2, <3>2 DEF Orderly, PresentedLive, UnderWay
    <3>5. NewsOnItsWay'
      <4>1. CASE rotated
        BY <1>0, <2>2, <4>1 DEF NewsOnItsWay
      <4>2. CASE ~ rotated
        <5>1. UNCHANGED <<shown, stale, jar, form>>
          BY <2>2, <4>2
        <5>2. \A u \in Tabs :
                 /\ refresh[u].phase = "arrived" /\ refresh[u].answer = "ok"
                 /\ refresh[u].scope = jar.scope
                 => /\ refresh'[u].phase = "arrived" /\ refresh'[u].answer = "ok"
                    /\ refresh'[u].scope = jar.scope
          BY <3>1, <4>2
        <5> QED BY <5>1, <5>2 DEF Orderly, NewsOnItsWay
      <4> QED BY <4>1, <4>2
    <3> QED BY <3>3, <3>4, <3>5 DEF Orderly
  <2> QED BY <1>3, <2>1, <2>2 DEF RefreshSettle
<1> QED BY <1>1, <1>2, <1>3

(* A live token that is presented is rotated; without one nothing happens. *)
LEMMA LiveOutcome ==
  ASSUME TableInv, NEW r \in 0..Len(sessions), r # 0 => sessions[r].live
  PROVE  LET out == RefreshOutcome(r) IN
         \/ out.answer = "denied" /\ out.rows = sessions
         \/ /\ r \in 1..Len(sessions) /\ out.answer = "ok" /\ out.rows = RotatedRows(r)
            /\ out.row = Len(sessions) + 1 /\ RotatedRows(r)[Len(sessions) + 1].live
<1>1. CASE r = 0
  BY <1>1 DEF RefreshOutcome
<1>2. CASE r # 0
  <2>1. /\ sessions \in Seq(SessionRows) /\ Len(sessions) \in Nat /\ r \in 1..Len(sessions)
        /\ \A q \in 1..Len(sessions) : sessions[q] \in SessionRows
    BY <1>2 DEF TableInv
  <2>2. sessions[r].user \in Users /\ sessions[r].login \in Nat
    BY <2>1 DEF SessionRows
  <2>3. RotatedRows(r)[Len(sessions) + 1].live
    BY <2>1, <2>2, RotatedTable, NewSessionRow
  <2>4. RefreshOutcome(r) = [answer |-> "ok", row |-> Len(sessions) + 1, rows |-> RotatedRows(r)]
    BY <1>2, <2>1 DEF RefreshOutcome
  <2> QED BY <2>1, <2>3, <2>4
<1> QED BY <1>1, <1>2

(* The answer of a refresh: the only tab that presents a token now holds a  *)
(* live one, or nothing was presented.                                      *)
LEMMA RefreshArriveOrder ==
  ASSUME SessionInv, Orderly, NEW t \in Tabs, RefreshArrive(t)
  PROVE  Orderly'
<1> DEFINE out == RefreshOutcome(refresh[t].row)
<1>0. /\ TableInv /\ sessions \in Seq(SessionRows) /\ faults \in Nat /\ Len(sessions) \in Nat
      /\ SoundRefreshes(refresh, sessions) /\ SoundRefresh(refresh[t], sessions)
      /\ refresh = [u \in Tabs |-> refresh[u]] /\ refresh[t] \in RefreshRecords
      /\ refresh[t].row \in 0..Len(sessions)
  BY DEF SessionInv, TableInv, HoldersInv, SoundRefreshes, SoundRefresh, RefreshRecords
<1>1. PICK answer \in {"ok", "denied", "502", "lost"} :
        /\ refresh' = [refresh EXCEPT ![t] =
                        [@ EXCEPT !.phase = "arrived", !.answer = answer, !.row = 0]]
        /\ \/ UNCHANGED <<sessions, jar, faults>>
           \/ faults' = faults + 1 /\ UNCHANGED jar
           \/ /\ sessions' = out.rows /\ answer = out.answer /\ UNCHANGED faults
              /\ jar' = IF out.answer = "ok" THEN RefreshCookies(t, out.row) ELSE EmptyJar
  <2>1. out.answer \in {"ok", "denied"}
    BY <1>0, OutcomeTable
  <2> QED BY <2>1 DEF RefreshArrive
<1>2. UNCHANGED <<shown, stale, call, form, lock>> /\ refresh[t].phase = "sent"
  BY DEF RefreshArrive
<1>3. /\ \A u \in Tabs : u # t => refresh'[u] = refresh[u]
      /\ refresh'[t].phase = "arrived" /\ refresh'[t].answer = answer
      /\ refresh'[t].scope = refresh[t].scope
  <2>1. PICK e : e = [refresh[t] EXCEPT !.phase = "arrived", !.answer = answer, !.row = 0]
    OBVIOUS
  <2>2. e.phase = "arrived" /\ e.answer = answer /\ e.scope = refresh[t].scope
    BY <1>0, <2>1 DEF RefreshRecords
  <2> QED BY <1>0, <1>1, <2>1, <2>2
<1>4. lock = t /\ ~ SigningOut(t) /\ \A u \in Tabs : UnderWay(refresh[u]) \/ SigningOut(u) => u = t
  BY <1>2 DEF Orderly, OneAtATime, UnderWay
<1>5. OneAtATime'
  <2>1. \A u \in Tabs : SigningOut(u)' <=> SigningOut(u)
    BY <1>2 DEF SigningOut
  <2> QED BY <1>2, <1>3, <1>4, <2>1 DEF OneAtATime
<1>6. PresentedLive'
  <2> SUFFICES ASSUME faults' = 0 PROVE jar'.refresh # 0 => sessions'[jar'.refresh].live
    <3>1. \A u \in Tabs : refresh'[u].phase # "sent"
      BY <1>3, <1>4 DEF UnderWay
    <3> QED BY <3>1 DEF PresentedLive
  <2>1. faults = 0 /\ faults' # faults + 1
    BY <1>0, <1>1
  <2>2. CASE UNCHANGED <<sessions, jar, faults>>
    BY <2>1, <2>2 DEF Orderly, PresentedLive
  <2>3. CASE /\ sessions' = out.rows
             /\ jar' = IF out.answer = "ok" THEN RefreshCookies(t, out.row) ELSE EmptyJar
    <3>1. refresh[t].row # 0 => sessions[refresh[t].row].live
      BY <1>2, <2>1 DEF Orderly, PresentedLive
    <3>2. CASE out.answer = "denied"
      BY <2>3, <3>2 DEF EmptyJar
    <3>3. CASE /\ out.answer = "ok" /\ out.rows = RotatedRows(refresh[t].row)
               /\ out.row = Len(sessions) + 1
               /\ RotatedRows(refresh[t].row)[Len(sessions) + 1].live
      BY <2>3, <3>3 DEF RefreshCookies
    <3> QED BY <1>0, <3>1, <3>2, <3>3, LiveOutcome
  <2> QED BY <1>1, <2>1, <2>2, <2>3
<1>7. NewsOnItsWay'
  <2>1. \A u \in Tabs : u # t \/ refresh[u].phase # "arrived"
    BY <1>2
  <2>2. CASE jar' = jar
    BY <1>2, <1>3, <2>1, <2>2 DEF Orderly, NewsOnItsWay
  <2>3. CASE jar' = EmptyJar
    BY <2>3 DEF NewsOnItsWay, EmptyJar
  <2>4. CASE answer = "ok" /\ jar' = RefreshCookies(t, out.row)
    BY <1>3, <2>4 DEF NewsOnItsWay, RefreshCookies
  <2> QED BY <1>1, <2>2, <2>3, <2>4
<1> QED BY <1>5, <1>6, <1>7 DEF Orderly

(* The login form and the sign-out on the browser's side. *)
LEMMA FormsOrder ==
  ASSUME SessionInv, Orderly, NEW t \in Tabs,
         (\E u \in Users : Submit(t, u)) \/ SignOut(t) \/ SignOutLock(t)
           \/ LoginSettle(t) \/ LogoutSettle(t)
  PROVE  Orderly'
<1>0. /\ form = [u \in Tabs |-> form[u]] /\ form[t] \in FormRecords /\ SoundForm(form[t], sessions)
      /\ SoundRefreshes(refresh, sessions) /\ shown \in [Tabs -> Scopes]
      /\ jar \in [access : Nat, refresh : Nat, scope : Scopes] /\ lock \in Tabs \cup {NoTab}
  BY DEF SessionInv, HoldersInv, SoundForms, SoundForm, SoundJar
<1>1. ASSUME NEW u \in Users, Submit(t, u) PROVE Orderly'
  <2>1. PICK e : e = [IdleForm EXCEPT !.phase = "sent", !.user = u]
    OBVIOUS
  <2>2. ~ LeavingForm(e) /\ ~ AboutToAnnounce(e)
    BY <2>1 DEF LeavingForm, AboutToAnnounce, IdleForm
  <2>3. ~ LeavingForm(form[t]) /\ ~ AboutToAnnounce(form[t])
    BY <1>1 DEF Submit, LeavingForm, UnderWay, AboutToAnnounce
  <2>4. form' = [form EXCEPT ![t] = e] /\ UNCHANGED <<sessions, jar, shown, stale, refresh, lock, faults>>
    BY <1>1, <2>1 DEF Submit
  <2>5. \A v \in Tabs : \/ form'[v] = form[v]
                        \/ /\ ~ LeavingForm(form[v]) /\ ~ LeavingForm(form'[v])
                           /\ ~ AboutToAnnounce(form[v]) /\ ~ AboutToAnnounce(form'[v])
    BY <1>0, <2>2, <2>3, <2>4
  <2> QED BY <2>4, <2>5, QuietOrder
<1>2. ASSUME SignOut(t) PROVE Orderly'
  <2>1. PICK e : e = [IdleForm EXCEPT !.phase = "queued", !.kind = "logout"]
    OBVIOUS
  <2>2. ~ LeavingForm(e) /\ ~ AboutToAnnounce(e)
    BY <2>1 DEF LeavingForm, UnderWay, AboutToAnnounce, IdleForm
  <2>3. ~ LeavingForm(form[t]) /\ ~ AboutToAnnounce(form[t])
    BY <1>2 DEF SignOut, LeavingForm, UnderWay, AboutToAnnounce
  <2>4. form' = [form EXCEPT ![t] = e] /\ UNCHANGED <<sessions, jar, shown, stale, refresh, lock, faults>>
    BY <1>2, <2>1 DEF SignOut
  <2>5. \A v \in Tabs : \/ form'[v] = form[v]
                        \/ /\ ~ LeavingForm(form[v]) /\ ~ LeavingForm(form'[v])
                           /\ ~ AboutToAnnounce(form[v]) /\ ~ AboutToAnnounce(form'[v])
    BY <1>0, <2>2, <2>3, <2>4
  <2> QED BY <2>4, <2>5, QuietOrder
<1>3. ASSUME SignOutLock(t) PROVE Orderly'
  <2>1. /\ lock = NoTab /\ lock' = t /\ form[t].phase = "queued"
        /\ \A u \in Tabs : u # t => form'[u] = form[u]
        /\ UNCHANGED <<sessions, jar, shown, stale, refresh, faults>>
    BY <1>0, <1>3 DEF SignOutLock
  <2>2. \A u \in Tabs : ~ UnderWay(refresh[u]) /\ ~ SigningOut(u)
    BY <2>1, NoTabAssumption DEF Orderly, OneAtATime
  <2>3. OneAtATime'
    <3>1. \A u \in Tabs : SigningOut(u)' => u = t
      BY <2>1, <2>2 DEF SigningOut
    <3> QED BY <2>1, <2>2, <3>1 DEF OneAtATime
  <2>4. NewsOnItsWay'
    <3>1. ~ AboutToAnnounce(form[t])
      BY <2>1 DEF AboutToAnnounce
    <3>2. \A u \in Tabs : AboutToAnnounce(form[u]) => AboutToAnnounce(form'[u])
      BY <2>1, <3>1
    <3> QED BY <2>1, <3>2 DEF Orderly, NewsOnItsWay
  <2>5. PresentedLive'
    BY <2>1 DEF Orderly, PresentedLive
  <2> QED BY <2>3, <2>4, <2>5 DEF Orderly
<1>4. ASSUME LoginSettle(t) \/ LogoutSettle(t) PROVE Orderly'
  <2>1. \A u \in Tabs : /\ refresh'[u].phase = refresh[u].phase /\ refresh'[u].row = refresh[u].row
    BY <1>0, <1>4, ChangedSound DEF LoginSettle, LogoutSettle, SoundRefreshes
  <2>2. /\ UNCHANGED <<sessions, faults>> /\ jar'.refresh = jar.refresh
        /\ form' = [form EXCEPT ![t] = IdleForm]
    BY <1>0, <1>4 DEF LoginSettle, LogoutSettle
  <2>3. \A u \in Tabs : u # t => form'[u] = form[u]
    BY <1>0, <2>2
  <2>4. form'[t] = IdleForm
    BY <1>0, <2>2
  <2>5. \A u \in Tabs : SigningOut(u)' => SigningOut(u) /\ u # t
    BY <2>3, <2>4 DEF SigningOut, LeavingForm, UnderWay, IdleForm
  <2>6. \/ UNCHANGED lock
        \/ SigningOut(t) /\ \A u \in Tabs : ~ UnderWay(refresh[u]) /\ (SigningOut(u) => u = t)
    <3>1. CASE LoginSettle(t)
      BY <3>1 DEF LoginSettle
    <3>2. CASE LogoutSettle(t)
      <4>1. SigningOut(t)
        BY <3>2 DEF LogoutSettle, SigningOut, LeavingForm, UnderWay
      <4> QED BY <4>1 DEF Orderly, OneAtATime
    <3> QED BY <1>4, <3>1, <3>2
  <2>7. OneAtATime'
    BY <2>1, <2>5, <2>6 DEF Orderly, OneAtATime, UnderWay
  <2>8. PresentedLive'
    BY <2>1, <2>2 DEF Orderly, PresentedLive
  <2>9. NewsOnItsWay'
    <3>1. CASE LoginSettle(t)
      <4>1. \A u \in Tabs : shown'[u] # jar'.scope => u \in stale'
        BY <1>0, <3>1 DEF LoginSettle, Notify
      <4> QED BY <4>1 DEF NewsOnItsWay
    <3>2. CASE LogoutSettle(t)
      <4>1. jar'.scope = NoUser
        BY <1>0, <3>2 DEF LogoutSettle
      <4> QED BY <4>1 DEF NewsOnItsWay
    <3> QED BY <1>4, <3>1, <3>2
  <2> QED BY <2>7, <2>8, <2>9 DEF Orderly
<1> QED BY <1>1, <1>2, <1>3, <1>4

(* A sign-in or a sign-out at the gateway and the backend. *)
LEMMA FormArriveOrder ==
  ASSUME SessionInv, Orderly, NEW t \in Tabs, LoginArrive(t) \/ LogoutArrive(t)
  PROVE  Orderly'
<1>0. /\ sessions \in Seq(SessionRows) /\ Len(sessions) \in Nat /\ faults \in Nat
      /\ form = [u \in Tabs |-> form[u]] /\ form[t] \in FormRecords /\ SoundForm(form[t], sessions)
      /\ jar.refresh \in 0..Len(sessions)
      /\ \A u \in Tabs : refresh[u].row \in 0..Len(sessions)
  BY DEF SessionInv, TableInv, HoldersInv, SoundJar, SoundForms, SoundForm,
         SoundRefreshes, SoundRefresh, RefreshRecords
<1>1. ASSUME LoginArrive(t) PROVE Orderly'
  <2> DEFINE n == Len(sessions) + 1
  <2>1. form[t].user \in Users /\ ~ SigningOut(t)
        /\ UNCHANGED <<shown, stale, refresh, lock>> /\ form[t].phase = "sent"
    BY <1>0, <1>1 DEF LoginArrive, SoundForm, SigningOut, LeavingForm
  <2>2. PICK e : form' = [form EXCEPT ![t] = e] /\ ~ LeavingForm(e)
                 /\ \/ UNCHANGED jar
                    \/ /\ AboutToAnnounce(e)
                       /\ jar' = [access |-> n, refresh |-> n, scope |-> form[t].user]
                       /\ sessions' = LoginRows(form[t].user)
    <3>1. ~ LeavingForm(IdleForm)
      BY DEF LeavingForm, IdleForm
    <3>2. PICK e : e = [form[t] EXCEPT !.phase = "arrived", !.user = NoUser]
      OBVIOUS
    <3>3. e.phase = "arrived" /\ e.kind = "login"
      BY <1>0, <1>1, <3>2 DEF LoginArrive, FormRecords
    <3>4. ~ LeavingForm(e) /\ AboutToAnnounce(e)
      BY <3>3 DEF LeavingForm, AboutToAnnounce
    <3> QED BY <1>1, <3>1, <3>2, <3>4 DEF LoginArrive
  <2>3. (\A u \in Tabs : u # t => form'[u] = form[u]) /\ form'[t] = e
    BY <1>0, <2>2
  <2>4. OneAtATime'
    <3>1. \A u \in Tabs : SigningOut(u)' => SigningOut(u)
      BY <2>2, <2>3 DEF SigningOut
    <3> QED BY <2>1, <3>1 DEF Orderly, OneAtATime
  <2>5. /\ \A q \in 1..Len(sessions) : LoginRows(form[t].user)[q] = sessions[q]
        /\ LoginRows(form[t].user)[n].live
    BY <1>0, <2>1, LoginTable, NewSessionRow
  <2>6. PresentedLive'
    <3> SUFFICES ASSUME faults' = 0
                 PROVE  /\ jar'.refresh # 0 => sessions'[jar'.refresh].live
                        /\ \A u \in Tabs : refresh[u].phase = "sent" /\ refresh[u].row # 0 =>
                             sessions'[refresh[u].row].live
      BY <2>1 DEF PresentedLive
    <3>1. faults = 0 /\ (sessions' = sessions \/ sessions' = LoginRows(form[t].user))
      BY <1>0, <1>1 DEF LoginArrive
    <3>2. jar.refresh # 0 => sessions[jar.refresh].live
      BY <1>0, <1>1 DEF LoginArrive, Orderly, PresentedLive
    <3>3. \A u \in Tabs : refresh[u].phase = "sent" /\ refresh[u].row # 0 =>
                             sessions[refresh[u].row].live
      BY <1>0, <1>1 DEF LoginArrive, Orderly, PresentedLive
    <3>4. \A q \in 1..Len(sessions) : sessions'[q] = sessions[q]
      BY <2>5, <3>1
    <3>5. \A u \in Tabs : refresh[u].phase = "sent" /\ refresh[u].row # 0 =>
                             sessions'[refresh[u].row].live
      BY <1>0, <3>3, <3>4
    <3>6. jar'.refresh # 0 => sessions'[jar'.refresh].live
      <4>1. CASE UNCHANGED jar
        BY <1>0, <3>2, <3>4, <4>1
      <4>2. CASE jar' = [access |-> n, refresh |-> n, scope |-> form[t].user]
                 /\ sessions' = LoginRows(form[t].user)
        BY <2>5, <4>2
      <4> QED BY <2>2, <4>1, <4>2
    <3> QED BY <3>5, <3>6
  <2>7. NewsOnItsWay'
    <3>1. ~ AboutToAnnounce(form[t])
      BY <2>1 DEF AboutToAnnounce
    <3>2. CASE UNCHANGED jar
      <4>1. \A u \in Tabs : AboutToAnnounce(form[u]) => AboutToAnnounce(form'[u])
        BY <2>3, <3>1
      <4> QED BY <2>1, <3>2, <4>1 DEF Orderly, NewsOnItsWay
    <3>3. CASE AboutToAnnounce(e)
      BY <2>3, <3>3 DEF NewsOnItsWay
    <3> QED BY <2>2, <3>2, <3>3
  <2> QED BY <2>4, <2>6, <2>7 DEF Orderly
<1>2. ASSUME LogoutArrive(t) PROVE Orderly'
  <2>1. /\ SigningOut(t) /\ UNCHANGED <<shown, stale, refresh, lock>>
        /\ \A u \in Tabs : u # t => form'[u] = form[u]
        /\ jar' = jar \/ jar' = EmptyJar
        /\ faults' = 0 => jar' = EmptyJar
    BY <1>0, <1>2 DEF LogoutArrive, SigningOut, LeavingForm, UnderWay
  <2>2. \A u \in Tabs : ~ UnderWay(refresh[u]) /\ (SigningOut(u) => u = t) /\ lock = t
    BY <2>1 DEF Orderly, OneAtATime
  <2>3. OneAtATime'
    <3>1. \A u \in Tabs : SigningOut(u)' => u = t
      BY <2>1, <2>2 DEF SigningOut
    <3> QED BY <2>1, <2>2, <3>1 DEF OneAtATime
  <2>4. PresentedLive'
    BY <2>1, <2>2 DEF PresentedLive, UnderWay, EmptyJar
  <2>5. NewsOnItsWay'
    <3>1. CASE jar' = EmptyJar
      BY <3>1 DEF NewsOnItsWay, EmptyJar
    <3>2. CASE jar' = jar
      <4>1. ~ AboutToAnnounce(form[t])
        BY <1>2 DEF LogoutArrive, AboutToAnnounce
      <4>2. \A u \in Tabs : AboutToAnnounce(form[u]) => AboutToAnnounce(form'[u])
        BY <2>1, <4>1
      <4> QED BY <2>1, <3>2, <4>2 DEF Orderly, NewsOnItsWay
    <3> QED BY <2>1, <3>1, <3>2
  <2> QED BY <2>3, <2>4, <2>5 DEF Orderly
<1> QED BY <1>1, <1>2

(* One step of anybody. *)
LEMMA OrderNext ==
  ASSUME SessionInv, Orderly, [Next]_vars
  PROVE  Orderly'
<1>1. CASE UNCHANGED vars
  BY <1>1, QuietOrder DEF vars
<1>2. CASE Environment
  BY <1>2, ClockOrder, CallsOrder DEF Environment
<1>3. CASE User
  <2>1. ASSUME NEW c \in Writers, NewCall(c, TRUE) PROVE Orderly'
    BY <2>1, CallsOrder, ActorsAssumption
  <2>2. ASSUME NEW t \in Tabs, NEW u \in LoginsOf(t), Submit(t, u) PROVE Orderly'
    BY <2>2, FormsOrder, LoginsOfAssumption
  <2>3. ASSUME NEW t \in SignsOut, SignOut(t) PROVE Orderly'
    BY <2>3, FormsOrder, ActorsAssumption
  <2> QED BY <1>3, <2>1, <2>2, <2>3 DEF User
<1>4. ASSUME NEW c \in Readers, Poll(c) PROVE Orderly'
  BY <1>4, CallsOrder, ActorsAssumption DEF Poll
<1>5. ASSUME NEW c \in Calls, CallStep(c) PROVE Orderly'
  BY <1>5, CallsOrder DEF CallStep
<1>6. ASSUME NEW t \in Tabs, TabStep(t) \/ RefreshLock(t) \/ SignOutLock(t) PROVE Orderly'
  BY <1>6, ClockOrder, RefreshArriveOrder, RefreshesOrder, FormsOrder, FormArriveOrder DEF TabStep
<1> QED BY <1>1, <1>2, <1>3, <1>4, <1>5, <1>6 DEF Next

(* The lock lets one tab at a time present a token, and what nobody has    *)
(* announced yet is about to be announced.                                  *)
THEOREM SessionOrder == Spec => []Orderly
<1>1. Init => Orderly
  BY NoTabAssumption DEF Init, Orderly, OneAtATime, PresentedLive, NewsOnItsWay, UnderWay,
         SigningOut, LeavingForm, IdleRefresh, IdleForm, EmptyJar
<1>2. SessionInv /\ Orderly /\ [Next]_vars => Orderly'
  BY OrderNext
<1> QED BY <1>1, <1>2, SessionInvariant, PTL DEF Spec

(* A tab that shows another account than the cookies belong to has a       *)
(* notification on its way.                                                 *)
THEOREM SessionStaleTabHasNews == Spec => []StaleTabHasNews
<1>1. Orderly => StaleTabHasNews
  BY DEF Orderly, NewsOnItsWay, AboutToAnnounce, StaleTabHasNews
<1> QED BY <1>1, SessionOrder, PTL

(* As long as no answer is lost, no race between tabs makes a refresh look  *)
(* like a stolen token.                                                     *)
THEOREM SessionNoFalseReplay == Spec => NoFalseReplay
<1> DEFINE NoReplay ==
      faults = 0 => \A r \in Rows :
        sessions[r].live /\ ~sessions'[r].live =>
          sessions'[r].next # 0 \/ \E t \in Tabs : form[t].refresh = r
<1>1. ASSUME SessionInv, Orderly, Next PROVE NoReplay
  <2>0. /\ TableInv /\ sessions \in Seq(SessionRows) /\ Len(sessions) \in Nat
        /\ Rows = 1..Len(sessions) /\ jar.access \in 0..Len(sessions)
    BY <1>1 DEF SessionInv, TableInv, HoldersInv, SoundJar, Rows
  <2> SUFFICES ASSUME faults = 0, NEW r \in 1..Len(sessions),
                      sessions[r].live, ~sessions'[r].live
               PROVE  sessions'[r].next # 0 \/ \E t \in Tabs : form[t].refresh = r
    BY <2>0
  <2>1. CASE UNCHANGED sessions
    BY <2>1
  <2>2. ASSUME NEW q \in 1..MaxSessions, RetryWindowCloses(q) PROVE FALSE
    BY <2>0, <2>2, WindowTable DEF RetryWindowCloses
  <2>3. ASSUME AccessExpires PROVE FALSE
    <3>1. jar.access \in 1..Len(sessions)
      BY <2>0, <2>3 DEF AccessExpires
    <3> QED BY <2>0, <2>3, <3>1, WindowTable DEF AccessExpires
  <2>4. ASSUME NEW t \in Tabs, RefreshArrive(t) PROVE sessions'[r].next # 0
    <3> DEFINE out == RefreshOutcome(refresh[t].row)
    <3>1. refresh[t].row \in 0..Len(sessions)
      BY <1>1, <2>4 DEF SessionInv, HoldersInv, SoundRefreshes, SoundRefresh, RefreshRecords
    <3>2. refresh[t].row # 0 => sessions[refresh[t].row].live
      BY <1>1, <2>4 DEF RefreshArrive, Orderly, PresentedLive
    <3>3. sessions' = sessions \/ sessions' = out.rows
      BY <2>4 DEF RefreshArrive
    <3>4. /\ refresh[t].row \in 1..Len(sessions)
          /\ sessions' = RotatedRows(refresh[t].row)
      BY <2>0, <3>1, <3>2, <3>3, LiveOutcome
    <3> QED BY <2>0, <3>4, RotatedTable
  <2>5. ASSUME NEW t \in Tabs, LoginArrive(t) PROVE FALSE
    <3>1. form[t].user \in Users
      BY <1>1, <2>5 DEF LoginArrive, SessionInv, HoldersInv, SoundForms, SoundForm
    <3>2. sessions' = sessions \/ sessions' = LoginRows(form[t].user)
      BY <2>5 DEF LoginArrive
    <3> QED BY <2>0, <3>1, <3>2, LoginTable
  <2>6. ASSUME NEW t \in Tabs, LogoutArrive(t) PROVE form[t].refresh = r
    <3>1. sessions' = sessions \/ sessions' = LogoutRows(form[t].refresh)
      BY <2>6 DEF LogoutArrive
    <3> QED BY <2>0, <3>1 DEF LogoutRows
  <2>7. CASE Environment
    BY <2>1, <2>2, <2>3, <2>7 DEF Environment, CookiesExpire, CallLost
  <2>8. ASSUME NEW c \in Calls, NEW w, NewCall(c, w) \/ CallStep(c) PROVE UNCHANGED sessions
    BY <2>8 DEF NewCall, CallStep, Answer, Resume, FinishCall, ClearAndRedirect
  <2>9. CASE User
    BY <2>1, <2>8, <2>9, ActorsAssumption DEF User, Submit, SignOut
  <2>10. CASE \E c \in Readers : Poll(c)
    BY <2>1, <2>8, <2>10, ActorsAssumption DEF Poll
  <2>11. ASSUME NEW t \in Tabs, TabStep(t) \/ RefreshLock(t) \/ SignOutLock(t)
         PROVE  sessions'[r].next # 0 \/ \E u \in Tabs : form[u].refresh = r
    <3>1. CASE StorageEvent(t) \/ RequireAuth(t) \/ SignedInRedirect(t) \/ RefreshLock(t)
               \/ SignOutLock(t) \/ LoginSettle(t) \/ LogoutSettle(t) \/ RefreshSettle(t)
      BY <2>1, <3>1 DEF StorageEvent, RequireAuth, SignedInRedirect, RefreshLock, SignOutLock,
                        LoginSettle, LogoutSettle, RefreshSettle, ClearAndRedirect
    <3> QED BY <2>4, <2>5, <2>6, <2>11, <3>1 DEF TabStep
  <2> QED BY <1>1, <2>1, <2>7, <2>8, <2>9, <2>10, <2>11 DEF Next
<1>2. SessionInv /\ Orderly /\ [Next]_vars => [NoReplay]_vars
  BY <1>1
<1> QED BY <1>2, SessionInvariant, SessionOrder, PTL DEF Spec, NoFalseReplay
=============================================================================
