----------------------------- MODULE AuthSession -----------------------------
(***************************************************************************)
(* The signed-in session of a browser: the tabs and their shared cookie    *)
(* jar (lib/api.ts, hooks/useAuthToken.ts, components/auth/AuthModal.tsx), *)
(* the same-origin gateway that owns the HttpOnly cookies                  *)
(* (app/api/backend/[...path]/route.ts), and the refresh sessions of the   *)
(* backend (internal/auth).                                                *)
(*                                                                         *)
(* A session is a pair of an access and a refresh token, named by the      *)
(* position of its row in `sessions`.  The gateway always sends the HMAC   *)
(* of the refresh token as the retry key, so the same token always comes   *)
(* with the same key.  Times are left out: an access token, the cookies    *)
(* and the two-minute retry window end by an action each.                  *)
(***************************************************************************)
EXTENDS Naturals, Sequences, FiniteSets

CONSTANTS Users,        \* accounts
          Tabs,         \* tabs of one browser
          Calls,        \* private requests that pages of a tab issue
          NoUser,       \* the empty scope: nobody is signed in
          NoTab,        \* nobody holds the browser's auth lock
          MaxSessions,  \* bound: rows of refresh_sessions
          MaxFaults     \* bound: lost answers

CONSTANTS TabOf(_),     \* the tab a call belongs to
          Writers,      \* the calls that may be account mutations
          Readers,      \* the calls that may be polls
          LoginsOf(_),  \* bound: the accounts that sign in at a tab
          SignsOut      \* bound: the tabs that sign out

ASSUME NoUserAssumption == NoUser \notin Users
ASSUME NoTabAssumption == NoTab \notin Tabs
ASSUME TabOfAssumption == \A c \in Calls : TabOf(c) \in Tabs
ASSUME LoginsOfAssumption == \A t \in Tabs : LoginsOf(t) \subseteq Users
ASSUME ActorsAssumption == Writers \cup Readers \subseteq Calls /\ SignsOut \subseteq Tabs
ASSUME BoundsAssumption == MaxSessions \in Nat /\ MaxFaults \in Nat

VARIABLES
  sessions,  \* refresh_sessions, each with the access token issued beside it
  jar,       \* the cookies: access, refresh (rows, 0 = absent), scope marker
  shown,     \* the scope each tab rendered last (useAuthToken)
  route,     \* "desk", a page that requires a session, or "login"
  stale,     \* tabs with an undelivered storage event
  call,      \* one record per private request
  refresh,   \* the refreshInFlight promise of each tab
  form,      \* the login form or the sign-out of each tab
  lock,      \* navigator.locks "stock-simulator-auth-refresh"
  faults     \* lost answers so far

vars == <<sessions, jar, shown, route, stale, call, refresh, form, lock, faults>>

Scopes == Users \cup {NoUser}
Rows == DOMAIN sessions
Ids == 0..MaxSessions
EmptyJar == [access |-> 0, refresh |-> 0, scope |-> NoUser]

IdleCall == [phase |-> "idle", write |-> FALSE, scope |-> NoUser, changed |-> FALSE,
             access |-> 0, refresh |-> 0, go |-> FALSE]
IdleRefresh == [phase |-> "idle", scope |-> NoUser, changed |-> FALSE,
                row |-> 0, answer |-> "none"]
IdleForm == [phase |-> "idle", kind |-> "login", user |-> NoUser, refresh |-> 0]

Init ==
  /\ sessions = <<>>
  /\ jar = EmptyJar
  /\ shown = [t \in Tabs |-> NoUser]
  /\ route = [t \in Tabs |-> "login"]
  /\ stale = {}
  /\ call = [c \in Calls |-> IdleCall]
  /\ refresh = [t \in Tabs |-> IdleRefresh]
  /\ form = [t \in Tabs |-> IdleForm]
  /\ lock = NoTab
  /\ faults = 0

-----------------------------------------------------------------------------
\* The backend's refresh sessions.

NewSession(u, login) == [user |-> u, login |-> login, live |-> TRUE,
                         next |-> 0, retry |-> FALSE, fresh |-> TRUE]

\* Login: a new row, the root of its own chain of rotations.
LoginRows(u) == Append(sessions, NewSession(u, Len(sessions) + 1))

\* Fault: the replacement is added and the presented row stays active.
UnrevokedRows(r) ==
  Append([sessions EXCEPT ![r] = [@ EXCEPT !.retry = TRUE, !.next = Len(sessions) + 1]],
         NewSession(sessions[r].user, sessions[r].login))

\* Rotation: the presented row is revoked and keeps its encrypted answer for
\* two minutes; the replacement belongs to the same chain.
RotatedRows(r) ==
  Append([sessions EXCEPT ![r] = [@ EXCEPT !.live = FALSE, !.retry = TRUE,
                                           !.next = Len(sessions) + 1]],
         NewSession(sessions[r].user, sessions[r].login))

\* A reuse that is no retry revokes every session of the user.
RevokedRows(u) ==
  [r \in Rows |-> IF sessions[r].user = u
                  THEN [sessions[r] EXCEPT !.live = FALSE] ELSE sessions[r]]

LogoutRows(r) ==
  IF r \in Rows THEN [sessions EXCEPT ![r] = [@ EXCEPT !.live = FALSE]]
                ELSE sessions

\* The outcomes of AuthService.Refresh for the row a request presents: the
\* answer, the row it hands out and the table it leaves.
Retryable(r) == sessions[r].retry /\ sessions[sessions[r].next].live

RefreshOutcome(r) ==
  IF r = 0 THEN [answer |-> "denied", row |-> 0, rows |-> sessions]
  ELSE IF sessions[r].live
  THEN [answer |-> "ok", row |-> Len(sessions) + 1, rows |-> RotatedRows(r)]
  ELSE IF sessions[r].retry
  THEN [answer |-> IF Retryable(r) THEN "ok" ELSE "denied",
        row |-> IF Retryable(r) THEN sessions[r].next ELSE 0, rows |-> sessions]
  ELSE [answer |-> "denied", row |-> 0, rows |-> RevokedRows(sessions[r].user)]

\* Only a row that somebody can still present is of interest.
RetryWindowCloses(r) ==
  /\ r \in Rows /\ sessions[r].retry
  /\ jar.refresh = r \/ \E t \in Tabs : refresh[t].row = r
  /\ sessions' = [sessions EXCEPT ![r] = [@ EXCEPT !.retry = FALSE]]
  /\ UNCHANGED <<jar, shown, route, stale, call, refresh, form, lock, faults>>

\* The access token of the jar ends a moment before its cookie does.
AccessExpires ==
  /\ jar.access # 0 /\ sessions[jar.access].fresh
  /\ sessions' = [sessions EXCEPT ![jar.access] = [@ EXCEPT !.fresh = FALSE]]
  /\ UNCHANGED <<jar, shown, route, stale, call, refresh, form, lock, faults>>

\* The access and the marker cookie share their Max-Age; the refresh cookie
\* outlives both.  No event tells the tabs.
CookiesExpire ==
  /\ jar.access # 0 /\ ~sessions[jar.access].fresh
  /\ jar' = [jar EXCEPT !.access = 0, !.scope = NoUser]
  /\ UNCHANGED <<sessions, shown, route, stale, call, refresh, form, lock, faults>>

-----------------------------------------------------------------------------
\* What a tab does with the scope.

Changed(p) == IF p.phase \in {"sent", "queued"}
              THEN [p EXCEPT !.changed = TRUE] ELSE p

\* Fault: only the tab itself hears of the change.
QuietNotify(t, scope) ==
  /\ call' = [c \in Calls |-> Changed(call[c])]
  /\ shown' = [shown EXCEPT ![t] = scope]
  /\ stale' = stale \ {t}

\* notifyAuthChanged: every later authRevision() differs from the one a
\* request in flight took; this tab renders again, the others get an event.
Notify(t, scope) ==
  /\ call' = [c \in Calls |-> Changed(call[c])]
  /\ shown' = [shown EXCEPT ![t] = scope]
  /\ stale' = (stale \cup Tabs) \ {t}

\* Fault: the page that is loaded again keeps the lock.
LockedRedirect(t, cookies, calls, refreshes, holder) ==
  LET reload == route[t] = "desk" IN
  /\ jar' = [cookies EXCEPT !.scope = NoUser]
  /\ call' = [c \in Calls |-> IF reload /\ TabOf(c) = t THEN IdleCall
                                                       ELSE Changed(calls[c])]
  /\ refresh' = [u \in Tabs |-> IF reload /\ u = t THEN IdleRefresh
                                                  ELSE Changed(refreshes[u])]
  /\ form' = IF reload THEN [form EXCEPT ![t] = IdleForm] ELSE form
  /\ lock' = holder
  /\ shown' = [shown EXCEPT ![t] = NoUser]
  /\ stale' = (stale \cup Tabs) \ {t}
  /\ route' = [route EXCEPT ![t] = "login"]
  /\ UNCHANGED <<sessions, faults>>

\* clearAuthTokens({redirect: true}): on a private page the tab is loaded again
\* at /login, which ends its calls, its refresh and its hold on the lock; the
\* arguments say what becomes of them on a page that stays.
ClearAndRedirect(t, cookies, calls, refreshes, holder) ==
  LET reload == route[t] = "desk" IN
  /\ jar' = [cookies EXCEPT !.scope = NoUser]
  /\ call' = [c \in Calls |-> IF reload /\ TabOf(c) = t THEN IdleCall
                                                       ELSE Changed(calls[c])]
  /\ refresh' = [u \in Tabs |-> IF reload /\ u = t THEN IdleRefresh
                                                  ELSE Changed(refreshes[u])]
  /\ form' = IF reload THEN [form EXCEPT ![t] = IdleForm] ELSE form
  /\ lock' = IF reload /\ holder = t THEN NoTab ELSE holder
  /\ shown' = [shown EXCEPT ![t] = NoUser]
  /\ stale' = (stale \cup Tabs) \ {t}
  /\ route' = [route EXCEPT ![t] = "login"]
  /\ UNCHANGED <<sessions, faults>>

\* The storage listener of another tab reads the marker again.
StorageEvent(t) ==
  /\ t \in stale
  /\ shown' = [shown EXCEPT ![t] = jar.scope]
  /\ stale' = stale \ {t}
  /\ UNCHANGED <<sessions, jar, route, call, refresh, form, lock, faults>>

\* useRequireAuth: a private page without a session goes to /login.
RequireAuth(t) ==
  /\ route[t] = "desk" /\ shown[t] = NoUser /\ jar.scope = NoUser
  /\ route' = [route EXCEPT ![t] = "login"]
  /\ UNCHANGED <<sessions, jar, shown, stale, call, refresh, form, lock, faults>>

\* The login and sign-up pages leave as soon as a scope is rendered.
SignedInRedirect(t) ==
  /\ route[t] = "login" /\ shown[t] # NoUser
  /\ route' = [route EXCEPT ![t] = "desk"]
  /\ shown' = [shown EXCEPT ![t] = jar.scope]
  /\ UNCHANGED <<sessions, jar, stale, call, refresh, form, lock, faults>>

-----------------------------------------------------------------------------
\* sessionFetch for a private endpoint.

\* The scope, the revision and the cookies are taken in one synchronous block.
NewCall(c, w) ==
  LET t == TabOf(c) IN
  /\ route[t] = "desk" /\ shown[t] # NoUser /\ call[c].phase = "idle"
  /\ call' = [call EXCEPT ![c] =
       [IdleCall EXCEPT !.phase = "sent", !.write = w, !.scope = jar.scope,
                        !.access = jar.access, !.refresh = jar.refresh]]
  /\ UNCHANGED <<sessions, jar, shown, route, stale, refresh, form, lock, faults>>

\* The gateway refuses a request without an access cookie and clears the jar
\* when the refresh cookie is gone too; the backend judges the access token.
Accepted(c) == call[c].access # 0 /\ sessions[call[c].access].fresh
JarAfter(c) == IF call[c].access = 0 /\ call[c].refresh = 0 THEN EmptyJar ELSE jar

\* The request or its answer is lost: fetch rejects and the page shows an error.
CallLost(c) ==
  /\ call[c].phase \in {"sent", "resent"}
  /\ faults < MaxFaults /\ faults' = faults + 1
  /\ call' = [call EXCEPT ![c] = IdleCall]
  /\ UNCHANGED <<sessions, jar, shown, route, stale, refresh, form, lock>>

\* The response is handed to the page; a final 401 redirects only when the
\* marker is gone.
FinishCall(c, refused, cookies) ==
  LET calls == [call EXCEPT ![c] = IdleCall] IN
  IF refused /\ cookies.scope = NoUser
  THEN ClearAndRedirect(TabOf(c), cookies, calls, refresh, lock)
  ELSE /\ call' = calls /\ jar' = cookies
       /\ UNCHANGED <<sessions, shown, route, stale, refresh, form, lock, faults>>

\* A first 401 under a scope asks for a refresh, joining the tab's running one.
Answer(c) ==
  LET t == TabOf(c)
      renew == /\ call[c].phase = "sent" /\ ~Accepted(c)
               /\ call[c].scope # NoUser /\ JarAfter(c).scope # NoUser IN
  /\ call[c].phase \in {"sent", "resent"}
  /\ \/ /\ renew
        /\ jar' = JarAfter(c)
        /\ call' = [call EXCEPT ![c] = [@ EXCEPT
                       !.phase = "waiting", !.changed = FALSE, !.access = 0, !.refresh = 0]]
        /\ refresh' = IF refresh[t].phase # "idle" THEN refresh
             ELSE [refresh EXCEPT ![t] = [IdleRefresh EXCEPT
                     !.phase = "queued", !.scope = call[c].scope,
                     !.changed = call[c].changed]]
        /\ UNCHANGED <<sessions, shown, route, stale, form, lock, faults>>
     \/ /\ ~renew
        /\ FinishCall(c, ~Accepted(c), JarAfter(c))

\* Fault: any call is repeated after a refresh.
AlwaysRepeat(c) == TRUE

\* After the refresh: a write is repeated only under the scope it was issued
\* for, a read under whatever scope is there.
MayRepeat(c) == jar.scope = call[c].scope \/ ~call[c].write

Resume(c) ==
  /\ call[c].phase = "refreshed"
  /\ \/ /\ call[c].go /\ MayRepeat(c)
        /\ call' = [call EXCEPT ![c] = [@ EXCEPT !.phase = "resent", !.go = FALSE,
                       !.access = jar.access, !.refresh = jar.refresh]]
        /\ UNCHANGED <<sessions, jar, shown, route, stale, refresh, form, lock, faults>>
     \/ /\ ~(call[c].go /\ MayRepeat(c))
        /\ FinishCall(c, TRUE, jar)

-----------------------------------------------------------------------------
\* tryRefreshToken under the browser-wide lock.

\* The promise resolves: every call of the tab that waits for it goes on.
Resolved(t, ok, calls) ==
  [c \in Calls |-> IF TabOf(c) = t /\ calls[c].phase = "waiting"
                   THEN [calls[c] EXCEPT !.phase = "refreshed", !.go = ok]
                   ELSE calls[c]]

\* Another tab may have refreshed, signed out or switched while this waited.
Superseded(t) == jar.scope # refresh[t].scope \/ refresh[t].changed

\* Fault: the tabs refresh without the browser-wide lock.
UnlockedRefresh(t) ==
  /\ refresh[t].phase = "queued"
  /\ lock' = t
  /\ refresh' = [refresh EXCEPT ![t] = [@ EXCEPT !.phase = "sent", !.row = jar.refresh]]
  /\ UNCHANGED <<sessions, jar, shown, route, stale, call, form, faults>>

RefreshLock(t) ==
  /\ refresh[t].phase = "queued" /\ lock = NoTab
  /\ IF Superseded(t)
     THEN /\ call' = Resolved(t, jar.scope # NoUser, call)
          /\ refresh' = [refresh EXCEPT ![t] = IdleRefresh]
          /\ UNCHANGED lock
     ELSE /\ lock' = t
          /\ refresh' = [refresh EXCEPT ![t] = [@ EXCEPT !.phase = "sent", !.row = jar.refresh]]
          /\ UNCHANGED call
  /\ UNCHANGED <<sessions, jar, shown, route, stale, form, faults>>

\* Fault: the marker is the one the browser holds when the answer arrives.
LateMarkerCookies(t, row) == [access |-> row, refresh |-> row, scope |-> jar.scope]

\* The cookies of a rotation: the marker is the one the request carried.
RefreshCookies(t, row) == [access |-> row, refresh |-> row, scope |-> refresh[t].scope]

\* The gateway relays the refresh and sets the cookies: new tokens under the
\* marker the request carried, everything cleared on a refusal.  The answer may
\* be lost on the way back to the gateway ("502") or to the browser ("lost"),
\* before or after the commit: the cookies stay.  When the bound leaves no row
\* to rotate to, the backend counts as unavailable.
RefreshArrive(t) ==
  LET r == refresh[t]
      out == RefreshOutcome(r.row)
      room == Len(out.rows) <= MaxSessions
      Done(answer) == refresh' = [refresh EXCEPT ![t] =
                        [@ EXCEPT !.phase = "arrived", !.answer = answer, !.row = 0]] IN
  /\ r.phase = "sent"
  /\ \/ /\ room
        /\ sessions' = out.rows
        /\ jar' = IF out.answer = "ok"
                  THEN RefreshCookies(t, out.row)
                  ELSE EmptyJar
        /\ Done(out.answer)
        /\ UNCHANGED faults
     \/ \E answer \in {"502", "lost"} :
          /\ faults < MaxFaults /\ faults' = faults + 1
          /\ sessions' \in {sessions} \cup (IF room THEN {out.rows} ELSE {})
          /\ Done(answer)
          /\ UNCHANGED jar
     \/ /\ ~room
        /\ Done("502")
        /\ UNCHANGED <<sessions, jar, faults>>
  /\ UNCHANGED <<shown, route, stale, call, form, lock>>

RefreshSettle(t) ==
  LET r == refresh[t]
      rotated == jar.scope = r.scope /\ r.answer = "ok"
      refused == jar.scope = r.scope /\ r.answer \in {"denied", "502"} IN
  /\ r.phase = "arrived"
  /\ \/ /\ refused
        /\ ClearAndRedirect(t, jar, Resolved(t, FALSE, call),
                            [refresh EXCEPT ![t] = IdleRefresh], NoTab)
     \/ /\ ~refused
        /\ lock' = NoTab
        /\ call' = Resolved(t, r.answer # "lost" /\ jar.scope # NoUser,
                     IF rotated THEN [c \in Calls |-> Changed(call[c])] ELSE call)
        /\ refresh' = [u \in Tabs |-> IF u = t THEN IdleRefresh
                         ELSE IF rotated THEN Changed(refresh[u]) ELSE refresh[u]]
        /\ shown' = IF rotated THEN [shown EXCEPT ![t] = jar.scope] ELSE shown
        /\ stale' = IF rotated THEN (stale \cup Tabs) \ {t} ELSE stale
        /\ UNCHANGED <<sessions, jar, route, form, faults>>

-----------------------------------------------------------------------------
\* AuthModal.handleSubmit and logoutSession.

Submit(t, u) ==
  /\ route[t] = "login" /\ form[t].phase = "idle"
  /\ form' = [form EXCEPT ![t] = [IdleForm EXCEPT !.phase = "sent", !.user = u]]
  /\ UNCHANGED <<sessions, jar, shown, route, stale, call, refresh, lock, faults>>

\* The gateway's cookies of a login; a refused one, or one whose answer is
\* lost after the commit, leaves an error on the form.
LoginArrive(t) ==
  LET f == form[t] IN
  /\ f.phase = "sent" /\ f.kind = "login"
  /\ \/ /\ Len(sessions) < MaxSessions
        /\ sessions' = LoginRows(f.user)
        /\ \/ /\ jar' = [access |-> Len(sessions) + 1, refresh |-> Len(sessions) + 1,
                         scope |-> f.user]
              /\ form' = [form EXCEPT ![t] = [@ EXCEPT !.phase = "arrived", !.user = NoUser]]
              /\ UNCHANGED faults
           \/ /\ faults < MaxFaults /\ faults' = faults + 1
              /\ form' = [form EXCEPT ![t] = IdleForm]
              /\ UNCHANGED jar
     \/ /\ form' = [form EXCEPT ![t] = IdleForm]
        /\ UNCHANGED <<sessions, jar, faults>>
  /\ UNCHANGED <<shown, route, stale, call, refresh, lock>>

\* Bounded by the rows: nobody signs out who could not sign in again.
SignOut(t) ==
  /\ Len(sessions) < MaxSessions
  /\ route[t] = "desk" /\ shown[t] # NoUser /\ form[t].phase = "idle"
  /\ form' = [form EXCEPT ![t] = [IdleForm EXCEPT !.phase = "queued", !.kind = "logout"]]
  /\ UNCHANGED <<sessions, jar, shown, route, stale, call, refresh, lock, faults>>

SignOutLock(t) ==
  /\ form[t].phase = "queued" /\ lock = NoTab
  /\ lock' = t
  /\ form' = [form EXCEPT ![t] = [@ EXCEPT !.phase = "sent", !.refresh = jar.refresh]]
  /\ UNCHANGED <<sessions, jar, shown, route, stale, call, refresh, faults>>

\* The gateway clears the cookies whatever the backend answers; only an answer
\* lost on its way to the browser leaves them.
LogoutArrive(t) ==
  LET f == form[t] IN
  /\ f.phase = "sent" /\ f.kind = "logout"
  /\ form' = [form EXCEPT ![t] = [@ EXCEPT !.phase = "arrived", !.refresh = 0]]
  /\ \/ /\ sessions' = LogoutRows(f.refresh) /\ jar' = EmptyJar
        /\ UNCHANGED faults
     \/ /\ faults < MaxFaults /\ faults' = faults + 1
        /\ sessions' \in {sessions, LogoutRows(f.refresh)}
        /\ jar' \in {jar, EmptyJar}
  /\ UNCHANGED <<shown, route, stale, call, refresh, lock>>

LoginSettle(t) ==
  /\ form[t].phase = "arrived" /\ form[t].kind = "login"
  /\ form' = [form EXCEPT ![t] = IdleForm]
  /\ Notify(t, jar.scope)
  /\ refresh' = [u \in Tabs |-> Changed(refresh[u])]
  /\ route' = [route EXCEPT ![t] = "desk"]
  /\ UNCHANGED <<sessions, jar, lock, faults>>

\* clearAuthTokens({redirect: false}) in the finally of the sign-out.
LogoutSettle(t) ==
  /\ form[t].phase = "arrived" /\ form[t].kind = "logout"
  /\ jar' = [jar EXCEPT !.scope = NoUser]
  /\ form' = [form EXCEPT ![t] = IdleForm]
  /\ lock' = NoTab
  /\ Notify(t, NoUser)
  /\ refresh' = [u \in Tabs |-> Changed(refresh[u])]
  /\ UNCHANGED <<sessions, route, faults>>

-----------------------------------------------------------------------------
Environment ==
  \/ \E r \in 1..MaxSessions : RetryWindowCloses(r)
  \/ AccessExpires
  \/ CookiesExpire
  \/ \E c \in Calls : CallLost(c)

User ==
  \/ \E c \in Writers : NewCall(c, TRUE)
  \/ \E t \in Tabs : \E u \in LoginsOf(t) : Submit(t, u)
  \/ \E t \in SignsOut : SignOut(t)

Poll(c) == NewCall(c, FALSE)

CallStep(c) == Answer(c) \/ Resume(c)

TabStep(t) ==
  \/ StorageEvent(t) \/ RequireAuth(t) \/ SignedInRedirect(t)
  \/ RefreshArrive(t) \/ RefreshSettle(t)
  \/ LoginArrive(t) \/ LogoutArrive(t)
  \/ LoginSettle(t) \/ LogoutSettle(t)

Next ==
  \/ Environment
  \/ User
  \/ \E c \in Readers : Poll(c)
  \/ \E c \in Calls : CallStep(c)
  \/ \E t \in Tabs : TabStep(t) \/ RefreshLock(t) \/ SignOutLock(t)

Spec == Init /\ [][Next]_vars

-----------------------------------------------------------------------------
PairJar(j) == j.scope # NoUser =>
                /\ j.access \in Rows /\ j.refresh \in Rows
                /\ sessions[j.access].user = j.scope
                /\ sessions[j.refresh].user = j.scope

\* A write in flight carries the tokens of the account it was issued under,
\* whatever the other tabs signed in, signed out or refreshed between its 401
\* and its repetition.
MutationScoped == \A c \in Calls :
  call[c].write /\ call[c].scope # NoUser /\ call[c].access # 0
    => sessions[call[c].access].user = call[c].scope

\* However often a rotation is lost, retried or raced, the rows that descend
\* from one sign-in never hold two live refresh tokens.
OneLivePerLogin == \A r, q \in Rows :
  sessions[r].live /\ sessions[q].live /\ sessions[r].login = sessions[q].login => r = q

\* The marker, all that the pages know of the session, names the owner of
\* the tokens beside it, whichever answer set the cookies last.
MarkerNamesOwner == PairJar(jar)

\* No tab is left waiting for ever, whatever reload, refusal or superseded
\* refresh comes between: a call that waits for a refresh has one under way in
\* its own tab, and the browser-wide lock is held by a tab that still has a
\* refresh or a sign-out to finish.
NoTabStuck ==
  /\ \A c \in Calls : call[c].phase = "waiting" => refresh[TabOf(c)].phase # "idle"
  /\ lock # NoTab =>
       \/ refresh[lock].phase \in {"sent", "arrived"}
       \/ form[lock].kind = "logout" /\ form[lock].phase \in {"sent", "arrived"}

\* A tab that shows another account than the one the cookies belong to has a
\* notification on its way: a storage event, or a login or refresh that is about
\* to announce itself.  (Cookies that expire are announced by nobody.)
StaleTabHasNews == \A t \in Tabs :
  shown[t] # jar.scope /\ jar.scope # NoUser =>
    \/ t \in stale
    \/ \E u \in Tabs : form[u].phase = "arrived" \/ refresh[u].phase = "arrived"

\* As long as no answer is lost, no race between tabs makes a refresh look like
\* a stolen token: a live session ends by its own rotation or by a sign-out.
NoFalseReplay ==
  [][faults = 0 => \A r \in Rows :
       sessions[r].live /\ ~sessions'[r].live =>
         sessions'[r].next # 0 \/ \E t \in Tabs : form[t].refresh = r]_vars
=============================================================================
