---------------------------- MODULE MCAuthSession ----------------------------
EXTENDS AuthSession, TLC

CONSTANTS t1, t2, c1, c2, u1, u2

\* One tab signs in either account, polls and signs out; the other one places an order.
MCTabOf(c) == IF c = c1 THEN t1 ELSE t2
MCLoginsOf(t) == IF t = t1 THEN {u1, u2} ELSE {}
Accounts == Permutations(Users)

\* A state is told by what somebody can still use: a row that is live or whose token is
\* in the cookies or under way, its retry window and replacement if that is a refresh
\* token, its freshness if it is an access token, and of a request's refresh cookie
\* only whether there is one.
Presentable == {jar.refresh} \cup {refresh[t].row : t \in Tabs} \cup {form[t].refresh : t \in Tabs}
Usable == {jar.access} \cup {call[c].access : c \in Calls}
RowView(r) ==
  LET row == sessions[r] IN
  <<IF row.live \/ r \in Presentable \cup Usable THEN <<row.user, row.login>> ELSE <<>>,
    row.live,
    IF r \in Presentable /\ row.retry THEN row.next ELSE 0,
    row.fresh \/ r \notin Usable>>
MCView ==
  <<[r \in Rows |-> RowView(r)],
    [c \in Calls |-> [call[c] EXCEPT !.refresh = IF call[c].access = 0 /\ @ # 0 THEN 1 ELSE 0]],
    jar, shown, route, stale, refresh, form, lock, faults>>
=============================================================================
