----------------------------- MODULE AdminSession -----------------------------
(***************************************************************************)
(* Sessions of administrators: one-time login transactions and session     *)
(* records, both kept in Redis.                                            *)
(*                                                                         *)
(* Every request of a session reads its record and writes it back with a   *)
(* new last_seen, in two calls; a logout deletes it in a third.  Nothing   *)
(* orders the calls of different requests.                                 *)
(***************************************************************************)
EXTENDS Naturals, FiniteSets

CONSTANTS
    Logins,            \* login transactions
    Sessions,          \* session tokens
    Tabs,              \* requests in progress at one time
    Idle, Absolute,    \* idle_seconds and absolute_seconds
    LoginTtl,          \* time a login transaction lasts
    MaxSessionTime,    \* bound: the clock
    MaxUses            \* bound: uses of sessions

ASSUME AdminSessionAssumption ==
    /\ Idle \in Nat \ {0} /\ Absolute \in Nat \ {0} /\ LoginTtl \in Nat
    /\ MaxSessionTime \in Nat /\ MaxUses \in Nat

VARIABLES
    logins,     \* login -> the stored transaction
    stored,     \* session -> the record Redis holds, and when it drops it
    opened,     \* session -> when it was created, and by which login
    left,       \* sessions logged out while no other request of them was loading
    uses,       \* the requests that refreshed a session: when they read it
    tab,        \* what each request is in the middle of
    sessionTime

adminSessionVars == <<logins, stored, opened, left, uses, tab, sessionTime>>

Gone == [kind |-> "gone"]
NeverMade == [kind |-> "never"]
Record(created, seen, until) ==
    [kind |-> "kept", created |-> created, seen |-> seen, until |-> until]

AdminSessionTypeOK ==
    /\ \A x \in Logins : logins[x] \in {Gone, NeverMade} \union [made : Nat]
    /\ \A s \in Sessions :
         stored[s] = Gone \/ stored[s] \in [kind : {"kept"}, created : Nat, seen : Nat,
                                            until : Nat]
    /\ \A s \in Sessions : opened[s] = NeverMade \/ opened[s].at \in Nat
    /\ left \subseteq Sessions
    /\ uses \subseteq [session : Sessions, now : Nat, after : BOOLEAN]
    /\ DOMAIN tab = Tabs

AdminSessionInit ==
    /\ logins = [x \in Logins |-> NeverMade]
    /\ stored = [s \in Sessions |-> Gone]
    /\ opened = [s \in Sessions |-> NeverMade]
    /\ left = {}
    /\ uses = {}
    /\ tab = [t \in Tabs |-> <<"idle">>]
    /\ sessionTime = 0

TabIdle(t) == tab[t] = <<"idle">>
TabIn(t, what) == tab[t][1] = what
Moves(t, what) == tab' = [tab EXCEPT ![t] = what]

(***************************************************************************)
(* Signing in.                                                             *)
(***************************************************************************)
CreateTransaction(x) ==
    /\ logins[x] = NeverMade
    /\ logins' = [logins EXCEPT ![x] = [made |-> sessionTime]]
    /\ UNCHANGED <<stored, opened, left, uses, tab, sessionTime>>

(* GETDEL reads and deletes in one call.                                   *)
GetOnly(x) == logins
GetDel(x) == [logins EXCEPT ![x] = Gone]

ConsumeTransaction(t, x) ==
    /\ TabIdle(t)
    /\ logins[x] \notin {Gone, NeverMade}
    /\ logins' = GetDel(x)
    /\ IF sessionTime > logins[x].made + LoginTtl THEN tab' = tab
       ELSE Moves(t, <<"exchanging", x>>)
    /\ UNCHANGED <<stored, opened, left, uses, sessionTime>>

Created(s, by) ==
    /\ opened[s] = NeverMade
    /\ stored' = [stored EXCEPT ![s] = Record(sessionTime, sessionTime, sessionTime + Absolute)]
    /\ opened' = [opened EXCEPT ![s] = [kind |-> "opened", at |-> sessionTime, by |-> by]]

(* The exchange of the code succeeded.  A session of a subject that is not *)
(* active is stored as well; its requests are refused.                     *)
ExchangeCreates(t, s) ==
    /\ TabIn(t, "exchanging")
    /\ Created(s, {tab[t][2]})
    /\ Moves(t, <<"idle">>)
    /\ UNCHANGED <<logins, left, uses, sessionTime>>

(* A bearer token of the admin client is turned into a session.            *)
BearerCreates(s) ==
    /\ Created(s, {})
    /\ UNCHANGED <<logins, left, uses, tab, sessionTime>>

(***************************************************************************)
(* load and revoke.                                                        *)
(***************************************************************************)
Loading(s) == {t \in Tabs : tab[t][1] \in {"refreshing", "dropping"} /\ tab[t][2] = s}

Lapsed(record) ==
    \/ record = Gone
    \/ sessionTime > record.created + Absolute
    \/ sessionTime > record.seen + Idle

LoadReads(t, s, logout) ==
    /\ Cardinality(uses) < MaxUses
    /\ TabIdle(t)
    /\ opened[s] # NeverMade
    /\ LET record == IF stored[s] # Gone /\ sessionTime < stored[s].until
                     THEN stored[s] ELSE Gone
       IN Moves(t, IF Lapsed(record) THEN <<"dropping", s>>
                   ELSE <<"refreshing", s, record.created, sessionTime, s \in left, logout>>)
    /\ UNCHANGED <<logins, stored, opened, left, uses, sessionTime>>

AtLeastOne(n) == IF n < 1 THEN 1 ELSE n
Less(a, b) == IF a < b THEN a ELSE b

(* The record is refreshed before the request is authorized: one that is   *)
(* refused for its CSRF token or its subject counts as a use as well.      *)
LoadRefreshes(t) ==
    /\ TabIn(t, "refreshing")
    /\ Cardinality(uses) < MaxUses
    /\ LET s == tab[t][2]
           created == tab[t][3]
           now == tab[t][4]
           remaining == AtLeastOne(Less(Idle, created + Absolute - now))
       IN /\ stored' = [stored EXCEPT ![s] = Record(created, now, sessionTime + remaining)]
          /\ uses' = uses \union {[session |-> s, now |-> now, after |-> tab[t][5]]}
          /\ Moves(t, IF tab[t][6] THEN <<"leaving", s>> ELSE <<"idle">>)
    /\ UNCHANGED <<logins, opened, left, sessionTime>>

Dropped(s) == [stored EXCEPT ![s] = Gone]

LoadDrops(t) ==
    /\ TabIn(t, "dropping")
    /\ stored' = Dropped(tab[t][2])
    /\ Moves(t, <<"idle">>)
    /\ UNCHANGED <<logins, opened, left, uses, sessionTime>>

(* A refresh that read the record before this stores it again.             *)
Logout(t) ==
    /\ TabIn(t, "leaving")
    /\ LET s == tab[t][2]
       IN /\ stored' = Dropped(s)
          /\ left' = IF Loading(s) = {} THEN left \union {s} ELSE left
    /\ Moves(t, <<"idle">>)
    /\ UNCHANGED <<logins, opened, uses, sessionTime>>

(* The exchange fails, or the request is refused or lost.                  *)
TabGivesUp(t) ==
    /\ ~TabIdle(t)
    /\ Moves(t, <<"idle">>)
    /\ UNCHANGED <<logins, stored, opened, left, uses, sessionTime>>

SessionTimePasses ==
    /\ sessionTime < MaxSessionTime /\ sessionTime' = sessionTime + 1
    /\ UNCHANGED <<logins, stored, opened, left, uses, tab>>

AdminSessionNext ==
    \/ \E x \in Logins : CreateTransaction(x)
    \/ \E t \in Tabs, x \in Logins : ConsumeTransaction(t, x)
    \/ \E t \in Tabs, s \in Sessions : ExchangeCreates(t, s)
    \/ \E s \in Sessions : BearerCreates(s)
    \/ \E t \in Tabs, s \in Sessions, logout \in BOOLEAN : LoadReads(t, s, logout)
    \/ \E t \in Tabs : \/ LoadRefreshes(t) \/ LoadDrops(t) \/ Logout(t) \/ TabGivesUp(t)
    \/ SessionTimePasses

AdminSessionSpec == AdminSessionInit /\ [][AdminSessionNext]_adminSessionVars

(* A login transaction opens one session; a session is used no longer than *)
(* Absolute after its creation and Idle after an earlier use, and not at   *)
(* all by a request that begins after a logout nothing overlapped (load,   *)
(* revoke and consume_transaction, admin_session_store.py).                *)
SessionsEnd ==
    /\ \A s, r \in Sessions :
         s # r /\ opened[s] # NeverMade /\ opened[r] # NeverMade
           => opened[s].by \intersect opened[r].by = {}
    /\ \A use \in uses :
         LET earlier == {opened[use.session].at}
                          \union {u.now : u \in {v \in uses : v.session = use.session}}
         IN /\ ~use.after
            /\ use.now <= opened[use.session].at + Absolute
            /\ \E at \in earlier : at <= use.now /\ use.now <= at + Idle
                                 /\ (at = use.now => at = opened[use.session].at)
=============================================================================
