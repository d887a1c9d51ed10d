----------------------------- MODULE SiteSession ------------------------------
(***************************************************************************)
(* One visitor's session on the public site's server.  A request loads the *)
(* stored session when it first needs it and writes all of it back when    *)
(* its response is ready; several requests of the browser overlap.  The    *)
(* tokens come from the OIDC provider (SignIn), whose refresh tokens are   *)
(* good for one use: a second one ends the family.  One server process.    *)
(***************************************************************************)
EXTENDS Integers, Sequences, FiniteSets, Functions

CONSTANTS
    Views,            \* requests that may be open at one time
    RefreshAt,        \* age at which an access token is refreshed
    IdleTtl, AbsoluteTtl, TransactionTtl,
    MaxSiteTime,      \* bound: time
    MaxViews,         \* bound: requests
    MaxLogins         \* bound: authorizations begun

ASSUME SiteSessionAssumption ==
    {RefreshAt, IdleTtl, AbsoluteTtl, TransactionTtl, MaxSiteTime, MaxViews, MaxLogins} \subseteq Nat

VARIABLES
    shelf,      \* the stored sessions, by their ids
    cookie,     \* the id the browser holds
    view,       \* the open requests
    flights,    \* `refreshes`: the tokens being refreshed, with the provider's outcome
    families,   \* the provider: the current token of each family, 0 when it is ended
    codes,      \* the transactions authorized at the provider, their code not used
    siteNow, viewCount, idCount, txnCount,
    forked      \* ghost: a write or a restart lost the newer of two states of a session

siteSessionVars == <<shelf, cookie, view, flights, families, codes,
                     siteNow, viewCount, idCount, txnCount, forked>>

NoId == 0
Free == <<>>
NoAuth == <<>>
NoTxn == <<>>
Blank == [auth |-> NoAuth, txn |-> NoTxn, csrf |-> 0]
Ids == 1..idCount
Token(f, n) == <<f, n>>

\* What a refresh has come to: a token it rotates to is numbered 2 or more.
Pending == 0
Refusal == 1

Stages == {"load", "refresh", "waiting", "handle", "exchange", "revoke", "finish"}

SiteSessionTypeOK ==
    /\ DOMAIN shelf \subseteq Ids
    /\ cookie \in {NoId} \union Ids
    /\ DOMAIN view = Views
    /\ \A v \in Views : view[v] # Free => view[v].stage \in Stages /\ view[v].id \in {NoId} \union Ids
    /\ \A t \in DOMAIN flights : flights[t] \in Nat
    /\ families \in Seq(Nat)
    /\ codes \subseteq 1..txnCount
    /\ forked \in BOOLEAN

SiteSessionInit ==
    /\ shelf = Free /\ cookie = NoId
    /\ view = [v \in Views |-> Free]
    /\ flights = Free /\ families = <<>> /\ codes = {}
    /\ siteNow = 0 /\ viewCount = 0 /\ idCount = 0 /\ txnCount = 0
    /\ forked = FALSE

-----------------------------------------------------------------------------
Age(time) == siteNow - time
AuthExpired(a) == Age(a.created) > AbsoluteTtl \/ Age(a.seen) > IdleTtl
TransactionExpired(t) == Age(t.created) > TransactionTtl

Stored(id) == IF id \in DOMAIN shelf THEN shelf[id] ELSE Blank
With(id, data) == [i \in DOMAIN shelf \union {id} |-> IF i = id THEN data ELSE shelf[i]]

(* The other requests that loaded what this one changes in the store.      *)
Overtaken(w, ids) ==
    /\ view[w] # Free /\ view[w].stage # "load"
    /\ ({view[w].id} \union view[w].drops) \intersect ids # {}

(* session.set, session.delete, session.destroy and session.regenerate.    *)
Puts(r, data) == [r EXCEPT !.data = data, !.dirty = TRUE, !.cookie = "set"]
Deletes(r, data) == [r EXCEPT !.data = data, !.dirty = TRUE]
Destroys(r) ==
    [r EXCEPT !.id = NoId, !.data = Blank, !.dirty = FALSE, !.cookie = "drop",
              !.drops = @ \union ({r.id} \ {NoId})]
GoesTo(r, stage) == [r EXCEPT !.stage = stage]

Regenerates(v, data) ==
    /\ shelf' = Restrict(shelf, DOMAIN shelf \ {view[v].id})
    /\ idCount' = idCount + 1
    /\ view' = [w \in Views |->
        IF w = v THEN [GoesTo(Puts(view[v], data), "finish") EXCEPT !.id = idCount + 1]
        ELSE IF Overtaken(w, {view[v].id} \ {NoId}) THEN [view[w] EXCEPT !.behind = TRUE]
        ELSE view[w]]

ViewGoes(v, r) == view' = [view EXCEPT ![v] = r]

Open(v, kind, arg) ==
    /\ view[v] = Free /\ viewCount < MaxViews
    /\ viewCount' = viewCount + 1
    /\ ViewGoes(v, [stage |-> "load", kind |-> kind, arg |-> arg, id |-> cookie, data |-> Blank,
                    dirty |-> FALSE, cookie |-> "keep", drops |-> {}, retried |-> FALSE,
                    behind |-> FALSE, ahead |-> FALSE])
    /\ UNCHANGED <<shelf, cookie, flights, families, codes, siteNow, idCount, txnCount, forked>>

OpenView(v) ==
    \/ Open(v, "page", 0)
    \/ Open(v, "login", 0)
    \/ \E t \in codes : Open(v, "callback", t)
    \/ \E f \in DOMAIN families : Open(v, "logout", f)

At(v, stage) == view[v] # Free /\ view[v].stage = stage
Handles(v, kind) == At(v, "handle") /\ view[v].kind = kind
InStore == UNCHANGED <<shelf, idCount>>
SameOutside == UNCHANGED <<families, codes, siteNow, viewCount, txnCount>>

-----------------------------------------------------------------------------
(* currentAuth: an expired session is destroyed, an access token about to  *)
(* expire refreshed, the time of the visit noted.  The middleware calls it *)
(* for every request.                                                      *)
CurrentAuth(r) ==
    LET a == r.data.auth
    IN  IF a = NoAuth THEN GoesTo(r, "handle")
        ELSE IF AuthExpired(a) THEN GoesTo(Destroys(r), "handle")
        ELSE IF Age(a.issued) >= RefreshAt THEN GoesTo(r, "refresh")
        ELSE IF Age(a.seen) > 0
        THEN GoesTo(Puts(r, [r.data EXCEPT !.auth.seen = siteNow]), "handle")
        ELSE GoesTo(r, "handle")

Middleware(v) ==
    /\ At(v, "load")
    /\ ViewGoes(v, CurrentAuth([view[v] EXCEPT !.data = Stored(view[v].id)]))
    /\ InStore /\ SameOutside /\ UNCHANGED <<cookie, flights, forked>>

(* A page is rendered with calls of the API, or passes one on.  The fetch  *)
(* begins with currentAuth too; a 401 is answered with one forced refresh  *)
(* and the request again (once for a page here).                           *)
CallApi(v) ==
    /\ Handles(v, "page")
    /\ LET r == CurrentAuth(view[v])
       IN  \/ ViewGoes(v, r)
          \/ /\ r.stage = "handle" /\ r.data.auth # NoAuth /\ ~r.retried
             /\ ViewGoes(v, [GoesTo(r, "refresh") EXCEPT !.retried = TRUE])
    /\ InStore /\ SameOutside /\ UNCHANGED <<cookie, flights, forked>>

Render(v) ==
    /\ Handles(v, "page")
    /\ ViewGoes(v, GoesTo(view[v], "finish"))
    /\ InStore /\ SameOutside /\ UNCHANGED <<cookie, flights, forked>>

(* forceRefreshAuth and refresh(): one under way for the token is joined.  *)
Held(v) == Token(view[v].data.auth.family, view[v].data.auth.token)

ForceRefresh(v) ==
    /\ At(v, "refresh")
    /\ IF AuthExpired(view[v].data.auth)
       THEN ViewGoes(v, GoesTo(Destroys(view[v]), "handle")) /\ UNCHANGED flights
       ELSE /\ ViewGoes(v, GoesTo(view[v], "waiting"))
            /\ flights' = IF Held(v) \in DOMAIN flights THEN flights
                          ELSE [t \in DOMAIN flights \union {Held(v)} |->
                                    IF t = Held(v) THEN Pending ELSE flights[t]]
    /\ InStore /\ SameOutside /\ UNCHANGED <<cookie, forked>>

(* The provider: the current token is rotated, an older one ends the       *)
(* family.                                                                 *)
Present(t) ==
    /\ flights[t] = Pending
    /\ LET good == families[t[1]] = t[2]
       IN
       /\ families' = [families EXCEPT ![t[1]] = IF good THEN t[2] + 1 ELSE 0]
       /\ \E lost \in BOOLEAN :
             flights' = [flights EXCEPT ![t] = IF good /\ ~lost THEN t[2] + 1 ELSE Refusal]
    /\ UNCHANGED <<shelf, cookie, view, codes, siteNow, viewCount, idCount, txnCount, forked>>

(* The answer: everyone who waits for it goes on with the same tokens, or  *)
(* without a session.                                                      *)
KeepsOldToken(a, n) ==  \* mutant of FromTokens: the refresh token of the answer is not taken
    [a EXCEPT !.issued = siteNow, !.seen = siteNow]

FromTokens(a, n) == [a EXCEPT !.token = n, !.issued = siteNow, !.seen = siteNow]

Answered(t, r) ==
    LET next == IF flights[t] = Refusal THEN Destroys(r)
                ELSE Puts(r, [r.data EXCEPT !.auth = FromTokens(r.data.auth, flights[t])])
    IN  [GoesTo(next, "handle") EXCEPT !.ahead = TRUE]

Settle(t) ==
    /\ flights[t] # Pending
    /\ view' = [v \in Views |-> IF At(v, "waiting") /\ Held(v) = t THEN Answered(t, view[v])
                                ELSE view[v]]
    /\ flights' = [u \in DOMAIN flights \ {t} |-> flights[u]]
    /\ InStore /\ SameOutside /\ UNCHANGED <<cookie, forked>>

-----------------------------------------------------------------------------
(* beginAuthorization keeps what the session holds under a new id; the     *)
(* visitor may then authorize at the provider.                             *)
BeginAuthorization(v) ==
    /\ Handles(v, "login") /\ view[v].data.auth = NoAuth
    /\ txnCount < MaxLogins
    /\ txnCount' = txnCount + 1
    /\ Regenerates(v, [view[v].data EXCEPT !.txn = [number |-> txnCount + 1, created |-> siteNow]])
    /\ codes' = codes \union {txnCount + 1}
    /\ UNCHANGED <<cookie, flights, families, siteNow, viewCount, forked>>

Redirect(v) ==  \* who is signed in has no business at /auth/login
    /\ Handles(v, "login") /\ view[v].data.auth # NoAuth
    /\ ViewGoes(v, GoesTo(view[v], "finish"))
    /\ InStore /\ SameOutside /\ UNCHANGED <<cookie, flights, forked>>

(* completeAuthorization: the transaction must be there, fresh, and the    *)
(* one the provider answers; its code is good for one exchange.            *)
CheckTransaction(v) ==
    /\ Handles(v, "callback")
    /\ LET r == view[v]
           t == r.data.txn
       IN  ViewGoes(v,
            IF t = NoTxn THEN GoesTo(r, "finish")
            ELSE IF TransactionExpired(t) \/ t.number # r.arg
            THEN GoesTo(Deletes(r, [r.data EXCEPT !.txn = NoTxn]), "finish")
            ELSE GoesTo(r, "exchange"))
    /\ InStore /\ SameOutside /\ UNCHANGED <<cookie, flights, forked>>

SignedIn(f) ==
    [auth |-> [family |-> f, token |-> 1, issued |-> siteNow, created |-> siteNow, seen |-> siteNow],
     txn |-> NoTxn, csrf |-> f]

CompleteAuthorization(v) ==
    /\ At(v, "exchange")
    /\ codes' = codes \ {view[v].arg}
    /\ IF view[v].arg \in codes
       THEN /\ families' = Append(families, 1)
            /\ Regenerates(v, SignedIn(Len(families) + 1))
       ELSE /\ ViewGoes(v, GoesTo(Deletes(view[v], [view[v].data EXCEPT !.txn = NoTxn]), "finish"))
            /\ InStore /\ UNCHANGED families
    /\ UNCHANGED <<cookie, flights, siteNow, viewCount, txnCount, forked>>

(* Logout: the form carries the token of the session; the refresh token is *)
(* revoked, which may fail, and the session destroyed.                     *)
VerifyForm(v) ==
    /\ Handles(v, "logout")
    /\ ViewGoes(v, GoesTo(view[v], IF view[v].data.csrf = view[v].arg THEN "revoke" ELSE "finish"))
    /\ InStore /\ SameOutside /\ UNCHANGED <<cookie, flights, forked>>

EndSession(v) ==
    /\ At(v, "revoke")
    /\ \E answered \in BOOLEAN :
          families' = IF answered /\ view[v].data.auth # NoAuth
                      THEN [families EXCEPT ![view[v].data.auth.family] = 0] ELSE families
    /\ ViewGoes(v, GoesTo(Destroys(view[v]), "finish"))
    /\ InStore /\ UNCHANGED <<cookie, flights, codes, siteNow, viewCount, txnCount, forked>>

-----------------------------------------------------------------------------
(* The response: the session is written whole if it changed, what was      *)
(* destroyed is removed, and the cookie goes with it.                      *)
Changed(r) == r.drops \union (IF r.dirty THEN {r.id} ELSE {})

Finish(v) ==
    /\ At(v, "finish")
    /\ LET r == view[v]
           new == r.dirty /\ r.id = NoId
           id == IF new THEN idCount + 1 ELSE r.id
           held == IF r.dirty THEN With(id, r.data) ELSE shelf
       IN
       /\ shelf' = Restrict(held, DOMAIN held \ r.drops)
       /\ idCount' = IF new THEN idCount + 1 ELSE idCount
       /\ cookie' = CASE r.cookie = "set" -> id [] r.cookie = "drop" -> NoId [] OTHER -> cookie
       /\ forked' = (forked \/ (Changed(r) # {} /\ r.behind))
       /\ view' = [w \in Views |->
            IF w = v THEN Free
            ELSE IF Overtaken(w, Changed(r) \ {NoId}) THEN [view[w] EXCEPT !.behind = TRUE]
            ELSE view[w]]
    /\ SameOutside /\ UNCHANGED flights

(* The process ends: what its requests had not written is lost.            *)
Restart ==
    /\ \E v \in Views : view[v] # Free
    /\ view' = [v \in Views |-> Free]
    /\ flights' = Free
    /\ forked' = TRUE
    /\ InStore /\ SameOutside /\ UNCHANGED cookie

SiteTimePasses ==
    /\ siteNow < MaxSiteTime
    /\ siteNow' = siteNow + 1
    /\ UNCHANGED <<shelf, cookie, view, flights, families, codes,
                   viewCount, idCount, txnCount, forked>>

ServesView(v) ==
    \/ OpenView(v) \/ Middleware(v) \/ CallApi(v) \/ ForceRefresh(v) \/ Render(v)
    \/ BeginAuthorization(v) \/ Redirect(v) \/ CheckTransaction(v) \/ CompleteAuthorization(v)
    \/ VerifyForm(v) \/ EndSession(v) \/ Finish(v)

SiteSessionNext ==
    \/ \E v \in Views : ServesView(v)
    \/ \E t \in DOMAIN flights : Present(t) \/ Settle(t)
    \/ Restart
    \/ SiteTimePasses

SiteSessionSpec == SiteSessionInit /\ [][SiteSessionNext]_siteSessionVars

-----------------------------------------------------------------------------
(* `t` was refreshed before.                                               *)
ReplaysToken(t) == families[t[1]] > t[2]

(* Its session was loaded or stored beside another's loading or storing.   *)
Overlapped(t) ==
    \/ forked
    \/ \E v \in Views : At(v, "waiting") /\ Held(v) = t /\ view[v].behind
    \/ \E v \in Views : view[v] # Free /\ view[v].ahead

(* A refresh token is presented a second time, which ends the family and   *)
(* signs the visitor out everywhere, only because requests overlapped: the *)
(* one that presents it loaded the session before another stored a newer   *)
(* one, or while another had yet to store it, or a later write or a restart*)
(* had lost that (oidc.ts:90-106 joins the requests it can see).           *)
ReplaysNeedOverlap ==
    \A t \in DOMAIN flights : flights[t] = Pending /\ ReplaysToken(t) => Overlapped(t)

=============================================================================
