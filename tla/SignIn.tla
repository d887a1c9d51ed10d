------------------------------- MODULE SignIn -------------------------------
(***************************************************************************)
(* The oidc_provider capability for one subject and one confidential       *)
(* client: codes, consent, login sessions, refresh tokens and their        *)
(* families, the client's secrets.                                         *)
(*                                                                         *)
(* Exchange and refresh read the rows, then consume the code or rotate the *)
(* token with a conditional UPDATE, then write the rest.  A bulk           *)
(* revocation is a transaction of its own that sees committed rows only.   *)
(***************************************************************************)
EXTENDS Integers, FiniteSets, Sequences

CONSTANTS
    Requests,        \* requests that may be open at one time
    CodeLife,        \* lifetime of an authorization code
    IdleLife,        \* inactivity lifetime of a refresh token
    AbsoluteLife,    \* absolute lifetime of a family and of a session
    MaxSignTime,     \* bound: the clock
    MaxCodes,        \* bound: codes and sessions
    MaxTokens,       \* bound: refresh tokens
    MaxSecrets,      \* bound: client secrets
    MaxSignCalls     \* bound: requests begun

ASSUME SignInAssumption ==
    /\ {CodeLife, IdleLife, AbsoluteLife} \subseteq Nat
    /\ {MaxSignTime, MaxCodes, MaxTokens, MaxSecrets, MaxSignCalls} \subseteq Nat
    /\ MaxSecrets # 0

VARIABLES
    client,     \* status of the oidc_clients row
    secret,     \* the oidc_client_secrets rows: version, revoked
    codes,      \* the authorization codes
    consent,    \* the grant consent row
    sessions,   \* the oidc_sessions rows
    families,   \* the refresh families: the code they came from, revoked, reused
    tokens,     \* the refresh tokens
    request,    \* what each open request has read
    signNow,
    signCalls

signInVars == <<client, secret, codes, consent, sessions, families, tokens,
                request, signNow, signCalls>>

CodeIds == 1..Len(codes)
TokenIds == 1..Len(tokens)
FamilyIds == 1..Len(families)
SessionIds == 1..Len(sessions)

SignInTypeOK ==
    /\ client \in {"none", "active", "disabled"}
    /\ \A i \in DOMAIN secret : secret[i] \in [version : 1..MaxSecrets, revoked : BOOLEAN]
    /\ \A i \in CodeIds : codes[i] \in [expires : Nat, consumed : BOOLEAN]
    /\ consent \in {"none", "given", "revoked"}
    /\ \A i \in SessionIds : sessions[i] \in [expires : Nat, revoked : BOOLEAN]
    /\ \A f \in FamilyIds : families[f] \in [code : 0..Len(codes), revoked : BOOLEAN,
                                             reused : BOOLEAN]
    /\ \A t \in TokenIds : tokens[t] \in
          [family : FamilyIds, expires : Nat, idle : Nat, rotated : BOOLEAN,
           revoked : BOOLEAN, known : BOOLEAN]
    /\ DOMAIN request = Requests

SignInInit ==
    /\ client = "none"
    /\ secret = <<>>
    /\ codes = <<>>
    /\ consent = "none"
    /\ sessions = <<>>
    /\ families = <<>>
    /\ tokens = <<>>
    /\ request = [r \in Requests |-> <<>>]
    /\ signNow = 0
    /\ signCalls = 0

(* A request whose answer needs no second look at the database.            *)
OneStep == /\ signCalls < MaxSignCalls
           /\ signCalls' = signCalls + 1
           /\ UNCHANGED <<request, signNow>>

OpensRequest(r, read) ==
    /\ request[r] = <<>> /\ signCalls < MaxSignCalls
    /\ signCalls' = signCalls + 1
    /\ request' = [request EXCEPT ![r] = read]
    /\ UNCHANGED <<client, secret, codes, consent, sessions, families, tokens, signNow>>

Ends(r) == /\ request' = [request EXCEPT ![r] = <<>>]
           /\ UNCHANGED <<signNow, signCalls>>

Reads(r, kind) == request[r] # <<>> /\ request[r][1] = kind

(* The secret the client presents is the newest that is not revoked.       *)
Authenticates == /\ client = "active"
                 /\ \E i \in DOMAIN secret : ~secret[i].revoked

(***************************************************************************)
(* Clients.                                                                *)
(***************************************************************************)
RegisterClient ==
    /\ OneStep
    /\ client = "none"
    /\ client' = "active"
    /\ secret' = <<[version |-> 1, revoked |-> FALSE]>>
    /\ UNCHANGED <<codes, consent, sessions, families, tokens>>

DisableClient ==
    /\ OneStep
    /\ client = "active" /\ client' = "disabled"
    /\ UNCHANGED <<secret, codes, consent, sessions, families, tokens>>

EnableClient ==
    /\ OneStep
    /\ client = "disabled" /\ client' = "active"
    /\ UNCHANGED <<secret, codes, consent, sessions, families, tokens>>

LatestVersion ==
    CHOOSE v \in 0..MaxSecrets :
        /\ v = 0 \/ \E i \in DOMAIN secret : secret[i].version = v
        /\ \A i \in DOMAIN secret : secret[i].version <= v

RotateReads(r) ==
    /\ client # "none"
    /\ OpensRequest(r, <<"rotating", {i \in DOMAIN secret : ~secret[i].revoked},
                   LatestVersion + 1>>)

RotateClientSecret(r) ==
    /\ Reads(r, "rotating") /\ Ends(r)
    /\ Len(secret) < MaxSecrets
    /\ secret' = Append([i \in DOMAIN secret |->
                            [secret[i] EXCEPT !.revoked = @ \/ i \in request[r][2]]],
                        [version |-> request[r][3], revoked |-> FALSE])
    /\ UNCHANGED <<client, codes, consent, sessions, families, tokens>>

(***************************************************************************)
(* Login and authorization.                                                *)
(***************************************************************************)
NewSession == [expires |-> signNow + AbsoluteLife, revoked |-> FALSE]

LiveSession(i) == ~sessions[i].revoked /\ sessions[i].expires > signNow

EstablishSession ==
    /\ OneStep
    /\ client # "none" /\ Len(sessions) < MaxCodes
    /\ sessions' = Append(sessions, NewSession)
    /\ UNCHANGED <<client, secret, codes, consent, families, tokens>>

(* The authorize endpoint finds the subject by a live session.             *)
IssueCode ==
    /\ OneStep
    /\ client = "active" /\ Len(codes) < MaxCodes
    /\ \E i \in SessionIds : ~sessions[i].revoked /\ sessions[i].expires >= signNow
    /\ codes' = Append(codes, [expires |-> signNow + CodeLife, consumed |-> FALSE])
    /\ UNCHANGED <<client, secret, consent, sessions, families, tokens>>

(***************************************************************************)
(* The token endpoint.                                                     *)
(***************************************************************************)
ExchangeReads(r) ==
    /\ Authenticates
    /\ \E c \in CodeIds :
          /\ ~codes[c].consumed /\ codes[c].expires >= signNow
          /\ OpensRequest(r, <<"exchanging", c>>)

ConsumesCode(c) == ~codes[c].consumed

NewToken(f, expires, known) ==
    [family |-> f, expires |-> expires, idle |-> signNow + IdleLife,
     rotated |-> FALSE, revoked |-> FALSE, known |-> known]

NewFamily(c) == [code |-> c, revoked |-> FALSE, reused |-> FALSE]

EnsureSession == IF \E i \in SessionIds : LiveSession(i)
                 THEN sessions
                 ELSE Append(sessions, NewSession)

(* The grant row is inserted, widened, or given again after a revocation.  *)
EnsureGrant == "given"

(* The code is consumed with a conditional UPDATE; the loser of a race is  *)
(* refused.                                                                *)
ExchangeCode(r) ==
    /\ Reads(r, "exchanging") /\ Ends(r)
    /\ LET c == request[r][2] IN
       \/ /\ ConsumesCode(c) /\ Len(tokens) < MaxTokens
          /\ codes' = [codes EXCEPT ![c].consumed = TRUE]
          /\ consent' = EnsureGrant
          /\ sessions' = EnsureSession
          /\ families' = Append(families, NewFamily(c))
          /\ tokens' = Append(tokens, NewToken(Len(families) + 1,
                                               signNow + AbsoluteLife, TRUE))
       \/ /\ ~ConsumesCode(c)
          /\ UNCHANGED <<codes, consent, sessions, families, tokens>>
    /\ UNCHANGED <<client, secret>>

(* The client presents a token it holds.                                   *)
RefreshReads(r) ==
    /\ Authenticates
    /\ \E t \in TokenIds :
          /\ tokens[t].known /\ ~tokens[t].revoked
          /\ ~families[tokens[t].family].revoked
          /\ ~tokens[t].rotated
          /\ tokens[t].expires >= signNow /\ tokens[t].idle >= signNow
          /\ OpensRequest(r, <<"refreshing", t>>)

RotatesToken(t) == ~tokens[t].rotated

(* What a reused token costs.                                              *)
EndFamily(f) == families' = [families EXCEPT ![f].revoked = TRUE, ![f].reused = TRUE]

(* The response carries the successor; the family _issue_tokens opens in   *)
(* the same call has a token nobody is given.                              *)
RefreshToken(r) ==
    /\ Reads(r, "refreshing") /\ Ends(r)
    /\ LET t == request[r][2]
           f == tokens[t].family
       IN \/ /\ RotatesToken(t) /\ Len(tokens) + 1 < MaxTokens
             /\ tokens' = Append(Append([tokens EXCEPT ![t].rotated = TRUE],
                                        NewToken(f, tokens[t].expires, TRUE)),
                                 NewToken(Len(families) + 1,
                                          signNow + AbsoluteLife, FALSE))
             /\ families' = Append(families, NewFamily(0))
             /\ sessions' = EnsureSession
          \/ /\ ~RotatesToken(t)
             /\ EndFamily(f)
             /\ UNCHANGED <<tokens, sessions>>
    /\ UNCHANGED <<client, secret, codes, consent>>

(* A token that was rotated is presented again.                            *)
ReplayToken ==
    /\ OneStep
    /\ Authenticates
    /\ \E t \in TokenIds :
          /\ tokens[t].known /\ tokens[t].rotated /\ ~tokens[t].revoked
          /\ ~families[tokens[t].family].revoked
          /\ EndFamily(tokens[t].family)
    /\ UNCHANGED <<client, secret, codes, consent, sessions, tokens>>

RevokeToken ==
    /\ OneStep
    /\ Authenticates
    /\ \E t \in TokenIds :
          /\ tokens[t].known
          /\ tokens' = [tokens EXCEPT ![t].revoked = TRUE]
          /\ families' = [families EXCEPT ![tokens[t].family].revoked = TRUE]
    /\ UNCHANGED <<client, secret, codes, consent, sessions>>

(***************************************************************************)
(* Bulk revocations.                                                       *)
(***************************************************************************)
\* A mutant of FamiliesRevoked: only the tokens are revoked.
FamiliesStand == families

FamiliesRevoked == [f \in FamilyIds |-> [families[f] EXCEPT !.revoked = TRUE]]
TokensRevoked == [t \in TokenIds |-> [tokens[t] EXCEPT !.revoked = TRUE]]
SessionsRevoked == [i \in SessionIds |-> [sessions[i] EXCEPT !.revoked = TRUE]]

(* A cookie names one session; every family of its client ends.            *)
LogoutReads(r) ==
    \E i \in SessionIds : OpensRequest(r, <<"leaving", i, {f \in FamilyIds : ~families[f].revoked}>>)

Logout(r) ==
    /\ Reads(r, "leaving") /\ Ends(r)
    /\ sessions' = [sessions EXCEPT ![request[r][2]].revoked = TRUE]
    /\ families' = [f \in FamilyIds |->
                       [families[f] EXCEPT !.revoked = @ \/ f \in request[r][3]]]
    /\ UNCHANGED <<client, secret, codes, consent, tokens>>

RevokeConsent ==
    /\ OneStep
    /\ consent = "given" /\ consent' = "revoked"
    /\ sessions' = SessionsRevoked
    /\ families' = FamiliesRevoked
    /\ tokens' = TokensRevoked
    /\ UNCHANGED <<client, secret, codes>>

(* A ban or a password change reaches SecurityEventRevoker.                *)
RevokeSubjectSessions ==
    /\ OneStep
    /\ client # "none"
    /\ sessions' = [i \in SessionIds |->
                       IF LiveSession(i) THEN [sessions[i] EXCEPT !.revoked = TRUE]
                                         ELSE sessions[i]]
    /\ families' = FamiliesRevoked
    /\ tokens' = TokensRevoked
    /\ UNCHANGED <<client, secret, codes, consent>>

GiveUpSignIn(r) ==
    /\ request[r] # <<>> /\ Ends(r)
    /\ UNCHANGED <<client, secret, codes, consent, sessions, families, tokens>>

SignInTimePasses ==
    /\ signNow < MaxSignTime
    /\ signNow' = signNow + 1
    /\ UNCHANGED <<client, secret, codes, consent, sessions, families, tokens,
                   request, signCalls>>

SignInNext ==
    \/ RegisterClient \/ DisableClient \/ EnableClient
    \/ EstablishSession \/ IssueCode
    \/ ReplayToken \/ RevokeToken \/ RevokeConsent \/ RevokeSubjectSessions
    \/ SignInTimePasses
    \/ \E r \in Requests :
          \/ RotateReads(r) \/ RotateClientSecret(r)
          \/ ExchangeReads(r) \/ ExchangeCode(r)
          \/ RefreshReads(r) \/ RefreshToken(r)
          \/ LogoutReads(r) \/ Logout(r)
          \/ GiveUpSignIn(r)

SignInSpec == SignInInit /\ [][SignInNext]_signInVars

(***************************************************************************)
(* Properties.                                                             *)
(***************************************************************************)
(* A token the refresh endpoint would take now.                            *)
Usable(t) == /\ ~tokens[t].rotated /\ ~tokens[t].revoked
             /\ ~families[tokens[t].family].revoked

(* Two refreshes of one token and exchanges of one code leave at most one  *)
(* usable token in a family and one family of a code: a code or token is   *)
(* spent once, whatever reads preceded the conditional UPDATE.             *)
SpentOnce ==
    /\ \A s, t \in TokenIds :
          Usable(s) /\ Usable(t) /\ tokens[s].family = tokens[t].family => s = t
    /\ \A f, g \in FamilyIds :
          families[f].code = families[g].code /\ families[f].code # 0 => f = g

(* Once nothing of a family is usable, by reuse, revocation, logout or a   *)
(* ban, no step makes a token of it usable again, not even that of a       *)
(* refresh that had read the family before.                                *)
EndedFamilyStaysEnded ==
    [][\A f \in FamilyIds :
          (~\E t \in TokenIds : tokens[t].family = f /\ Usable(t))
          => ~(\E t \in TokenIds : tokens[t].family = f /\ Usable(t))']_signInVars

(* A code and a refresh token are good for one use, and a family that has  *)
(* ended stays so (oidc-provider.md, refresh token rotation).              *)
TokensAreSpent == []SpentOnce /\ EndedFamilyStaysEnded

=============================================================================
