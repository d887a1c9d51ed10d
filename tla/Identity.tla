------------------------------- MODULE Identity -------------------------------
(***************************************************************************)
(* The identity capability: one account, its status, its login identities  *)
(* and the one-time challenges that verify its address and reset its       *)
(* password.                                                               *)
(*                                                                         *)
(* No row of the capability is locked and none is versioned: a command     *)
(* reads, and the rows it changed are written at its commit, whatever      *)
(* other commands committed meanwhile.                                     *)
(***************************************************************************)
EXTENDS Naturals, Sequences, FiniteSets

CONSTANTS
    Providers,         \* login providers, the local one among them
    Local,             \* the provider an account is registered with
    Windows,           \* requests in progress at one time
    ChallengeTtl,      \* time a challenge lasts
    MaxIdentityTime,   \* bound: the clock
    MaxChallenges,     \* bound: challenges issued
    MaxIdentityCalls   \* bound: commands begun

ASSUME IdentityAssumption ==
    /\ Local \in Providers /\ IsFiniteSet(Windows)
    /\ ChallengeTtl \in Nat /\ MaxIdentityTime \in Nat
    /\ MaxChallenges \in Nat /\ MaxIdentityCalls \in Nat

VARIABLES
    account,      \* the identity_users row, its credential and login rows
    challenges,   \* the identity_challenges rows, in the order of their inserts
    window,       \* what each request is in the middle of
    resets,       \* password resets committed: the challenge, and whether it had
                  \* been superseded when the request read it
    identityTime, identityCalls

identityVars == <<account, challenges, window, resets, identityTime, identityCalls>>

NoAccount == [status |-> "none"]
Purposes == {"email_verification", "password_reset"}
Statuses == {"active", "banned", "deleted"}

(* `seen` holds the challenges that were outstanding when the request for  *)
(* this one read them.                                                     *)
Challenge(purpose, seen) ==
    [purpose |-> purpose, consumed |-> FALSE, until |-> identityTime + ChallengeTtl,
     attempts |-> 0, seen |-> seen]

IdentityTypeOK ==
    /\ account = NoAccount
         \/ account \in [status : Statuses, verified : BOOLEAN, logins : SUBSET Providers]
    /\ \A n \in DOMAIN challenges :
         challenges[n] \in [purpose : Purposes, consumed : BOOLEAN, until : Nat,
                            attempts : Nat, seen : SUBSET (1 .. n - 1)]
    /\ DOMAIN window = Windows
    /\ \A i \in DOMAIN resets :
         resets[i] \in [challenge : DOMAIN challenges, superseded : BOOLEAN]

IdentityInit ==
    /\ account = NoAccount
    /\ challenges = <<>>
    /\ window = [w \in Windows |-> <<"idle">>]
    /\ resets = <<>>
    /\ identityTime = 0 /\ identityCalls = 0

WindowIdle(w) == window[w] = <<"idle">>
WindowIn(w, what) == window[w][1] = what
Shows(w, what) == window' = [window EXCEPT ![w] = what]
IdentityCall == identityCalls < MaxIdentityCalls /\ identityCalls' = identityCalls + 1
Issues(c) == Len(challenges) < MaxChallenges /\ challenges' = Append(challenges, c)

(***************************************************************************)
(* The account.  The name and the address are unique: the second of two    *)
(* registrations waits for the first and fails.                            *)
(***************************************************************************)
RegisterLocalUser ==
    /\ IdentityCall
    /\ account = NoAccount
    /\ account' = [status |-> "active", verified |-> FALSE, logins |-> {Local}]
    /\ Issues(Challenge("email_verification", {}))
    /\ UNCHANGED <<window, resets, identityTime>>

(* The statuses from which a command goes on; a user who is not there is   *)
(* refused.                                                                *)
OrMissing == [banned |-> {"active", "banned"}, active |-> {"banned"},
              deleted |-> Statuses \union {"none"}]
StatusFrom == [banned |-> {"active", "banned"}, active |-> {"banned"},
               deleted |-> Statuses]

(* BanUser, UnbanUser and DeleteUser.                                      *)
StatusReads(w, to) ==
    /\ IdentityCall
    /\ WindowIdle(w)
    /\ account.status \in StatusFrom[to]
    /\ Shows(w, <<"status", account.status, to>>)
    /\ UNCHANGED <<account, challenges, resets, identityTime>>

(* Only a column that changed is written.                                  *)
StatusWritten(w) ==
    /\ WindowIn(w, "status")
    /\ LET read == window[w][2]
           to == window[w][3]
       IN account' = IF read = to THEN account ELSE [account EXCEPT !.status = to]
    /\ Shows(w, <<"idle">>)
    /\ UNCHANGED <<challenges, resets, identityTime, identityCalls>>

LinkLoginIdentity(p) ==
    /\ IdentityCall
    /\ account # NoAccount /\ p \notin account.logins
    /\ account' = [account EXCEPT !.logins = @ \union {p}]
    /\ UNCHANGED <<challenges, window, resets, identityTime>>

UnlinkReads(w, p) ==
    /\ IdentityCall
    /\ WindowIdle(w)
    /\ account # NoAccount /\ p \in account.logins /\ Cardinality(account.logins) > 1
    /\ Shows(w, <<"unlinking", p>>)
    /\ UNCHANGED <<account, challenges, resets, identityTime>>

UnlinkLoginIdentity(w) ==
    /\ WindowIn(w, "unlinking")
    /\ account' = [account EXCEPT !.logins = @ \ {window[w][2]}]
    /\ Shows(w, <<"idle">>)
    /\ UNCHANGED <<challenges, resets, identityTime, identityCalls>>

(***************************************************************************)
(* Challenges.                                                             *)
(***************************************************************************)
Superseded(n) == \E m \in DOMAIN challenges : n \in challenges[m].seen

ResetRequestReads(w) ==
    /\ IdentityCall
    /\ WindowIdle(w)
    /\ account.status = "active"
    /\ Shows(w, <<"requesting", {n \in DOMAIN challenges :
                     challenges[n].purpose = "password_reset" /\ ~challenges[n].consumed}>>)
    /\ UNCHANGED <<account, challenges, resets, identityTime>>

(* What is outstanding of the earlier requests is consumed.                *)
NothingSuperseded(seen) == challenges
Consumed(seen) ==
    [n \in DOMAIN challenges |->
       IF n \in seen THEN [challenges[n] EXCEPT !.consumed = TRUE] ELSE challenges[n]]

RequestPasswordReset(w) ==
    /\ WindowIn(w, "requesting")
    /\ Len(challenges) < MaxChallenges
    /\ LET seen == window[w][2]
       IN challenges' = Append(Consumed(seen), Challenge("password_reset", seen))
    /\ Shows(w, <<"idle">>)
    /\ UNCHANGED <<account, resets, identityTime, identityCalls>>

(* VerifyEmail and ResetPassword read the row of the token they are given. *)
ChallengeReads(w, n) ==
    /\ IdentityCall
    /\ WindowIdle(w)
    /\ Shows(w, <<"using", n, challenges[n].attempts,
                  ~challenges[n].consumed /\ identityTime <= challenges[n].until,
                  Superseded(n)>>)
    /\ UNCHANGED <<account, challenges, resets, identityTime>>

Uses(w, purpose) == WindowIn(w, "using") /\ challenges[window[w][2]].purpose = purpose
Live(w) == window[w][4]

(* A refusal commits the attempt it counted, and nothing else.             *)
ConsumeChallenge(w) ==
    LET n == window[w][2]
        attempts == window[w][3]
    IN challenges' = [challenges EXCEPT ![n].attempts = attempts + 1,
                                        ![n].consumed = @ \/ Live(w)]

VerifyEmail(w) ==
    /\ Uses(w, "email_verification")
    /\ ConsumeChallenge(w)
    /\ account' = IF Live(w) THEN [account EXCEPT !.verified = TRUE] ELSE account
    /\ Shows(w, <<"idle">>)
    /\ UNCHANGED <<resets, identityTime, identityCalls>>

ResetPassword(w) ==
    /\ Uses(w, "password_reset")
    /\ ConsumeChallenge(w)
    /\ resets' = IF Live(w)
                 THEN Append(resets, [challenge |-> window[w][2],
                                      superseded |-> window[w][5]])
                 ELSE resets
    /\ Shows(w, <<"idle">>)
    /\ UNCHANGED <<account, identityTime, identityCalls>>

(* A request that fails or is lost before its commit leaves nothing.       *)
IdentityGivesUp(w) ==
    /\ ~WindowIdle(w)
    /\ Shows(w, <<"idle">>)
    /\ UNCHANGED <<account, challenges, resets, identityTime, identityCalls>>

IdentityTimePasses ==
    /\ identityTime < MaxIdentityTime /\ identityTime' = identityTime + 1
    /\ UNCHANGED <<account, challenges, window, resets, identityCalls>>

IdentityNext ==
    \/ RegisterLocalUser
    \/ \E p \in Providers : LinkLoginIdentity(p)
    \/ \E w \in Windows : ResetRequestReads(w) \/ RequestPasswordReset(w)
    \/ \E w \in Windows, to \in Statuses : StatusReads(w, to)
    \/ \E w \in Windows, p \in Providers : UnlinkReads(w, p)
    \/ \E w \in Windows, n \in DOMAIN challenges : ChallengeReads(w, n)
    \/ \E w \in Windows : \/ StatusWritten(w) \/ UnlinkLoginIdentity(w)
                          \/ VerifyEmail(w) \/ ResetPassword(w) \/ IdentityGivesUp(w)
    \/ IdentityTimePasses

IdentitySpec == IdentityInit /\ [][IdentityNext]_identityVars

(* A reset token serves once, as far as the code can tell: a token resets  *)
(* the password again only for requests already under way when it first    *)
(* did, and never for a request that read it after a newer token           *)
(* superseded it (ResetPassword and RequestPasswordReset, commands.py).    *)
ResetsAreSpent ==
    /\ \A i \in DOMAIN resets : ~resets[i].superseded
    /\ \A n \in DOMAIN challenges :
         Cardinality({i \in DOMAIN resets : resets[i].challenge = n}) <= Cardinality(Windows)
=============================================================================
