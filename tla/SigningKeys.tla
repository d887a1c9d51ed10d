----------------------------- MODULE SigningKeys -----------------------------
(***************************************************************************)
(* The signing keys of the OIDC provider and the tokens they sign.         *)
(*                                                                         *)
(* A rotation inserts the new key and locks the active one in a single     *)
(* transaction; a second rotation that waits for that lock then finds the  *)
(* row no longer active and does not see the other's new row.  A token     *)
(* request reads the active key in a unit of work of its own and signs a   *)
(* moment later.                                                           *)
(***************************************************************************)
EXTENDS Naturals, FiniteSets

CONSTANTS
    Keyrings,     \* key ids that may be drawn
    Operators,    \* installs, rotations and token requests in progress
    TokenLife,    \* MAX_TOKEN_LIFETIME_SECONDS
    ClockSkew,    \* CLOCK_SKEW_SECONDS
    Slowest,      \* the longest a rotation or a token request takes
    MaxKeyTime,   \* bound
    MaxIssued     \* bound: tokens

ASSUME SigningKeysAssumption ==
    /\ {TokenLife, ClockSkew, Slowest, MaxKeyTime, MaxIssued} \subseteq Nat /\ MaxKeyTime # 0
    \* A rotation takes its time before it waits for the lock, a request
    \* reads the key before it takes its own: the skew covers both.
    /\ 2 * Slowest <= ClockSkew

VARIABLES
    keys,      \* the oidc_signing_keys rows
    private,   \* key ids with material in the key store
    signed,    \* tokens: the key that signed them and their expiry
    operator,  \* what each operator is in the middle of
    keyNow

keyVars == <<keys, private, signed, operator, keyNow>>

\* deleteAt = 0: none.
KeyRows == [state : {"none", "active", "retired"}, deleteAt : Nat]
NoKey == [state |-> "none", deleteAt |-> 0]
KeyRetention == TokenLife + ClockSkew

KeysTypeOK ==
    /\ keys \in [Keyrings -> KeyRows]
    /\ private \subseteq Keyrings
    /\ \A t \in signed : t.key \in Keyrings /\ t.expires \in Nat
    /\ DOMAIN operator = Operators
    /\ keyNow \in 1..MaxKeyTime

KeysInit ==
    /\ keys = [k \in Keyrings |-> NoKey]
    /\ private = {} /\ signed = {}
    /\ operator = [o \in Operators |-> [does |-> "nothing"]]
    /\ keyNow = 1

Unused(k) == keys[k].state = "none" /\ k \notin private
ActiveKeys == {k \in Keyrings : keys[k].state = "active"}
AtRest(o) == operator[o].does = "nothing"
Occupies(o, what) == operator' = [operator EXCEPT ![o] = what]
Rests(o) == Occupies(o, [does |-> "nothing"])

(* initialize_active_key: no row to lock, so two installs may both go on.  *)
InstallFindsNone(o) ==
    /\ AtRest(o) /\ ActiveKeys = {}
    /\ Occupies(o, [does |-> "installing"])
    /\ UNCHANGED <<keys, private, signed, keyNow>>

InstallKey(o, k) ==
    /\ operator[o].does = "installing" /\ Unused(k)
    /\ keys' = [keys EXCEPT ![k] = [state |-> "active", deleteAt |-> 0]]
    /\ private' = private \union {k}
    /\ Rests(o)
    /\ UNCHANGED <<signed, keyNow>>

(* rotate waits for the lock of the row its statement found (`old`).       *)
RotateFinds(o, k, old) ==
    /\ AtRest(o) /\ Unused(k)
    /\ old \in ActiveKeys
    /\ private' = private \union {k}
    /\ Occupies(o, [does |-> "rotating", key |-> k, old |-> old, at |-> keyNow])
    /\ UNCHANGED <<keys, signed, keyNow>>

(* A mutant of RetiredAt: the skew is left out of the retention.           *)
RetiredWithoutSkew(at) == at + TokenLife

RetiredAt(at) == at + KeyRetention

RotateKey(o) ==
    /\ operator[o].does = "rotating"
    /\ LET k == operator[o].key
           old == operator[o].old
           at == operator[o].at
       IN keys' = [x \in Keyrings |->
                     IF x = k THEN [state |-> "active", deleteAt |-> 0]
                     ELSE IF x = old /\ keys[x].state = "active"
                     THEN [state |-> "retired", deleteAt |-> RetiredAt(at)]
                     ELSE keys[x]]
    /\ Rests(o)
    /\ UNCHANGED <<private, signed, keyNow>>

(* A process dies; the material a rotation generated stays in the store.   *)
OperatorDies(o) ==
    /\ ~AtRest(o)
    /\ Rests(o)
    /\ UNCHANGED <<keys, private, signed, keyNow>>

(* require_active_key, then sign_jwt with the time of the moment.          *)
RequireActiveKey(o, k) ==
    /\ AtRest(o) /\ k \in ActiveKeys \intersect private
    /\ Cardinality(signed) < MaxIssued
    /\ Occupies(o, [does |-> "signing", key |-> k, at |-> keyNow])
    /\ UNCHANGED <<keys, private, signed, keyNow>>

IssueToken(o) ==
    /\ operator[o].does = "signing"
    /\ signed' = signed \union {[key |-> operator[o].key, expires |-> keyNow + TokenLife]}
    /\ Rests(o)
    /\ UNCHANGED <<keys, private, keyNow>>

CleanupExpiredKeys ==
    LET gone == {k \in Keyrings : keys[k].deleteAt \in 1..keyNow}
    IN /\ gone # {}
       /\ keys' = [k \in Keyrings |-> IF k \in gone THEN NoKey ELSE keys[k]]
       /\ private' = private \ gone
       /\ UNCHANGED <<signed, operator, keyNow>>

(* No rotation or token request takes longer than Slowest.                 *)
KeyTimePasses ==
    /\ keyNow < MaxKeyTime
    /\ \A o \in Operators : operator[o].does \in {"rotating", "signing"} =>
                              keyNow < operator[o].at + Slowest
    /\ keyNow' = keyNow + 1
    /\ UNCHANGED <<keys, private, signed, operator>>

KeysNext ==
    \/ \E o \in Operators : InstallFindsNone(o) \/ RotateKey(o) \/ IssueToken(o) \/ OperatorDies(o)
    \/ \E o \in Operators, k \in Keyrings : InstallKey(o, k) \/ RequireActiveKey(o, k)
    \/ \E o \in Operators, k, old \in Keyrings : RotateFinds(o, k, old)
    \/ CleanupExpiredKeys
    \/ KeyTimePasses

KeysSpec == KeysInit /\ [][KeysNext]_keyVars

(***************************************************************************)
(* Properties.                                                             *)
(***************************************************************************)

(* The JSON Web Key Set: rows without a deletion time, or before it.       *)
PublicJwks == {k \in Keyrings : /\ keys[k].state # "none"
                                /\ keys[k].deleteAt = 0 \/ keys[k].deleteAt > keyNow}

(* Whatever rotations, installs and cleanups ran beside its signing, a     *)
(* token that has not expired was signed by a key the key set publishes.   *)
TokensVerify == \A t \in signed : keyNow < t.expires => t.key \in PublicJwks
=============================================================================
