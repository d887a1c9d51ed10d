---------------------------- MODULE ServicesProof ----------------------------
(***************************************************************************)
(* What the services keep, for every number of clients, requests and rows, *)
(* and without the bounds that TLC needs.                                  *)
(***************************************************************************)
EXTENDS Settings, SigningKeys, Access, SignIn, Notification, Assets, Tasks, FiniteSetTheorems,
        WellFoundedInduction, TLAPS

-----------------------------------------------------------------------------
(* Settings: a version never comes twice, so a form of the group's version *)
(* is a form of what the group holds.                                      *)

FormsFollow ==
    \A e \in Editing, g \in SettingGroups :
        /\ form[e][g].version <= group[g].version
        /\ form[e][g].version = group[g].version => form[e][g].shown = group[g].shown

SettingsInv == SettingsTypeOK /\ FormsFollow

\* A write of a group takes the next version, so every form of it is older.
LEMMA WriteKeepsForms ==
    ASSUME SettingsInv, NEW g \in SettingGroups, NEW row \in GroupRows,
           row.version = group[g].version + 1,
           group' = [group EXCEPT ![g] = row], UNCHANGED <<registered, form>>
    PROVE  SettingsInv'
<1>1. SettingsTypeOK'
  BY DEF SettingsInv, SettingsTypeOK
<1>2. FormsFollow'
  <2> SUFFICES ASSUME NEW e \in Editing, NEW h \in SettingGroups
               PROVE  /\ form[e][h].version <= group'[h].version
                      /\ form[e][h].version = group'[h].version
                           => form[e][h].shown = group'[h].shown
    BY DEF FormsFollow
  <2>1. form[e][h].version \in Nat /\ group[h].version \in Nat
    BY SettingsAssumption DEF SettingsInv, SettingsTypeOK, Forms, GroupRows
  <2>2. /\ form[e][h].version <= group[h].version
        /\ form[e][h].version = group[h].version => form[e][h].shown = group[h].shown
    BY DEF SettingsInv, FormsFollow
  <2>3. CASE h = g
    <3>1. group'[h].version = group[h].version + 1
      BY <2>3 DEF SettingsInv, SettingsTypeOK
    <3> QED
      BY <2>1, <2>2, <3>1
  <2>4. CASE h # g
    <3>1. group'[h] = group[h]
      BY <2>4 DEF SettingsInv, SettingsTypeOK
    <3> QED
      BY <2>2, <3>1
  <2> QED
    BY <2>3, <2>4
<1> QED
  BY <1>1, <1>2 DEF SettingsInv

\* A write happens only while versions are left.
LEMMA NextIsVersion ==
    ASSUME SettingsInv, NEW g \in SettingGroups, NextVersion(g)
    PROVE  group[g].version + 1 \in 0..MaxSettingVersion
<1>1. group[g].version \in 0..MaxSettingVersion /\ group[g].version < MaxSettingVersion
  BY DEF SettingsInv, SettingsTypeOK, NextVersion, GroupRows
<1> QED
  BY <1>1, SettingsAssumption

LEMMA SettingsStep == SettingsInv /\ [SettingsNext]_settingsVars => SettingsInv'
<1> SUFFICES ASSUME SettingsInv, [SettingsNext]_settingsVars PROVE SettingsInv'
  OBVIOUS
<1> USE SettingsAssumption
<1>1. ASSUME NEW e \in Editing, NEW g \in SettingGroups, GetGroup(e, g)
      PROVE  SettingsInv'
  <2>1. /\ group[g] \in GroupRows
        /\ form' = [form EXCEPT ![e][g] = FormOf(group[g])]
        /\ UNCHANGED <<group, registered>>
    BY <1>1 DEF GetGroup, SettingsInv, SettingsTypeOK
  <2>2. FormOf(group[g]) \in Forms
    BY <2>1 DEF FormOf, Forms, GroupRows
  <2>3. SettingsTypeOK'
    BY <2>1, <2>2 DEF SettingsInv, SettingsTypeOK
  <2>4. FormsFollow'
    <3> SUFFICES ASSUME NEW d \in Editing, NEW h \in SettingGroups
                 PROVE  /\ form'[d][h].version <= group[h].version
                        /\ form'[d][h].version = group[h].version
                             => form'[d][h].shown = group[h].shown
      BY <2>1 DEF FormsFollow
    <3>1. CASE d = e /\ h = g
      <4>1. form'[d][h] = FormOf(group[h])
        BY <2>1, <3>1 DEF SettingsInv, SettingsTypeOK
      <4>2. group[h].version \in Nat
        BY DEF SettingsInv, SettingsTypeOK, GroupRows
      <4> QED
        BY <4>1, <4>2 DEF FormOf
    <3>2. CASE ~(d = e /\ h = g)
      <4>1. form'[d][h] = form[d][h]
        BY <2>1, <3>2 DEF SettingsInv, SettingsTypeOK
      <4> QED
        BY <4>1 DEF SettingsInv, FormsFollow
    <3> QED
      BY <3>1, <3>2
  <2> QED
    BY <2>3, <2>4 DEF SettingsInv
<1>2. ASSUME NEW e \in Editing, NEW g \in SettingGroups, NEW sent \in Shown \union {"left out"},
             NEW given \in {"set", "cleared", "left out"},
             UpdateSettingGroup(e, g, sent, given)
      PROVE  SettingsInv'
  <2> DEFINE shown == IF sent = "left out" THEN group[g].shown ELSE sent
             kept == IF given = "left out" THEN group[g].secret ELSE given = "set"
  <2> HIDE DEF shown, kept
  <2>1. group[g] \in GroupRows /\ registered[g] \in 0..MaxDeployments
    BY DEF SettingsInv, SettingsTypeOK
  <2>2. group[g].version + 1 \in 0..MaxSettingVersion
    <3>1. NextVersion(g)
      BY <1>2 DEF UpdateSettingGroup
    <3> QED
      BY <3>1, NextIsVersion
  <2>3. shown \in Shown
    BY <2>1 DEF GroupRows, shown
  <2>4. kept \in BOOLEAN
    <3>1. group[g].secret \in BOOLEAN
      BY <2>1 DEF GroupRows
    <3> QED
      BY <3>1 DEF kept
  <2>5. Merged(g, sent, given) = [version |-> group[g].version + 1, schema |-> registered[g],
                                   shown |-> shown, secret |-> kept]
    BY DEF Merged, shown, kept
  <2> DEFINE row == [version |-> group[g].version + 1, schema |-> registered[g],
                     shown |-> shown, secret |-> kept]
  <2>6. row \in GroupRows /\ row.version = group[g].version + 1
    BY <2>1, <2>3, <2>4, <2>2 DEF GroupRows
  <2>7. group' = [group EXCEPT ![g] = row] /\ UNCHANGED <<registered, form>>
    BY <1>2, <2>5 DEF UpdateSettingGroup
  <2> HIDE DEF row
  <2> QED
    BY <2>6, <2>7, WriteKeepsForms
<1>3. ASSUME NEW g \in SettingGroups, ResetSettingGroup(g)
      PROVE  SettingsInv'
  <2> DEFINE row == [version |-> group[g].version + 1, schema |-> registered[g],
                     shown |-> DefaultShown, secret |-> FALSE]
  <2>1. row \in GroupRows /\ row.version = group[g].version + 1
    BY <1>3 DEF ResetSettingGroup, NextVersion, GroupRows, SettingsInv, SettingsTypeOK
  <2> QED
    BY <1>3, <2>1, WriteKeepsForms DEF ResetSettingGroup
<1>4. ASSUME NEW g \in SettingGroups, DeploySchema(g)
      PROVE  SettingsInv'
  BY <1>4 DEF DeploySchema, SettingsInv, SettingsTypeOK, FormsFollow
<1>5. CASE UNCHANGED settingsVars
  BY <1>5 DEF settingsVars, SettingsInv, SettingsTypeOK, FormsFollow
<1> QED
  BY <1>1, <1>2, <1>3, <1>4, <1>5 DEF SettingsNext

LEMMA SettingsStart == SettingsInit => SettingsInv
BY SettingsAssumption
DEF SettingsInit, SettingsInv, SettingsTypeOK, FormsFollow, NoRows, FormOf, GroupRows, Forms

\* No accepted update overwrites what its editor has not seen, whatever the
\* number of editors, groups, writes and releases (service.py:361).
THEOREM NothingOverwrittenUnseen == SettingsSpec => NoBlindOverwrite
<1>1. SettingsInit => SettingsInv
  BY SettingsStart
<1>2. SettingsInv => \A e \in Editing, g \in SettingGroups :
         form[e][g].shown # group[g].shown
           => \A sent \in Shown \union {"left out"}, given \in {"set", "cleared", "left out"} :
                ~UpdateSettingGroup(e, g, sent, given)
  BY DEF SettingsInv, FormsFollow, UpdateSettingGroup
<1> QED
  BY <1>1, <1>2, SettingsStep, PTL DEF SettingsSpec, NoBlindOverwrite

-----------------------------------------------------------------------------
(* SigningKeys: a key outlives what it signs.  Once retired, it is         *)
(* published for the life of a token and the skew, counted from the time   *)
(* the rotation began; the skew covers the rotation and the signing.       *)

KeysTyped ==
    /\ keyNow \in Nat
    /\ keys \in [Keyrings -> KeyRows]
    /\ DOMAIN operator = Operators

\* A row that is not deleted before this time.
Lasts(row, until) == row.state # "none" /\ (row.deleteAt = 0 \/ row.deleteAt >= until)

\* What an operator is in the middle of has taken no longer than Slowest, and a key read to
\* sign with lasts as long as the token may.
OperatorSound(work, rows, now) ==
    /\ work.does \in {"rotating", "signing"} =>
         work.key \in Keyrings /\ work.at \in Nat /\ work.at <= now /\ now <= work.at + Slowest
    /\ work.does = "signing" /\ TokenLife > 0 =>
         Lasts(rows[work.key], work.at + Slowest + TokenLife)

TokenSound(token, rows, now) ==
    /\ token.key \in Keyrings /\ token.expires \in Nat /\ token.expires <= now + TokenLife
    /\ now < token.expires => Lasts(rows[token.key], token.expires)

KeysInv ==
    /\ KeysTyped
    /\ \A k \in Keyrings : keys[k].state = "active" => keys[k].deleteAt = 0
    /\ \A o \in Operators : OperatorSound(operator[o], keys, keyNow)
    /\ \A t \in signed : TokenSound(t, keys, keyNow)

LEMMA KeysStep == SigningKeysAssumption /\ KeysInv /\ [KeysNext]_keyVars => KeysInv'
<1> SUFFICES ASSUME SigningKeysAssumption, KeysInv, [KeysNext]_keyVars PROVE KeysInv'
  OBVIOUS
<1>1. /\ TokenLife \in Nat /\ ClockSkew \in Nat /\ Slowest \in Nat /\ 2 * Slowest <= ClockSkew
      /\ keyNow \in Nat /\ keys \in [Keyrings -> KeyRows]
  BY DEF SigningKeysAssumption, KeysInv, KeysTyped
\* An operator turns to something else; the rows are as they were.
<1>2. ASSUME NEW o \in Operators, NEW work, Occupies(o, work), UNCHANGED <<keys, keyNow>>,
             OperatorSound(work, keys, keyNow),
             \A t \in signed' \ signed : TokenSound(t, keys, keyNow)
      PROVE  KeysInv'
  <2>1. /\ DOMAIN operator' = Operators
        /\ \A p \in Operators : operator'[p] = IF p = o THEN work ELSE operator[p]
    BY <1>2 DEF Occupies, KeysInv, KeysTyped
  <2>2. \A p \in Operators : OperatorSound(operator'[p], keys, keyNow)
    BY <1>2, <2>1 DEF KeysInv
  <2>3. \A t \in signed' : TokenSound(t, keys, keyNow)
    BY <1>2 DEF KeysInv
  <2>4. KeysTyped' /\ \A k \in Keyrings : keys'[k].state = "active" => keys'[k].deleteAt = 0
    BY <1>2, <2>1 DEF KeysInv, KeysTyped
  <2> QED
    BY <1>2, <2>2, <2>3, <2>4 DEF KeysInv
\* AssetRows change, and what lasted long enough goes on to.
<1>3. ASSUME keyNow' = keyNow, signed' = signed, keys' \in [Keyrings -> KeyRows],
             \A k \in Keyrings : keys'[k].state = "active" => keys'[k].deleteAt = 0,
             DOMAIN operator' = Operators,
             \A o \in Operators :
                operator'[o] = operator[o] \/ operator'[o] = [does |-> "nothing"],
             \A k \in Keyrings, until \in Nat :
                keyNow < until /\ until <= keyNow + Slowest + TokenLife /\ Lasts(keys[k], until)
                  => Lasts(keys'[k], until)
      PROVE  KeysInv'
  <2>1. ASSUME NEW o \in Operators PROVE OperatorSound(operator'[o], keys', keyNow)
    <3>1. CASE operator'[o] = [does |-> "nothing"]
      BY <3>1 DEF OperatorSound
    <3>2. CASE operator'[o] = operator[o]
      <4>1. OperatorSound(operator[o], keys, keyNow)
        BY DEF KeysInv
      <4>2. ASSUME operator[o].does = "signing", TokenLife > 0
            PROVE  Lasts(keys'[operator[o].key], operator[o].at + Slowest + TokenLife)
        <5> DEFINE until == operator[o].at + Slowest + TokenLife
        <5>1. /\ operator[o].key \in Keyrings /\ operator[o].at \in Nat
              /\ operator[o].at <= keyNow /\ keyNow <= operator[o].at + Slowest
              /\ Lasts(keys[operator[o].key], until)
          BY <4>1, <4>2 DEF OperatorSound
        <5>2. until \in Nat /\ keyNow < until /\ until <= keyNow + Slowest + TokenLife
          BY <1>1, <4>2, <5>1
        <5> HIDE DEF until
        <5>3. Lasts(keys'[operator[o].key], until)
          BY <1>3, <5>1, <5>2
        <5> QED
          BY <5>3 DEF until
      <4> QED
        BY <3>2, <4>1, <4>2 DEF OperatorSound
    <3> QED
      BY <1>3, <3>1, <3>2
  <2>2. ASSUME NEW t \in signed PROVE TokenSound(t, keys', keyNow)
    <3>1. TokenSound(t, keys, keyNow)
      BY DEF KeysInv
    <3>2. t.expires \in Nat /\ t.expires <= keyNow + Slowest + TokenLife
      BY <1>1, <3>1 DEF TokenSound
    <3> QED
      BY <1>3, <3>1, <3>2 DEF TokenSound
  <2> QED
    BY <1>1, <1>3, <2>1, <2>2 DEF KeysInv, KeysTyped
<1>4. \A rows, now : OperatorSound([does |-> "nothing"], rows, now)
  BY DEF OperatorSound
<1>5. ASSUME NEW o \in Operators, InstallFindsNone(o) \/ OperatorDies(o) PROVE KeysInv'
  <2>1. OperatorSound([does |-> "installing"], keys, keyNow)
    BY DEF OperatorSound
  <2> QED
    BY <1>2, <1>4, <1>5, <2>1 DEF InstallFindsNone, OperatorDies, Rests
<1>6. ASSUME NEW o \in Operators, NEW k \in Keyrings, InstallKey(o, k) PROVE KeysInv'
  <2>1. /\ keys' = [keys EXCEPT ![k] = [state |-> "active", deleteAt |-> 0]]
        /\ UNCHANGED <<signed, keyNow>>
        /\ DOMAIN operator' = Operators
        /\ \A p \in Operators : operator'[p] = operator[p] \/ operator'[p] = [does |-> "nothing"]
    BY <1>6 DEF InstallKey, Rests, Occupies, KeysInv, KeysTyped
  <2>2. [state |-> "active", deleteAt |-> 0] \in KeyRows
    BY DEF KeyRows
  <2>3. /\ keys' \in [Keyrings -> KeyRows]
        /\ keys'[k].state = "active" /\ keys'[k].deleteAt = 0
        /\ \A x \in Keyrings \ {k} : keys'[x] = keys[x]
    BY <1>1, <2>1, <2>2
  <2> QED
    BY <1>3, <2>1, <2>3 DEF Lasts, KeysInv
<1>7. ASSUME NEW o \in Operators, NEW k \in Keyrings, NEW old \in Keyrings, RotateFinds(o, k, old)
      PROVE  KeysInv'
  <2> DEFINE work == [does |-> "rotating", key |-> k, old |-> old, at |-> keyNow]
  <2>1. Occupies(o, work) /\ UNCHANGED <<keys, keyNow, signed>>
    BY <1>7 DEF RotateFinds
  <2>2. OperatorSound(work, keys, keyNow)
    BY <1>1 DEF OperatorSound
  <2> HIDE DEF work
  <2> QED
    BY <1>2, <2>1, <2>2
<1>8. ASSUME NEW o \in Operators, RotateKey(o) PROVE KeysInv'
  <2> DEFINE k == operator[o].key
             old == operator[o].old
             at == operator[o].at
  <2>1. /\ operator[o].does = "rotating" /\ Rests(o) /\ UNCHANGED <<signed, keyNow>>
        /\ keys' = [x \in Keyrings |->
                     IF x = k THEN [state |-> "active", deleteAt |-> 0]
                     ELSE IF x = old /\ keys[x].state = "active"
                     THEN [state |-> "retired", deleteAt |-> RetiredAt(at)]
                     ELSE keys[x]]
    BY <1>8 DEF RotateKey
  <2>2. k \in Keyrings /\ at \in Nat /\ keyNow <= at + Slowest
    BY <2>1 DEF KeysInv, OperatorSound
  <2>3. RetiredAt(at) \in Nat /\ keyNow + Slowest + TokenLife <= RetiredAt(at)
    BY <1>1, <2>2 DEF RetiredAt, KeyRetention
  <2>4. /\ DOMAIN operator' = Operators
        /\ \A p \in Operators : operator'[p] = operator[p] \/ operator'[p] = [does |-> "nothing"]
    BY <2>1 DEF Rests, Occupies, KeysInv, KeysTyped
  <2> HIDE DEF k, old, at
  <2>5. /\ [state |-> "active", deleteAt |-> 0] \in KeyRows
        /\ [state |-> "retired", deleteAt |-> RetiredAt(at)] \in KeyRows
    BY <2>3 DEF KeyRows
  <2>6. keys' \in [Keyrings -> KeyRows]
    BY <1>1, <2>1, <2>5
  <2>7. ASSUME NEW x \in Keyrings
        PROVE  \/ keys'[x].state = "active" /\ keys'[x].deleteAt = 0
               \/ keys'[x].state = "retired" /\ keys'[x].deleteAt = RetiredAt(at)
               \/ keys'[x] = keys[x]
    BY <2>1
  <2>8. \A x \in Keyrings : keys'[x].state = "active" => keys'[x].deleteAt = 0
    BY <2>7 DEF KeysInv
  <2>9. ASSUME NEW x \in Keyrings, NEW until \in Nat, until <= keyNow + Slowest + TokenLife,
               Lasts(keys[x], until)
        PROVE  Lasts(keys'[x], until)
    <3>1. until <= RetiredAt(at)
      BY <1>1, <2>3, <2>9
    <3> QED
      BY <2>7, <2>9, <3>1 DEF Lasts
  <2> QED
    BY <1>3, <2>1, <2>4, <2>6, <2>8, <2>9
<1>9. ASSUME NEW o \in Operators, NEW k \in Keyrings, RequireActiveKey(o, k) PROVE KeysInv'
  <2> DEFINE work == [does |-> "signing", key |-> k, at |-> keyNow]
  <2>1. Occupies(o, work) /\ UNCHANGED <<keys, keyNow, signed>> /\ keys[k].state = "active"
    BY <1>9 DEF RequireActiveKey, ActiveKeys
  <2>2. keys[k].deleteAt = 0
    BY <2>1 DEF KeysInv
  <2>3. OperatorSound(work, keys, keyNow)
    BY <1>1, <2>1, <2>2 DEF OperatorSound, Lasts
  <2> HIDE DEF work
  <2> QED
    BY <1>2, <2>1, <2>3
<1>10. ASSUME NEW o \in Operators, IssueToken(o) PROVE KeysInv'
  <2> DEFINE token == [key |-> operator[o].key, expires |-> keyNow + TokenLife]
  <2>1. /\ operator[o].does = "signing" /\ signed' = signed \union {token}
        /\ Occupies(o, [does |-> "nothing"]) /\ UNCHANGED <<keys, keyNow>>
    BY <1>10 DEF IssueToken, Rests
  <2>2. /\ operator[o].key \in Keyrings /\ operator[o].at \in Nat
        /\ keyNow <= operator[o].at + Slowest
        /\ TokenLife > 0 => Lasts(keys[operator[o].key], operator[o].at + Slowest + TokenLife)
    BY <2>1 DEF KeysInv, OperatorSound
  <2>3. keys[operator[o].key].deleteAt \in Nat
    BY <1>1, <2>2 DEF KeyRows
  <2>4. token.key = operator[o].key /\ token.expires = keyNow + TokenLife
    OBVIOUS
  <2> HIDE DEF token
  <2>5. TokenSound(token, keys, keyNow)
    BY <1>1, <2>2, <2>3, <2>4 DEF TokenSound, Lasts
  <2> QED
    BY <1>2, <1>4, <2>1, <2>5
<1>11. CASE CleanupExpiredKeys
  <2> DEFINE gone == {k \in Keyrings : keys[k].deleteAt \in 1..keyNow}
  <2>1. /\ keys' = [k \in Keyrings |-> IF k \in gone THEN NoKey ELSE keys[k]]
        /\ UNCHANGED <<signed, operator, keyNow>>
    BY <1>11 DEF CleanupExpiredKeys
  <2>2. NoKey \in KeyRows /\ NoKey.state = "none"
    BY DEF NoKey, KeyRows
  <2>3. keys' \in [Keyrings -> KeyRows]
    BY <1>1, <2>1, <2>2
  <2>4. \A k \in Keyrings : keys'[k].state = "active" => keys'[k].deleteAt = 0
    BY <2>1, <2>2 DEF KeysInv
  <2>5. ASSUME NEW k \in Keyrings, NEW until \in Nat, keyNow < until, Lasts(keys[k], until)
        PROVE  Lasts(keys'[k], until)
    <3>1. keys[k].deleteAt \in Nat
      BY <1>1 DEF KeyRows
    <3>2. k \notin gone
      BY <1>1, <2>5, <3>1 DEF Lasts
    <3> QED
      BY <2>1, <2>5, <3>2
  <2> QED
    BY <1>3, <2>1, <2>3, <2>4, <2>5 DEF KeysInv, KeysTyped
<1>12. CASE KeyTimePasses
  <2>1. /\ keyNow' = keyNow + 1 /\ UNCHANGED <<keys, private, signed, operator>>
        /\ \A o \in Operators : operator[o].does \in {"rotating", "signing"} =>
                                  keyNow < operator[o].at + Slowest
    BY <1>12 DEF KeyTimePasses
  <2>2. ASSUME NEW o \in Operators PROVE OperatorSound(operator[o], keys, keyNow + 1)
    BY <1>1, <2>1 DEF KeysInv, OperatorSound
  <2>3. ASSUME NEW t \in signed PROVE TokenSound(t, keys, keyNow + 1)
    BY <1>1 DEF KeysInv, TokenSound
  <2> QED
    BY <1>1, <2>1, <2>2, <2>3 DEF KeysInv, KeysTyped
<1>13. CASE UNCHANGED keyVars
  BY <1>13 DEF keyVars, KeysInv, KeysTyped
<1> QED
  BY <1>5, <1>6, <1>7, <1>8, <1>9, <1>10, <1>11, <1>12, <1>13 DEF KeysNext

LEMMA KeysStart == KeysInit => KeysInv
BY DEF KeysInit, KeysInv, KeysTyped, KeyRows, NoKey, OperatorSound

\* Whatever rotations, installs and cleanups ran beside its signing, a token that has not
\* expired was signed by a published key: for every number of keys, operators and tokens.
THEOREM TokensCanBeVerified == KeysSpec => []TokensVerify
<1>1. KeysInit => KeysInv
  BY KeysStart
<1>2. KeysInv => TokensVerify
  <2> SUFFICES ASSUME KeysInv, NEW t \in signed, keyNow < t.expires PROVE t.key \in PublicJwks
    BY DEF TokensVerify
  <2>1. /\ t.key \in Keyrings /\ t.expires \in Nat /\ Lasts(keys[t.key], t.expires)
    BY DEF KeysInv, TokenSound
  <2>2. keyNow \in Nat /\ keys[t.key].deleteAt \in Nat
    BY <2>1 DEF KeysInv, KeysTyped, KeyRows
  <2> QED
    BY <2>1, <2>2 DEF PublicJwks, Lasts
<1> QED
  BY <1>1, <1>2, KeysStep, SigningKeysAssumption, PTL DEF KeysSpec

-----------------------------------------------------------------------------
(* Access: an install binds a subject only if nobody is bound.             *)

ByInstall == {g \in grants : g.role = "administrator" /\ g.by = "install"}
OneByInstall == \A g, h \in ByInstall : g = h

LEMMA InstallStep == OneByInstall /\ [AccessNext]_accessVars => OneByInstall'
<1> SUFFICES ASSUME OneByInstall, [AccessNext]_accessVars PROVE OneByInstall'
  OBVIOUS
<1>1. CASE grants' \subseteq grants
  BY <1>1 DEF OneByInstall, ByInstall
<1>2. ASSUME NEW s, NEW r, NEW by, by # "install",
             grants' = grants \union {[subject |-> s, role |-> r, by |-> by]}
      PROVE  OneByInstall'
  <2>1. ByInstall' = ByInstall
    BY <1>2 DEF ByInstall
  <2> QED
    BY <2>1 DEF OneByInstall
<1>3. ASSUME NEW h \in Clerks, BindsAdministrator(h) PROVE OneByInstall'
  <2> DEFINE s == clerk[h][2]
             g == [subject |-> s, role |-> "administrator", by |-> "install"]
  <2>1. CASE ~HasRole(s, "administrator")
    <3>1. ByInstall = {}
      BY <1>3, <2>1 DEF BindsAdministrator, OthersHold, HasRole, ByInstall
    <3>2. grants' = grants \union {g}
      BY <1>3, <2>1 DEF BindsAdministrator
    <3>3. ByInstall' \subseteq {g}
      BY <3>1, <3>2 DEF ByInstall
    <3> QED
      BY <3>3 DEF OneByInstall
  <2> QED
    BY <1>1, <1>3, <2>1 DEF BindsAdministrator
<1>4. ASSUME NEW s \in Subjects, NEW r \in Slugs, AssignRoleToSubject(s, r) PROVE OneByInstall'
  BY <1>2, <1>4 DEF AssignRoleToSubject
<1>5. ASSUME NEW s \in Subjects, AssignDefaultUserRole(s) PROVE OneByInstall'
  BY <1>2, <1>5 DEF AssignDefaultUserRole
<1>6. ASSUME NEW r \in Slugs, CreateRole(r) \/ DeleteRole(r) PROVE OneByInstall'
  BY <1>1, <1>6 DEF CreateRole, DeleteRole
<1>7. ASSUME NEW s \in Subjects, NEW r \in Slugs, RevokeRoleFromSubject(s, r) PROVE OneByInstall'
  BY <1>1, <1>7 DEF RevokeRoleFromSubject
<1>8. ASSUME NEW h \in Clerks, NEW s, NEW r, NEW ks,
             \/ ReplaceKeysRead(h, r, ks) \/ EnsureReads(h, s) \/ ReplaceRoleCapabilities(h)
             \/ GiveUpAccess(h) \/ EnsureBaseRoles(h) \/ BootstrapFindsNone(h)
      PROVE  OneByInstall'
  BY <1>1, <1>8 DEF ReplaceKeysRead, EnsureReads, ReplaceRoleCapabilities, GiveUpAccess,
     EnsureBaseRoles, BootstrapFindsNone
<1>9. ASSUME NEW h \in Clerks, BootstrapLocks(h) \/ BootstrapCreates(h) PROVE OneByInstall'
  BY <1>3, <1>9 DEF BootstrapLocks, BootstrapCreates
<1>10. CASE UNCHANGED accessVars
  BY <1>1, <1>10 DEF accessVars
<1> QED
  BY <1>4, <1>5, <1>6, <1>7, <1>8, <1>9, <1>10 DEF AccessNext

\* However many installs run beside administrators who assign and revoke, they never bind two
\* subjects to the administrator role (BootstrapAdministrator, access/commands.py).
THEOREM OneAdministratorByInstall == AccessSpec => []InstallBindsOne
<1>1. AccessInit => OneByInstall
  BY DEF AccessInit, OneByInstall, ByInstall
<1>2. OneByInstall => InstallBindsOne
  <2> SUFFICES ASSUME OneByInstall PROVE Cardinality(ByInstall) <= 1
    BY DEF InstallBindsOne, ByInstall
  <2>1. CASE ByInstall = {}
    BY <2>1, FS_EmptySet
  <2>2. ASSUME NEW g \in ByInstall PROVE Cardinality(ByInstall) <= 1
    <3>1. ByInstall = {g}
      BY <2>2 DEF OneByInstall
      <3>2. Cardinality({g}) = 1
        BY FS_Singleton, Zenon
      <3> QED
        BY <3>1, <3>2
  <2> QED
    BY <2>1, <2>2
<1> QED
  BY <1>1, <1>2, InstallStep, PTL DEF AccessSpec

-----------------------------------------------------------------------------
(* Assets: a row that was deleted stays so, and an image that was put is   *)
(* out of everybody's reach until the transaction that makes it ready and  *)
(* spends its source.                                                      *)

UploadFlows == {"plain", "image"} \X Intents
RemovalFlows == {"delete"} \X Objects
Stages == {"none", "finalize", "normalize", "delete", "done", "failed"}
AssetRows == [state : {"none", "ready", "deleted"}, confirmed : BOOLEAN, source : Intents \union {"none"}]

AssetsTyped ==
    /\ asset \in [Objects -> AssetRows]
    /\ flow \in [Flows -> [step : Stages, attempts : Nat]]
    /\ hand = [h \in Hands |-> hand[h]]
    /\ images \in Nat /\ images <= MaxImages

Putting(x) == x # <<>> /\ x[1] = "putting"

\* What is known of the rows by what a worker or a request is in the middle of.
HandSound(x, rows, store, drawn) ==
    x # <<>> =>
       \/ x[1] = "deleting" /\ x[2] \in Objects /\ rows[x[2]].state = "deleted"
       \/ /\ x[1] \in {"finalize", "normalize", "reading", "discarding", "clearing"}
          /\ x[2] \in UploadFlows
       \/ /\ x[1] = "putting" /\ x[2] \in UploadFlows
          /\ x[3] \in 1..drawn /\ x[3] \in store /\ rows[x[3]].state = "none"
       \/ /\ x[1] \in {"delete", "confirming"} /\ x[2] \in RemovalFlows
          /\ rows[x[2][2]].state = "deleted"

FlowSound(f, step, rows) ==
    /\ f \in UploadFlows => step # "delete"
    /\ f \in RemovalFlows /\ step # "none" => /\ step \notin {"finalize", "normalize"}
                                              /\ rows[f[2]].state = "deleted"

RowsSound(rows, store, drawn) ==
    /\ \A o \in Objects : rows[o].source # "none" => o \in 1..MaxImages
    /\ \A n \in 1..MaxImages : n > drawn => rows[n].state = "none"
    /\ \A n \in 1..MaxImages :
          rows[n].state = "ready" /\ rows[n].source # "none" =>
             n \in store /\ rows[rows[n].source].state = "deleted"

DistinctDraws(hands) ==
    \A g, h \in Hands : g # h /\ Putting(hands[g]) /\ Putting(hands[h]) =>
       hands[g][3] # hands[h][3]

AssetsInv ==
    /\ AssetsTyped
    /\ RowsSound(asset, inStore, images)
    /\ \A f \in Flows : FlowSound(f, flow[f].step, asset)
    /\ \A h \in Hands : HandSound(hand[h], asset, inStore, images)
    /\ DistinctDraws(hand)

\* Nobody's image is taken away, and no deleted row comes back.
Respects(touched) ==
    /\ \A o \in Objects : asset[o].state = "deleted" => asset'[o].state = "deleted"
    /\ images <= images'
    /\ \A g \in Hands \ touched :
          /\ hand'[g] = hand[g]
          /\ Putting(hand[g]) => hand[g][3] \in inStore' /\ asset'[hand[g][3]].state = "none"

LEMMA ObjectsAre ==
  /\ Intents \subseteq Objects /\ 1..MaxImages \subseteq Objects
  /\ \A i \in Intents : i \notin 1..MaxImages
  /\ MaxImages \in Nat
BY AssetsAssumption DEF Objects

LEMMA FlowsAre ==
  /\ Flows = UploadFlows \union RemovalFlows
  /\ \A f \in UploadFlows : f \notin RemovalFlows /\ f[2] \in Intents /\ f[1] \in {"plain", "image"}
  /\ \A f \in RemovalFlows : f[2] \in Objects /\ f[1] = "delete"
  /\ \A i \in Intents : <<"plain", i>> \in UploadFlows /\ <<"image", i>> \in UploadFlows
  /\ \A o \in Objects : <<"delete", o>> \in RemovalFlows /\ <<"delete", o>>[2] = o
BY DEF Flows, UploadFlows, RemovalFlows

LEMMA HandStaysSound ==
  ASSUME NEW x, NEW rows, NEW store, NEW drawn \in Nat, NEW rows1, NEW store1, NEW drawn1 \in Nat,
         HandSound(x, rows, store, drawn), drawn <= drawn1,
         \A o \in Objects : rows[o].state = "deleted" => rows1[o].state = "deleted",
         Putting(x) => x[3] \in store1 /\ rows1[x[3]].state = "none"
  PROVE  HandSound(x, rows1, store1, drawn1)
BY FlowsAre DEF HandSound, Putting

\* A step is judged by what it makes of the rows, of the flows it moves, and of the hand of
\* its worker.
LEMMA AssetsKept ==
  ASSUME AssetsInv, AssetsTyped', NEW touched \in SUBSET Hands,
         \A g, h \in touched : g = h,
         Respects(touched),
         RowsSound(asset', inStore', images'),
         \A f \in Flows : flow'[f].step = flow[f].step \/ FlowSound(f, flow'[f].step, asset'),
         \A h \in touched : /\ HandSound(hand'[h], asset', inStore', images')
                            /\ Putting(hand'[h]) => hand'[h][3] > images
  PROVE  AssetsInv'
<1>1. images \in Nat /\ images' \in Nat
  BY DEF AssetsInv, AssetsTyped
<1>2. \A h \in Hands : HandSound(hand'[h], asset', inStore', images')
  <2> TAKE h \in Hands
  <2>1. CASE h \in touched
    BY <2>1
  <2>2. CASE h \notin touched
    BY <1>1, <2>2, HandStaysSound DEF Respects, AssetsInv
  <2> QED
    BY <2>1, <2>2
<1>3. DistinctDraws(hand')
  <2> SUFFICES ASSUME NEW g \in Hands, NEW h \in Hands, g # h, Putting(hand'[g]), Putting(hand'[h])
               PROVE  hand'[g][3] # hand'[h][3]
    BY DEF DistinctDraws
  <2>1. \A k \in Hands \ touched : Putting(hand'[k]) => hand'[k][3] \in 1..images
    BY <1>1 DEF Respects, AssetsInv, HandSound, Putting
  <2>2. CASE g \notin touched /\ h \notin touched
    BY <2>2 DEF Respects, AssetsInv, DistinctDraws
  <2>3. CASE g \in touched
    <3>1. h \notin touched
      BY <2>3
    <3>2. hand'[g][3] > images /\ hand'[h][3] \in 1..images
      BY <2>1, <2>3, <3>1
    <3> QED
      BY <1>1, <3>2
  <2>4. CASE h \in touched
    <3>1. g \notin touched
      BY <2>4
    <3>2. hand'[h][3] > images /\ hand'[g][3] \in 1..images
      BY <2>1, <2>4, <3>1
    <3> QED
      BY <1>1, <3>2
  <2> QED
    BY <2>2, <2>3, <2>4
<1>4. \A f \in Flows : FlowSound(f, flow'[f].step, asset')
  <2> TAKE f \in Flows
  <2>1. CASE flow'[f].step = flow[f].step
    BY <2>1, FlowsAre DEF Respects, AssetsInv, FlowSound
  <2> QED
    BY <2>1
<1> QED
  BY <1>2, <1>3, <1>4 DEF AssetsInv

\* Most steps leave the rows and what readers may find in the storage alone.
LEMMA AssetsUntouched ==
  ASSUME AssetsInv, AssetsTyped', NEW touched \in SUBSET Hands,
         \A g, h \in touched : g = h,
         \A g \in Hands \ touched : hand'[g] = hand[g],
         UNCHANGED asset, images <= images',
         \A n \in 1..MaxImages : asset[n].state = "ready" /\ n \in inStore => n \in inStore',
         \A g \in Hands \ touched : Putting(hand[g]) => hand[g][3] \in inStore',
         \A f \in Flows : flow'[f].step = flow[f].step \/ FlowSound(f, flow'[f].step, asset),
         \A h \in touched : /\ HandSound(hand'[h], asset, inStore', images')
                            /\ Putting(hand'[h]) => hand'[h][3] > images
  PROVE  AssetsInv'
<1>1. images \in Nat /\ images' \in Nat /\ MaxImages \in Nat
  BY ObjectsAre DEF AssetsInv, AssetsTyped
<1>2. \A g \in Hands : Putting(hand[g]) => asset[hand[g][3]].state = "none"
  BY DEF AssetsInv, HandSound, Putting
<1>3. Respects(touched)
  BY <1>2 DEF Respects
<1>4. RowsSound(asset', inStore', images')
  BY <1>1 DEF AssetsInv, RowsSound
<1> QED
  BY <1>3, <1>4, AssetsKept

LEMMA HandMoves ==
  ASSUME AssetsTyped, NEW h \in Hands, NEW x, hand' = [hand EXCEPT ![h] = x]
  PROVE  /\ hand' = [g \in Hands |-> hand'[g]]
         /\ hand'[h] = x
         /\ \A g \in Hands \ {h} : hand'[g] = hand[g]
BY DEF AssetsTyped

\* A flow goes on to a step, or stays; or it fails.
LEMMA FlowGoesOn ==
  ASSUME AssetsTyped, NEW f \in Flows, NEW step \in Stages,
         StartsFlow(f, step) \/ \E at : Records(f, at, step)
  PROVE  /\ flow' \in [Flows -> [step : Stages, attempts : Nat]]
         /\ \A g \in Flows : flow'[g].step = flow[g].step \/ (g = f /\ flow'[g].step = step)
<1>1. flow \in [Flows -> [step : Stages, attempts : Nat]]
  BY DEF AssetsTyped
<1>2. CASE StartsFlow(f, step)
  BY <1>1, <1>2 DEF StartsFlow
<1>3. ASSUME NEW at, Records(f, at, step)
      PROVE  \/ flow' = flow
             \/ flow' = [flow EXCEPT ![f] = [step |-> step, attempts |-> 0]]
  BY <1>3 DEF Records
<1> QED
  BY <1>1, <1>2, <1>3

FlowFailed(f, at) ==
    /\ flow' \in [Flows -> [step : Stages, attempts : Nat]]
    /\ \A g \in Flows : \/ flow'[g].step = flow[g].step
                        \/ g = f /\ flow'[g].step = "failed" /\ flow[g].step = at

LEMMA FlowFails ==
  ASSUME AssetsTyped, NEW f \in Flows, NEW at, NEW forGood, FailsStep(f, at, forGood)
  PROVE  FlowFailed(f, at)
<1> USE DEF FlowFailed
<1>1. flow \in [Flows -> [step : Stages, attempts : Nat]] /\ "failed" \in Stages
  BY DEF AssetsTyped, Stages
<1>2. \/ flow' = flow
      \/ flow' = [flow EXCEPT ![f].step = "failed"] /\ flow[f].step = at
      \/ flow' = [flow EXCEPT ![f].attempts = @ + 1]
  BY DEF FailsStep
<1>3. CASE flow' = flow
  BY <1>1, <1>3
<1>4. CASE flow' = [flow EXCEPT ![f].step = "failed"] /\ flow[f].step = at
  BY <1>1, <1>4
<1>5. CASE flow' = [flow EXCEPT ![f].attempts = @ + 1]
  BY <1>1, <1>5
<1> QED
  BY <1>2, <1>3, <1>4, <1>5

LEMMA RequestSteps ==
  ASSUME AssetsInv,
         \/ \E i \in Intents : \/ CreateUploadIntent(i) \/ ClientUploads(i) \/ IntentExpires(i)
                               \/ FinalizeAsset(i) \/ FinalizeContentImage(i)
                               \/ RegisterExternalAsset(i)
         \/ \E o \in Objects : ReconcileDeletion(o)
  PROVE  AssetsInv'
<1> USE ObjectsAre, FlowsAre
<1>1. AssetsTyped /\ images \in Nat
  BY DEF AssetsInv, AssetsTyped
\* Nothing but a flow, or more in the storage.
<1>2. ASSUME UNCHANGED <<asset, hand, images>>, inStore \subseteq inStore',
             flow' \in [Flows -> [step : Stages, attempts : Nat]],
             \A f \in Flows : flow'[f].step = flow[f].step \/ FlowSound(f, flow'[f].step, asset)
      PROVE  AssetsInv'
  <2>1. AssetsTyped'
    BY <1>1, <1>2 DEF AssetsTyped
  <2>2. \A g \in Hands : Putting(hand[g]) => hand[g][3] \in inStore
    BY DEF AssetsInv, HandSound, Putting
  <2> DEFINE touched == {}
  <2>3. /\ touched \in SUBSET Hands /\ \A g, h \in touched : g = h
        /\ \A h \in touched : /\ HandSound(hand'[h], asset, inStore', images')
                              /\ Putting(hand'[h]) => hand'[h][3] > images
        /\ \A g \in Hands \ touched : hand'[g] = hand[g]
        /\ \A g \in Hands \ touched : Putting(hand[g]) => hand[g][3] \in inStore'
        /\ images <= images' /\ UNCHANGED asset
        /\ \A n \in 1..MaxImages : asset[n].state = "ready" /\ n \in inStore => n \in inStore'
    BY <1>1, <1>2, <2>2
  <2>4. \A f \in Flows : flow'[f].step = flow[f].step \/ FlowSound(f, flow'[f].step, asset)
    BY <1>2
  <2> HIDE DEF touched
  <2> QED
    BY <2>1, <2>3, <2>4, AssetsUntouched
<1>3. ASSUME NEW i \in Intents, CreateUploadIntent(i) \/ ClientUploads(i) \/ IntentExpires(i)
      PROVE  AssetsInv'
  <2>1. UNCHANGED <<asset, hand, images, flow>> /\ inStore \subseteq inStore'
    BY <1>3 DEF CreateUploadIntent, ClientUploads, IntentExpires
  <2> QED
    BY <1>1, <1>2, <2>1 DEF AssetsTyped
<1>4. ASSUME NEW i \in Intents, NEW kind \in {"plain", "image"}, StartsFlow(<<kind, i>>, "finalize"),
             UNCHANGED <<asset, inStore, hand, images>>
      PROVE  AssetsInv'
  <2>1. <<kind, i>> \in UploadFlows /\ "finalize" \in Stages
    BY <1>4 DEF Stages
  <2>2. \A f \in Flows : \/ flow'[f].step = flow[f].step
                         \/ f \in UploadFlows /\ flow'[f].step = "finalize"
    BY <1>1, <1>4, <2>1, FlowGoesOn
  <2>3. flow' \in [Flows -> [step : Stages, attempts : Nat]]
    BY <1>1, <1>4, <2>1, FlowGoesOn
  <2> QED
    BY <1>2, <1>4, <2>2, <2>3 DEF FlowSound
<1>5. ASSUME NEW i \in Intents, RegisterExternalAsset(i) PROVE AssetsInv'
  <2>1. /\ asset[i].state = "none" /\ asset' = [asset EXCEPT ![i].state = "ready"]
        /\ UNCHANGED <<inStore, flow, hand, images>>
    BY <1>5 DEF RegisterExternalAsset
  <2>2. /\ asset \in [Objects -> AssetRows] /\ i \in Objects /\ i \notin 1..MaxImages
    BY <1>1 DEF AssetsTyped
  <2>3. [asset[i] EXCEPT !.state = "ready"] \in AssetRows
    BY <2>2 DEF AssetRows
  <2>4. /\ asset' \in [Objects -> AssetRows]
        /\ \A o \in Objects : o # i => asset'[o] = asset[o]
        /\ asset'[i].state = "ready" /\ asset'[i].source = asset[i].source
    BY <2>1, <2>2, <2>3 DEF AssetRows
  <2>5. AssetsTyped'
    BY <1>1, <2>1, <2>4 DEF AssetsTyped
  <2>6. \A g \in Hands : Putting(hand[g]) =>
           hand[g][3] \in inStore /\ hand[g][3] \in 1..MaxImages /\ asset[hand[g][3]].state = "none"
    BY <1>1 DEF AssetsInv, HandSound, Putting, AssetsTyped
  <2>7. Respects({})
    BY <1>1, <2>1, <2>2, <2>4, <2>6 DEF Respects
  <2>8. RowsSound(asset', inStore', images')
    <3>1. \A o \in Objects : asset'[o].source = asset[o].source
      BY <2>4
    <3>2. \A n \in 1..MaxImages : asset'[n] = asset[n]
      BY <2>2, <2>4
    <3>3. RowsSound(asset, inStore, images)
      BY DEF AssetsInv
    <3>4. \A n \in 1..MaxImages : asset[n].state = "ready" /\ asset[n].source # "none" =>
             asset[n].source \in Objects
      BY <2>2 DEF AssetRows
    <3>5. \A n \in 1..MaxImages : asset[n].state = "ready" /\ asset[n].source # "none" =>
             n \in inStore /\ asset'[asset[n].source].state = "deleted"
      BY <2>1, <2>4, <3>3, <3>4 DEF RowsSound
    <3> QED
      BY <2>1, <3>1, <3>2, <3>3, <3>5 DEF RowsSound
  <2> QED
    BY <2>1, <2>5, <2>7, <2>8, AssetsKept
<1>6. ASSUME NEW o \in Objects, ReconcileDeletion(o) PROVE AssetsInv'
  <2>1. /\ asset[o].state = "deleted" /\ StartsFlow(<<"delete", o>>, "delete")
        /\ UNCHANGED <<asset, inStore, hand, images>>
    BY <1>6 DEF ReconcileDeletion
  <2>2. <<"delete", o>> \in RemovalFlows /\ <<"delete", o>>[2] = o /\ "delete" \in Stages
    BY DEF Stages
  <2>3. \A f \in Flows : \/ flow'[f].step = flow[f].step
                         \/ f = <<"delete", o>> /\ flow'[f].step = "delete"
    BY <1>1, <2>1, <2>2, FlowGoesOn
  <2>4. flow' \in [Flows -> [step : Stages, attempts : Nat]]
    BY <1>1, <2>1, <2>2, FlowGoesOn
  <2>5. \A f \in Flows : flow'[f].step = flow[f].step \/ FlowSound(f, flow'[f].step, asset)
    BY <2>1, <2>2, <2>3 DEF FlowSound
  <2> QED
    BY <1>2, <2>1, <2>4, <2>5
<1>7. ASSUME NEW i \in Intents, FinalizeAsset(i) \/ FinalizeContentImage(i) PROVE AssetsInv'
  BY <1>4, <1>7 DEF FinalizeAsset, FinalizeContentImage
<1> QED
  BY <1>3, <1>5, <1>6, <1>7

\* A step of one hand, and one that leaves the rows alone.
LEMMA HandSteps ==
  ASSUME AssetsInv, NEW h \in Hands, NEW x, hand' = [hand EXCEPT ![h] = x],
         asset' \in [Objects -> AssetRows], flow' \in [Flows -> [step : Stages, attempts : Nat]],
         images' \in Nat, images <= images', images' <= MaxImages,
         \A o \in Objects : asset[o].state = "deleted" => asset'[o].state = "deleted",
         \A g \in Hands \ {h} : Putting(hand[g]) =>
            hand[g][3] \in inStore' /\ asset'[hand[g][3]].state = "none",
         RowsSound(asset', inStore', images'),
         \A f \in Flows : flow'[f].step = flow[f].step \/ FlowSound(f, flow'[f].step, asset'),
         HandSound(x, asset', inStore', images'), Putting(x) => x[3] > images
  PROVE  AssetsInv'
<1>1. AssetsTyped
  BY DEF AssetsInv
<1>2. hand' = [g \in Hands |-> hand'[g]] /\ hand'[h] = x /\ \A g \in Hands \ {h} : hand'[g] = hand[g]
  BY <1>1, HandMoves
<1>3. AssetsTyped'
  BY <1>2 DEF AssetsTyped
<1>4. Respects({h})
  BY <1>2 DEF Respects
<1>5. {h} \in SUBSET Hands /\ \A g, k \in {h} : g = k
  OBVIOUS
<1>6. \A k \in {h} : /\ HandSound(hand'[k], asset', inStore', images')
                     /\ Putting(hand'[k]) => hand'[k][3] > images
  BY <1>2
<1> QED
  BY <1>3, <1>4, <1>5, <1>6, AssetsKept

LEMMA HandStepsAside ==
  ASSUME AssetsInv, NEW h \in Hands, NEW x, hand' = [hand EXCEPT ![h] = x], UNCHANGED asset,
         flow' \in [Flows -> [step : Stages, attempts : Nat]],
         images' \in Nat, images <= images', images' <= MaxImages,
         \A n \in 1..MaxImages : asset[n].state # "deleted" /\ n \in inStore => n \in inStore',
         \A f \in Flows : flow'[f].step = flow[f].step \/ FlowSound(f, flow'[f].step, asset),
         HandSound(x, asset, inStore', images'), Putting(x) => x[3] > images
  PROVE  AssetsInv'
<1>1. AssetsTyped /\ images \in Nat /\ MaxImages \in Nat
  BY ObjectsAre DEF AssetsInv, AssetsTyped
<1>2. \A g \in Hands : Putting(hand[g]) =>
         /\ hand[g][3] \in 1..MaxImages /\ hand[g][3] \in inStore
         /\ asset[hand[g][3]].state = "none"
  BY <1>1 DEF AssetsInv, AssetsTyped, HandSound, Putting
<1>3. \A g \in Hands \ {h} : Putting(hand[g]) =>
         hand[g][3] \in inStore' /\ asset'[hand[g][3]].state = "none"
  BY <1>2
<1>4. RowsSound(asset', inStore', images')
  BY <1>1 DEF AssetsInv, RowsSound
<1> QED
  BY <1>1, <1>3, <1>4, HandSteps DEF AssetsTyped

\* A row ends: it was ready, or deleted before.
RowEnded(o) ==
    /\ asset' \in [Objects -> AssetRows] /\ asset'[o].state = "deleted"
    /\ \A p \in Objects : asset[p].state = "deleted" => asset'[p].state = "deleted"
    /\ \A g \in Hands : Putting(hand[g]) => hand[g][3] \in inStore' /\ asset'[hand[g][3]].state = "none"
    /\ RowsSound(asset', inStore', images')

LEMMA RowEnds ==
  ASSUME AssetsInv, NEW o \in Objects, asset[o].state # "none",
         NEW r \in AssetRows, r.state = "deleted", r.source = asset[o].source,
         asset' = [asset EXCEPT ![o] = r], UNCHANGED <<inStore, images>>
  PROVE  RowEnded(o)
<1>1. /\ asset \in [Objects -> AssetRows] /\ images \in Nat /\ images <= MaxImages
      /\ RowsSound(asset, inStore, images)
  BY DEF AssetsInv, AssetsTyped
<1>2. /\ asset' \in [Objects -> AssetRows] /\ asset'[o] = r
      /\ \A p \in Objects : p # o => asset'[p] = asset[p]
  BY <1>1
<1>3. \A p \in Objects : asset[p].state = "deleted" => asset'[p].state = "deleted"
  BY <1>2
<1>4. \A g \in Hands : Putting(hand[g]) =>
         hand[g][3] \in inStore /\ hand[g][3] \in Objects /\ asset[hand[g][3]].state = "none"
  BY <1>1, ObjectsAre DEF AssetsInv, HandSound, Putting
<1>5. \A p \in Objects : asset'[p].source = asset[p].source
  BY <1>2
<1>6. \A n \in 1..MaxImages : n > images => asset'[n].state = "none"
  <2> TAKE n \in 1..MaxImages
  <2>1. n \in Objects /\ (n > images => asset[n].state = "none")
    BY <1>1, ObjectsAre DEF RowsSound
  <2> QED
    BY <1>2, <2>1
<1>7. \A n \in 1..MaxImages :
         asset'[n].state = "ready" /\ asset'[n].source # "none" =>
            n \in inStore /\ asset'[asset'[n].source].state = "deleted"
  <2> SUFFICES ASSUME NEW n \in 1..MaxImages, asset'[n].state = "ready", asset'[n].source # "none"
               PROVE  n \in inStore /\ asset'[asset'[n].source].state = "deleted"
    OBVIOUS
  <2>1. n \in Objects /\ n # o
    BY <1>2, ObjectsAre
  <2>2. asset'[n] = asset[n] /\ asset[n].source \in Objects
    BY <1>1, <1>2, <2>1, ObjectsAre DEF AssetRows
  <2> QED
    BY <1>1, <1>3, <2>2 DEF RowsSound
<1> QED
  BY <1>1, <1>2, <1>3, <1>4, <1>5, <1>6, <1>7 DEF RowsSound, RowEnded

\* Deletion: the row, the workflow, the object, the confirmation (commands.py, activities.py).
LEMMA DeletionSteps ==
  ASSUME AssetsInv, NEW h \in Hands,
         \/ \E o \in Objects : DeleteAsset(h, o)
         \/ StartDeletion(h) \/ DeleteObject(h) \/ ConfirmDeletion(h)
  PROVE  AssetsInv'
<1> USE ObjectsAre, FlowsAre
<1>1. /\ AssetsTyped /\ images \in Nat /\ images <= MaxImages
      /\ asset \in [Objects -> AssetRows] /\ flow \in [Flows -> [step : Stages, attempts : Nat]]
      /\ "delete" \in Stages /\ "done" \in Stages
  BY DEF AssetsInv, AssetsTyped, Stages
<1>2. HandSound(hand[h], asset, inStore, images) /\ \A f \in Flows : FlowSound(f, flow[f].step, asset)
  BY DEF AssetsInv
<1>3. \A store : HandSound(<<>>, asset, store, images) /\ ~Putting(<<>>)
  BY DEF HandSound, Putting
<1>9. ASSUME UNCHANGED images
      PROVE  images' \in Nat /\ images <= images' /\ images' <= MaxImages
  BY <1>1, <1>9
<1>4. ASSUME NEW o \in Objects, DeleteAsset(h, o) PROVE AssetsInv'
  <2> DEFINE r == [asset[o] EXCEPT !.state = "deleted"]
             x == <<"deleting", o>>
  <2>1. /\ asset[o].state # "none" /\ asset' = [asset EXCEPT ![o] = r]
        /\ hand' = [hand EXCEPT ![h] = x] /\ UNCHANGED <<inStore, flow, images>>
    BY <1>4 DEF DeleteAsset, Does
  <2>2. r \in AssetRows /\ r.state = "deleted" /\ r.source = asset[o].source
    BY <1>1 DEF AssetRows
  <2>3. x # <<>> /\ x[1] = "deleting" /\ x[2] = o
    OBVIOUS
  <2> HIDE DEF r, x
  <2>4. /\ asset' \in [Objects -> AssetRows] /\ asset'[o].state = "deleted"
        /\ \A p \in Objects : asset[p].state = "deleted" => asset'[p].state = "deleted"
        /\ \A g \in Hands : Putting(hand[g]) =>
              hand[g][3] \in inStore' /\ asset'[hand[g][3]].state = "none"
        /\ RowsSound(asset', inStore', images')
    <3>1. UNCHANGED <<inStore, images>>
      BY <2>1
    <3>2. RowEnded(o)
      BY <2>1, <2>2, <3>1, RowEnds
    <3> QED
      BY <3>2 DEF RowEnded
  <2>5. HandSound(x, asset', inStore', images') /\ ~Putting(x)
    BY <2>3, <2>4 DEF HandSound, Putting
  <2>6. images' \in Nat /\ images <= images' /\ images' <= MaxImages
    BY <1>9, <2>1
  <2>7. /\ flow' \in [Flows -> [step : Stages, attempts : Nat]]
        /\ \A f \in Flows : flow'[f].step = flow[f].step \/ FlowSound(f, flow'[f].step, asset')
    BY <1>1, <2>1
  <2> QED
    BY <2>1, <2>4, <2>5, <2>6, <2>7, HandSteps
<1>5. CASE StartDeletion(h)
  <2> DEFINE o == hand[h][2]
  <2>1. /\ hand' = [hand EXCEPT ![h] = <<>>] /\ StartsFlow(<<"delete", o>>, "delete")
        /\ hand[h] # <<>> /\ hand[h][1] = "deleting" /\ UNCHANGED <<asset, inStore, images>>
    BY <1>5 DEF StartDeletion, Doing, Stops
  <2>2. o \in Objects /\ asset[o].state = "deleted"
    BY <1>2, <2>1 DEF HandSound
  <2>3. <<"delete", o>> \in RemovalFlows /\ <<"delete", o>>[2] = o
    BY <2>2
  <2> HIDE DEF o
  <2> DEFINE f0 == <<"delete", o>>
  <2>7. f0 \in Flows /\ StartsFlow(f0, "delete")
    BY <2>1, <2>3
  <2> HIDE DEF f0
  <2>4. \A f \in Flows : flow'[f].step = flow[f].step \/ (f = f0 /\ flow'[f].step = "delete")
    BY <1>1, <2>7, FlowGoesOn
  <2>5. flow' \in [Flows -> [step : Stages, attempts : Nat]]
    BY <1>1, <2>7, FlowGoesOn
  <2>6. \A f \in Flows : flow'[f].step = flow[f].step \/ FlowSound(f, flow'[f].step, asset)
    BY <2>2, <2>3, <2>4 DEF FlowSound, f0
  <2> QED
    <3>1. images' \in Nat /\ images <= images' /\ images' <= MaxImages
      BY <1>9, <2>1
    <3>2. /\ HandSound(<<>>, asset, inStore', images') /\ ~Putting(<<>>)
          /\ \A n \in 1..MaxImages : asset[n].state # "deleted" /\ n \in inStore => n \in inStore'
      BY <1>3, <2>1
    <3> QED
      BY <2>1, <2>5, <2>6, <3>1, <3>2, HandStepsAside
\* What the deletion's worker does to its flow.
<1>6. ASSUME NEW f \in RemovalFlows, asset[f[2]].state = "deleted",
             Records(f, "delete", "done") \/ FailsStep(f, "delete", FALSE) \/ UNCHANGED flow
      PROVE  /\ flow' \in [Flows -> [step : Stages, attempts : Nat]]
             /\ \A g \in Flows : flow'[g].step = flow[g].step \/ FlowSound(g, flow'[g].step, asset)
  <2>1. CASE UNCHANGED flow
    BY <1>1, <2>1
  <2>2. CASE Records(f, "delete", "done")
    <3>1. /\ flow' \in [Flows -> [step : Stages, attempts : Nat]]
          /\ \A g \in Flows : flow'[g].step = flow[g].step \/ (g = f /\ flow'[g].step = "done")
      BY <1>1, <1>6, <2>2, FlowGoesOn
    <3> QED
      BY <1>6, <3>1 DEF FlowSound
  <2>3. CASE FailsStep(f, "delete", FALSE)
    <3>1. /\ flow' \in [Flows -> [step : Stages, attempts : Nat]]
          /\ \A g \in Flows : flow'[g].step = flow[g].step \/ (g = f /\ flow'[g].step = "failed")
      <4>1. AssetsTyped /\ f \in Flows
        BY <1>1, <1>6
      <4> QED
        <5>1. FlowFailed(f, "delete")
          BY <4>1, <2>3, FlowFails
        <5> QED
          BY <5>1 DEF FlowFailed
    <3> QED
      BY <1>6, <3>1 DEF FlowSound
  <2> QED
    BY <1>6, <2>1, <2>2, <2>3
<1>7. CASE DeleteObject(h)
  <2> DEFINE f == hand[h][2]
  <2>1. /\ hand[h] # <<>> /\ hand[h][1] = "delete" /\ UNCHANGED <<asset, images>>
        /\ inStore' \in {inStore, inStore \ {f[2]}}
        /\ Records(f, "delete", "done") \/ FailsStep(f, "delete", FALSE) \/ UNCHANGED flow
        /\ hand' = [hand EXCEPT ![h] = <<>>] \/ hand' = [hand EXCEPT ![h] = <<"confirming", f>>]
    BY <1>7 DEF DeleteObject, Doing, Stops, Does
  <2>2. f \in RemovalFlows /\ asset[f[2]].state = "deleted"
    BY <1>2, <2>1 DEF HandSound
  <2> HIDE DEF f
  <2>3. /\ flow' \in [Flows -> [step : Stages, attempts : Nat]]
        /\ \A g \in Flows : flow'[g].step = flow[g].step \/ FlowSound(g, flow'[g].step, asset)
    BY <1>6, <2>1, <2>2
  <2>4. HandSound(<<"confirming", f>>, asset, inStore', images') /\ ~Putting(<<"confirming", f>>)
    BY <2>2 DEF HandSound, Putting
  <2>5. \A n \in 1..MaxImages : asset[n].state # "deleted" /\ n \in inStore => n \in inStore'
    BY <2>1, <2>2
  <2>6. PICK x \in {<<>>, <<"confirming", f>>} : hand' = [hand EXCEPT ![h] = x]
    BY <2>1
  <2>7. HandSound(x, asset, inStore', images') /\ ~Putting(x)
    BY <1>3, <2>1, <2>4
  <2> QED
    <3>1. images' \in Nat /\ images <= images' /\ images' <= MaxImages
      BY <1>9, <2>1
    <3> QED
      BY <2>1, <2>3, <2>5, <2>6, <2>7, <3>1, HandStepsAside
<1>8. CASE ConfirmDeletion(h)
  <2> DEFINE f == hand[h][2]
             r == [asset[f[2]] EXCEPT !.confirmed = TRUE]
  <2>1. /\ hand[h] # <<>> /\ hand[h][1] = "confirming" /\ UNCHANGED <<inStore, images>>
        /\ Records(f, "delete", "done") /\ hand' = [hand EXCEPT ![h] = <<>>]
        /\ asset' = asset \/ asset' = [asset EXCEPT ![f[2]] = r]
    BY <1>8 DEF ConfirmDeletion, Doing, Stops
  <2>2. f \in RemovalFlows /\ asset[f[2]].state = "deleted"
    BY <1>2, <2>1 DEF HandSound
  <2>3. f[2] \in Objects /\ r \in AssetRows /\ r.state = "deleted" /\ r.source = asset[f[2]].source
    <3>1. asset[f[2]] \in AssetRows
      BY <1>1, <2>2
    <3> QED
      BY <2>2, <3>1 DEF AssetRows
  <2> HIDE DEF f, r
  <2>4. /\ flow' \in [Flows -> [step : Stages, attempts : Nat]]
        /\ \A g \in Flows : flow'[g].step = flow[g].step \/ FlowSound(g, flow'[g].step, asset)
    BY <1>6, <2>1, <2>2
  <2>5. CASE asset' = asset
    <3>1. images' \in Nat /\ images <= images' /\ images' <= MaxImages
      BY <1>9, <2>1
    <3>2. /\ HandSound(<<>>, asset, inStore', images') /\ ~Putting(<<>>)
          /\ \A n \in 1..MaxImages : asset[n].state # "deleted" /\ n \in inStore => n \in inStore'
      BY <1>3, <2>1
    <3> DEFINE y == <<>>
    <3>3. hand' = [hand EXCEPT ![h] = y] /\ HandSound(y, asset, inStore', images') /\ ~Putting(y)
      BY <2>1, <3>2
    <3> HIDE DEF y
    <3> QED
      BY <2>4, <2>5, <3>1, <3>2, <3>3, HandStepsAside
  <2>6. CASE asset' = [asset EXCEPT ![f[2]] = r]
    <3>1. /\ asset' \in [Objects -> AssetRows]
          /\ \A p \in Objects : asset[p].state = "deleted" => asset'[p].state = "deleted"
          /\ \A g \in Hands : Putting(hand[g]) =>
                hand[g][3] \in inStore' /\ asset'[hand[g][3]].state = "none"
          /\ RowsSound(asset', inStore', images')
      <4>1. f[2] \in Objects /\ asset[f[2]].state # "none" /\ UNCHANGED <<inStore, images>>
        BY <2>1, <2>2, <2>3
      <4>2. RowEnded(f[2])
        BY <2>3, <2>6, <4>1, RowEnds
      <4> QED
        BY <4>2 DEF RowEnded
    <3>2. \A g \in Flows : flow'[g].step = flow[g].step \/ FlowSound(g, flow'[g].step, asset')
      BY <2>4, <3>1 DEF FlowSound
    <3>3. HandSound(<<>>, asset', inStore', images') /\ ~Putting(<<>>)
      BY DEF HandSound, Putting
    <3>4. images' \in Nat /\ images <= images' /\ images' <= MaxImages
      BY <1>9, <2>1
    <3> QED
      BY <2>1, <2>4, <3>1, <3>2, <3>3, <3>4, HandSteps
  <2> QED
    BY <2>1, <2>5, <2>6
<1> QED
  BY <1>4, <1>5, <1>7, <1>8

\* The upload and its normalization: what a worker does to the flow it took.
LEMMA UploadFlowMoves ==
  ASSUME AssetsInv, NEW f \in UploadFlows,
         \/ UNCHANGED flow
         \/ \E at : \E step \in {"normalize", "done", "failed"} : Records(f, at, step)
         \/ \E at, forGood : FailsStep(f, at, forGood)
  PROVE  /\ flow' \in [Flows -> [step : Stages, attempts : Nat]]
         /\ \A g \in Flows : flow'[g].step = flow[g].step \/ (g = f /\ flow'[g].step # "delete")
<1>1. AssetsTyped /\ f \in Flows /\ flow \in [Flows -> [step : Stages, attempts : Nat]]
  BY FlowsAre DEF AssetsInv, AssetsTyped
<1>2. CASE UNCHANGED flow
  BY <1>1, <1>2
<1>3. ASSUME NEW at, NEW step \in {"normalize", "done", "failed"}, Records(f, at, step)
      PROVE  /\ flow' \in [Flows -> [step : Stages, attempts : Nat]]
             /\ \A g \in Flows : flow'[g].step = flow[g].step \/ (g = f /\ flow'[g].step # "delete")
  <2>1. step \in Stages /\ step # "delete"
    BY DEF Stages
  <2> QED
    BY <1>1, <1>3, <2>1, FlowGoesOn
<1>4. ASSUME NEW at, NEW forGood, FailsStep(f, at, forGood)
      PROVE  /\ flow' \in [Flows -> [step : Stages, attempts : Nat]]
             /\ \A g \in Flows : flow'[g].step = flow[g].step \/ (g = f /\ flow'[g].step # "delete")
  <2>1. FlowFailed(f, at)
    BY <1>1, <1>4, FlowFails
  <2> QED
    BY <2>1 DEF FlowFailed
<1> QED
  BY <1>2, <1>3, <1>4

\* Steps that leave rows, storage and images alone.
LEMMA UploadStepsAside ==
  ASSUME AssetsInv, NEW h \in Hands,
         \/ \E f \in Flows : TakeStep(h, f)
         \/ SkipFinalize(h) \/ NormalizeReads(h) \/ ClearSource(h) \/ CrashHand(h)
  PROVE  AssetsInv'
<1> USE ObjectsAre, FlowsAre
<1>1. /\ AssetsTyped /\ images \in Nat /\ images <= MaxImages
      /\ flow \in [Flows -> [step : Stages, attempts : Nat]]
  BY DEF AssetsInv, AssetsTyped
<1>2. HandSound(hand[h], asset, inStore, images) /\ \A f \in Flows : FlowSound(f, flow[f].step, asset)
  BY DEF AssetsInv
<1>3. ASSUME NEW x, hand' = [hand EXCEPT ![h] = x], UNCHANGED <<asset, images>>,
             flow' \in [Flows -> [step : Stages, attempts : Nat]],
             \A f \in Flows : flow'[f].step = flow[f].step \/ FlowSound(f, flow'[f].step, asset),
             NEW i \in Intents, inStore' \in {inStore, inStore \ {i}},
             HandSound(x, asset, inStore', images), ~Putting(x)
      PROVE  AssetsInv'
  <2>1. \A n \in 1..MaxImages : asset[n].state # "deleted" /\ n \in inStore => n \in inStore'
    BY <1>3
  <2>2. images' \in Nat /\ images <= images' /\ images' <= MaxImages
    BY <1>1, <1>3
  <2>3. HandSound(x, asset, inStore', images')
    BY <1>3
  <2> QED
    BY <1>3, <2>1, <2>2, <2>3, HandStepsAside
\* Without an intent nothing is removed.
<1>4. ASSUME NEW x, hand' = [hand EXCEPT ![h] = x], UNCHANGED <<asset, images, inStore>>,
             flow' \in [Flows -> [step : Stages, attempts : Nat]],
             \A f \in Flows : flow'[f].step = flow[f].step \/ FlowSound(f, flow'[f].step, asset),
             HandSound(x, asset, inStore, images), ~Putting(x)
      PROVE  AssetsInv'
  <2>1. \A n \in 1..MaxImages : asset[n].state # "deleted" /\ n \in inStore => n \in inStore'
    BY <1>4
  <2>2. images' \in Nat /\ images <= images' /\ images' <= MaxImages
    BY <1>1, <1>4
  <2>3. HandSound(x, asset, inStore', images')
    BY <1>4
  <2> QED
    BY <1>4, <2>1, <2>2, <2>3, HandStepsAside
<1>5. \A store : HandSound(<<>>, asset, store, images) /\ ~Putting(<<>>)
  BY DEF HandSound, Putting
<1>6. ASSUME NEW f \in Flows, TakeStep(h, f) PROVE AssetsInv'
  <2> DEFINE x == <<flow[f].step, f>>
  <2>1. /\ flow[f].step \in {"finalize", "normalize", "delete"} /\ hand' = [hand EXCEPT ![h] = x]
        /\ UNCHANGED <<asset, inStore, flow, images>>
    BY <1>6 DEF TakeStep, Does
  <2>2. x[1] = flow[f].step /\ x[2] = f
    OBVIOUS
  <2> HIDE DEF x
  <2>3. CASE f \in UploadFlows
    <3>1. x[1] \in {"finalize", "normalize"}
      BY <1>2, <2>1, <2>2, <2>3 DEF FlowSound
    <3>2. HandSound(x, asset, inStore, images) /\ ~Putting(x)
      BY <2>2, <2>3, <3>1 DEF HandSound, Putting
    <3> QED
      BY <1>1, <1>4, <2>1, <3>2
  <2>4. CASE f \in RemovalFlows
    <3>1. x[1] = "delete" /\ asset[f[2]].state = "deleted"
      BY <1>2, <2>1, <2>2, <2>4 DEF FlowSound
    <3>2. HandSound(x, asset, inStore, images) /\ ~Putting(x)
      BY <2>2, <2>4, <3>1 DEF HandSound, Putting
    <3> QED
      BY <1>1, <1>4, <2>1, <3>2
  <2> QED
    BY <1>6, <2>3, <2>4
\* What the worker of an upload knows, and may do to its flow.
<1>7. ASSUME hand[h] # <<>>, hand[h][1] \in {"finalize", "normalize", "clearing"}
      PROVE  hand[h][2] \in UploadFlows
  BY <1>2, <1>7 DEF HandSound
<1>8. ASSUME NEW f \in UploadFlows,
             \A g \in Flows : flow'[g].step = flow[g].step \/ (g = f /\ flow'[g].step # "delete")
      PROVE  \A g \in Flows : flow'[g].step = flow[g].step \/ FlowSound(g, flow'[g].step, asset)
  BY <1>8 DEF FlowSound
<1>9. CASE SkipFinalize(h)
  <2> DEFINE f == hand[h][2]
  <2>1. /\ hand[h] # <<>> /\ hand[h][1] = "finalize" /\ hand' = [hand EXCEPT ![h] = <<>>]
        /\ Records(f, "finalize", "failed") \/ Records(f, "finalize", "done")
        /\ UNCHANGED <<asset, inStore, images>>
    BY <1>9 DEF SkipFinalize, Doing, Stops
  <2>2. f \in UploadFlows
    BY <1>7, <2>1
  <2> HIDE DEF f
  <2>3. /\ flow' \in [Flows -> [step : Stages, attempts : Nat]]
        /\ \A g \in Flows : flow'[g].step = flow[g].step \/ (g = f /\ flow'[g].step # "delete")
    BY <2>1, <2>2, UploadFlowMoves
  <2> QED
    BY <1>4, <1>5, <1>8, <2>1, <2>2, <2>3
<1>10. CASE NormalizeReads(h)
  <2> DEFINE f == hand[h][2]
  <2>1. /\ hand[h] # <<>> /\ hand[h][1] = "normalize"
        /\ hand' = [hand EXCEPT ![h] = <<>>] \/ hand' = [hand EXCEPT ![h] = <<"reading", f>>]
        /\ FailsStep(f, "normalize", FALSE) \/ UNCHANGED flow
        /\ UNCHANGED <<asset, inStore, images>>
    BY <1>10 DEF NormalizeReads, Doing, Stops, Does
  <2>2. f \in UploadFlows
    BY <1>7, <2>1
  <2> HIDE DEF f
  <2>3. /\ flow' \in [Flows -> [step : Stages, attempts : Nat]]
        /\ \A g \in Flows : flow'[g].step = flow[g].step \/ (g = f /\ flow'[g].step # "delete")
    BY <2>1, <2>2, UploadFlowMoves
  <2>4. HandSound(<<"reading", f>>, asset, inStore, images) /\ ~Putting(<<"reading", f>>)
    BY <2>2 DEF HandSound, Putting
  <2>5. PICK x \in {<<>>, <<"reading", f>>} : hand' = [hand EXCEPT ![h] = x]
    BY <2>1
  <2>6. HandSound(x, asset, inStore, images) /\ ~Putting(x)
    BY <1>5, <2>4
  <2> QED
    BY <1>4, <1>8, <2>1, <2>2, <2>3, <2>5, <2>6
<1>11. CASE ClearSource(h)
  <2> DEFINE f == hand[h][2]
  <2>1. /\ hand[h] # <<>> /\ hand[h][1] = "clearing" /\ hand' = [hand EXCEPT ![h] = <<>>]
        /\ inStore' \in {inStore, inStore \ {f[2]}}
        /\ Records(f, "normalize", "done") /\ UNCHANGED <<asset, images>>
    BY <1>11 DEF ClearSource, Doing, Stops
  <2>2. f \in UploadFlows /\ f[2] \in Intents
    BY <1>7, <2>1
  <2> HIDE DEF f
  <2>3. /\ flow' \in [Flows -> [step : Stages, attempts : Nat]]
        /\ \A g \in Flows : flow'[g].step = flow[g].step \/ (g = f /\ flow'[g].step # "delete")
    BY <2>1, <2>2, UploadFlowMoves
  <2> QED
    BY <1>3, <1>5, <1>8, <2>1, <2>2, <2>3
<1>12. CASE CrashHand(h)
  <2>1. hand' = [hand EXCEPT ![h] = <<>>] /\ UNCHANGED <<asset, inStore, flow, images>>
    BY <1>12 DEF CrashHand, Stops
  <2> QED
    BY <1>1, <1>4, <1>5, <2>1
<1> QED
  BY <1>6, <1>9, <1>10, <1>11, <1>12

\* Steps that write a row or put an image.
LEMMA UploadSteps ==
  ASSUME AssetsInv, NEW h \in Hands,
         FinalizeActivity(h) \/ PutImage(h) \/ DiscardSource(h) \/ CommitImage(h)
  PROVE  AssetsInv'
<1> USE ObjectsAre, FlowsAre
<1>1. /\ AssetsTyped /\ images \in Nat /\ images <= MaxImages
      /\ asset \in [Objects -> AssetRows] /\ flow \in [Flows -> [step : Stages, attempts : Nat]]
  BY DEF AssetsInv, AssetsTyped
<1>2. /\ HandSound(hand[h], asset, inStore, images) /\ RowsSound(asset, inStore, images)
      /\ \A f \in Flows : FlowSound(f, flow[f].step, asset)
  BY DEF AssetsInv
<1>3. \A rows, store, drawn : HandSound(<<>>, rows, store, drawn) /\ ~Putting(<<>>)
  BY DEF HandSound, Putting
<1>4. \A g \in Hands : Putting(hand[g]) =>
         /\ hand[g][3] \in 1..images /\ hand[g][3] \in 1..MaxImages /\ hand[g][3] \in Objects
         /\ hand[g][3] \in inStore /\ asset[hand[g][3]].state = "none"
  BY <1>1 DEF AssetsInv, HandSound, Putting
<1>5. ASSUME UNCHANGED images
      PROVE  images' \in Nat /\ images <= images' /\ images' <= MaxImages
  BY <1>1, <1>5
<1>6. ASSUME hand[h] # <<>>, hand[h][1] \in {"finalize", "reading", "discarding", "putting"}
      PROVE  hand[h][2] \in UploadFlows /\ hand[h][2][2] \in Intents
  BY <1>2, <1>6 DEF HandSound
\* A deleted row keeps the flows of its deletion sound.
<1>7. ASSUME NEW f \in UploadFlows, asset' \in [Objects -> AssetRows],
             \A g \in Flows : flow'[g].step = flow[g].step \/ (g = f /\ flow'[g].step # "delete")
      PROVE  \A g \in Flows : flow'[g].step = flow[g].step \/ FlowSound(g, flow'[g].step, asset')
  BY <1>7 DEF FlowSound
<1>8. CASE FinalizeActivity(h)
  <2> DEFINE f == hand[h][2]
             i == f[2]
             r == [asset[i] EXCEPT !.state = "ready"]
  <2>1. /\ hand[h] # <<>> /\ hand[h][1] = "finalize" /\ hand' = [hand EXCEPT ![h] = <<>>]
        /\ \/ /\ asset[i].state = "none" /\ asset' = [asset EXCEPT ![i] = r]
              /\ Records(f, "finalize", AfterFinalize(f))
           \/ /\ \E forGood \in BOOLEAN : FailsStep(f, "finalize", forGood)
              /\ UNCHANGED asset
        /\ UNCHANGED <<inStore, images>>
    BY <1>8 DEF FinalizeActivity, Doing, Stops
  <2>2. f \in UploadFlows /\ i \in Intents
    BY <1>6, <2>1
  <2>3. AfterFinalize(f) \in {"normalize", "done", "failed"}
    BY DEF AfterFinalize
  <2>4. i \in Objects /\ i \notin 1..MaxImages /\ asset[i] \in AssetRows
    BY <1>1, <2>2
  <2>5. r \in AssetRows /\ r.state = "ready" /\ r.source = asset[i].source
    BY <2>4 DEF AssetRows
  <2> HIDE DEF f, i, r
  <2>6. /\ flow' \in [Flows -> [step : Stages, attempts : Nat]]
        /\ \A g \in Flows : flow'[g].step = flow[g].step \/ (g = f /\ flow'[g].step # "delete")
    <3>1. \/ \E at : \E step \in {"normalize", "done", "failed"} : Records(f, at, step)
          \/ \E at, forGood : FailsStep(f, at, forGood)
      BY <2>1, <2>3
    <3> QED
      BY <2>2, <3>1, UploadFlowMoves
  <2>7. CASE UNCHANGED asset
    <3>1. \A g \in Flows : flow'[g].step = flow[g].step \/ FlowSound(g, flow'[g].step, asset)
      BY <1>1, <1>7, <2>2, <2>6, <2>7
    <3>2. HandSound(<<>>, asset, inStore', images') /\ ~Putting(<<>>)
      BY <1>3
    <3>3. \A n \in 1..MaxImages : asset[n].state # "deleted" /\ n \in inStore => n \in inStore'
      BY <2>1
    <3> QED
      BY <1>5, <2>1, <2>6, <2>7, <3>1, <3>2, <3>3, HandStepsAside
  <2>8. CASE asset[i].state = "none" /\ asset' = [asset EXCEPT ![i] = r]
    <3>1. /\ asset' \in [Objects -> AssetRows] /\ asset'[i] = r
          /\ \A o \in Objects : o # i => asset'[o] = asset[o]
      BY <1>1, <2>4, <2>5, <2>8
    <3>2. \A o \in Objects : asset[o].state = "deleted" => asset'[o].state = "deleted"
      BY <2>8, <3>1
    <3>3. \A g \in Hands \ {h} : Putting(hand[g]) =>
             hand[g][3] \in inStore' /\ asset'[hand[g][3]].state = "none"
      BY <1>4, <2>1, <2>4, <3>1
    <3>4. RowsSound(asset', inStore', images')
      <4>1. \A o \in Objects : asset'[o].source = asset[o].source
        BY <2>5, <3>1
      <4>2. \A n \in 1..MaxImages : asset'[n] = asset[n]
        BY <2>4, <3>1
      <4>3. \A n \in 1..MaxImages : asset[n].state = "ready" /\ asset[n].source # "none" =>
               asset[n].source \in Objects
        BY <1>1 DEF AssetRows
      <4>4. \A n \in 1..MaxImages : asset[n].state = "ready" /\ asset[n].source # "none" =>
               n \in inStore /\ asset'[asset[n].source].state = "deleted"
        BY <1>2, <3>2, <4>3 DEF RowsSound
      <4> QED
        BY <1>2, <2>1, <4>1, <4>2, <4>4 DEF RowsSound
    <3>5. \A g \in Flows : flow'[g].step = flow[g].step \/ FlowSound(g, flow'[g].step, asset')
      BY <1>7, <2>2, <2>6, <3>1
    <3>6. HandSound(<<>>, asset', inStore', images') /\ ~Putting(<<>>)
      BY <1>3
    <3> QED
      BY <1>5, <2>1, <2>6, <3>1, <3>2, <3>3, <3>4, <3>5, <3>6, HandSteps
  <2> QED
    BY <2>1, <2>7, <2>8
<1>9. CASE PutImage(h)
  <2> DEFINE f == hand[h][2]
             x == <<"putting", f, images + 1>>
  <2>1. /\ hand[h] # <<>> /\ hand[h][1] = "reading" /\ UNCHANGED <<asset, flow>>
        /\ \/ /\ images < MaxImages /\ images' = images + 1
              /\ inStore' = inStore \union {images + 1} /\ hand' = [hand EXCEPT ![h] = x]
           \/ /\ inStore' \in {inStore, inStore \ {f[2]}} /\ images' = images
              /\ \E forGood : hand' = [hand EXCEPT ![h] = <<"discarding", f, forGood>>]
    BY <1>9 DEF PutImage, Doing
  <2>2. f \in UploadFlows /\ f[2] \in Intents /\ f[2] \notin 1..MaxImages
    BY <1>6, <2>1
  <2>3. x # <<>> /\ x[1] = "putting" /\ x[2] = f /\ x[3] = images + 1
    OBVIOUS
  <2> HIDE DEF f, x
  <2>4. /\ flow' \in [Flows -> [step : Stages, attempts : Nat]]
        /\ \A g \in Flows : flow'[g].step = flow[g].step \/ FlowSound(g, flow'[g].step, asset)
    BY <1>1, <2>1
  <2>5. CASE /\ images < MaxImages /\ images' = images + 1
             /\ inStore' = inStore \union {images + 1} /\ hand' = [hand EXCEPT ![h] = x]
    <3>1. /\ images' \in Nat /\ images <= images' /\ images' <= MaxImages
          /\ images + 1 \in 1..MaxImages /\ images + 1 > images /\ images + 1 \in 1..images'
      BY <1>1, <2>5
    <3>2. asset[images + 1].state = "none"
      BY <1>2, <3>1 DEF RowsSound
    <3>3. HandSound(x, asset, inStore', images') /\ x[3] > images
      BY <2>2, <2>3, <2>5, <3>1, <3>2 DEF HandSound
    <3>4. \A n \in 1..MaxImages : asset[n].state # "deleted" /\ n \in inStore => n \in inStore'
      BY <2>5
    <3> QED
      BY <2>1, <2>4, <2>5, <3>1, <3>3, <3>4, HandStepsAside
  <2>6. ASSUME NEW forGood, inStore' \in {inStore, inStore \ {f[2]}}, images' = images,
               hand' = [hand EXCEPT ![h] = <<"discarding", f, forGood>>]
        PROVE  AssetsInv'
    <3> DEFINE y == <<"discarding", f, forGood>>
    <3>1. y[1] = "discarding" /\ y[2] = f /\ hand' = [hand EXCEPT ![h] = y]
      BY <2>6
    <3> HIDE DEF y
    <3>2. HandSound(y, asset, inStore', images') /\ ~Putting(y)
      BY <2>2, <3>1 DEF HandSound, Putting
    <3>3. \A n \in 1..MaxImages : asset[n].state # "deleted" /\ n \in inStore => n \in inStore'
      BY <2>2, <2>6
    <3> QED
      BY <1>5, <2>1, <2>4, <2>6, <3>1, <3>2, <3>3, HandStepsAside
  <2> QED
    BY <2>1, <2>5, <2>6
<1>10. CASE DiscardSource(h)
  <2> DEFINE f == hand[h][2]
             r == [asset[f[2]] EXCEPT !.state = "deleted", !.confirmed = TRUE]
  <2>1. /\ hand[h] # <<>> /\ hand[h][1] = "discarding" /\ hand' = [hand EXCEPT ![h] = <<>>]
        /\ FailsStep(f, "normalize", hand[h][3]) /\ UNCHANGED <<inStore, images>>
        /\ \/ asset[f[2]].state = "ready" /\ asset' = [asset EXCEPT ![f[2]] = r]
           \/ UNCHANGED asset
    <3>1. /\ hand[h] # <<>> /\ hand[h][1] = "discarding" /\ hand' = [hand EXCEPT ![h] = <<>>]
          /\ UNCHANGED <<inStore, images>>
      BY <1>10 DEF DiscardSource, Doing, Stops
    <3>2. FailsStep(f, "normalize", hand[h][3])
      BY <1>10 DEF DiscardSource
    <3>3. \/ asset[f[2]].state = "ready" /\ asset' = [asset EXCEPT ![f[2]] = r]
          \/ UNCHANGED asset
      BY <1>10 DEF DiscardSource
    <3> QED
      BY <3>1, <3>2, <3>3
  <2>2. f \in UploadFlows /\ f[2] \in Objects
    BY <1>6, <2>1
  <2>3. r \in AssetRows /\ r.state = "deleted" /\ r.source = asset[f[2]].source
    <3>1. asset[f[2]] \in AssetRows
      BY <1>1, <2>2
    <3>2. [asset[f[2]] EXCEPT !.state = "deleted"] \in AssetRows
      BY <3>1 DEF AssetRows
    <3> QED
      BY <3>1, <3>2 DEF AssetRows
  <2> HIDE DEF r
  <2>4. /\ flow' \in [Flows -> [step : Stages, attempts : Nat]]
        /\ \A g \in Flows : flow'[g].step = flow[g].step \/ (g = f /\ flow'[g].step # "delete")
    <3> HIDE DEF f
    <3> QED
      <4>1. \E at, forGood : FailsStep(f, at, forGood)
        BY <2>1
      <4> QED
        BY <2>2, <4>1, UploadFlowMoves
  <2> HIDE DEF f
  <2>5. CASE UNCHANGED asset
    <3>1. \A g \in Flows : flow'[g].step = flow[g].step \/ FlowSound(g, flow'[g].step, asset)
      BY <1>1, <1>7, <2>2, <2>4, <2>5
    <3>2. HandSound(<<>>, asset, inStore', images') /\ ~Putting(<<>>)
      BY <1>3
    <3>3. \A n \in 1..MaxImages : asset[n].state # "deleted" /\ n \in inStore => n \in inStore'
      BY <2>1
    <3> QED
      BY <1>5, <2>1, <2>4, <2>5, <3>1, <3>2, <3>3, HandStepsAside
  <2>6. CASE asset[f[2]].state = "ready" /\ asset' = [asset EXCEPT ![f[2]] = r]
    <3>1. /\ asset' \in [Objects -> AssetRows]
          /\ \A p \in Objects : asset[p].state = "deleted" => asset'[p].state = "deleted"
          /\ \A g \in Hands : Putting(hand[g]) =>
                hand[g][3] \in inStore' /\ asset'[hand[g][3]].state = "none"
          /\ RowsSound(asset', inStore', images')
      <4>1. f[2] \in Objects /\ asset[f[2]].state # "none" /\ UNCHANGED <<inStore, images>>
        BY <2>1, <2>2, <2>6
      <4>2. RowEnded(f[2])
        BY <2>3, <2>6, <4>1, RowEnds
      <4> QED
        BY <4>2 DEF RowEnded
    <3>2. \A g \in Flows : flow'[g].step = flow[g].step \/ FlowSound(g, flow'[g].step, asset')
      BY <1>7, <2>2, <2>4, <3>1
    <3>3. HandSound(<<>>, asset', inStore', images') /\ ~Putting(<<>>)
      BY <1>3
    <3> QED
      BY <1>5, <2>1, <2>4, <3>1, <3>2, <3>3, HandSteps
  <2> QED
    BY <2>1, <2>5, <2>6
<1>11. CASE CommitImage(h)
  <2> DEFINE f == hand[h][2]
             n == hand[h][3]
             s == f[2]
             new == [state |-> "ready", confirmed |-> FALSE, source |-> s]
             r == [asset[s] EXCEPT !.state = "deleted", !.confirmed = TRUE]
  <2>1. /\ hand[h] # <<>> /\ hand[h][1] = "putting"
        /\ \/ /\ asset[s].state = "ready" /\ asset' = [asset EXCEPT ![n] = new, ![s] = Spent(@)]
              /\ hand' = [hand EXCEPT ![h] = <<"clearing", f>>] /\ UNCHANGED <<inStore, flow>>
           \/ /\ hand' = [hand EXCEPT ![h] = <<>>] /\ inStore' \in {inStore, inStore \ {n}}
              /\ FailsStep(f, "normalize", FALSE) /\ UNCHANGED asset
        /\ UNCHANGED images
    BY <1>11 DEF CommitImage, Doing, Does, Stops, SourceUnchanged
  <2>2. /\ f \in UploadFlows /\ s \in Intents /\ s \in Objects /\ s \notin 1..MaxImages
        /\ n \in 1..MaxImages /\ n \in 1..images /\ n \in Objects /\ n \in inStore
        /\ asset[n].state = "none" /\ s # n
    BY <1>4, <1>6, <2>1 DEF Putting
  <2>3. \A g \in Hands \ {h} : Putting(hand[g]) => hand[g][3] # n
    BY <2>1 DEF AssetsInv, DistinctDraws, Putting
  <2>4. new \in AssetRows
    BY <2>2 DEF AssetRows
  <2>5. r \in AssetRows /\ r.state = "deleted" /\ r.source = asset[s].source /\ Spent(asset[s]) = r
    <3>1. asset[s] \in AssetRows
      BY <1>1, <2>2
    <3>2. [asset[s] EXCEPT !.state = "deleted"] \in AssetRows
      BY <3>1 DEF AssetRows
    <3> QED
      BY <3>1, <3>2 DEF AssetRows, Spent
  <2>6. new.state = "ready" /\ new.source = s
    OBVIOUS
  <2> HIDE DEF new, r
  <2>7. CASE /\ asset[s].state = "ready" /\ asset' = [asset EXCEPT ![n] = new, ![s] = Spent(@)]
             /\ hand' = [hand EXCEPT ![h] = <<"clearing", f>>] /\ UNCHANGED <<inStore, flow>>
    <3>1. asset' = [asset EXCEPT ![n] = new, ![s] = r]
      <4>1. [asset EXCEPT ![n] = new][s] = asset[s]
        BY <1>1, <2>2
      <4> QED
        BY <1>1, <2>2, <2>5, <2>7, <4>1
    <3> HIDE DEF f, n, s
    <3>2. /\ asset' \in [Objects -> AssetRows] /\ asset'[n] = new /\ asset'[s] = r
          /\ \A o \in Objects : o # n /\ o # s => asset'[o] = asset[o]
      BY <1>1, <2>2, <2>4, <2>5, <3>1
    <3>3. \A o \in Objects : asset[o].state = "deleted" => asset'[o].state = "deleted"
      BY <2>2, <2>7, <3>2
    <3>4. \A g \in Hands \ {h} : Putting(hand[g]) =>
             hand[g][3] \in inStore' /\ asset'[hand[g][3]].state = "none"
      BY <1>4, <2>2, <2>3, <2>7, <3>2
    <3>5. RowsSound(asset', inStore', images')
      <4>1. \A o \in Objects : asset'[o].source # "none" => o \in 1..MaxImages
        BY <1>2, <2>2, <2>5, <3>2 DEF RowsSound
      <4>2. \A k \in 1..MaxImages : k > images' => asset'[k].state = "none"
        <5> TAKE k \in 1..MaxImages
        <5>1. CASE k = n
          BY <1>1, <2>1, <2>2, <5>1
        <5>2. CASE k # n
          <6>1. k \in Objects /\ k # s
            BY <2>2
          <6>2. asset'[k] = asset[k]
            BY <3>2, <5>2, <6>1
          <6> QED
            BY <1>2, <2>1, <6>2 DEF RowsSound
        <5> QED
          BY <5>1, <5>2
      <4>3. \A k \in 1..MaxImages : asset'[k].state = "ready" /\ asset'[k].source # "none" =>
               k \in inStore /\ asset'[asset'[k].source].state = "deleted"
        <5> TAKE k \in 1..MaxImages
        <5>1. CASE k = n
          BY <2>2, <2>5, <2>6, <3>2, <5>1
        <5>2. CASE k # n
          <6>1. k \in Objects /\ k # s
            BY <2>2
          <6>2. asset'[k] = asset[k]
            BY <3>2, <5>2, <6>1
          <6>3. asset[k].source # "none" => asset[k].source \in Objects
            BY <1>1, <6>1 DEF AssetRows
          <6> QED
            BY <1>2, <3>3, <6>2, <6>3 DEF RowsSound
        <5> QED
          BY <5>1, <5>2
      <4> QED
        BY <2>7, <4>1, <4>2, <4>3 DEF RowsSound
    <3> DEFINE x == <<"clearing", f>>
    <3>6. x[1] = "clearing" /\ x[2] = f /\ hand' = [hand EXCEPT ![h] = x]
      BY <2>7
    <3> HIDE DEF x
    <3>7. HandSound(x, asset', inStore', images') /\ ~Putting(x)
      BY <2>2, <3>6 DEF HandSound, Putting
    <3>8. /\ flow' \in [Flows -> [step : Stages, attempts : Nat]]
          /\ \A g \in Flows : flow'[g].step = flow[g].step \/ FlowSound(g, flow'[g].step, asset')
      BY <1>1, <2>7
    <3> QED
      BY <1>5, <2>1, <3>2, <3>3, <3>4, <3>5, <3>6, <3>7, <3>8, HandSteps
  <2>8. CASE /\ hand' = [hand EXCEPT ![h] = <<>>] /\ inStore' \in {inStore, inStore \ {n}}
             /\ FailsStep(f, "normalize", FALSE) /\ UNCHANGED asset
    <3> HIDE DEF f, n, s
    <3>1. /\ flow' \in [Flows -> [step : Stages, attempts : Nat]]
          /\ \A g \in Flows : flow'[g].step = flow[g].step \/ (g = f /\ flow'[g].step # "delete")
      BY <2>2, <2>8, UploadFlowMoves
    <3>2. \A g \in Flows : flow'[g].step = flow[g].step \/ FlowSound(g, flow'[g].step, asset')
      BY <1>1, <1>7, <2>2, <2>8, <3>1
    <3>3. \A g \in Hands \ {h} : Putting(hand[g]) =>
             hand[g][3] \in inStore' /\ asset'[hand[g][3]].state = "none"
      BY <1>4, <2>3, <2>8
    <3>4. RowsSound(asset', inStore', images')
      BY <1>2, <2>1, <2>2, <2>8 DEF RowsSound
    <3>5. HandSound(<<>>, asset', inStore', images') /\ ~Putting(<<>>)
      BY <1>3
    <3>6. /\ asset' \in [Objects -> AssetRows]
          /\ \A o \in Objects : asset[o].state = "deleted" => asset'[o].state = "deleted"
      BY <1>1, <2>8
    <3> QED
      BY <1>5, <2>1, <2>8, <3>1, <3>2, <3>3, <3>4, <3>5, <3>6, HandSteps
  <2> QED
    BY <2>1, <2>7, <2>8
<1> QED
  BY <1>8, <1>9, <1>10, <1>11

LEMMA AssetsStart == AssetsInit => AssetsInv
<1> SUFFICES ASSUME AssetsInit PROVE AssetsInv
  OBVIOUS
<1>1. /\ asset = [o \in Objects |-> NoAsset] /\ hand = [h \in Hands |-> <<>>] /\ images = 0
      /\ flow = [f \in Flows |-> [step |-> "none", attempts |-> 0]]
  BY DEF AssetsInit
<1>2. NoAsset \in AssetRows /\ NoAsset.state = "none" /\ NoAsset.source = "none"
  BY DEF NoAsset, AssetRows
<1>3. AssetsTyped
  BY <1>1, <1>2, ObjectsAre DEF AssetsTyped, Stages
<1>4. RowsSound(asset, inStore, images)
  BY <1>1, <1>2, ObjectsAre DEF RowsSound
<1>5. /\ \A f \in Flows : FlowSound(f, flow[f].step, asset)
      /\ \A h \in Hands : HandSound(hand[h], asset, inStore, images)
      /\ DistinctDraws(hand)
  BY <1>1 DEF FlowSound, HandSound, DistinctDraws, Putting
<1> QED
  BY <1>3, <1>4, <1>5 DEF AssetsInv

LEMMA AssetsStep == AssetsInv /\ [AssetsNext]_assetsVars => AssetsInv'
<1> SUFFICES ASSUME AssetsInv, [AssetsNext]_assetsVars PROVE AssetsInv'
  OBVIOUS
<1>1. CASE UNCHANGED assetsVars
  <2>1. UNCHANGED <<asset, inStore, flow, hand, images>>
    BY <1>1 DEF assetsVars
  <2>2. AssetsTyped'
    BY <2>1 DEF AssetsInv, AssetsTyped
  <2>3. /\ RowsSound(asset', inStore', images') /\ DistinctDraws(hand')
        /\ \A f \in Flows : FlowSound(f, flow'[f].step, asset')
        /\ \A h \in Hands : HandSound(hand'[h], asset', inStore', images')
    BY <2>1 DEF AssetsInv
  <2> QED
    BY <2>2, <2>3 DEF AssetsInv
<1>2. CASE AssetsNext
  <2>1. CASE \/ \E i \in Intents : \/ CreateUploadIntent(i) \/ ClientUploads(i) \/ IntentExpires(i)
                                   \/ FinalizeAsset(i) \/ FinalizeContentImage(i)
                                   \/ RegisterExternalAsset(i)
             \/ \E o \in Objects : ReconcileDeletion(o)
    BY <2>1, RequestSteps
  <2>3. ASSUME NEW h \in Hands,
               \/ \E o \in Objects : DeleteAsset(h, o)
               \/ StartDeletion(h) \/ DeleteObject(h) \/ ConfirmDeletion(h)
        PROVE  AssetsInv'
    BY <2>3, DeletionSteps
  <2>4. ASSUME NEW h \in Hands,
               \/ \E f \in Flows : TakeStep(h, f)
               \/ SkipFinalize(h) \/ NormalizeReads(h) \/ ClearSource(h) \/ CrashHand(h)
        PROVE  AssetsInv'
    BY <2>4, UploadStepsAside
  <2>5. ASSUME NEW h \in Hands,
               FinalizeActivity(h) \/ PutImage(h) \/ DiscardSource(h) \/ CommitImage(h)
        PROVE  AssetsInv'
    BY <2>5, UploadSteps
  <2> QED
    BY <1>2, <2>1, <2>3, <2>4, <2>5 DEF AssetsNext
<1> QED
  BY <1>1, <1>2

\* A ready content image is in the storage and its source is not served beside it, for any
\* number of intents, images, workers and overrun leases (normalization.py).
THEOREM ReadyImagesCanBeServed == AssetsSpec => []ReadyImageStored
<1>1. AssetsInit => AssetsInv
  BY AssetsStart
<1>2. AssetsInv /\ [AssetsNext]_assetsVars => AssetsInv'
  BY AssetsStep
<1>3. AssetsInv => ReadyImageStored
  BY DEF AssetsInv, RowsSound, ReadyImageStored
<1> QED
  BY <1>1, <1>2, <1>3, PTL DEF AssetsSpec

-----------------------------------------------------------------------------
(* Tasks and Cron: every task of a key stands for a window before the      *)
(* anchor; and while no lease ended under its holder, a task has one       *)
(* holder, who completes it once.                                          *)

Fired(k, by) == {id \in TaskIds : by[id] = <<k>>}
FiredBefore(k, time) == {f \in FireTimes[k] : f < time}

CronTyped ==
    /\ clock \in 1..MaxTime
    /\ anchor \in [Keys -> Times]
    /\ tickNow \in [Tickers -> 0..MaxTime] /\ \A t \in Tickers : tickNow[t] <= clock
    /\ tickSaw \in [Tickers -> {NoTick} \union (Keys \X Times)]
    /\ visiting \in [Tickers -> SUBSET Keys]
    /\ firedBy \in [TaskIds -> {NoTick} \union {<<k>> : k \in Keys}]

AnchorSound(k, time, now, by) ==
    /\ time # 0 => time \in FireTimes[k]
    /\ \A f \in FireTimes[k] : f < time => f <= now
    /\ Cardinality(Fired(k, by)) <= Cardinality(FiredBefore(k, time))

CronInv ==
    /\ CronTyped
    /\ \A k \in Keys : AnchorSound(k, anchor[k], clock, firedBy)
    /\ \A t \in Tickers : tickSaw[t] # NoTick /\ tickSaw[t][2] # 0 => anchor[tickSaw[t][1]] # 0
    /\ \A id \in TaskIds : task[id].status = "absent" => firedBy[id] = NoTick

LEMMA WindowsAreFinite ==
  ASSUME CronAssumption, NEW k \in Keys
  PROVE  /\ FireTimes[k] \subseteq Nat \ {0} /\ MaxTime + 1 \in FireTimes[k]
         /\ FireTimes[k] \subseteq Times
         /\ \A time : IsFiniteSet(FiredBefore(k, time)) /\ Cardinality(FiredBefore(k, time)) \in Nat
         /\ IsFiniteSet({f \in FireTimes[k] : f <= clock})
<1>1. FireTimes[k] \subseteq 1..(MaxTime + 1) /\ MaxTime \in Nat /\ MaxTime + 1 \in FireTimes[k]
  BY DEF CronAssumption
<1>2. IsFiniteSet(1..(MaxTime + 1))
  BY <1>1, FS_Interval
<1>3. \A S \in SUBSET (1..(MaxTime + 1)) : IsFiniteSet(S) /\ Cardinality(S) \in Nat
  BY <1>2, FS_Subset, FS_CardinalityType
<1>4. /\ \A time : FiredBefore(k, time) \in SUBSET (1..(MaxTime + 1))
      /\ {f \in FireTimes[k] : f <= clock} \in SUBSET (1..(MaxTime + 1))
  BY <1>1 DEF FiredBefore
<1> QED
  BY <1>1, <1>3, <1>4 DEF Times

LEMMA FiredIsFinite ==
  ASSUME TasksAssumption, NEW k, NEW by
  PROVE  IsFiniteSet(Fired(k, by)) /\ Cardinality(Fired(k, by)) \in Nat
<1>1. IsFiniteSet(TaskIds)
  BY FS_Interval DEF TasksAssumption, TaskIds
<1> QED
  BY <1>1, FS_Subset, FS_CardinalityType DEF Fired

\* The schedule has a next time, and none between.
LEMMA NextFireIsNext ==
  ASSUME CronAssumption, NEW k \in Keys, NEW now \in 0..MaxTime
  PROVE  /\ NextFire(k, now) \in FireTimes[k] /\ NextFire(k, now) > now
         /\ \A f \in FireTimes[k] : f < NextFire(k, now) => f <= now
<1> DEFINE S == {f \in FireTimes[k] : f > now}
<1>1. FireTimes[k] \subseteq Nat \ {0} /\ MaxTime + 1 \in FireTimes[k] /\ MaxTime \in Nat
  BY WindowsAreFinite DEF CronAssumption
<1>2. S \subseteq Nat /\ MaxTime + 1 \in S
  BY <1>1
<1>3. \E x \in S : \A y \in S : x <= y
  <2>1. PICK x \in S : \A y \in S : <<y, x>> \notin OpToRel(<, Nat)
    BY <1>2, NatLessThanWellFounded, WFMin
  <2>2. \A y \in S : ~(y < x)
    BY <1>2, <2>1 DEF OpToRel
  <2> QED
    BY <1>2, <2>2
<1>4. NextFire(k, now) = CHOOSE x \in S : \A y \in S : x <= y
  BY DEF NextFire, Min
<1>5. NextFire(k, now) \in S /\ \A y \in S : NextFire(k, now) <= y
  BY <1>3, <1>4
<1> QED
  BY <1>1, <1>2, <1>5

TaskRows == [status : {"absent", "deleted"} \union Live \union FinalStates, attempt : Nat,
             due : BOOLEAN, lease : {"none", "live", "expired"}]

TasksTyped ==
    /\ task \in [TaskIds -> TaskRows] /\ saw \in [Workers -> TaskRows]
    /\ todo \in [Workers -> SUBSET TaskIds] /\ executing \in [Workers -> {0} \union TaskIds]
    /\ overruns \in [TaskIds -> Nat] /\ completions \in [TaskIds -> Nat]

\* Without an overrun: one holder, and the row as that holder claimed and read it.
TaskSound ==
    \A id \in TaskIds : overruns[id] = 0 =>
       /\ completions[id] <= 1
       /\ task[id].status \in {"absent", "pending", "claimed"} => completions[id] = 0
       /\ \A w \in Workers : id \in todo[w] \/ executing[w] = id =>
             /\ task[id].status = "claimed" /\ task[id].lease = "live"
             /\ \A v \in Workers : id \in todo[v] \/ executing[v] = id => v = w
       /\ \A w \in Workers : executing[w] = id =>
             id \notin todo[w] /\ saw[w].status = "claimed" /\ saw[w].lease = "live"

TaskInv == TasksTyped /\ TaskSound

\* The outcome that a worker writes, and what the flush makes of the row.
Outcome(w, outcome) ==
    /\ outcome \in TaskRows /\ outcome.status \in {"completed", "pending", "dead"}
    /\ outcome.lease = "none"

LEMMA WrittenRow ==
  ASSUME NEW read \in TaskRows, NEW new \in TaskRows, NEW row \in TaskRows
  PROVE  /\ WrittenTask(read, new, row) \in TaskRows
         /\ WrittenTask(read, new, row).status \in {new.status, row.status}
         /\ new.status # read.status => WrittenTask(read, new, row).status = new.status
BY DEF WrittenTask, TaskRows

\* One row is written, and at most one worker's hands are emptied.
LEMMA SettlesSound ==
  ASSUME TasksAssumption, TaskInv, NEW w \in Workers, executing[w] # 0, NEW outcome,
         Outcome(w, outcome), Settles(w, outcome)
  PROVE  /\ TaskInv'
         /\ \A id \in TaskIds : task'[id].status = "absent" => task[id].status = "absent"
<1> DEFINE id == executing[w]
           row == WrittenTask(saw[w], outcome, task[id])
<1>1. /\ id \in TaskIds /\ TasksTyped /\ task[id] \in TaskRows /\ saw[w] \in TaskRows
      /\ outcome \in TaskRows
  BY DEF TaskInv, TasksTyped, Outcome
<1>2. /\ row \in TaskRows /\ row.status \in {outcome.status, task[id].status}
      /\ outcome.status # saw[w].status => row.status = outcome.status
  BY <1>1, WrittenRow
<1>3. /\ executing' = [executing EXCEPT ![w] = 0] /\ saw' = [saw EXCEPT ![w] = NoRow]
      /\ UNCHANGED overruns
      /\ \/ task[id].status = "deleted" /\ todo' = [todo EXCEPT ![w] = {}]
            /\ UNCHANGED <<task, completions>>
         \/ /\ task' = [task EXCEPT ![id] = row] /\ UNCHANGED todo
            /\ completions' = IF outcome.status = "completed"
                              THEN [completions EXCEPT ![id] = @ + 1] ELSE completions
  BY DEF Settles, EndsExecution
<1> HIDE DEF row
<1>4. NoRow \in TaskRows
  BY DEF NoRow, TaskRows
<1>5. 0 \notin TaskIds
  BY DEF TaskIds
<1>6. TasksTyped'
  <2>1. executing' \in [Workers -> {0} \union TaskIds] /\ saw' \in [Workers -> TaskRows]
    BY <1>1, <1>3, <1>4 DEF TasksTyped
  <2>2. todo' \in [Workers -> SUBSET TaskIds] /\ overruns' \in [TaskIds -> Nat]
    BY <1>1, <1>3 DEF TasksTyped
  <2>3. task' \in [TaskIds -> TaskRows]
    BY <1>1, <1>2, <1>3 DEF TasksTyped
  <2>4. completions' \in [TaskIds -> Nat]
    BY <1>1, <1>3 DEF TasksTyped
  <2> QED
    BY <2>1, <2>2, <2>3, <2>4 DEF TasksTyped
<1>7. \A i \in TaskIds : i # id => task'[i] = task[i] /\ completions'[i] = completions[i]
  BY <1>1, <1>3 DEF TasksTyped
<1>8. executing'[w] = 0 /\ \A v \in Workers : v # w => executing'[v] = executing[v] /\ saw'[v] = saw[v]
  BY <1>1, <1>3 DEF TasksTyped
<1>9. \A v \in Workers : todo'[v] \subseteq todo[v]
  BY <1>1, <1>3 DEF TasksTyped
<1>10. \A i \in TaskIds : task'[i].status = "absent" => task[i].status = "absent"
  <2> TAKE i \in TaskIds
  <2>1. CASE i # id
    BY <1>7, <2>1
  <2>2. CASE i = id
    <3>1. task'[id] = task[id] \/ task'[id] = row
      BY <1>1, <1>3 DEF TasksTyped
    <3> QED
      BY <1>2, <2>2, <3>1 DEF Outcome
  <2> QED
    BY <2>1, <2>2
\* The row itself: without an overrun its only holder lets it go.
<1>11. ASSUME overruns[id] = 0
       PROVE  /\ completions'[id] <= 1
              /\ task'[id].status \in {"absent", "pending", "claimed"} => completions'[id] = 0
              /\ \A v \in Workers : id \notin todo'[v] /\ executing'[v] # id
  <2>1. /\ task[id].status = "claimed" /\ completions[id] = 0 /\ saw[w].status = "claimed"
        /\ id \notin todo[w] /\ \A v \in Workers : id \in todo[v] \/ executing[v] = id => v = w
    BY <1>1, <1>11 DEF TaskInv, TaskSound
  <2>2. task'[id].status = outcome.status
    BY <1>1, <1>2, <1>3, <2>1 DEF TasksTyped, Outcome
  <2>3. completions'[id] = IF outcome.status = "completed" THEN 1 ELSE 0
    BY <1>1, <1>3, <2>1 DEF TasksTyped
  <2>4. \A v \in Workers : id \notin todo'[v] /\ executing'[v] # id
    BY <1>1, <1>5, <1>8, <1>9, <2>1
  <2> QED
    BY <2>2, <2>3, <2>4 DEF Outcome
<1>12. TaskSound'
  <2> SUFFICES ASSUME NEW i \in TaskIds, overruns[i] = 0
               PROVE  /\ completions'[i] <= 1
                      /\ task'[i].status \in {"absent", "pending", "claimed"} => completions'[i] = 0
                      /\ \A u \in Workers : i \in todo'[u] \/ executing'[u] = i =>
                            /\ task'[i].status = "claimed" /\ task'[i].lease = "live"
                            /\ \A v \in Workers : i \in todo'[v] \/ executing'[v] = i => v = u
                      /\ \A u \in Workers : executing'[u] = i =>
                            i \notin todo'[u] /\ saw'[u].status = "claimed" /\ saw'[u].lease = "live"
    BY <1>3 DEF TaskSound
  <2>1. CASE i = id
    BY <1>11, <2>1
  <2>2. CASE i # id
    <3>1. \A v \in Workers : /\ i \in todo'[v] => i \in todo[v]
                             /\ executing'[v] = i => executing[v] = i /\ saw'[v] = saw[v]
      BY <1>5, <1>8, <1>9
    <3> HIDE DEF id
    <3> QED
      BY <1>7, <2>2, <3>1 DEF TaskInv, TaskSound
  <2> QED
    BY <2>1, <2>2
<1> QED
  BY <1>6, <1>10, <1>12 DEF TaskInv

\* No row is forgotten once it was enqueued.
NoneForgotten == \A id \in TaskIds : task'[id].status = "absent" => task[id].status = "absent"

LEMMA SettlingIsSound ==
  ASSUME TasksAssumption, TaskInv, NEW w \in Workers,
         CompleteTask(w) \/ RetryTask(w) \/ BuryTask(w)
  PROVE  TaskInv' /\ NoneForgotten
<1>1. saw[w] \in TaskRows /\ executing[w] # 0
  BY DEF TaskInv, TasksTyped, CompleteTask, RetryTask, BuryTask
<1>2. saw[w].attempt \in Nat
  BY <1>1 DEF TaskRows
<1>3. CASE CompleteTask(w)
  <2> DEFINE new == [saw[w] EXCEPT !.status = "completed", !.lease = "none"]
  <2>1. Outcome(w, new)
    BY <1>1 DEF Outcome, TaskRows, FinalStates, Live
  <2>2. Settles(w, new)
    BY <1>3 DEF CompleteTask
  <2> HIDE DEF new
  <2> QED
    BY <1>1, <2>1, <2>2, SettlesSound DEF NoneForgotten
<1>4. CASE RetryTask(w)
  <2> DEFINE new == [saw[w] EXCEPT !.status = "pending", !.attempt = @ + 1, !.lease = "none"]
  <2>1. Outcome(w, new)
    <3> DEFINE left == [saw[w] EXCEPT !.status = "pending", !.lease = "none"]
    <3>1. /\ left \in TaskRows /\ left.attempt \in Nat
          /\ left.status = "pending" /\ left.lease = "none"
      BY <1>1, <1>2 DEF TaskRows, FinalStates, Live
    <3>2. new = [left EXCEPT !.attempt = saw[w].attempt + 1]
      BY <1>1 DEF TaskRows
    <3> HIDE DEF new, left
    <3> QED
      BY <1>2, <3>1, <3>2 DEF Outcome, TaskRows
  <2>2. Settles(w, new)
    BY <1>4 DEF RetryTask
  <2> HIDE DEF new
  <2> QED
    BY <1>1, <2>1, <2>2, SettlesSound DEF NoneForgotten
<1>5. CASE BuryTask(w)
  <2> DEFINE new == [saw[w] EXCEPT !.status = "dead", !.attempt = @ + 1, !.lease = "none"]
  <2>1. Outcome(w, new)
    <3> DEFINE left == [saw[w] EXCEPT !.status = "dead", !.lease = "none"]
    <3>1. /\ left \in TaskRows /\ left.attempt \in Nat
          /\ left.status = "dead" /\ left.lease = "none"
      BY <1>1, <1>2 DEF TaskRows, FinalStates, Live
    <3>2. new = [left EXCEPT !.attempt = saw[w].attempt + 1]
      BY <1>1 DEF TaskRows
    <3> HIDE DEF new, left
    <3> QED
      BY <1>2, <3>1, <3>2 DEF Outcome, TaskRows
  <2>2. Settles(w, new)
    BY <1>5 DEF BuryTask
  <2> HIDE DEF new
  <2> QED
    BY <1>1, <2>1, <2>2, SettlesSound DEF NoneForgotten
<1> QED
  BY <1>3, <1>4, <1>5

\* What a worker may claim has, without an overrun, no holder.
LEMMA ClaimingIsSound ==
  ASSUME TasksAssumption, TaskInv, NEW w \in Workers, ClaimTasks(w)
  PROVE  TaskInv' /\ NoneForgotten
<1>1. PICK ids \in SUBSET {id \in TaskIds : ClaimableTask(id)} :
         /\ task' = [id \in TaskIds |->
               IF id \in ids THEN [task[id] EXCEPT !.status = "claimed", !.lease = "live"]
               ELSE task[id]]
         /\ todo' = [todo EXCEPT ![w] = ids]
  BY DEF ClaimTasks
<1>2. UNCHANGED <<executing, saw, overruns, completions>> /\ executing[w] = 0
  BY DEF ClaimTasks
<1>3. /\ \A i \in ids : i \in TaskIds /\ task[i].status \in Live /\ task[i].lease # "live"
      /\ 0 \notin TaskIds
  <2>1. \A i \in ids : i \in TaskIds /\ ClaimableTask(i)
    OBVIOUS
  <2>2. 0 \notin TaskIds
    BY DEF TaskIds
  <2> QED
    BY <2>1, <2>2 DEF ClaimableTask
<1>4. \A i \in TaskIds : task[i] \in TaskRows
  BY DEF TaskInv, TasksTyped
<1>5. /\ \A i \in ids : task'[i] = [task[i] EXCEPT !.status = "claimed", !.lease = "live"]
      /\ \A i \in TaskIds \ ids : task'[i] = task[i]
  BY <1>1, <1>3
<1>6. \A i \in ids : /\ task'[i] \in TaskRows
                     /\ task'[i].status = "claimed" /\ task'[i].lease = "live"
  <2> TAKE i \in ids
  <2>1. task[i] \in TaskRows
    BY <1>3, <1>4
  <2>2. [task[i] EXCEPT !.status = "claimed"] \in TaskRows
    BY <2>1 DEF TaskRows, Live
  <2>3. task'[i] = [[task[i] EXCEPT !.status = "claimed"] EXCEPT !.lease = "live"]
    BY <1>5, <2>1 DEF TaskRows
  <2> QED
    BY <2>1, <2>2, <2>3 DEF TaskRows
<1>7. todo'[w] = ids /\ \A v \in Workers : v # w => todo'[v] = todo[v]
  BY <1>1 DEF TaskInv, TasksTyped
<1>8. TasksTyped'
  <2>1. task' \in [TaskIds -> TaskRows]
    BY <1>1, <1>4, <1>5, <1>6
  <2>2. todo' \in [Workers -> SUBSET TaskIds]
    BY <1>1 DEF TaskInv, TasksTyped
  <2> QED
    <3>1. TasksTyped
      BY DEF TaskInv
    <3>2. /\ saw' \in [Workers -> TaskRows] /\ executing' \in [Workers -> {0} \union TaskIds]
          /\ overruns' \in [TaskIds -> Nat] /\ completions' \in [TaskIds -> Nat]
      BY <1>2, <3>1 DEF TasksTyped
    <3> QED
      BY <2>1, <2>2, <3>2 DEF TasksTyped
<1>9. TaskSound'
  <2> SUFFICES ASSUME NEW i \in TaskIds, overruns[i] = 0
               PROVE  /\ completions[i] <= 1
                      /\ task'[i].status \in {"absent", "pending", "claimed"} => completions[i] = 0
                      /\ \A u \in Workers : i \in todo'[u] \/ executing[u] = i =>
                            /\ task'[i].status = "claimed" /\ task'[i].lease = "live"
                            /\ \A v \in Workers : i \in todo'[v] \/ executing[v] = i => v = u
                      /\ \A u \in Workers : executing[u] = i =>
                            i \notin todo'[u] /\ saw[u].status = "claimed" /\ saw[u].lease = "live"
    BY <1>2 DEF TaskSound
  <2>1. CASE i \in ids
    <3>1. \A v \in Workers : i \notin todo[v] /\ executing[v] # i
      BY <1>3, <2>1 DEF TaskInv, TaskSound
    <3>2. completions[i] = 0
      BY <1>3, <2>1 DEF TaskInv, TaskSound, Live
    <3> QED
      BY <1>6, <1>7, <2>1, <3>1, <3>2
  <2>2. CASE i \notin ids
    <3>1. task'[i] = task[i] /\ \A v \in Workers : i \in todo'[v] => i \in todo[v]
      BY <1>5, <1>7, <2>2
    <3> QED
      BY <3>1 DEF TaskInv, TaskSound
  <2> QED
    BY <2>1, <2>2
<1>10. NoneForgotten
  BY <1>5, <1>6 DEF NoneForgotten
<1> QED
  BY <1>8, <1>9, <1>10 DEF TaskInv

LEMMA ExecutingIsSound ==
  ASSUME TasksAssumption, TaskInv, NEW w \in Workers, ExecuteTask(w)
  PROVE  TaskInv' /\ NoneForgotten
<1>1. PICK id \in todo[w] :
         /\ todo' = [todo EXCEPT ![w] = @ \ {id}]
         /\ \/ UNCHANGED <<executing, saw>>
            \/ /\ executing' = [executing EXCEPT ![w] = id] /\ saw' = [saw EXCEPT ![w] = task[id]]
  BY DEF ExecuteTask
<1>2. UNCHANGED <<task, overruns, completions>> /\ executing[w] = 0
  BY DEF ExecuteTask
<1>3. TasksTyped /\ id \in TaskIds /\ task[id] \in TaskRows
  BY <1>1 DEF TaskInv, TasksTyped
<1>4. todo'[w] = todo[w] \ {id} /\ \A v \in Workers : v # w => todo'[v] = todo[v]
  BY <1>1, <1>3 DEF TasksTyped
<1>5. /\ \A v \in Workers : v # w => executing'[v] = executing[v] /\ saw'[v] = saw[v]
      /\ \/ executing'[w] = executing[w]
         \/ executing'[w] = id /\ saw'[w] = task[id]
  BY <1>1, <1>3 DEF TasksTyped
<1>6. TasksTyped'
  <2>1. todo' \in [Workers -> SUBSET TaskIds]
    BY <1>1, <1>3 DEF TasksTyped
  <2>2. executing' \in [Workers -> {0} \union TaskIds] /\ saw' \in [Workers -> TaskRows]
    BY <1>1, <1>3 DEF TasksTyped
  <2> QED
    BY <1>2, <1>3, <2>1, <2>2 DEF TasksTyped
<1>7. TaskSound'
  <2> SUFFICES ASSUME NEW i \in TaskIds, overruns[i] = 0
               PROVE  /\ completions[i] <= 1
                      /\ task[i].status \in {"absent", "pending", "claimed"} => completions[i] = 0
                      /\ \A u \in Workers : i \in todo'[u] \/ executing'[u] = i =>
                            /\ task[i].status = "claimed" /\ task[i].lease = "live"
                            /\ \A v \in Workers : i \in todo'[v] \/ executing'[v] = i => v = u
                      /\ \A u \in Workers : executing'[u] = i =>
                            i \notin todo'[u] /\ saw'[u].status = "claimed" /\ saw'[u].lease = "live"
    BY <1>2 DEF TaskSound
  <2>1. 0 \notin TaskIds
    BY DEF TaskIds
  <2>2. \A v \in Workers : i \in todo'[v] \/ executing'[v] = i => i \in todo[v] \/ executing[v] = i
    BY <1>1, <1>2, <1>4, <1>5, <2>1
  <2>3. \A u \in Workers : i \in todo[u] \/ executing[u] = i =>
           /\ task[i].status = "claimed" /\ task[i].lease = "live"
           /\ \A v \in Workers : i \in todo[v] \/ executing[v] = i => v = u
    BY DEF TaskInv, TaskSound
  <2>4. ASSUME NEW u \in Workers, executing'[u] = i
        PROVE  i \notin todo'[u] /\ saw'[u].status = "claimed" /\ saw'[u].lease = "live"
    <3>1. CASE u # w
      BY <1>4, <1>5, <2>4, <3>1 DEF TaskInv, TaskSound
    <3>2. CASE u = w
      <4>1. i = id /\ saw'[w] = task[id] /\ i \notin todo'[w]
        BY <1>2, <1>4, <1>5, <2>1, <2>4, <3>2
      <4> QED
        BY <1>1, <2>3, <3>2, <4>1
    <3> QED
      BY <3>1, <3>2
  <2>5. /\ completions[i] <= 1
        /\ task[i].status \in {"absent", "pending", "claimed"} => completions[i] = 0
    BY DEF TaskInv, TaskSound
  <2> QED
    BY <2>2, <2>3, <2>4, <2>5
<1> QED
  BY <1>2, <1>6, <1>7 DEF TaskInv, NoneForgotten

\* A crash only empties hands.
LEMMA CrashesAreSound ==
  ASSUME TasksAssumption, TaskInv, NEW w \in Workers, CrashWorker(w)
  PROVE  TaskInv' /\ NoneForgotten
<1>1. /\ executing' = [executing EXCEPT ![w] = 0] /\ saw' = [saw EXCEPT ![w] = NoRow]
      /\ todo' = [todo EXCEPT ![w] = {}] /\ UNCHANGED <<task, overruns, completions>>
  BY DEF CrashWorker, EndsExecution
<1>2. NoRow \in TaskRows /\ 0 \notin TaskIds /\ TasksTyped
  BY DEF NoRow, TaskRows, TaskIds, TaskInv
<1>3. TasksTyped'
  BY <1>1, <1>2 DEF TasksTyped
<1>4. \A v \in Workers : /\ todo'[v] \subseteq todo[v]
                         /\ \/ executing'[v] = 0
                            \/ executing'[v] = executing[v] /\ saw'[v] = saw[v]
  BY <1>1, <1>2 DEF TasksTyped
<1>5. TaskSound'
  BY <1>1, <1>2, <1>4 DEF TaskInv, TaskSound
<1> QED
  BY <1>1, <1>3, <1>5 DEF TaskInv, NoneForgotten

\* Time: a lease that ends under its holder counts, others end unheld.
LEMMA TimeIsSound ==
  ASSUME TasksAssumption, TaskInv, NEW id \in TaskIds, TaskTime(id)
  PROVE  TaskInv' /\ NoneForgotten
<1>1. TasksTyped /\ task[id] \in TaskRows
  BY DEF TaskInv, TasksTyped
<1>2. /\ [task[id] EXCEPT !.lease = "expired"] \in TaskRows
      /\ [task[id] EXCEPT !.due = TRUE] \in TaskRows
      /\ [task[id] EXCEPT !.lease = "expired"].status = task[id].status
      /\ [task[id] EXCEPT !.due = TRUE].status = task[id].status
      /\ [task[id] EXCEPT !.due = TRUE].lease = task[id].lease
  BY <1>1 DEF TaskRows
<1>3. UNCHANGED <<todo, executing, saw, completions>>
  BY DEF TaskTime, TaskLeaseEnds, TaskBecomesDue
<1>4. CASE TaskLeaseEnds(id)
  <2>1. task' = [task EXCEPT ![id].lease = "expired"]
    BY <1>4 DEF TaskLeaseEnds
  <2>2. /\ task'[id] = [task[id] EXCEPT !.lease = "expired"]
        /\ \A i \in TaskIds : i # id => task'[i] = task[i]
        /\ task' \in [TaskIds -> TaskRows]
    BY <1>1, <1>2, <2>1 DEF TasksTyped
  <2>3. \/ overruns' = [overruns EXCEPT ![id] = @ + 1]
        \/ ~Held(id) /\ UNCHANGED overruns
    BY <1>4 DEF TaskLeaseEnds
  <2>4. overruns' \in [TaskIds -> Nat]
    BY <1>1, <2>3 DEF TasksTyped
  <2>5. /\ \A i \in TaskIds : i # id => overruns'[i] = overruns[i]
        /\ overruns'[id] = 0 => overruns[id] = 0 /\ ~Held(id)
    BY <1>1, <2>3 DEF TasksTyped
  <2>6. TaskSound'
    <3> SUFFICES ASSUME NEW i \in TaskIds, overruns'[i] = 0
                 PROVE  /\ completions[i] <= 1
                        /\ task'[i].status \in {"absent", "pending", "claimed"} => completions[i] = 0
                        /\ \A u \in Workers : i \in todo[u] \/ executing[u] = i =>
                              /\ task'[i].status = "claimed" /\ task'[i].lease = "live"
                              /\ \A v \in Workers : i \in todo[v] \/ executing[v] = i => v = u
                        /\ \A u \in Workers : executing[u] = i =>
                              i \notin todo[u] /\ saw[u].status = "claimed" /\ saw[u].lease = "live"
      BY <1>3 DEF TaskSound
    <3>1. CASE i # id
      BY <2>2, <2>5, <3>1 DEF TaskInv, TaskSound
    <3>2. CASE i = id
      <4>1. \A u \in Workers : i \notin todo[u] /\ executing[u] # i
        BY <2>5, <3>2 DEF Held
      <4>2. task'[i].status = task[i].status /\ overruns[i] = 0
        BY <1>2, <2>2, <2>5, <3>2
      <4> QED
        BY <4>1, <4>2 DEF TaskInv, TaskSound
    <3> QED
      BY <3>1, <3>2
  <2>7. NoneForgotten
    BY <1>2, <2>2 DEF NoneForgotten
  <2>8. TasksTyped'
    BY <1>1, <1>3, <2>2, <2>4 DEF TasksTyped
  <2> QED
    BY <2>6, <2>7, <2>8 DEF TaskInv
<1>5. CASE TaskBecomesDue(id)
  <2>1. task' = [task EXCEPT ![id].due = TRUE] /\ UNCHANGED overruns
    BY <1>5 DEF TaskBecomesDue
  <2>2. /\ task' \in [TaskIds -> TaskRows]
        /\ \A i \in TaskIds : task'[i].status = task[i].status /\ task'[i].lease = task[i].lease
    BY <1>1, <1>2, <2>1 DEF TasksTyped
  <2>3. TasksTyped'
    BY <1>1, <1>3, <2>1, <2>2 DEF TasksTyped
  <2>4. TaskSound'
    BY <1>3, <2>1, <2>2 DEF TaskInv, TaskSound
  <2> QED
    BY <2>2, <2>3, <2>4 DEF TaskInv, NoneForgotten
<1> QED
  BY <1>4, <1>5 DEF TaskTime

LEMMA CleaningIsSound ==
  ASSUME TasksAssumption, TaskInv, CleanTasks
  PROVE  TaskInv' /\ NoneForgotten
<1>1. PICK old \in SUBSET {id \in TaskIds : task[id].status \in FinalStates} :
         task' = [id \in TaskIds |->
            IF id \in old THEN [NoRow EXCEPT !.status = "deleted"] ELSE task[id]]
  BY DEF CleanTasks
<1>2. UNCHANGED <<todo, executing, saw, overruns, completions>> /\ TasksTyped
  BY DEF CleanTasks, TaskInv
<1>3. /\ [NoRow EXCEPT !.status = "deleted"] \in TaskRows
      /\ [NoRow EXCEPT !.status = "deleted"].status = "deleted"
  BY DEF NoRow, TaskRows
<1>4. \A i \in TaskIds : \/ task'[i] = task[i]
                         \/ /\ task'[i].status = "deleted"
                            /\ task[i].status \in FinalStates
  BY <1>1, <1>3
<1>5. task' \in [TaskIds -> TaskRows]
  BY <1>1, <1>2, <1>3 DEF TasksTyped
<1>6. TasksTyped'
  BY <1>2, <1>5 DEF TasksTyped
<1>7. TaskSound'
  BY <1>2, <1>4 DEF TaskInv, TaskSound, FinalStates
<1> QED
  BY <1>4, <1>6, <1>7 DEF TaskInv, NoneForgotten

LEMMA TaskStepsAreSound ==
  ASSUME TasksAssumption, TaskInv, TasksNext
  PROVE  TaskInv' /\ NoneForgotten
BY SettlingIsSound, ClaimingIsSound, ExecutingIsSound, CrashesAreSound, TimeIsSound, CleaningIsSound
   DEF TasksNext, TaskSteps

\* An enqueued row is new: nobody holds it and nothing completed it.
LEMMA EnqueueingIsSound ==
  ASSUME TasksAssumption, TaskInv, NEW id \in TaskIds, task[id].status = "absent",
         task' = [task EXCEPT ![id] = NewRow],
         UNCHANGED <<todo, executing, saw, overruns, completions>>
  PROVE  TaskInv'
<1>1. NewRow \in TaskRows /\ NewRow.status = "pending"
  BY DEF NewRow, NoRow, TaskRows, Live
<1>2. task'[id] = NewRow /\ \A i \in TaskIds : i # id => task'[i] = task[i]
  BY DEF TaskInv, TasksTyped
<1>3. TasksTyped'
  BY <1>1 DEF TaskInv, TasksTyped
<1>4. TaskSound'
  <2> SUFFICES ASSUME NEW i \in TaskIds, overruns[i] = 0
               PROVE  /\ completions[i] <= 1
                      /\ task'[i].status \in {"absent", "pending", "claimed"} => completions[i] = 0
                      /\ \A u \in Workers : i \in todo[u] \/ executing[u] = i =>
                            /\ task'[i].status = "claimed" /\ task'[i].lease = "live"
                            /\ \A v \in Workers : i \in todo[v] \/ executing[v] = i => v = u
                      /\ \A u \in Workers : executing[u] = i =>
                            i \notin todo[u] /\ saw[u].status = "claimed" /\ saw[u].lease = "live"
    BY DEF TaskSound
  <2>1. CASE i # id
    BY <1>2, <2>1 DEF TaskInv, TaskSound
  <2>2. CASE i = id
    <3>1. completions[i] = 0 /\ \A u \in Workers : i \notin todo[u] /\ executing[u] # i
      BY <2>2 DEF TaskInv, TaskSound
    <3> QED
      BY <3>1
  <2> QED
    BY <2>1, <2>2
<1> QED
  BY <1>3, <1>4 DEF TaskInv

\* An anchor that appears or moves on stands before more windows.
LEMMA AnchorsMoveOn ==
  ASSUME CronAssumption, TasksAssumption, NEW k \in Keys, NEW old, NEW by, NEW time,
         NEW new \in Nat, \A f \in FireTimes[k] : f < old => f < new,
         AnchorSound(k, old, time, by)
  PROVE  Cardinality(Fired(k, by)) <= Cardinality(FiredBefore(k, new))
<1>1. FiredBefore(k, old) \subseteq FiredBefore(k, new)
  BY DEF FiredBefore
<1>2. /\ IsFiniteSet(FiredBefore(k, new)) /\ Cardinality(FiredBefore(k, new)) \in Nat
      /\ Cardinality(FiredBefore(k, old)) \in Nat
  BY WindowsAreFinite
<1>3. Cardinality(FiredBefore(k, old)) <= Cardinality(FiredBefore(k, new))
  BY <1>1, <1>2, FS_Subset
<1> QED
  BY <1>2, <1>3, FiredIsFinite DEF AnchorSound

\* A window that is fired is one the anchor passes.
LEMMA FiringPassesAWindow ==
  ASSUME CronAssumption, TasksAssumption, NEW k \in Keys, NEW old \in FireTimes[k], NEW by,
         NEW after, NEW id \in TaskIds, NEW new \in FireTimes[k], old < new, NEW time,
         AnchorSound(k, old, time, by), id \notin Fired(k, by),
         Fired(k, after) = Fired(k, by) \union {id}
  PROVE  Cardinality(Fired(k, after)) <= Cardinality(FiredBefore(k, new))
<1> FireTimes[k] \subseteq Nat
  BY WindowsAreFinite
<1>1. /\ FiredBefore(k, old) \union {old} \subseteq FiredBefore(k, new) /\ old \notin FiredBefore(k, old)
  BY DEF FiredBefore
<1>2. /\ IsFiniteSet(FiredBefore(k, new)) /\ Cardinality(FiredBefore(k, new)) \in Nat
      /\ IsFiniteSet(FiredBefore(k, old)) /\ Cardinality(FiredBefore(k, old)) \in Nat
  BY WindowsAreFinite
<1>3. /\ Cardinality(FiredBefore(k, old) \union {old}) = Cardinality(FiredBefore(k, old)) + 1
      /\ Cardinality(FiredBefore(k, old) \union {old}) <= Cardinality(FiredBefore(k, new))
  <2>1. Cardinality(FiredBefore(k, old) \union {old}) = Cardinality(FiredBefore(k, old)) + 1
    BY <1>1, <1>2, FS_AddElement
  <2>2. Cardinality(FiredBefore(k, old) \union {old}) <= Cardinality(FiredBefore(k, new))
    BY <1>1, <1>2, FS_Subset
  <2> QED
    BY <2>1, <2>2
<1>4. Cardinality(Fired(k, after)) = Cardinality(Fired(k, by)) + 1
  BY FiredIsFinite, FS_AddElement
<1>5. Cardinality(Fired(k, by)) \in Nat /\ Cardinality(Fired(k, by)) <= Cardinality(FiredBefore(k, old))
  BY FiredIsFinite DEF AnchorSound
<1> QED
  BY <1>2, <1>3, <1>4, <1>5

LEMMA FiringIsSound ==
  ASSUME CronAssumption, TasksAssumption, CronInv, TaskInv, NEW t \in Tickers, FireCron(t)
  PROVE  CronInv' /\ TaskInv'
<1> DEFINE k == tickSaw[t][1]
           now == tickNow[t]
           next == NextFire(k, now)
<1>1. /\ k \in Keys /\ now \in 0..MaxTime /\ now <= clock /\ anchor[k] # 0
      /\ MaxTime \in Nat /\ clock \in 1..MaxTime
  <2>1. tickSaw[t] \in Keys \X Times /\ tickSaw[t] # NoTick /\ tickSaw[t][2] # 0
    BY DEF CronInv, CronTyped, FireCron
  <2> QED
    BY <2>1 DEF CronInv, CronTyped, CronAssumption
<1>2. /\ next \in FireTimes[k] /\ next > now /\ next \in Times /\ next # 0
      /\ \A f \in FireTimes[k] : f < next => f <= clock
  <2>1. /\ next \in FireTimes[k] /\ next > now
        /\ \A f \in FireTimes[k] : f < next => f <= now
    BY <1>1, NextFireIsNext
  <2>2. FireTimes[k] \subseteq Times /\ FireTimes[k] \subseteq Nat \ {0}
    BY <1>1, WindowsAreFinite
  <2> HIDE DEF next, k, now
  <2>3. \A f \in FireTimes[k] : f < next => f <= clock
    BY <1>1, <2>1, <2>2
  <2> QED
    BY <2>1, <2>2, <2>3
<1>3. /\ tickSaw' = [tickSaw EXCEPT ![t] = NoTick]
      /\ UNCHANGED <<clock, tickNow, visiting, todo, executing, saw, overruns, completions>>
  BY DEF FireCron, EndsVisit
<1>4. \A u \in Tickers : tickSaw'[u] # NoTick => tickSaw'[u] = tickSaw[u]
  BY <1>3 DEF CronInv, CronTyped
<1>5. tickSaw' \in [Tickers -> {NoTick} \union (Keys \X Times)]
  BY <1>3 DEF CronInv, CronTyped
<1>6. CASE ~ClaimsWindow(k, now)
  <2>1. UNCHANGED <<anchor, task, firedBy>>
    BY <1>6 DEF FireCron
  <2>2. CronInv'
    <3>1. CronTyped'
      BY <1>3, <1>5, <2>1 DEF CronInv, CronTyped
    <3>2. \A j \in Keys : AnchorSound(j, anchor[j], clock, firedBy)
      BY DEF CronInv
    <3>3. \A u \in Tickers : tickSaw'[u] # NoTick /\ tickSaw'[u][2] # 0 => anchor[tickSaw'[u][1]] # 0
      BY <1>4 DEF CronInv
    <3>4. \A i \in TaskIds : task[i].status = "absent" => firedBy[i] = NoTick
      BY DEF CronInv
    <3> QED
      BY <1>3, <2>1, <3>1, <3>2, <3>3, <3>4 DEF CronInv
  <2>3. TaskInv'
    BY <1>3, <2>1 DEF TaskInv, TasksTyped, TaskSound
  <2> QED
    BY <2>2, <2>3
<1>7. CASE ClaimsWindow(k, now)
  <2>1. PICK id \in TaskIds :
           /\ anchor' = [anchor EXCEPT ![k] = next] /\ task[id].status = "absent"
           /\ task' = [task EXCEPT ![id] = NewRow] /\ firedBy' = [firedBy EXCEPT ![id] = <<k>>]
    BY <1>7 DEF FireCron, FreshTask
  <2>2. TaskInv'
    BY <1>3, <2>1, EnqueueingIsSound
  <2>3. /\ firedBy[id] = NoTick
        /\ anchor[k] \in FireTimes[k] /\ anchor[k] \in Nat /\ anchor[k] <= now
    BY <1>1, <1>7, <2>1 DEF CronInv, CronTyped, AnchorSound, Times, ClaimsWindow
  <2> HIDE DEF next, k, now
  <2>4. /\ anchor'[k] = next /\ \A j \in Keys : j # k => anchor'[j] = anchor[j]
        /\ anchor' \in [Keys -> Times]
    BY <1>1, <1>2, <2>1 DEF CronInv, CronTyped
  <2>5. /\ firedBy' \in [TaskIds -> {NoTick} \union {<<j>> : j \in Keys}]
        /\ firedBy'[id] = <<k>> /\ \A i \in TaskIds : i # id => firedBy'[i] = firedBy[i]
    BY <1>1, <2>1 DEF CronInv, CronTyped
  <2>6. \A j : NoTick # <<j>>
    BY DEF NoTick
  <2>7. /\ Fired(k, firedBy') = Fired(k, firedBy) \union {id} /\ id \notin Fired(k, firedBy)
        /\ \A j \in Keys : j # k => Fired(j, firedBy') = Fired(j, firedBy)
    <3>1. \A j : id \notin Fired(j, firedBy)
      BY <2>3, <2>6 DEF Fired
    <3>2. \A i \in TaskIds : i \in Fired(k, firedBy') <=> i \in Fired(k, firedBy) \union {id}
      BY <2>5 DEF Fired
    <3>3. ASSUME NEW j \in Keys, j # k
          PROVE  \A i \in TaskIds : i \in Fired(j, firedBy') <=> i \in Fired(j, firedBy)
      <4>1. <<j>> # <<k>>
        BY <3>3
      <4> QED
        BY <2>5, <3>1, <4>1 DEF Fired
    <3>4. \A j, by : Fired(j, by) \subseteq TaskIds
      BY DEF Fired
    <3> QED
      BY <3>1, <3>2, <3>3, <3>4
  <2>8. \A j \in Keys : AnchorSound(j, anchor[j], clock, firedBy)
    BY DEF CronInv
  <2>9. Cardinality(Fired(k, firedBy')) <= Cardinality(FiredBefore(k, next))
    <3>1. anchor[k] < next
      BY <1>1, <1>2, <2>3 DEF Times, CronAssumption
    <3> QED
      BY <1>1, <1>2, <2>3, <2>7, <2>8, <3>1, FiringPassesAWindow
  <2>10. \A j \in Keys : AnchorSound(j, anchor'[j], clock, firedBy')
    <3> TAKE j \in Keys
    <3>1. CASE j = k
      BY <1>2, <2>4, <2>9, <3>1 DEF AnchorSound
    <3>2. CASE j # k
      BY <2>4, <2>7, <2>8, <3>2 DEF AnchorSound
    <3> QED
      BY <3>1, <3>2
  <2>11. \A u \in Tickers : tickSaw'[u] # NoTick /\ tickSaw'[u][2] # 0 => anchor'[tickSaw'[u][1]] # 0
    <3> TAKE u \in Tickers
    <3> HAVE tickSaw'[u] # NoTick /\ tickSaw'[u][2] # 0
    <3>1. tickSaw[u] \in Keys \X Times /\ anchor[tickSaw[u][1]] # 0 /\ tickSaw'[u] = tickSaw[u]
      BY <1>4 DEF CronInv, CronTyped
    <3>2. tickSaw[u][1] \in Keys
      BY <3>1
    <3> QED
      BY <1>2, <2>4, <3>1, <3>2
  <2>12. \A i \in TaskIds : task'[i].status = "absent" => firedBy'[i] = NoTick
    <3> TAKE i \in TaskIds
    <3>1. CASE i = id
      BY <2>1, <3>1 DEF TaskInv, TasksTyped, NewRow, NoRow
    <3>2. CASE i # id
      BY <2>1, <2>5, <3>2 DEF TaskInv, TasksTyped, CronInv
    <3> QED
      BY <3>1, <3>2
  <2>13. CronTyped'
    BY <1>3, <1>5, <2>4, <2>5 DEF CronInv, CronTyped
  <2>14. CronInv'
    BY <1>3, <2>10, <2>11, <2>12, <2>13 DEF CronInv
  <2> QED
    BY <2>2, <2>14
<1> QED
  BY <1>6, <1>7

\* The other steps of a tick enqueue nothing, and an anchor only appears.
LEMMA TickingIsSound ==
  ASSUME CronAssumption, TasksAssumption, CronInv, NEW t \in Tickers,
         BeginTick(t) \/ ReadAnchor(t) \/ CreateAnchor(t) \/ NotDue(t)
  PROVE  CronInv'
<1>1. /\ \A j \in Keys : AnchorSound(j, anchor[j], clock, firedBy)
      /\ \A u \in Tickers : tickSaw[u] # NoTick /\ tickSaw[u][2] # 0 => anchor[tickSaw[u][1]] # 0
      /\ \A i \in TaskIds : task[i].status = "absent" => firedBy[i] = NoTick
      /\ CronTyped /\ MaxTime \in Nat /\ UNCHANGED <<clock, firedBy, task>>
  BY DEF CronInv, CronAssumption, BeginTick, ReadAnchor, CreateAnchor, NotDue, EndsVisit, tasksVars
<1>2. CASE BeginTick(t)
  <2>1. /\ tickNow' = [tickNow EXCEPT ![t] = clock] /\ visiting' = [visiting EXCEPT ![t] = Keys]
        /\ UNCHANGED <<anchor, tickSaw>>
    BY <1>2 DEF BeginTick
  <2>2. /\ clock \in 0..MaxTime /\ tickNow \in [Tickers -> 0..MaxTime]
        /\ \A u \in Tickers : tickNow[u] <= clock
    BY <1>1 DEF CronTyped
  <2>3. tickNow' \in [Tickers -> 0..MaxTime] /\ \A u \in Tickers : tickNow'[u] <= clock
    BY <1>1, <2>1, <2>2
  <2>4. visiting' \in [Tickers -> SUBSET Keys]
    BY <1>1, <2>1 DEF CronTyped
  <2>5. CronTyped'
    BY <1>1, <2>1, <2>3, <2>4 DEF CronTyped
  <2> QED
    BY <1>1, <2>1, <2>5 DEF CronInv
<1>3. CASE ReadAnchor(t)
  <2>1. PICK k \in visiting[t] : /\ tickSaw' = [tickSaw EXCEPT ![t] = <<k, anchor[k]>>]
                                 /\ visiting' = [visiting EXCEPT ![t] = @ \ {k}]
    BY <1>3 DEF ReadAnchor
  <2>2. UNCHANGED <<anchor, tickNow>>
    BY <1>3 DEF ReadAnchor
  <2>3. k \in Keys /\ anchor[k] \in Times /\ <<k, anchor[k]>> \in Keys \X Times
    BY <1>1 DEF CronTyped
  <2>4. /\ tickSaw' \in [Tickers -> {NoTick} \union (Keys \X Times)]
        /\ visiting' \in [Tickers -> SUBSET Keys]
    BY <1>1, <2>1, <2>3 DEF CronTyped
  <2>5. CronTyped'
    BY <1>1, <2>2, <2>4 DEF CronTyped
  <2>6. /\ tickSaw'[t] = <<k, anchor[k]>>
        /\ \A u \in Tickers : u # t => tickSaw'[u] = tickSaw[u]
    BY <1>1, <2>1 DEF CronTyped
  <2>7. \A u \in Tickers : tickSaw'[u] # NoTick /\ tickSaw'[u][2] # 0 => anchor[tickSaw'[u][1]] # 0
    BY <1>1, <2>6
  <2> QED
    BY <1>1, <2>2, <2>5, <2>7 DEF CronInv
<1>4. CASE CreateAnchor(t) \/ NotDue(t)
  <2>1. tickSaw' = [tickSaw EXCEPT ![t] = NoTick] /\ UNCHANGED <<tickNow, visiting>>
    BY <1>4 DEF CreateAnchor, NotDue, EndsVisit
  <2>2. \A u \in Tickers : tickSaw'[u] # NoTick => tickSaw'[u] = tickSaw[u]
    BY <1>1, <2>1 DEF CronTyped
  <2>3. tickSaw' \in [Tickers -> {NoTick} \union (Keys \X Times)]
    BY <1>1, <2>1 DEF CronTyped
  <2>4. CASE UNCHANGED anchor
    <3>1. \A u \in Tickers : tickSaw'[u] # NoTick /\ tickSaw'[u][2] # 0 => anchor[tickSaw'[u][1]] # 0
      BY <1>1, <2>2
    <3>2. CronTyped'
      BY <1>1, <2>1, <2>3, <2>4 DEF CronTyped
    <3> QED
      BY <1>1, <2>4, <3>1, <3>2 DEF CronInv
  <2>5. CASE ~UNCHANGED anchor
    <3> DEFINE k == tickSaw[t][1]
               next == NextFire(k, tickNow[t])
    <3>1. anchor' = [anchor EXCEPT ![k] = next] /\ anchor[k] = 0 /\ tickSaw[t] # NoTick
      BY <1>4, <2>5 DEF CreateAnchor, NotDue
    <3>2. k \in Keys
      BY <1>1, <3>1 DEF CronTyped
    <3>3. tickNow[t] \in 0..MaxTime /\ tickNow[t] <= clock /\ clock \in 1..MaxTime
      BY <1>1 DEF CronTyped
    <3>4. /\ next \in FireTimes[k] /\ next > tickNow[t]
          /\ \A f \in FireTimes[k] : f < next => f <= tickNow[t]
      BY <3>2, <3>3, NextFireIsNext
    <3>5. FireTimes[k] \subseteq Times /\ FireTimes[k] \subseteq Nat \ {0}
      BY <3>2, WindowsAreFinite
    <3> HIDE DEF k, next
    <3>6. next # 0 /\ next \in Times /\ next \in Nat /\ \A f \in FireTimes[k] : f < next => f <= clock
      BY <1>1, <3>3, <3>4, <3>5
    <3>7. Cardinality(Fired(k, firedBy)) <= Cardinality(FiredBefore(k, next))
      <4>1. \A f \in FireTimes[k] : f < 0 => f < next
        BY <3>5
      <4>2. AnchorSound(k, 0, clock, firedBy)
        BY <1>1, <3>1, <3>2
      <4> QED
        BY <3>2, <3>6, <4>1, <4>2, AnchorsMoveOn
    <3>8. AnchorSound(k, next, clock, firedBy)
      BY <3>4, <3>6, <3>7 DEF AnchorSound
    <3>9. /\ anchor'[k] = next /\ \A j \in Keys : j # k => anchor'[j] = anchor[j]
          /\ anchor' \in [Keys -> Times]
      BY <1>1, <3>1, <3>2, <3>6 DEF CronTyped
    <3>10. \A j \in Keys : AnchorSound(j, anchor'[j], clock, firedBy)
      BY <1>1, <3>8, <3>9
    <3>11. \A u \in Tickers : tickSaw'[u] # NoTick /\ tickSaw'[u][2] # 0 => anchor'[tickSaw'[u][1]] # 0
      <4> TAKE u \in Tickers
      <4> HAVE tickSaw'[u] # NoTick /\ tickSaw'[u][2] # 0
      <4>1. tickSaw[u] \in Keys \X Times /\ anchor[tickSaw[u][1]] # 0 /\ tickSaw'[u] = tickSaw[u]
        BY <1>1, <2>2 DEF CronTyped
      <4>2. tickSaw[u][1] \in Keys
        BY <4>1
      <4> QED
        BY <3>6, <3>9, <4>1, <4>2
    <3>12. CronTyped'
      BY <1>1, <2>1, <2>3, <3>9 DEF CronTyped
    <3> QED
      BY <1>1, <3>10, <3>11, <3>12 DEF CronInv
  <2> QED
    BY <2>4, <2>5
<1> QED
  BY <1>2, <1>3, <1>4

LEMMA CronClockIsSound ==
  ASSUME CronAssumption, CronInv, CronClock
  PROVE  CronInv'
<1>1. /\ clock' = clock + 1 /\ clock' \in 1..MaxTime /\ clock \in Nat
      /\ UNCHANGED <<anchor, tickNow, visiting, tickSaw, firedBy, task>>
  BY DEF CronClock, CronInv, CronTyped, CronAssumption, tasksVars
<1>2. CronTyped'
  BY <1>1 DEF CronInv, CronTyped
<1>3. ASSUME NEW k \in Keys PROVE AnchorSound(k, anchor[k], clock', firedBy)
  <2>1. FireTimes[k] \subseteq Nat /\ AnchorSound(k, anchor[k], clock, firedBy)
    BY WindowsAreFinite DEF CronInv
  <2> QED
    BY <1>1, <2>1 DEF AnchorSound
<1>4. /\ \A u \in Tickers : tickSaw[u] # NoTick /\ tickSaw[u][2] # 0 => anchor[tickSaw[u][1]] # 0
      /\ \A i \in TaskIds : task[i].status = "absent" => firedBy[i] = NoTick
  BY DEF CronInv
<1> QED
  BY <1>1, <1>2, <1>3, <1>4 DEF CronInv

LEMMA CronKeeps ==
  ASSUME CronAssumption, TasksAssumption, CronInv, TaskInv, [CronNext]_<<cronVars, tasksVars>>
  PROVE  CronInv' /\ TaskInv'
<1>1. ASSUME UNCHANGED tasksVars PROVE TaskInv'
  BY <1>1 DEF tasksVars, TaskInv, TasksTyped, TaskSound
<1>2. ASSUME UNCHANGED cronVars, NoneForgotten PROVE CronInv'
  BY <1>2 DEF cronVars, CronInv, CronTyped, AnchorSound, Fired, FiredBefore, NoneForgotten
<1>3. ASSUME NEW t \in Tickers, TickSteps(t) PROVE CronInv' /\ TaskInv'
  <2>1. CASE FireCron(t)
    BY <2>1, FiringIsSound
  <2>2. CASE BeginTick(t) \/ ReadAnchor(t) \/ CreateAnchor(t) \/ NotDue(t)
    <3>1. UNCHANGED tasksVars
      BY <2>2 DEF BeginTick, ReadAnchor, CreateAnchor, NotDue
    <3> QED
      BY <1>1, <2>2, <3>1, TickingIsSound
  <2> QED
    BY <1>3, <2>1, <2>2 DEF TickSteps
<1>4. CASE CronClock
  <2>1. UNCHANGED tasksVars
    BY <1>4 DEF CronClock
  <2> QED
    BY <1>1, <1>4, <2>1, CronClockIsSound
<1>5. CASE TasksNext /\ UNCHANGED cronVars
  BY <1>2, <1>5, TaskStepsAreSound
<1>6. CASE UNCHANGED <<cronVars, tasksVars>>
  <2>1. NoneForgotten /\ UNCHANGED cronVars /\ UNCHANGED tasksVars
    BY <1>6 DEF tasksVars, NoneForgotten
  <2> QED
    BY <1>1, <1>2, <2>1
<1> QED
  BY <1>3, <1>4, <1>5, <1>6 DEF CronNext

LEMMA CronStarts ==
  ASSUME CronAssumption, TasksAssumption, CronInit
  PROVE  CronInv /\ TaskInv
<1>1. /\ clock = 1 /\ anchor = [k \in Keys |-> 0] /\ tickNow = [t \in Tickers |-> 0]
      /\ visiting = [t \in Tickers |-> {}] /\ tickSaw = [t \in Tickers |-> NoTick]
      /\ firedBy = [id \in TaskIds |-> NoTick] /\ MaxTime \in Nat \ {0}
  BY DEF CronInit, CronAssumption
<1>2. CronTyped
  BY <1>1 DEF CronTyped, Times
<1>3. ASSUME NEW k \in Keys PROVE AnchorSound(k, anchor[k], clock, firedBy)
  <2>1. Fired(k, firedBy) = {}
    <3>1. NoTick # <<k>>
      BY DEF NoTick
    <3> QED
      BY <1>1, <3>1 DEF Fired
  <2>2. Cardinality(Fired(k, firedBy)) = 0
    BY <2>1, FS_EmptySet
  <2>3. FireTimes[k] \subseteq Nat /\ Cardinality(FiredBefore(k, anchor[k])) \in Nat
    BY WindowsAreFinite
  <2>4. anchor[k] = 0
    BY <1>1
  <2> QED
    BY <1>1, <2>2, <2>3, <2>4 DEF AnchorSound
<1>4. CronInv
  BY <1>1, <1>2, <1>3 DEF CronInv
<1>5. TaskInv
  <2>1. NoRow \in TaskRows
    BY DEF NoRow, TaskRows
  <2>2. TasksTyped
    BY <2>1 DEF CronInit, TasksInit, TasksTyped
  <2>3. 0 \notin TaskIds
    BY DEF TaskIds
  <2>4. TaskSound
    BY <2>3 DEF CronInit, TasksInit, TaskSound, NoRow
  <2> QED
    BY <2>2, <2>4 DEF TaskInv
<1> QED
  BY <1>4, <1>5

LEMMA SoundWorkIsDoneOnce ==
  ASSUME CronAssumption, TasksAssumption, CronInv, TaskInv
  PROVE  WorkedOnce
<1>1. OneTaskPerWindow
  <2> SUFFICES ASSUME NEW k \in Keys
               PROVE  Cardinality(Fired(k, firedBy)) <= Cardinality({f \in FireTimes[k] : f <= clock})
    BY DEF OneTaskPerWindow, Fired
  <2> DEFINE passed == {f \in FireTimes[k] : f <= clock}
  <2>1. AnchorSound(k, anchor[k], clock, firedBy)
    BY DEF CronInv
  <2>2. FiredBefore(k, anchor[k]) \subseteq passed
    BY <2>1 DEF AnchorSound, FiredBefore
  <2>3. /\ IsFiniteSet(passed) /\ Cardinality(FiredBefore(k, anchor[k])) \in Nat
    BY WindowsAreFinite
  <2> HIDE DEF passed
  <2>4. /\ Cardinality(passed) \in Nat
        /\ Cardinality(FiredBefore(k, anchor[k])) <= Cardinality(passed)
    BY <2>2, <2>3, FS_Subset, FS_CardinalityType
  <2>5. Cardinality(Fired(k, firedBy)) <= Cardinality(passed)
    BY <2>1, <2>3, <2>4, FiredIsFinite DEF AnchorSound
  <2> QED
    BY <2>5 DEF passed
<1>2. RepeatsNeedOverruns
  BY DEF TaskInv, TaskSound, RepeatsNeedOverruns
<1> QED
  BY <1>1, <1>2 DEF WorkedOnce

(* However many processes tick and whatever they sampled, a key never      *)
(* enqueues more tasks than windows of its schedule have passed, and a     *)
(* task whose lease never ended under a holder is completed once at most.  *)
THEOREM WorkIsDoneOnce == CronSpec => []WorkedOnce
<1> USE CronAssumption, TasksAssumption
<1>1. CronInit => CronInv /\ TaskInv
  BY CronStarts
<1>2. (CronInv /\ TaskInv) /\ [CronNext]_<<cronVars, tasksVars>> => (CronInv /\ TaskInv)'
  BY CronKeeps
<1>3. CronInv /\ TaskInv => WorkedOnce
  BY SoundWorkIsDoneOnce
<1> QED
  BY <1>1, <1>2, <1>3, PTL DEF CronSpec

-----------------------------------------------------------------------------
(* SignIn: a family has one token that was not rotated, and whose          *)
(* revocation ends the family; a code that has a family is consumed.       *)

CodeRows == [expires : Nat, consumed : BOOLEAN]
FamilyRows == [code : Nat, revoked : BOOLEAN, reused : BOOLEAN]
TokenRows == [family : Nat, expires : Nat, idle : Nat, rotated : BOOLEAN,
              revoked : BOOLEAN, known : BOOLEAN]

TokensOf(cs, fs, ts) ==
    /\ ts \in Seq(TokenRows) /\ fs \in Seq(FamilyRows) /\ cs \in Seq(CodeRows)
    /\ \A t \in 1..Len(ts) : /\ ts[t].family \in 1..Len(fs)
                             /\ ts[t].revoked => fs[ts[t].family].revoked

NotRotatedTwice(ts) ==
    \A s, t \in 1..Len(ts) :
       ~ts[s].rotated /\ ~ts[t].rotated /\ ts[s].family = ts[t].family => s = t

CodesSpent(cs, fs) ==
    /\ \A f \in 1..Len(fs) : fs[f].code # 0 => fs[f].code \in 1..Len(cs) /\ cs[fs[f].code].consumed
    /\ \A f, g \in 1..Len(fs) : fs[f].code = fs[g].code /\ fs[f].code # 0 => f = g

RequestSound(read, nc, nt) ==
    /\ read # <<>> /\ read[1] = "exchanging" => read[2] \in 1..nc
    /\ read # <<>> /\ read[1] = "refreshing" => read[2] \in 1..nt

SignInInv ==
    /\ signNow \in Nat
    /\ TokensOf(codes, families, tokens) /\ NotRotatedTwice(tokens) /\ CodesSpent(codes, families)
    /\ DOMAIN request = Requests
    /\ \A r \in Requests : RequestSound(request[r], Len(codes), Len(tokens))

\* Family f of fs has, among ts, a token that a refresh would take.
Alive(fs, ts, f) ==
    \E t \in 1..Len(ts) : /\ ts[t].family = f /\ ~ts[t].rotated /\ ~ts[t].revoked
                          /\ ~fs[ts[t].family].revoked

\* No family that ended comes back to life.
StayEnded(fs, ts, gs, us) == \A f \in 1..Len(fs) : Alive(gs, us, f) => Alive(fs, ts, f)

SignInKept == SignInInv' /\ StayEnded(families, tokens, families', tokens')

\* A request opens or ends, and rows are not fewer than before.
RequestsMove ==
    /\ Len(codes) <= Len(codes') /\ Len(tokens) <= Len(tokens')
    /\ \/ UNCHANGED request
       \/ \E r \in Requests : \E read :
             request' = [request EXCEPT ![r] = read] /\ RequestSound(read, Len(codes), Len(tokens))

LEMMA OneRequestMoves ==
  ASSUME SignInInv, UNCHANGED <<codes, tokens>>, NEW r \in Requests, NEW read,
         request' = [request EXCEPT ![r] = read], RequestSound(read, Len(codes), Len(tokens))
  PROVE  RequestsMove
<1>1. Len(codes) \in Nat /\ Len(tokens) \in Nat
  BY DEF SignInInv, TokensOf
<1>2. Len(codes) <= Len(codes') /\ Len(tokens) <= Len(tokens')
  BY <1>1
<1> QED
  BY <1>2 DEF RequestsMove

LEMMA RequestsStaySound ==
  ASSUME SignInInv, TokensOf(codes', families', tokens'), RequestsMove
  PROVE  /\ DOMAIN request' = Requests
         /\ \A r \in Requests : RequestSound(request'[r], Len(codes'), Len(tokens'))
<1>1. /\ Len(codes) \in Nat /\ Len(tokens) \in Nat /\ Len(codes') \in Nat /\ Len(tokens') \in Nat
      /\ Len(codes) <= Len(codes') /\ Len(tokens) <= Len(tokens')
  BY DEF SignInInv, TokensOf, RequestsMove
<1>2. \A read : RequestSound(read, Len(codes), Len(tokens)) => RequestSound(read, Len(codes'), Len(tokens'))
  BY <1>1 DEF RequestSound
<1>3. /\ DOMAIN request' = Requests
      /\ \A r \in Requests : RequestSound(request'[r], Len(codes), Len(tokens))
  BY DEF RequestsMove, SignInInv
<1> QED
  BY <1>2, <1>3

\* Revocations: tokens and families stay, and what was revoked stays revoked.
LEMMA RevocationsKeep ==
  ASSUME SignInInv, signNow' \in Nat, RequestsMove, codes' \in Seq(CodeRows),
         \A c \in 1..Len(codes) : codes[c].consumed => codes'[c].consumed,
         tokens' \in Seq(TokenRows), Len(tokens') = Len(tokens),
         families' \in Seq(FamilyRows), Len(families') = Len(families),
         \A t \in 1..Len(tokens) : /\ tokens'[t].family = tokens[t].family
                                   /\ tokens'[t].rotated = tokens[t].rotated
                                   /\ tokens[t].revoked => tokens'[t].revoked
                                   /\ tokens'[t].revoked => families'[tokens[t].family].revoked,
         \A f \in 1..Len(families) : /\ families'[f].code = families[f].code
                                     /\ families[f].revoked => families'[f].revoked
  PROVE  SignInKept
<1>0. /\ TokensOf(codes, families, tokens) /\ NotRotatedTwice(tokens) /\ CodesSpent(codes, families)
      /\ Len(codes) \in Nat /\ Len(codes') \in Nat /\ Len(codes) <= Len(codes')
  BY DEF SignInInv, TokensOf, RequestsMove
<1>1. TokensOf(codes', families', tokens')
  BY <1>0 DEF TokensOf
<1>2. NotRotatedTwice(tokens')
  BY <1>0 DEF NotRotatedTwice
<1>3. CodesSpent(codes', families')
  <2>1. \A c \in 1..Len(codes) : c \in 1..Len(codes')
    BY <1>0
  <2>2. \A f \in 1..Len(families) :
           families[f].code # 0 => /\ families[f].code \in 1..Len(codes)
                                   /\ codes[families[f].code].consumed
    BY <1>0 DEF CodesSpent
  <2>3. \A f \in 1..Len(families') :
           families'[f].code # 0 => /\ families'[f].code \in 1..Len(codes')
                                    /\ codes'[families'[f].code].consumed
    BY <2>1, <2>2
  <2>4. \A f, g \in 1..Len(families') :
           families'[f].code = families'[g].code /\ families'[f].code # 0 => f = g
    BY <1>0 DEF CodesSpent
  <2> QED
    BY <2>3, <2>4 DEF CodesSpent
<1>4. StayEnded(families, tokens, families', tokens')
  <2>1. \A t \in 1..Len(tokens) : tokens[t].family \in 1..Len(families)
    BY <1>0 DEF TokensOf
  <2> QED
    BY <2>1 DEF StayEnded, Alive
<1>5. SignInInv'
  BY <1>1, <1>2, <1>3, RequestsStaySound DEF SignInInv
<1> QED
  BY <1>4, <1>5 DEF SignInKept

\* What touches no code, token or family.
LEMMA SignInAsides ==
  ASSUME SignInInv, signNow' \in Nat, UNCHANGED <<codes, families, tokens>>,
         \/ UNCHANGED request
         \/ \E r \in Requests : \E read :
               request' = [request EXCEPT ![r] = read] /\ RequestSound(read, Len(codes), Len(tokens))
  PROVE  SignInKept
<1>1. RequestsMove
  BY DEF RequestsMove, SignInInv, TokensOf
<1> QED
  BY <1>1, RevocationsKeep DEF SignInInv, TokensOf

LEMMA NoRequestIsSound == \A nc, nt : RequestSound(<<>>, nc, nt)
BY DEF RequestSound

LEMMA AppendedRow ==
  ASSUME NEW S, NEW v \in Seq(S), NEW e \in S
  PROVE  /\ Append(v, e) \in Seq(S) /\ Len(Append(v, e)) = Len(v) + 1
         /\ Append(v, e)[Len(v) + 1] = e /\ \A i \in 1..Len(v) : Append(v, e)[i] = v[i]
OBVIOUS

LEMMA RowsOfSequence ==
  ASSUME NEW S, NEW v \in Seq(S)
  PROVE  Len(v) \in Nat /\ DOMAIN v = 1..Len(v) /\ \A i \in 1..Len(v) : v[i] \in S
OBVIOUS

LEMMA MappedSequence ==
  ASSUME NEW S, NEW k \in Nat, NEW v \in [1..k -> S]
  PROVE  v \in Seq(S) /\ Len(v) = k
OBVIOUS

LEMMA BulkRevocationsKeep ==
  ASSUME SignInInv, RevokeConsent \/ RevokeSubjectSessions
  PROVE  SignInKept
<1>1. /\ families' = FamiliesRevoked /\ tokens' = TokensRevoked
      /\ UNCHANGED <<codes, request, signNow>>
  BY DEF RevokeConsent, RevokeSubjectSessions, OneStep
<1>2. /\ tokens \in Seq(TokenRows) /\ families \in Seq(FamilyRows)
      /\ Len(tokens) \in Nat /\ Len(families) \in Nat
      /\ \A t \in 1..Len(tokens) : tokens[t].family \in 1..Len(families)
  BY DEF SignInInv, TokensOf
<1>3. \A t \in 1..Len(tokens) : [tokens[t] EXCEPT !.revoked = TRUE] \in TokenRows
  <2>1. \A t \in 1..Len(tokens) : tokens[t] \in TokenRows
    BY <1>2
  <2> QED
    BY <2>1 DEF TokenRows
<1>4. \A f \in 1..Len(families) : [families[f] EXCEPT !.revoked = TRUE] \in FamilyRows
  <2>1. \A f \in 1..Len(families) : families[f] \in FamilyRows
    BY <1>2
  <2> QED
    BY <2>1 DEF FamilyRows
<1>5. tokens' \in [1..Len(tokens) -> TokenRows] /\ families' \in [1..Len(families) -> FamilyRows]
  BY <1>1, <1>3, <1>4 DEF TokensRevoked, FamiliesRevoked, TokenIds, FamilyIds
<1>6. /\ tokens' \in Seq(TokenRows) /\ Len(tokens') = Len(tokens)
      /\ families' \in Seq(FamilyRows) /\ Len(families') = Len(families)
  BY <1>2, <1>5, MappedSequence
<1>7. \A t \in 1..Len(tokens) : /\ tokens'[t].family = tokens[t].family
                                /\ tokens'[t].rotated = tokens[t].rotated
                                /\ tokens'[t].revoked
  <2>1. \A t \in 1..Len(tokens) : tokens[t] \in TokenRows
    BY <1>2
  <2> QED
    BY <1>1, <2>1 DEF TokensRevoked, TokenIds, TokenRows
<1>8. \A f \in 1..Len(families) : families'[f].code = families[f].code /\ families'[f].revoked
  <2>1. \A f \in 1..Len(families) : families[f] \in FamilyRows
    BY <1>2
  <2> QED
    BY <1>1, <2>1 DEF FamiliesRevoked, FamilyIds, FamilyRows
<1>9. RequestsMove
  BY <1>1, <1>6, <1>2 DEF RequestsMove, SignInInv, TokensOf
<1> QED
  BY <1>1, <1>2, <1>6, <1>7, <1>8, <1>9, RevocationsKeep DEF SignInInv, TokensOf

\* A family is ended, with or without one of its tokens.
LEMMA FamilyEndKeeps ==
  ASSUME SignInInv, NEW f \in 1..Len(families), NEW gone \in FamilyRows,
         gone.code = families[f].code, gone.revoked,
         families' = [families EXCEPT ![f] = gone],
         \/ UNCHANGED tokens
         \/ \E t \in 1..Len(tokens) :
               tokens[t].family = f /\ tokens' = [tokens EXCEPT ![t].revoked = TRUE],
         UNCHANGED <<codes, signNow>>, RequestsMove
  PROVE  SignInKept
<1>1. /\ tokens \in Seq(TokenRows) /\ families \in Seq(FamilyRows)
      /\ \A t \in 1..Len(tokens) : tokens[t].revoked => families[tokens[t].family].revoked
      /\ \A t \in 1..Len(tokens) : tokens[t].family \in 1..Len(families)
  BY DEF SignInInv, TokensOf
<1>2. /\ families' \in Seq(FamilyRows) /\ Len(families') = Len(families) /\ families'[f] = gone
      /\ \A g \in 1..Len(families) : g # f => families'[g] = families[g]
  BY <1>1
<1>3. /\ tokens' \in Seq(TokenRows) /\ Len(tokens') = Len(tokens)
      /\ \A t \in 1..Len(tokens) : /\ tokens'[t].family = tokens[t].family
                                   /\ tokens'[t].rotated = tokens[t].rotated
                                   /\ tokens[t].revoked => tokens'[t].revoked
                                   /\ tokens'[t].revoked => tokens[t].revoked \/ tokens[t].family = f
  <2>1. CASE UNCHANGED tokens
    BY <1>1, <2>1
  <2>2. ASSUME NEW t \in 1..Len(tokens), tokens[t].family = f,
               tokens' = [tokens EXCEPT ![t].revoked = TRUE]
        PROVE  <1>3
    <3> DEFINE kept == [tokens[t] EXCEPT !.revoked = TRUE]
    <3>1. tokens[t] \in TokenRows
      BY <1>1
    <3>2. /\ kept \in TokenRows /\ kept.family = tokens[t].family /\ kept.revoked
          /\ kept.rotated = tokens[t].rotated
      BY <3>1 DEF TokenRows
    <3>3. tokens' = [tokens EXCEPT ![t] = kept]
      BY <2>2
    <3> HIDE DEF kept
    <3>4. /\ tokens' \in Seq(TokenRows) /\ Len(tokens') = Len(tokens) /\ tokens'[t] = kept
          /\ \A s \in 1..Len(tokens) : s # t => tokens'[s] = tokens[s]
      BY <1>1, <3>2, <3>3
    <3> QED
      BY <2>2, <3>2, <3>4
  <2> QED
    BY <2>1, <2>2
<1>4. \A t \in 1..Len(tokens) : tokens'[t].revoked => families'[tokens[t].family].revoked
  BY <1>1, <1>2, <1>3
<1>5. \A g \in 1..Len(families) : /\ families'[g].code = families[g].code
                                  /\ families[g].revoked => families'[g].revoked
  BY <1>2
<1> QED
  BY <1>2, <1>3, <1>4, <1>5, RevocationsKeep DEF SignInInv, TokensOf

LEMMA EndFamilyKeeps ==
  ASSUME SignInInv, NEW f \in 1..Len(families), EndFamily(f), UNCHANGED <<codes, tokens, signNow>>,
         RequestsMove
  PROVE  SignInKept
<1> DEFINE gone == [families[f] EXCEPT !.revoked = TRUE, !.reused = TRUE]
<1>1. families[f] \in FamilyRows
  BY DEF SignInInv, TokensOf
<1>2. gone \in FamilyRows /\ gone.code = families[f].code /\ gone.revoked
  BY <1>1 DEF FamilyRows
<1>3. families' = [families EXCEPT ![f] = gone]
  BY DEF EndFamily
<1> HIDE DEF gone
<1> QED
  BY <1>2, <1>3, FamilyEndKeeps

LEMMA TokenEndKeeps ==
  ASSUME SignInInv, ReplayToken \/ RevokeToken
  PROVE  SignInKept
<1>0. /\ UNCHANGED <<codes, request, signNow>>
      /\ Len(codes) \in Nat /\ Len(tokens) \in Nat
  BY DEF ReplayToken, RevokeToken, OneStep, SignInInv, TokensOf
<1>1. CASE ReplayToken
  <2>1. PICK t \in TokenIds : EndFamily(tokens[t].family)
    BY <1>1 DEF ReplayToken
  <2>2. tokens[t].family \in 1..Len(families) /\ UNCHANGED tokens
    BY <1>1 DEF TokenIds, SignInInv, TokensOf, ReplayToken
  <2>3. RequestsMove
    BY <1>0, <2>2 DEF RequestsMove
  <2> QED
    BY <1>0, <2>1, <2>2, <2>3, EndFamilyKeeps
<1>2. CASE RevokeToken
  <2>1. PICK t \in TokenIds : /\ tokens' = [tokens EXCEPT ![t].revoked = TRUE]
                              /\ families' = [families EXCEPT ![tokens[t].family].revoked = TRUE]
    BY <1>2 DEF RevokeToken
  <2> DEFINE f == tokens[t].family
             gone == [families[f] EXCEPT !.revoked = TRUE]
  <2>2. f \in 1..Len(families) /\ t \in 1..Len(tokens)
    BY DEF TokenIds, SignInInv, TokensOf
  <2>3. families[f] \in FamilyRows
    BY <2>2 DEF SignInInv, TokensOf
  <2>4. gone \in FamilyRows /\ gone.code = families[f].code /\ gone.revoked
    BY <2>3 DEF FamilyRows
  <2>5. families' = [families EXCEPT ![f] = gone]
    BY <2>1
  <2>6. Len(tokens') = Len(tokens)
    BY <2>1, <2>2 DEF SignInInv, TokensOf
  <2>7. RequestsMove
    BY <1>0, <2>6 DEF RequestsMove
  <2> HIDE DEF gone
  <2> QED
    BY <1>0, <2>1, <2>2, <2>4, <2>5, <2>7, FamilyEndKeeps
<1> QED
  BY <1>1, <1>2

LEMMA LogoutKeeps ==
  ASSUME SignInInv, NEW r \in Requests, Logout(r)
  PROVE  SignInKept
<1>0. /\ RequestSound(<<>>, Len(codes), Len(tokens)) /\ UNCHANGED <<codes, tokens>>
      /\ request' = [request EXCEPT ![r] = <<>>]
  BY NoRequestIsSound DEF Logout, Ends
<1>00. RequestsMove
  BY <1>0, OneRequestMoves
<1> DEFINE left_(f) == [families[f] EXCEPT !.revoked = @ \/ f \in request[r][3]]
<1>1. /\ UNCHANGED <<codes, tokens, signNow>> /\ request' = [request EXCEPT ![r] = <<>>]
      /\ families' = [f \in 1..Len(families) |-> left_(f)]
  BY DEF Logout, Ends, FamilyIds
<1>2. \A f \in 1..Len(families) : families[f] \in FamilyRows
  BY DEF SignInInv, TokensOf
<1>3. \A f \in 1..Len(families) : /\ left_(f) \in FamilyRows /\ left_(f).code = families[f].code
                                  /\ families[f].revoked => left_(f).revoked
  BY <1>2 DEF FamilyRows
<1> HIDE DEF left_
<1>4. families' \in [1..Len(families) -> FamilyRows] /\ Len(families) \in Nat
  BY <1>1, <1>3 DEF SignInInv, TokensOf
<1>5. families' \in Seq(FamilyRows) /\ Len(families') = Len(families)
  BY <1>4, MappedSequence
<1>6. \A f \in 1..Len(families) : /\ families'[f].code = families[f].code
                                  /\ families[f].revoked => families'[f].revoked
  BY <1>1, <1>3
<1>9. \A t \in 1..Len(tokens) : tokens[t].revoked => families'[tokens[t].family].revoked
  BY <1>6 DEF SignInInv, TokensOf
<1> QED
  BY <1>0, <1>00, <1>1, <1>5, <1>6, <1>9, RevocationsKeep DEF SignInInv, TokensOf

LEMMA IssueCodeKeeps ==
  ASSUME SignInInv, IssueCode
  PROVE  SignInKept
<1> DEFINE fresh == [expires |-> signNow + CodeLife, consumed |-> FALSE]
<1>1. codes' = Append(codes, fresh) /\ UNCHANGED <<families, tokens, request, signNow>>
  BY DEF IssueCode, OneStep
<1>2. fresh \in CodeRows
  BY SignInAssumption DEF CodeRows, SignInInv
<1> HIDE DEF fresh
<1>3. codes \in Seq(CodeRows)
  BY DEF SignInInv, TokensOf
<1>4. /\ codes' \in Seq(CodeRows) /\ Len(codes') = Len(codes) + 1 /\ Len(codes) \in Nat
      /\ \A c \in 1..Len(codes) : codes'[c] = codes[c]
  BY <1>1, <1>2, <1>3
<1>5. RequestsMove
  BY <1>1, <1>4 DEF RequestsMove, SignInInv, TokensOf
<1> QED
  BY <1>1, <1>4, <1>5, RevocationsKeep DEF SignInInv, TokensOf

\* The token endpoint: mid are the tokens after a rotation, or as they were, to
\* which a new family with a token of its own is added.
LEMMA FamilyOpens ==
  ASSUME SignInInv, signNow' \in Nat, RequestsMove, NEW mid,
         TokensOf(codes, families, mid), NotRotatedTwice(mid),
         StayEnded(families, tokens, families, mid),
         NEW c \in 0..Len(codes), c # 0 => ~codes[c].consumed /\ codes'[c].consumed,
         codes' \in Seq(CodeRows), Len(codes') = Len(codes),
         \A d \in 1..Len(codes) : codes[d].consumed => codes'[d].consumed,
         NEW opened \in FamilyRows, opened.code = c, families' = Append(families, opened),
         NEW fresh \in TokenRows, fresh.family = Len(families) + 1, ~fresh.revoked,
         tokens' = Append(mid, fresh)
  PROVE  SignInKept
<1> DEFINE n == Len(families)
           k == Len(mid)
<1>0. mid \in Seq(TokenRows) /\ families \in Seq(FamilyRows)
  BY DEF TokensOf
<1>1. /\ mid \in Seq(TokenRows) /\ families \in Seq(FamilyRows) /\ n \in Nat /\ k \in Nat
      /\ \A t \in 1..k : mid[t].family \in 1..n /\ (mid[t].revoked => families[mid[t].family].revoked)
  <2>1. n \in Nat /\ k \in Nat
    BY <1>0
  <2>2. \A t \in 1..k : mid[t].family \in 1..n /\ (mid[t].revoked => families[mid[t].family].revoked)
    BY DEF TokensOf
  <2> QED
    BY <1>0, <2>1, <2>2
<1>2. /\ families' \in Seq(FamilyRows) /\ Len(families') = n + 1 /\ families'[n + 1] = opened
      /\ \A f \in 1..n : families'[f] = families[f]
  BY <1>1
<1>3. /\ tokens' \in Seq(TokenRows) /\ Len(tokens') = k + 1 /\ tokens'[k + 1] = fresh
      /\ \A t \in 1..k : tokens'[t] = mid[t]
  BY <1>1
<1> HIDE DEF n, k
<1>4. /\ \A t \in 1..(k + 1) : t = k + 1 \/ t \in 1..k
      /\ \A f \in 1..(n + 1) : f = n + 1 \/ f \in 1..n
      /\ 1..n \subseteq 1..(n + 1) /\ n + 1 \notin 1..n
  <2>1. n \in Nat /\ k \in Nat
    BY <1>1
  <2> QED
    BY <2>1
<1>5. fresh.family = n + 1
  BY DEF n
<1>6. \A t \in 1..(k + 1) : /\ tokens'[t].family \in 1..(n + 1)
                            /\ tokens'[t].revoked => families'[tokens'[t].family].revoked
  BY <1>1, <1>2, <1>3, <1>4, <1>5
<1>7. TokensOf(codes', families', tokens')
  BY <1>2, <1>3, <1>6 DEF TokensOf
<1>8. NotRotatedTwice(tokens')
  <2>1. \A s, t \in 1..k : ~mid[s].rotated /\ ~mid[t].rotated /\ mid[s].family = mid[t].family => s = t
    BY DEF NotRotatedTwice, k
  <2>2. \A t \in 1..k : tokens'[t].family # fresh.family
    BY <1>1, <1>3, <1>4, <1>5
  <2>3. \A s, t \in 1..(k + 1) :
           ~tokens'[s].rotated /\ ~tokens'[t].rotated /\ tokens'[s].family = tokens'[t].family => s = t
    BY <1>3, <1>4, <2>1, <2>2
  <2> QED
    BY <1>3, <2>3 DEF NotRotatedTwice
<1>9. CodesSpent(codes', families')
  <2>1. /\ \A f \in 1..n : families[f].code # 0 => /\ families[f].code \in 1..Len(codes)
                                                   /\ codes[families[f].code].consumed
        /\ \A f, g \in 1..n : families[f].code = families[g].code /\ families[f].code # 0 => f = g
    BY DEF SignInInv, CodesSpent, n
  <2>2. \A f \in 1..n : families[f].code = c => c = 0
    BY <2>1
  <2>3. c # 0 => c \in 1..Len(codes)
    OBVIOUS
  <2>4. \A f \in 1..(n + 1) : families'[f].code # 0 => /\ families'[f].code \in 1..Len(codes)
                                                       /\ codes'[families'[f].code].consumed
    BY <1>2, <1>4, <2>1, <2>3
  <2>5. \A f, g \in 1..(n + 1) :
           families'[f].code = families'[g].code /\ families'[f].code # 0 => f = g
    BY <1>2, <1>4, <2>1, <2>2
  <2> QED
    BY <1>2, <2>4, <2>5 DEF CodesSpent
<1>10. StayEnded(families, tokens, families', tokens')
  <2>1. ASSUME NEW f \in 1..n, Alive(families', tokens', f) PROVE Alive(families, mid, f)
    <3>1. PICK t \in 1..(k + 1) : /\ tokens'[t].family = f /\ ~tokens'[t].rotated
                                  /\ ~tokens'[t].revoked /\ ~families'[tokens'[t].family].revoked
      BY <1>3, <2>1 DEF Alive
    <3>2. t \in 1..k /\ tokens'[t] = mid[t] /\ families'[f] = families[f]
      <4>1. f # n + 1 /\ families'[f] = families[f]
        BY <1>2, <1>4
      <4>2. t # k + 1
        BY <1>3, <1>5, <3>1, <4>1
      <4> QED
        BY <1>3, <1>4, <4>1, <4>2
    <3> QED
      BY <3>1, <3>2 DEF Alive, k
  <2>2. \A f \in 1..n : Alive(families, mid, f) => Alive(families, tokens, f)
    BY DEF StayEnded, n
  <2> QED
    BY <2>1, <2>2 DEF StayEnded, n
<1> QED
  BY <1>7, <1>8, <1>9, <1>10, RequestsStaySound DEF SignInInv, SignInKept

LEMMA TokensNew ==
  ASSUME SignInInv, NEW f \in Nat, NEW until \in Nat, NEW known \in BOOLEAN
  PROVE  /\ NewToken(f, until, known) \in TokenRows /\ NewToken(f, until, known).family = f
         /\ ~NewToken(f, until, known).revoked /\ ~NewToken(f, until, known).rotated
BY SignInAssumption DEF NewToken, TokenRows, SignInInv

LEMMA FamilyNew ==
  ASSUME NEW c \in Nat
  PROVE  NewFamily(c) \in FamilyRows /\ NewFamily(c).code = c
BY DEF NewFamily, FamilyRows

LEMMA ExchangeKeeps ==
  ASSUME SignInInv, NEW r \in Requests, ExchangeCode(r)
  PROVE  SignInKept
<1> DEFINE c == request[r][2]
           fresh == NewToken(Len(families) + 1, signNow + AbsoluteLife, TRUE)
           opened == NewFamily(c)
           spent == [codes[c] EXCEPT !.consumed = TRUE]
<1>1. /\ UNCHANGED signNow /\ request' = [request EXCEPT ![r] = <<>>]
      /\ request[r] # <<>> /\ request[r][1] = "exchanging"
  BY DEF ExchangeCode, Ends, Reads
<1>2. c \in 1..Len(codes) /\ RequestSound(<<>>, Len(codes), Len(tokens))
  BY <1>1, NoRequestIsSound DEF SignInInv, RequestSound
<1>3. CASE UNCHANGED <<codes, families, tokens>>
  BY <1>1, <1>2, <1>3, SignInAsides DEF SignInInv
<1>4. CASE /\ ~codes[c].consumed /\ codes' = [codes EXCEPT ![c].consumed = TRUE]
           /\ families' = Append(families, opened) /\ tokens' = Append(tokens, fresh)
  <2>1. /\ TokensOf(codes, families, tokens) /\ NotRotatedTwice(tokens)
        /\ codes \in Seq(CodeRows) /\ Len(families) + 1 \in Nat /\ Len(tokens) \in Nat
        /\ tokens \in Seq(TokenRows) /\ Len(codes) \in Nat /\ signNow \in Nat
    BY DEF SignInInv, TokensOf
  <2>2. StayEnded(families, tokens, families, tokens)
    BY DEF StayEnded
  <2>3. opened \in FamilyRows /\ opened.code = c
    BY <1>2, <2>1, FamilyNew
  <2>4. signNow + AbsoluteLife \in Nat
    BY <2>1, SignInAssumption
  <2>5. fresh \in TokenRows /\ fresh.family = Len(families) + 1 /\ ~fresh.revoked
    BY <2>1, <2>4, TokensNew
  <2>6. codes[c] \in CodeRows
    BY <1>2, <2>1
  <2>7. spent \in CodeRows /\ spent.consumed /\ codes' = [codes EXCEPT ![c] = spent]
    BY <1>4, <2>6 DEF CodeRows
  <2> HIDE DEF c, fresh, opened, spent
  <2>8. /\ codes' \in Seq(CodeRows) /\ Len(codes') = Len(codes) /\ codes'[c] = spent
        /\ \A d \in 1..Len(codes) : d # c => codes'[d] = codes[d]
    BY <1>2, <2>1, <2>7
  <2>9. Len(tokens') = Len(tokens) + 1
    BY <1>4, <2>1, <2>5
  <2>10. RequestsMove
    <3>1. Len(codes) <= Len(codes') /\ Len(tokens) <= Len(tokens')
      BY <2>1, <2>8, <2>9
    <3> QED
      BY <1>1, <1>2, <3>1 DEF RequestsMove
  <2>11. c \in 0..Len(codes) /\ codes'[c].consumed
    BY <1>2, <2>1, <2>7, <2>8
  <2>12. \A d \in 1..Len(codes) : codes[d].consumed => codes'[d].consumed
    BY <2>7, <2>8
  <2>13. signNow' \in Nat
    BY <1>1, <2>1
  <2> QED
    BY <1>4, <2>1, <2>2, <2>3, <2>5, <2>8, <2>10, <2>11, <2>12, <2>13, FamilyOpens
<1> QED
  BY <1>3, <1>4 DEF ExchangeCode, ConsumesCode

LEMMA RotatedRows ==
  ASSUME NEW ts \in Seq(TokenRows), NEW t \in 1..Len(ts)
  PROVE  LET between == [ts EXCEPT ![t].rotated = TRUE] IN
         /\ between \in Seq(TokenRows) /\ Len(between) = Len(ts)
         /\ between[t].rotated /\ between[t].family = ts[t].family
         /\ between[t].revoked = ts[t].revoked
         /\ \A s \in 1..Len(ts) : s # t => between[s] = ts[s]
<1> DEFINE spent == [ts[t] EXCEPT !.rotated = TRUE]
<1>1. ts[t] \in TokenRows
  OBVIOUS
<1>2. spent \in TokenRows /\ spent.rotated /\ spent.family = ts[t].family /\ spent.revoked = ts[t].revoked
  BY <1>1 DEF TokenRows
<1>3. [ts EXCEPT ![t].rotated = TRUE] = [ts EXCEPT ![t] = spent]
  OBVIOUS
<1> HIDE DEF spent
<1> DEFINE between == [ts EXCEPT ![t] = spent]
<1>4. between \in Seq(TokenRows) /\ Len(between) = Len(ts)
  BY <1>2
<1>5. between[t] = spent /\ \A s \in 1..Len(ts) : s # t => between[s] = ts[s]
  OBVIOUS
<1> QED
  BY <1>2, <1>3, <1>4, <1>5

\* A rotation puts a token in the place of the one the family had left.
LEMMA RotationKeeps ==
  ASSUME SignInInv, NEW t \in 1..Len(tokens), ~tokens[t].rotated,
         NEW heir \in TokenRows, heir.family = tokens[t].family, ~heir.revoked,
         NEW between \in Seq(TokenRows), Len(between) = Len(tokens),
         between[t].rotated, between[t].family = tokens[t].family,
         between[t].revoked = tokens[t].revoked,
         \A s \in 1..Len(tokens) : s # t => between[s] = tokens[s],
         NEW mid, mid = Append(between, heir)
  PROVE  /\ TokensOf(codes, families, mid) /\ NotRotatedTwice(mid) /\ mid \in Seq(TokenRows)
         /\ Len(mid) = Len(tokens) + 1 /\ StayEnded(families, tokens, families, mid)
<1> DEFINE spent == between[t]
           n == Len(tokens)
<1>0. tokens \in Seq(TokenRows) /\ n \in Nat
  BY DEF SignInInv, TokensOf
<1>1. /\ tokens \in Seq(TokenRows) /\ n \in Nat
      /\ \A s \in 1..n : /\ tokens[s].family \in 1..Len(families)
                         /\ tokens[s].revoked => families[tokens[s].family].revoked
      /\ \A s, u \in 1..n : ~tokens[s].rotated /\ ~tokens[u].rotated
                            /\ tokens[s].family = tokens[u].family => s = u
  BY DEF SignInInv, TokensOf, NotRotatedTwice
<1>3. spent.rotated /\ spent.family = tokens[t].family /\ spent.revoked = tokens[t].revoked
  OBVIOUS
<1>5. Len(between) = n /\ \A s \in 1..n : s # t => between[s] = tokens[s]
  OBVIOUS
<1> HIDE DEF n
<1>7. /\ mid \in Seq(TokenRows) /\ Len(mid) = n + 1 /\ mid[n + 1] = heir
      /\ \A s \in 1..n : mid[s] = between[s]
  <2>1. /\ Append(between, heir) \in Seq(TokenRows)
        /\ Len(Append(between, heir)) = Len(between) + 1
        /\ Append(between, heir)[Len(between) + 1] = heir
        /\ \A i \in 1..Len(between) : Append(between, heir)[i] = between[i]
    BY AppendedRow
  <2> QED
    BY <1>5, <2>1
<1>8. /\ \A s \in 1..(n + 1) : s = n + 1 \/ s = t \/ (s \in 1..n /\ s # t)
      /\ t \in 1..n /\ n + 1 \notin 1..n
  BY <1>1 DEF n
<1>9. /\ \A s \in 1..n : s # t => mid[s] = tokens[s]
      /\ mid[t] = spent
  BY <1>5, <1>7, <1>8
<1>10. TokensOf(codes, families, mid)
  <2>1. \A s \in 1..(n + 1) : /\ mid[s].family \in 1..Len(families)
                              /\ mid[s].revoked => families[mid[s].family].revoked
    <3> TAKE s \in 1..(n + 1)
    <3>1. CASE s = n + 1
      BY <1>1, <1>7, <1>8, <3>1
    <3>2. CASE s = t
      BY <1>1, <1>3, <1>8, <1>9, <3>2
    <3>3. CASE s \in 1..n /\ s # t
      BY <1>1, <1>9, <3>3
    <3> QED
      BY <1>8, <3>1, <3>2, <3>3
  <2> QED
    BY <1>7, <2>1 DEF TokensOf, SignInInv
<1>11. NotRotatedTwice(mid)
  <2>1. \A s \in 1..n : s # t /\ ~tokens[s].rotated => tokens[s].family # tokens[t].family
    BY <1>1, <1>8
  <2>2a. \A s \in 1..(n + 1) : ~mid[s].rotated /\ s # n + 1
            => s \in 1..n /\ mid[s] = tokens[s] /\ mid[s].family # heir.family
    BY <1>3, <1>8, <1>9, <2>1
  <2>2. ASSUME NEW s \in 1..(n + 1), NEW u \in 1..(n + 1), ~mid[s].rotated, ~mid[u].rotated,
               mid[s].family = mid[u].family
        PROVE  s = u
    <3>1. s # n + 1 /\ u # n + 1 => s = u
      BY <1>1, <2>2, <2>2a
    <3>2. s = n + 1 <=> u = n + 1
      BY <1>7, <2>2, <2>2a
    <3> QED
      BY <3>1, <3>2
  <2> QED
    BY <1>7, <2>2 DEF NotRotatedTwice
<1>12. StayEnded(families, tokens, families, mid)
  <2>1. ASSUME NEW f \in 1..Len(families), Alive(families, mid, f) PROVE Alive(families, tokens, f)
    <3>1. PICK s \in 1..(n + 1) : /\ mid[s].family = f /\ ~mid[s].rotated
                                  /\ ~mid[s].revoked /\ ~families[mid[s].family].revoked
      BY <1>7, <2>1 DEF Alive
    <3>2. CASE s \in 1..n /\ s # t
      BY <1>9, <3>1, <3>2 DEF Alive, n
    <3>3. CASE s = n + 1
      <4>1. tokens[t].family = f /\ ~families[tokens[t].family].revoked
        BY <1>7, <3>1, <3>3
      <4>2. ~tokens[t].revoked
        BY <1>1, <1>8, <4>1
      <4> QED
        BY <4>1, <4>2 DEF Alive
    <3>4. s # t
      BY <1>3, <1>9, <3>1
    <3> QED
      BY <1>8, <3>2, <3>3, <3>4
  <2> QED
    BY <2>1 DEF StayEnded
<1> QED
  BY <1>7, <1>10, <1>11, <1>12 DEF n

LEMMA RefreshKeeps ==
  ASSUME SignInInv, NEW r \in Requests, RefreshToken(r)
  PROVE  SignInKept
<1> DEFINE t == request[r][2]
           f == tokens[t].family
           heir == NewToken(f, tokens[t].expires, TRUE)
           fresh == NewToken(Len(families) + 1, signNow + AbsoluteLife, FALSE)
           opened == NewFamily(0)
           between == [tokens EXCEPT ![t].rotated = TRUE]
           mid == Append(between, heir)
<1>1. /\ UNCHANGED <<signNow, codes>> /\ request' = [request EXCEPT ![r] = <<>>]
      /\ request[r] # <<>> /\ request[r][1] = "refreshing"
  BY DEF RefreshToken, Ends, Reads
<1>2. t \in 1..Len(tokens) /\ RequestSound(<<>>, Len(codes), Len(tokens))
  BY <1>1, NoRequestIsSound DEF SignInInv, RequestSound
<1>3. /\ TokensOf(codes, families, tokens) /\ codes \in Seq(CodeRows) /\ Len(codes) \in Nat
      /\ tokens \in Seq(TokenRows) /\ Len(tokens) \in Nat /\ Len(families) \in Nat /\ signNow \in Nat
  BY DEF SignInInv, TokensOf
<1>4. f \in 1..Len(families) /\ tokens[t] \in TokenRows
  BY <1>2, <1>3 DEF TokensOf
<1>5. CASE EndFamily(f) /\ UNCHANGED tokens
  <2> HIDE DEF t, f
  <2>1. RequestsMove
    BY <1>1, <1>2, <1>5, OneRequestMoves
  <2> QED
    BY <1>1, <1>3, <1>4, <1>5, <2>1, EndFamilyKeeps
<1>6. CASE /\ ~tokens[t].rotated /\ tokens' = Append(mid, fresh)
           /\ families' = Append(families, opened)
  <2>1. f \in Nat /\ tokens[t].expires \in Nat /\ Len(families) + 1 \in Nat
    <3> HIDE DEF t, f
    <3>1. f \in Nat /\ Len(families) + 1 \in Nat
      BY <1>3, <1>4
    <3>2. tokens[t].expires \in Nat
      BY <1>4 DEF TokenRows
    <3> QED
      BY <3>1, <3>2
  <2>2. signNow + AbsoluteLife \in Nat
    BY <1>3, SignInAssumption
  <2>3. heir \in TokenRows /\ heir.family = f /\ ~heir.revoked
    BY <2>1, TokensNew
  <2>4. fresh \in TokenRows /\ fresh.family = Len(families) + 1 /\ ~fresh.revoked
    BY <2>1, <2>2, TokensNew
  <2>5. opened \in FamilyRows /\ opened.code = 0
    BY FamilyNew
  <2> HIDE DEF heir, fresh, opened
  <2>5a. /\ between \in Seq(TokenRows) /\ Len(between) = Len(tokens)
         /\ between[t].rotated /\ between[t].family = tokens[t].family
         /\ between[t].revoked = tokens[t].revoked
         /\ \A s \in 1..Len(tokens) : s # t => between[s] = tokens[s]
    BY <1>2, <1>3, RotatedRows
  <2> HIDE DEF between
  <2>6. /\ TokensOf(codes, families, mid) /\ NotRotatedTwice(mid) /\ mid \in Seq(TokenRows)
        /\ Len(mid) = Len(tokens) + 1 /\ StayEnded(families, tokens, families, mid)
    BY <1>2, <1>6, <2>3, <2>5a, RotationKeeps
  <2> HIDE DEF mid, t, f
  <2>7. Len(tokens') = Len(tokens) + 2
    BY <1>3, <1>6, <2>4, <2>6
  <2>8. RequestsMove
    <3>1. Len(codes) <= Len(codes') /\ Len(tokens) <= Len(tokens')
      BY <1>1, <1>3, <2>7
    <3> QED
      BY <1>1, <1>2, <3>1 DEF RequestsMove
  <2>9. 0 \in 0..Len(codes) /\ codes' \in Seq(CodeRows) /\ Len(codes') = Len(codes) /\ signNow' \in Nat
        /\ \A d \in 1..Len(codes) : codes[d].consumed => codes'[d].consumed
    BY <1>1, <1>3
  <2> QED
    BY <1>6, <2>4, <2>5, <2>6, <2>8, <2>9, FamilyOpens
<1> QED
  BY <1>5, <1>6 DEF RefreshToken, RotatesToken

LEMMA SignInReadsKeep ==
  ASSUME SignInInv, NEW r \in Requests,
         \/ RotateReads(r) \/ RotateClientSecret(r) \/ ExchangeReads(r) \/ RefreshReads(r)
         \/ LogoutReads(r) \/ GiveUpSignIn(r)
  PROVE  SignInKept
<1>1. UNCHANGED <<codes, families, tokens, signNow>>
  BY DEF RotateReads, RotateClientSecret, ExchangeReads, RefreshReads, LogoutReads, GiveUpSignIn,
         OpensRequest, Ends
<1>2. ASSUME NEW read, request' = [request EXCEPT ![r] = read], RequestSound(read, Len(codes), Len(tokens))
      PROVE  SignInKept
  <2>1. signNow' \in Nat
    BY <1>1 DEF SignInInv
  <2> QED
    BY <1>1, <1>2, <2>1, SignInAsides
<1>3. CASE RotateClientSecret(r) \/ GiveUpSignIn(r)
  <2>1. request' = [request EXCEPT ![r] = <<>>]
    BY <1>3 DEF RotateClientSecret, GiveUpSignIn, Ends
  <2> QED
    BY <1>2, <2>1, NoRequestIsSound
<1>4. CASE RotateReads(r)
  <2> DEFINE live == {i \in DOMAIN secret : ~secret[i].revoked}
             heir == LatestVersion + 1
  <2>1. request' = [request EXCEPT ![r] = <<"rotating", live, heir>>]
    BY <1>4 DEF RotateReads, OpensRequest
  <2> HIDE DEF live, heir
  <2>2. RequestSound(<<"rotating", live, heir>>, Len(codes), Len(tokens))
    BY DEF RequestSound
  <2> QED
    BY <1>2, <2>1, <2>2
<1>5. CASE LogoutReads(r)
  <2> DEFINE live == {f \in FamilyIds : ~families[f].revoked}
  <2>1. PICK i \in SessionIds : request' = [request EXCEPT ![r] = <<"leaving", i, live>>]
    BY <1>5 DEF LogoutReads, OpensRequest
  <2> HIDE DEF live
  <2>2. RequestSound(<<"leaving", i, live>>, Len(codes), Len(tokens))
    BY DEF RequestSound
  <2> QED
    BY <1>2, <2>1, <2>2
<1>6. CASE ExchangeReads(r)
  <2>1. PICK c \in 1..Len(codes) : request' = [request EXCEPT ![r] = <<"exchanging", c>>]
    BY <1>6 DEF ExchangeReads, OpensRequest, CodeIds
  <2>2. RequestSound(<<"exchanging", c>>, Len(codes), Len(tokens))
    BY DEF RequestSound
  <2> QED
    BY <1>2, <2>1, <2>2
<1>7. CASE RefreshReads(r)
  <2>1. PICK t \in 1..Len(tokens) : request' = [request EXCEPT ![r] = <<"refreshing", t>>]
    BY <1>7 DEF RefreshReads, OpensRequest, TokenIds
  <2>2. RequestSound(<<"refreshing", t>>, Len(codes), Len(tokens))
    BY DEF RequestSound
  <2> QED
    BY <1>2, <2>1, <2>2
<1> QED
  BY <1>3, <1>4, <1>5, <1>6, <1>7

LEMMA SignInStep ==
  ASSUME SignInInv, [SignInNext]_signInVars
  PROVE  SignInKept
<1>1. CASE RegisterClient \/ DisableClient \/ EnableClient \/ EstablishSession
  BY <1>1, SignInAsides DEF RegisterClient, DisableClient, EnableClient, EstablishSession, OneStep, SignInInv
<1>2. CASE SignInTimePasses \/ UNCHANGED signInVars
  <2>1. UNCHANGED <<codes, families, tokens, request>> /\ signNow' \in Nat
    BY <1>2 DEF SignInTimePasses, signInVars, SignInInv
  <2> QED
    BY <2>1, SignInAsides
<1>3. CASE IssueCode \/ ReplayToken \/ RevokeToken \/ RevokeConsent \/ RevokeSubjectSessions
  BY <1>3, IssueCodeKeeps, TokenEndKeeps, BulkRevocationsKeep
<1>4. ASSUME NEW r \in Requests, ExchangeCode(r) \/ RefreshToken(r) \/ Logout(r) PROVE SignInKept
  BY <1>4, ExchangeKeeps, RefreshKeeps, LogoutKeeps
<1>5. ASSUME NEW r \in Requests,
             \/ RotateReads(r) \/ RotateClientSecret(r) \/ ExchangeReads(r) \/ RefreshReads(r)
             \/ LogoutReads(r) \/ GiveUpSignIn(r)
      PROVE  SignInKept
  BY <1>5, SignInReadsKeep
<1> QED
  BY <1>1, <1>2, <1>3, <1>4, <1>5 DEF SignInNext

LEMMA SignInStarts ==
  ASSUME SignInInit
  PROVE  SignInInv
<1>1. codes = <<>> /\ families = <<>> /\ tokens = <<>> /\ signNow = 0
      /\ request = [r \in Requests |-> <<>>]
  BY DEF SignInInit
<1>2. TokensOf(codes, families, tokens) /\ NotRotatedTwice(tokens) /\ CodesSpent(codes, families)
  BY <1>1 DEF TokensOf, NotRotatedTwice, CodesSpent
<1> QED
  BY <1>1, <1>2, NoRequestIsSound DEF SignInInv

LEMMA SpentOnceOfInv ==
  ASSUME SignInInv
  PROVE  SpentOnce
BY DEF SignInInv, NotRotatedTwice, CodesSpent, SpentOnce, Usable, TokenIds, FamilyIds

\* Codes and refresh tokens are spent once, and a family that has ended stays
\* so, for any number of requests, codes and tokens and whatever the lifetimes.
THEOREM TokensAreSpentOnce ==
  SignInSpec => TokensAreSpent
<1>1. SignInInit => SignInInv
  BY SignInStarts
<1>2. SignInInv /\ [SignInNext]_signInVars => SignInInv'
  BY SignInStep DEF SignInKept
<1>3. SignInInv /\ [SignInNext]_signInVars
      => [\A f \in FamilyIds :
             (~\E t \in TokenIds : tokens[t].family = f /\ Usable(t))
             => ~(\E t \in TokenIds : tokens[t].family = f /\ Usable(t))']_signInVars
  <2> SUFFICES ASSUME SignInInv, [SignInNext]_signInVars, NEW f \in FamilyIds,
                      (\E t \in TokenIds : tokens[t].family = f /\ Usable(t))'
               PROVE  \E t \in TokenIds : tokens[t].family = f /\ Usable(t)
    OBVIOUS
  <2>1. Alive(families', tokens', f)
    BY DEF Alive, TokenIds, Usable
  <2>2. Alive(families, tokens, f)
    BY <2>1, SignInStep DEF SignInKept, StayEnded, FamilyIds
  <2> QED
    BY <2>2 DEF Alive, TokenIds, Usable
<1>4. SignInInv => SpentOnce
  BY SpentOnceOfInv
<1> QED
  BY <1>1, <1>2, <1>3, <1>4, PTL DEF SignInSpec, TokensAreSpent, EndedFamilyStaysEnded

-----------------------------------------------------------------------------
(* Notification: while every run leaves a row of its outcome, the rows are *)
(* numbered up to the attempt of the delivery, and a run that goes on      *)
(* beside a delivery that succeeded has an older number.                   *)

DeliveryRows == [status : DeliveryStates \union {"absent", "cleaned"},
                 attempt : Nat, token : BOOLEAN]

\* A run that sends, beside the row of the delivery.
RunSound(r, sent) ==
    r.does = "send" =>
       /\ r.row.attempt <= sent.attempt
       /\ sent.status = "delivered" => r.row.attempt < sent.attempt

NotificationInv ==
    /\ delivery \in DeliveryRows
    /\ DOMAIN run = Couriers
    /\ \A c \in Couriers : Sends(c) => run[c].row.attempt \in Nat
    /\ ~unrecorded =>
          /\ InTable => outcomes = 1..delivery.attempt
          /\ delivery.status = "absent" => delivery.attempt = 0 /\ outcomes = {}
          /\ \A c \in Couriers : RunSound(run[c], delivery)

LEMMA ColumnIsEither ==
  ASSUME NEW read, NEW new, NEW current
  PROVE  Column(read, new, current) \in {new, current}
BY DEF Column

\* The row keeps its attempt and does not come to be delivered.
LEMMA CommandsKeep ==
  ASSUME NotificationInv, delivery' \in DeliveryRows, delivery'.attempt = delivery.attempt,
         delivery'.status = "delivered" => delivery.status = "delivered",
         delivery'.status = "absent" => delivery.status = "absent",
         \/ UNCHANGED outcomes /\ (InTable' => InTable \/ delivery.status = "absent")
         \/ delivery'.status = "cleaned",
         UNCHANGED <<run, unrecorded>>
  PROVE  NotificationInv'
<1>1. DOMAIN run' = Couriers /\ \A c \in Couriers : run'[c].does = "send" => run'[c].row.attempt \in Nat
  BY DEF NotificationInv, Sends
<1>2. ASSUME ~unrecorded', NEW c \in Couriers PROVE RunSound(run'[c], delivery')
  <2>1. RunSound(run[c], delivery) /\ run'[c] = run[c]
    BY <1>2 DEF NotificationInv
  <2> QED
    BY <2>1 DEF RunSound
<1>3. ASSUME ~unrecorded' PROVE InTable' => outcomes' = 1..delivery'.attempt
  <2>1. CASE delivery.status = "absent"
    <3>1. outcomes = {} /\ delivery'.attempt = 0 /\ (InTable' => outcomes' = {})
      BY <1>3, <2>1 DEF NotificationInv, InTable, DeliveryStates
    <3>2. 1..0 = {}
      OBVIOUS
    <3> QED
      BY <3>1, <3>2
  <2>2. CASE delivery.status # "absent"
    BY <1>3, <2>2 DEF NotificationInv, InTable, DeliveryStates
  <2> QED
    BY <2>1, <2>2
<1>4. ASSUME ~unrecorded', delivery'.status = "absent"
      PROVE  delivery'.attempt = 0 /\ outcomes' = {}
  BY <1>4 DEF NotificationInv
<1> QED
  BY <1>1, <1>2, <1>3, <1>4 DEF NotificationInv, Sends

LEMMA StaffKeep ==
  ASSUME NotificationInv, NEW s \in Staff,
         \/ RequestNotification(s) \/ CancelReads(s) \/ CancelPendingNotification(s)
         \/ RetryReads(s) \/ RetryDelivery(s) \/ StartDelivery(s) \/ LeaveDesk(s)
  PROVE  NotificationInv' /\ UNCHANGED outcomes
<1>1. UNCHANGED <<outcomes, run, unrecorded>> /\ delivery \in DeliveryRows
  BY DEF RequestNotification, CancelReads, CancelPendingNotification, RetryReads, RetryDelivery,
         StartDelivery, LeaveDesk, NotificationInv
<1>2. CASE UNCHANGED delivery
  BY <1>1, <1>2, CommandsKeep DEF InTable
<1>3. ASSUME NEW becomes, delivery' = [delivery EXCEPT !.status = becomes],
             becomes \in {"cancelled", "pending", delivery.status}, InTable
      PROVE  NotificationInv'
  <2>1. /\ delivery' \in DeliveryRows /\ delivery'.attempt = delivery.attempt
        /\ delivery'.status = becomes
    BY <1>1, <1>3 DEF DeliveryRows, DeliveryStates
  <2> QED
    BY <1>1, <1>3, <2>1, CommandsKeep
<1>4. CASE RequestNotification(s)
  <2>1. CASE delivery.status = "absent"
    <3>1. delivery' = [NotRequested EXCEPT !.status = "pending"]
      BY <1>4, <2>1 DEF RequestNotification
    <3>2. /\ delivery' \in DeliveryRows /\ delivery'.attempt = 0 /\ delivery'.status = "pending"
      BY <3>1 DEF NotRequested, DeliveryRows, DeliveryStates
    <3>3. CASE delivery.attempt = 0
      BY <1>1, <2>1, <3>2, <3>3, CommandsKeep
    <3>4. CASE unrecorded
      <4>1. unrecorded' /\ run' = run
        BY <1>1, <3>4
      <4> QED
        BY <1>1, <3>2, <4>1 DEF NotificationInv, Sends
    <3> QED
      BY <2>1, <3>3, <3>4 DEF NotificationInv
  <2> QED
    BY <1>2, <1>4, <2>1 DEF RequestNotification
<1>5. CASE CancelPendingNotification(s)
  BY <1>2, <1>3, <1>5 DEF CancelPendingNotification
<1>6. CASE RetryDelivery(s)
  <2> DEFINE becomes == Column(admin[s].row.status, "pending", delivery.status)
  <2>1. becomes \in {"pending", delivery.status}
    BY ColumnIsEither
  <2>2. CASE InTable
    <3>1. delivery' = [delivery EXCEPT !.status = becomes]
      BY <1>6, <2>2 DEF RetryDelivery
    <3> HIDE DEF becomes
    <3> QED
      BY <1>1, <1>3, <2>1, <2>2, <3>1
  <2> QED
    BY <1>2, <1>6, <2>2 DEF RetryDelivery
<1>7. CASE CancelReads(s) \/ RetryReads(s) \/ StartDelivery(s) \/ LeaveDesk(s)
  BY <1>2, <1>7 DEF CancelReads, RetryReads, StartDelivery, LeaveDesk
<1> QED
  BY <1>1, <1>4, <1>5, <1>6, <1>7

\* A run ends without a trace, or begins with the row as it is.
LEMMA RunsMove ==
  ASSUME NotificationInv, NEW c \in Couriers, NEW r, run' = [run EXCEPT ![c] = r],
         r = AtEase \/ (r.row = delivery /\ delivery.status # "delivered"),
         UNCHANGED <<delivery, outcomes, unrecorded>>
  PROVE  NotificationInv'
<1>1. DOMAIN run' = Couriers /\ run'[c] = r /\ \A o \in Couriers \ {c} : run'[o] = run[o]
  BY DEF NotificationInv
<1>2. RunSound(r, delivery)
  BY DEF RunSound, AtEase, NotificationInv, DeliveryRows
<1>3. ~unrecorded => \A o \in Couriers : RunSound(run'[o], delivery)
  BY <1>1, <1>2 DEF NotificationInv
<1>4. r.does = "send" => r.row.attempt \in Nat
  BY DEF AtEase, NotificationInv, DeliveryRows
<1>5. \A o \in Couriers : run'[o].does = "send" => run'[o].row.attempt \in Nat
  BY <1>1, <1>4 DEF NotificationInv, Sends
<1> QED
  BY <1>1, <1>3, <1>5 DEF NotificationInv, InTable, Sends

LEMMA QuietRunsKeep ==
  ASSUME NotificationInv, NEW c \in Couriers,
         (\E n \in FlowKeys : BeginRun(c, n)) \/ LoseRun(c) \/ CrashCourier(c)
  PROVE  NotificationInv' /\ UNCHANGED outcomes
<1>1. UNCHANGED <<delivery, outcomes, unrecorded>>
  BY DEF BeginRun, LoseRun, CrashCourier
<1>2. CASE LoseRun(c) \/ CrashCourier(c)
  <2>1. run' = [run EXCEPT ![c] = AtEase]
    BY <1>2 DEF LoseRun, CrashCourier
  <2> QED
    BY <1>1, <2>1, RunsMove
<1>3. ASSUME NEW n \in FlowKeys, BeginRun(c, n) PROVE NotificationInv'
  <2> DEFINE r == [does |-> "send", flow |-> n, tries |-> flows[n].tries, row |-> delivery]
  <2>1. CASE delivery.status \in {"pending", "sending", "unknown"}
    <3>1. run' = [run EXCEPT ![c] = r] /\ r.row = delivery /\ delivery.status # "delivered"
      BY <1>3, <2>1 DEF BeginRun
    <3> HIDE DEF r
    <3> QED
      BY <1>1, <3>1, RunsMove
  <2>2. CASE UNCHANGED run
    BY <1>1, <2>2, CommandsKeep DEF NotificationInv, InTable
  <2> QED
    BY <1>3, <2>1, <2>2 DEF BeginRun
<1> QED
  BY <1>1, <1>2, <1>3

\* A run has written its row, one more than it had read.
LEMMA WrittenDelivery ==
  ASSUME NotificationInv, NEW c \in Couriers, Sends(c), NEW st \in DeliveryStates,
         NEW keeps \in BOOLEAN, WriteDelivery(c, st, keeps), InTable
  PROVE  /\ delivery' \in DeliveryRows /\ delivery'.attempt = run[c].row.attempt + 1
         /\ delivery'.status \in {st, delivery.status}
<1> DEFINE stays == Column(run[c].row.status, st, delivery.status)
           holds == IF keeps THEN delivery.token ELSE FALSE
           k == run[c].row.attempt
<1>1. stays \in {st, delivery.status} /\ k \in Nat /\ delivery \in DeliveryRows
  BY ColumnIsEither DEF NotificationInv
<1>2. delivery' = [status |-> stays, attempt |-> k + 1, token |-> holds]
  BY DEF WriteDelivery, Attempt
<1>3. holds \in BOOLEAN /\ delivery.status \in DeliveryStates
  BY <1>1 DEF DeliveryRows, InTable
<1> HIDE DEF stays, holds, k
<1>4. stays \in DeliveryStates
  BY <1>1, <1>3
<1> QED
  BY <1>1, <1>2, <1>3, <1>4 DEF DeliveryRows, k

\* A run that ends without a row of its outcome: nothing is claimed from then on.
LEMMA UnrecordedRunsKeep ==
  ASSUME NotificationInv, NEW c \in Couriers,
         FailPermanently(c) \/ FailUnregistered(c) \/ SendTimesOut(c)
  PROVE  NotificationInv' /\ UNCHANGED outcomes
<1>1. /\ unrecorded' /\ UNCHANGED outcomes /\ run' = [run EXCEPT ![c] = AtEase]
      /\ Sends(c) /\ InTable
  BY DEF FailPermanently, FailUnregistered, SendTimesOut, CommitsRun
<1>2. delivery' \in DeliveryRows
  <2>1. CASE FailUnregistered(c)
    BY <2>1 DEF FailUnregistered, NotificationInv, DeliveryRows, DeliveryStates
  <2>2. CASE FailPermanently(c) \/ SendTimesOut(c)
    BY <1>1, <2>2, WrittenDelivery DEF FailPermanently, SendTimesOut, DeliveryStates
  <2> QED
    BY <2>1, <2>2
<1>3. DOMAIN run' = Couriers /\ run'[c] = AtEase /\ \A o \in Couriers \ {c} : run'[o] = run[o]
  BY <1>1 DEF NotificationInv
<1>4. \A o \in Couriers : run'[o].does = "send" => run'[o].row.attempt \in Nat
  BY <1>3 DEF NotificationInv, Sends, AtEase
<1> QED
  BY <1>1, <1>2, <1>3, <1>4 DEF NotificationInv, Sends

\* The answer of a provider is kept under a number of its own.
LEMMA AnswersKeep ==
  ASSUME NotificationInv, NEW c \in Couriers, Answered(c), UNCHANGED unrecorded,
         NEW st \in DeliveryStates, NEW keeps \in BOOLEAN, WriteDelivery(c, st, keeps)
  PROVE  NotificationInv' /\ (~unrecorded => delivery.status # "delivered")
<1> DEFINE k == run[c].row.attempt
<1>1. /\ Sends(c) /\ InTable /\ run' = [run EXCEPT ![c] = AtEase] /\ k + 1 \notin outcomes
      /\ outcomes' = outcomes \union {k + 1}
  BY DEF Answered, CommitsRun, NumberIsFree, Attempt
<1>2. /\ delivery' \in DeliveryRows /\ delivery'.attempt = k + 1
      /\ delivery'.status \in {st, delivery.status}
  BY <1>1, WrittenDelivery
<1>3. DOMAIN run' = Couriers /\ run'[c] = AtEase /\ \A o \in Couriers \ {c} : run'[o] = run[o]
  BY <1>1 DEF NotificationInv
<1>4. \A o \in Couriers : run'[o].does = "send" => run'[o].row.attempt \in Nat
  BY <1>3 DEF NotificationInv, Sends, AtEase
<1>5. ASSUME ~unrecorded
      PROVE  k = delivery.attempt /\ outcomes = 1..k /\ k \in Nat /\ delivery.status # "delivered"
  <2>1. /\ k \in Nat /\ delivery.attempt \in Nat /\ outcomes = 1..delivery.attempt
        /\ k <= delivery.attempt /\ (delivery.status = "delivered" => k < delivery.attempt)
    BY <1>1, <1>5 DEF NotificationInv, DeliveryRows, RunSound, Sends
  <2> HIDE DEF k
  <2>2. ~(k < delivery.attempt)
    BY <1>1, <2>1
  <2> QED
    BY <2>1, <2>2
<1> HIDE DEF k
<1>6. ASSUME ~unrecorded
      PROVE  outcomes' = 1..delivery'.attempt
  BY <1>1, <1>2, <1>5, <1>6
<1>7. ASSUME ~unrecorded, NEW o \in Couriers PROVE RunSound(run'[o], delivery')
  <2>1. CASE o = c
    BY <1>3, <2>1 DEF RunSound, AtEase
  <2>2. CASE o # c
    <3>1. RunSound(run[o], delivery) /\ run'[o] = run[o]
      BY <1>3, <1>7, <2>2 DEF NotificationInv
    <3>2. Sends(o) => run[o].row.attempt \in Nat
      BY DEF NotificationInv
    <3> QED
      BY <1>2, <1>5, <1>7, <3>1, <3>2 DEF RunSound, Sends
  <2> QED
    BY <2>1, <2>2
<1>8. delivery'.status # "absent"
  BY <1>1, <1>2 DEF InTable, DeliveryStates
<1> QED
  BY <1>2, <1>3, <1>4, <1>5, <1>6, <1>7, <1>8 DEF NotificationInv, Sends

LEMMA AnsweredRunsKeep ==
  ASSUME NotificationInv, NEW c \in Couriers,
         Delivered(c) \/ AnswerUnknown(c) \/ RefusedForGood(c) \/ RefusedForNow(c)
  PROVE  NotificationInv' /\ (~unrecorded => delivery.status # "delivered")
<1>1. Answered(c) /\ UNCHANGED unrecorded
  BY DEF Delivered, AnswerUnknown, RefusedForGood, RefusedForNow
<1>2. PICK st \in {"delivered", "unknown", "failed", "dead", "pending"}, keeps \in BOOLEAN :
         WriteDelivery(c, st, keeps)
  BY DEF Delivered, AnswerUnknown, RefusedForGood, RefusedForNow
<1>3. st \in DeliveryStates
  BY DEF DeliveryStates
<1> QED
  BY <1>1, <1>2, <1>3, AnswersKeep

LEMMA NotificationStep ==
  ASSUME NotificationInv, [NotificationNext]_notificationVars
  PROVE  /\ NotificationInv'
         /\ \/ outcomes' \subseteq outcomes
            \/ ~unrecorded => delivery.status # "delivered"
<1>1. ASSUME NEW s \in Staff,
             \/ RequestNotification(s) \/ CancelReads(s) \/ CancelPendingNotification(s)
             \/ RetryReads(s) \/ RetryDelivery(s) \/ StartDelivery(s) \/ LeaveDesk(s)
      PROVE  NotificationInv' /\ UNCHANGED outcomes
  BY <1>1, StaffKeep
<1>2. ASSUME NEW c \in Couriers,
             (\E n \in FlowKeys : BeginRun(c, n)) \/ LoseRun(c) \/ CrashCourier(c)
      PROVE  NotificationInv' /\ UNCHANGED outcomes
  BY <1>2, QuietRunsKeep
<1>3. ASSUME NEW c \in Couriers, FailPermanently(c) \/ FailUnregistered(c) \/ SendTimesOut(c)
      PROVE  NotificationInv' /\ UNCHANGED outcomes
  BY <1>3, UnrecordedRunsKeep
<1>4. ASSUME NEW c \in Couriers,
             Delivered(c) \/ AnswerUnknown(c) \/ RefusedForGood(c) \/ RefusedForNow(c)
      PROVE  NotificationInv' /\ (~unrecorded => delivery.status # "delivered")
  BY <1>4, AnsweredRunsKeep
<1>5. CASE CleanNotifications
  <2>1. /\ delivery' = [delivery EXCEPT !.status = "cleaned"] /\ outcomes' = {}
        /\ UNCHANGED <<run, unrecorded>> /\ delivery \in DeliveryRows
    BY <1>5 DEF CleanNotifications, NotificationInv
  <2>2. /\ delivery' \in DeliveryRows /\ delivery'.attempt = delivery.attempt
        /\ delivery'.status = "cleaned"
    BY <2>1 DEF DeliveryRows
  <2> QED
    BY <2>1, <2>2, CommandsKeep
<1>6. CASE UNCHANGED notificationVars
  BY <1>6, CommandsKeep DEF notificationVars, NotificationInv, InTable
<1> QED
  BY <1>1, <1>2, <1>3, <1>4, <1>5, <1>6 DEF NotificationNext, CourierSteps

LEMMA NotificationStarts ==
  ASSUME NotificationInit
  PROVE  NotificationInv
<1>1. /\ delivery = [status |-> "absent", attempt |-> 0, token |-> TRUE] /\ outcomes = {}
      /\ run = [c \in Couriers |-> AtEase]
  BY DEF NotificationInit, NotRequested
<1>2. delivery \in DeliveryRows /\ ~InTable /\ delivery.attempt = 0
  BY <1>1 DEF DeliveryRows, InTable, DeliveryStates
<1>3. \A c \in Couriers : run[c].does # "send"
  BY <1>1 DEF AtEase
<1> QED
  BY <1>1, <1>2, <1>3 DEF NotificationInv, RunSound, Sends

\* While every run leaves a row of its outcome, no later answer takes the place
\* of a delivery that was committed: the run that brings it collides with the
\* number of a row, for any number of runs, retries and commands.
THEOREM DeliveriesAreNotOverwritten ==
  NotificationSpec => SendsDoNotOverwrite
<1>1. NotificationInv /\ [NotificationNext]_notificationVars => NotificationInv'
  BY NotificationStep
<1>2. NotificationInv /\ [NotificationNext]_notificationVars
      => [(/\ delivery.status = "delivered" /\ ~unrecorded
           /\ outcomes \subseteq outcomes' /\ outcomes # outcomes')
          => delivery'.status = "delivered"]_notificationVars
  BY NotificationStep
<1> QED
  BY <1>1, <1>2, NotificationStarts, PTL DEF NotificationSpec, SendsDoNotOverwrite

-----------------------------------------------------------------------------
(* Types: what each component keeps beside what its property is about.     *)

LEMMA SettingsKeepTypes == SettingsSpec => []SettingsTypeOK
<1>1. SettingsInv => SettingsTypeOK
  BY DEF SettingsInv
<1> QED
  BY <1>1, SettingsStart, SettingsStep, PTL DEF SettingsSpec

LEMMA PrivateStep ==
  ASSUME SigningKeysAssumption, private \subseteq Keyrings, keyNow \in 1..MaxKeyTime,
         operator = [o \in Operators |-> operator[o]], [KeysNext]_keyVars
  PROVE  /\ (private \subseteq Keyrings)' /\ (keyNow \in 1..MaxKeyTime)'
         /\ (operator = [o \in Operators |-> operator[o]])'
<1>1. MaxKeyTime \in Nat
  BY DEF SigningKeysAssumption
<1>2. ASSUME NEW o \in Operators, NEW what, Occupies(o, what)
      PROVE  operator' = [p \in Operators |-> operator'[p]]
  BY <1>2 DEF Occupies
<1>3. CASE \E o \in Operators : InstallFindsNone(o) \/ RotateKey(o) \/ IssueToken(o) \/ OperatorDies(o)
  BY <1>2, <1>3 DEF InstallFindsNone, RotateKey, IssueToken, OperatorDies, Rests
<1>4. CASE \E o \in Operators, k \in Keyrings : InstallKey(o, k) \/ RequireActiveKey(o, k)
  BY <1>2, <1>4 DEF InstallKey, RequireActiveKey, Rests
<1>5. CASE \E o \in Operators, k, old \in Keyrings : RotateFinds(o, k, old)
  BY <1>2, <1>5 DEF RotateFinds
<1>6. CASE CleanupExpiredKeys
  BY <1>6 DEF CleanupExpiredKeys
<1>7. CASE KeyTimePasses
  BY <1>1, <1>7 DEF KeyTimePasses
<1>8. CASE UNCHANGED keyVars
  BY <1>8 DEF keyVars
<1> QED
  BY <1>3, <1>4, <1>5, <1>6, <1>7, <1>8 DEF KeysNext

LEMMA KeysKeepTypes == KeysSpec => []KeysTypeOK
<1> USE SigningKeysAssumption
<1> DEFINE Inv == /\ KeysInv /\ private \subseteq Keyrings /\ keyNow \in 1..MaxKeyTime
                  /\ operator = [o \in Operators |-> operator[o]]
<1>1. KeysInit => Inv
  BY KeysStart DEF KeysInit, SigningKeysAssumption
<1>2. Inv /\ [KeysNext]_keyVars => Inv'
  BY KeysStep, PrivateStep
<1>3. Inv => KeysTypeOK
  BY DEF KeysInv, KeysTyped, TokenSound, KeysTypeOK
<1> QED
  BY <1>1, <1>2, <1>3, PTL DEF KeysSpec

\* What a clerk is in the middle of concerns a role, keys and a subject there are.
WorkTyped(what) ==
    /\ what[1] = "replacing" => what[2] \in Slugs /\ what[3] \subseteq Permissions
    /\ what[1] \in {"ensuring", "ensured", "creating"} => what[2] \in Subjects

AccessInv ==
    /\ AccessTypeOK /\ clerk = [h \in Clerks |-> clerk[h]]
    /\ \A h \in Clerks : WorkTyped(clerk[h])

LEMMA ClerkTurns ==
  ASSUME AccessInv, NEW h \in Clerks, NEW what, Turns(h, what), WorkTyped(what)
  PROVE  /\ clerk' = [g \in Clerks |-> clerk'[g]] /\ DOMAIN clerk' = Clerks
         /\ \A g \in Clerks : WorkTyped(clerk'[g])
<1>1. \A g \in Clerks : clerk'[g] = IF g = h THEN what ELSE clerk[g]
  BY DEF Turns, AccessInv
<1> QED
  BY <1>1 DEF Turns, AccessInv

LEMMA IdleIsTyped == WorkTyped(<<"idle">>)
BY DEF WorkTyped

LEMMA AdministratorIsTyped ==
  ASSUME AccessInv, NEW h \in Clerks, BindsAdministrator(h), WorkTyped(clerk[h]),
         clerk[h][1] \in {"ensured", "creating"}
  PROVE  /\ held' \subseteq (roles \union {"administrator"}) \X Permissions
         /\ grants' \subseteq Grants /\ Turns(h, <<"idle">>) /\ UNCHANGED accessCalls
<1>1. clerk[h][2] \in Subjects
  BY DEF WorkTyped
<1>2. [subject |-> clerk[h][2], role |-> "administrator", by |-> "install"] \in Grants
  BY <1>1 DEF Grants, Slugs
<1> QED
  BY <1>2 DEF BindsAdministrator, AccessInv, AccessTypeOK

LEMMA AccessStep ==
  ASSUME AccessAssumption, AccessInv, [AccessNext]_accessVars
  PROVE  AccessInv'
<1>1. /\ roles \subseteq Slugs /\ system \subseteq roles /\ held \subseteq roles \X Permissions
      /\ grants \subseteq Grants /\ accessCalls \in 0..MaxAccessCalls
      /\ UserKeys \subseteq Permissions /\ MaxAccessCalls \in Nat
  BY DEF AccessInv, AccessTypeOK, AccessAssumption
<1>2. AccessCall => accessCalls' \in 0..MaxAccessCalls
  BY <1>1 DEF AccessCall
<1>3. ASSUME UNCHANGED clerk, roles' \subseteq Slugs, system' \subseteq roles',
             held' \subseteq roles' \X Permissions, grants' \subseteq Grants,
             accessCalls' \in 0..MaxAccessCalls
      PROVE  AccessInv'
  BY <1>3 DEF AccessInv, AccessTypeOK
<1>4. ASSUME NEW h \in Clerks, NEW what, Turns(h, what), WorkTyped(what),
             roles' \subseteq Slugs, system' \subseteq roles',
             held' \subseteq roles' \X Permissions, grants' \subseteq Grants,
             accessCalls' \in 0..MaxAccessCalls
      PROVE  AccessInv'
  BY <1>4, ClerkTurns DEF AccessInv, AccessTypeOK
<1>5. ASSUME NEW r \in Slugs, CreateRole(r) PROVE AccessInv'
  BY <1>1, <1>2, <1>3, <1>5 DEF CreateRole
<1>6. ASSUME NEW r \in Slugs, DeleteRole(r) PROVE AccessInv'
  <2>1. held' \subseteq roles' \X Permissions
    BY <1>1, <1>6 DEF DeleteRole
  <2> QED
    BY <1>1, <1>2, <1>3, <1>6, <2>1 DEF DeleteRole
<1>7. ASSUME NEW s \in Subjects, NEW r \in Slugs, AssignRoleToSubject(s, r) PROVE AccessInv'
  <2>1. [subject |-> s, role |-> r, by |-> "assign"] \in Grants
    BY DEF Grants
  <2> QED
    BY <1>1, <1>2, <1>3, <1>7, <2>1 DEF AssignRoleToSubject
<1>8. ASSUME NEW s \in Subjects, NEW r \in Slugs, RevokeRoleFromSubject(s, r) PROVE AccessInv'
  BY <1>1, <1>2, <1>3, <1>8 DEF RevokeRoleFromSubject
<1>9. ASSUME NEW s \in Subjects, AssignDefaultUserRole(s) PROVE AccessInv'
  <2>1. [subject |-> s, role |-> "user", by |-> "register"] \in Grants
    BY DEF Grants, Slugs
  <2> QED
    BY <1>1, <1>2, <1>3, <1>9, <2>1 DEF AssignDefaultUserRole
<1>10. ASSUME NEW h \in Clerks, NEW r \in Slugs, NEW ks \in SUBSET Permissions, ReplaceKeysRead(h, r, ks)
       PROVE  AccessInv'
  <2>1. WorkTyped(<<"replacing", r, ks, KeysOf(r)>>)
    BY DEF WorkTyped
  <2> QED
    BY <1>1, <1>2, <1>4, <1>10, <2>1 DEF ReplaceKeysRead
<1>11. ASSUME NEW h \in Clerks, NEW s \in Subjects, EnsureReads(h, s) PROVE AccessInv'
  <2>1. WorkTyped(<<"ensuring", s, "user" \in roles, KeysOf("user")>>)
    BY DEF WorkTyped
  <2> QED
    BY <1>1, <1>2, <1>4, <1>11, <2>1 DEF EnsureReads
<1>12. ASSUME NEW h \in Clerks, ReplaceRoleCapabilities(h) PROVE AccessInv'
  <2>1. clerk[h][3] \subseteq Permissions
    BY <1>12 DEF ReplaceRoleCapabilities, ClerkIn, AccessInv, WorkTyped
  <2>2. held' \subseteq roles \X Permissions
    BY <1>1, <1>12, <2>1 DEF ReplaceRoleCapabilities, Replaced
  <2> QED
    BY <1>1, <1>4, <1>12, <2>2, IdleIsTyped DEF ReplaceRoleCapabilities
<1>13. ASSUME NEW h \in Clerks, GiveUpAccess(h) PROVE AccessInv'
  BY <1>1, <1>4, <1>13, IdleIsTyped DEF GiveUpAccess
<1>14. ASSUME NEW h \in Clerks, EnsureBaseRoles(h) PROVE AccessInv'
  <2> DEFINE s == clerk[h][2]
             seen == clerk[h][4]
  <2>1. s \in Subjects
    BY <1>14 DEF EnsureBaseRoles, ClerkIn, AccessInv, WorkTyped
  <2>2. WorkTyped(<<"ensured", s>>)
    BY <2>1 DEF WorkTyped
  <2>3. /\ roles' = roles \union {"user"} /\ system' = system \union {"user"}
        /\ held' = (held \ ({"user"} \X (seen \ UserKeys))) \union ({"user"} \X (UserKeys \ seen))
        /\ Turns(h, <<"ensured", s>>) /\ UNCHANGED <<grants, accessCalls>>
    BY <1>14 DEF EnsureBaseRoles
  <2>4. held' \subseteq roles' \X Permissions
    BY <1>1, <2>3
  <2>5. roles' \subseteq Slugs /\ system' \subseteq roles'
    BY <1>1, <2>3 DEF Slugs
  <2> QED
    BY <1>1, <1>4, <2>2, <2>3, <2>4, <2>5
<1>15. ASSUME NEW h \in Clerks, BootstrapFindsNone(h) PROVE AccessInv'
  <2>1. clerk[h][2] \in Subjects
    BY <1>15 DEF BootstrapFindsNone, ClerkIn, AccessInv, WorkTyped
  <2>2. WorkTyped(<<"creating", clerk[h][2]>>)
    BY <2>1 DEF WorkTyped
  <2> QED
    BY <1>1, <1>4, <1>15, <2>2 DEF BootstrapFindsNone
<1>16. ASSUME NEW h \in Clerks, BootstrapLocks(h) \/ BootstrapCreates(h) PROVE AccessInv'
  <2>1. /\ clerk[h][1] \in {"ensured", "creating"} /\ BindsAdministrator(h) /\ WorkTyped(clerk[h])
        /\ roles' = roles \union {"administrator"}
        /\ system' \in {system, system \union {"administrator"}}
    BY <1>16 DEF BootstrapLocks, BootstrapCreates, ClerkIn, AccessInv
  <2>2. /\ held' \subseteq roles' \X Permissions /\ grants' \subseteq Grants
        /\ Turns(h, <<"idle">>) /\ UNCHANGED accessCalls
    BY <2>1, AdministratorIsTyped
  <2>3. roles' \subseteq Slugs /\ system' \subseteq roles'
    BY <1>1, <2>1 DEF Slugs
  <2> QED
    BY <1>1, <1>4, <2>2, <2>3, IdleIsTyped
<1>17. CASE UNCHANGED accessVars
  BY <1>1, <1>3, <1>17 DEF accessVars
<1> QED
  BY <1>5, <1>6, <1>7, <1>8, <1>9, <1>10, <1>11, <1>12, <1>13, <1>14, <1>15, <1>16, <1>17 DEF AccessNext

LEMMA AccessKeepsTypes == AccessSpec => []AccessTypeOK
<1>1. AccessInit => AccessInv
  BY AccessAssumption, IdleIsTyped DEF AccessInit, AccessInv, AccessTypeOK, AccessAssumption
<1>2. AccessInv => AccessTypeOK
  BY DEF AccessInv
<1> QED
  BY <1>1, <1>2, AccessStep, AccessAssumption, PTL DEF AccessSpec

AssetCounters ==
    /\ intent \in [Intents -> {"none", "open", "expired", "consumed"}]
    /\ inStore \subseteq Objects
    /\ \A f \in Flows : flow[f].attempts <= MaxStepAttempts
    /\ overlaps \in 0..MaxOverlaps /\ assetCalls \in 0..MaxAssetCalls

\* Whatever is recorded of a step, its attempts stay within the retries there are.
LEMMA AttemptsAreBounded ==
  ASSUME AssetsAssumption, AssetsTyped, AssetCounters,
         \/ UNCHANGED flow
         \/ \E f, goal : StartsFlow(f, goal)
         \/ \E f, from, goal : Records(f, from, goal)
         \/ \E f, from, forGood : FailsStep(f, from, forGood)
  PROVE  \A g \in Flows : flow'[g].attempts <= MaxStepAttempts
<1>1. /\ flow \in [Flows -> [step : Stages, attempts : Nat]] /\ MaxStepAttempts \in Nat
      /\ \A g \in Flows : flow[g].attempts \in Nat /\ flow[g].attempts <= MaxStepAttempts
  BY DEF AssetsTyped, AssetCounters, AssetsAssumption
<1>2. CASE UNCHANGED flow
  BY <1>1, <1>2
<1>3. ASSUME NEW f, NEW goal, StartsFlow(f, goal) PROVE \A g \in Flows : flow'[g].attempts <= MaxStepAttempts
  <2>1. flow' = flow \/ flow' = [flow EXCEPT ![f].step = goal]
    BY <1>3 DEF StartsFlow
  <2> QED
    BY <1>1, <2>1
<1>4. ASSUME NEW f, NEW from, NEW goal, Records(f, from, goal)
      PROVE  \A g \in Flows : flow'[g].attempts <= MaxStepAttempts
  <2>1. flow' = flow \/ flow' = [flow EXCEPT ![f] = [step |-> goal, attempts |-> 0]]
    BY <1>4 DEF Records
  <2> QED
    BY <1>1, <2>1
<1>5. ASSUME NEW f, NEW from, NEW forGood, FailsStep(f, from, forGood)
      PROVE  \A g \in Flows : flow'[g].attempts <= MaxStepAttempts
  <2>1. \/ flow' = flow
        \/ flow' = [flow EXCEPT ![f].step = "failed"]
        \/ /\ flow' = [flow EXCEPT ![f].attempts = @ + 1]
           /\ ~(flow[f].attempts + 1 >= MaxStepAttempts)
    BY <1>5 DEF FailsStep
  <2> QED
    BY <1>1, <2>1
<1> QED
  BY <1>2, <1>3, <1>4, <1>5

LEMMA AssetCountersStep ==
  ASSUME AssetsAssumption, AssetsInv, AssetCounters, [AssetsNext]_assetsVars
  PROVE  AssetCounters'
<1> DEFINE FlowMoves == \/ UNCHANGED flow
                        \/ \E f, goal : StartsFlow(f, goal)
                        \/ \E f, from, goal : Records(f, from, goal)
                        \/ \E f, from, forGood : FailsStep(f, from, forGood)
<1>1. /\ intent \in [Intents -> {"none", "open", "expired", "consumed"}] /\ inStore \subseteq Objects
      /\ overlaps \in 0..MaxOverlaps /\ assetCalls \in 0..MaxAssetCalls /\ images \in Nat
      /\ MaxOverlaps \in Nat /\ MaxAssetCalls \in Nat /\ MaxImages \in Nat
  BY DEF AssetsInv, AssetsTyped, AssetCounters, AssetsAssumption
<1>2. AssetCall => assetCalls' \in 0..MaxAssetCalls
  BY <1>1 DEF AssetCall
<1>3. FlowMoves => \A g \in Flows : flow'[g].attempts <= MaxStepAttempts
  BY AttemptsAreBounded DEF AssetsInv
<1>4. ASSUME FlowMoves, intent' \in [Intents -> {"none", "open", "expired", "consumed"}],
             inStore' \subseteq Objects, overlaps' \in 0..MaxOverlaps, assetCalls' \in 0..MaxAssetCalls
      PROVE  AssetCounters'
  BY <1>3, <1>4 DEF AssetCounters
<1> HIDE DEF FlowMoves
<1>5. ASSUME NEW i \in Intents, \/ CreateUploadIntent(i) \/ ClientUploads(i) \/ IntentExpires(i)
                                \/ FinalizeAsset(i) \/ FinalizeContentImage(i) \/ RegisterExternalAsset(i)
      PROVE  AssetCounters'
  <2>1. FlowMoves
    BY <1>5 DEF FlowMoves, CreateUploadIntent, ClientUploads, IntentExpires, FinalizeAsset,
                FinalizeContentImage, RegisterExternalAsset
  <2>2. /\ intent' \in [Intents -> {"none", "open", "expired", "consumed"}]
        /\ inStore' \subseteq Objects /\ overlaps' \in 0..MaxOverlaps /\ assetCalls' \in 0..MaxAssetCalls
    BY <1>1, <1>2, <1>5 DEF CreateUploadIntent, ClientUploads, IntentExpires, FinalizeAsset,
                FinalizeContentImage, RegisterExternalAsset, Objects
  <2> QED
    BY <1>4, <2>1, <2>2
<1>6. ASSUME NEW o \in Objects, \/ ReconcileDeletion(o) \/ \E h \in Hands : DeleteAsset(h, o)
      PROVE  AssetCounters'
  <2>1. FlowMoves
    BY <1>6 DEF FlowMoves, ReconcileDeletion, DeleteAsset
  <2> QED
    BY <1>1, <1>2, <1>4, <1>6, <2>1 DEF ReconcileDeletion, DeleteAsset
<1>7. ASSUME NEW h \in Hands, \/ \E f \in Flows : TakeStep(h, f)
                              \/ StartDeletion(h) \/ SkipFinalize(h) \/ NormalizeReads(h)
                              \/ DiscardSource(h) \/ ConfirmDeletion(h) \/ CrashHand(h)
      PROVE  AssetCounters'
  <2>1. FlowMoves
    BY <1>7 DEF FlowMoves, TakeStep, StartDeletion, SkipFinalize, NormalizeReads, DiscardSource,
                ConfirmDeletion, CrashHand
  <2>2. overlaps' \in 0..MaxOverlaps /\ assetCalls' \in 0..MaxAssetCalls /\ UNCHANGED <<intent, inStore>>
    <3>1. CASE \E f \in Flows : TakeStep(h, f)
      <4>1. overlaps' \in {overlaps, overlaps + 1} /\ overlaps' <= MaxOverlaps
            /\ UNCHANGED <<intent, inStore, assetCalls>>
        BY <3>1 DEF TakeStep
      <4> QED
        BY <1>1, <4>1
    <3> QED
      BY <1>1, <1>2, <1>7, <3>1 DEF StartDeletion, SkipFinalize, NormalizeReads, DiscardSource,
                ConfirmDeletion, CrashHand
  <2> QED
    BY <1>1, <1>4, <2>1, <2>2
<1>8. ASSUME NEW h \in Hands, \/ FinalizeActivity(h) \/ PutImage(h) \/ CommitImage(h)
                              \/ ClearSource(h) \/ DeleteObject(h)
      PROVE  AssetCounters'
  <2>1. FlowMoves
    BY <1>8 DEF FlowMoves, FinalizeActivity, PutImage, CommitImage, ClearSource, DeleteObject
  <2>2. UNCHANGED <<overlaps, assetCalls>>
    BY <1>8 DEF FinalizeActivity, PutImage, CommitImage, ClearSource, DeleteObject
  <2>3. \/ intent' = intent
        \/ \E i : intent' = [intent EXCEPT ![i] = "consumed"]
    BY <1>8 DEF FinalizeActivity, PutImage, CommitImage, ClearSource, DeleteObject
  <2>4. \/ inStore' = inStore
        \/ images < MaxImages /\ inStore' = inStore \union {images + 1}
        \/ \E i : inStore' = inStore \ {i}
    BY <1>8 DEF FinalizeActivity, PutImage, CommitImage, ClearSource, DeleteObject
  <2>5. intent' \in [Intents -> {"none", "open", "expired", "consumed"}]
    BY <1>1, <2>3
  <2>6. inStore' \subseteq Objects
    BY <1>1, <2>4 DEF Objects
  <2> QED
    BY <1>1, <1>4, <2>1, <2>2, <2>5, <2>6
<1>9. CASE UNCHANGED assetsVars
  <2>1. FlowMoves
    BY <1>9 DEF FlowMoves, assetsVars
  <2> QED
    BY <1>1, <1>4, <1>9, <2>1 DEF assetsVars
<1> QED
  BY <1>5, <1>6, <1>7, <1>8, <1>9 DEF AssetsNext

LEMMA AssetsKeepTypes == AssetsSpec => []AssetsTypeOK
<1> USE AssetsAssumption
<1>1. AssetsInit => AssetCounters
  BY DEF AssetsInit, AssetCounters, AssetsAssumption
<1>2. AssetsInv /\ AssetCounters => AssetsTypeOK
  <2> SUFFICES ASSUME AssetsInv, AssetCounters PROVE AssetsTypeOK
    OBVIOUS
  <2>1. /\ asset \in [Objects -> AssetRows] /\ flow \in [Flows -> [step : Stages, attempts : Nat]]
        /\ hand = [h \in Hands |-> hand[h]] /\ images \in 0..MaxImages
        /\ \A f \in Flows : flow[f].attempts <= MaxStepAttempts /\ MaxStepAttempts \in Nat
    BY DEF AssetsInv, AssetsTyped, AssetCounters, AssetsAssumption
  <2>2. flow \in [Flows -> [step : Stages, attempts : 0..MaxStepAttempts]]
    BY <2>1
  <2> QED
    BY <2>1, <2>2 DEF AssetsTypeOK, AssetCounters, AssetRows, Stages
<1> QED
  BY <1>1, <1>2, AssetsStart, AssetsStep, AssetCountersStep, PTL DEF AssetsSpec

LEMMA LeastOfNats ==
  ASSUME NEW S, S \subseteq Nat, S # {}
  PROVE  \E x \in S : \A y \in S : x <= y
<1>1. PICK x \in S : \A y \in S : <<y, x>> \notin OpToRel(<, Nat)
  BY NatLessThanWellFounded, WFMin
<1>2. \A y \in S : ~(y < x)
  BY <1>1 DEF OpToRel
<1> QED
  BY <1>2

SecretRows == [version : Nat, revoked : BOOLEAN]
LoginRows == [expires : Nat, revoked : BOOLEAN]

\* A rotation under way writes the version after one that was there.
RotationTyped(read, mark, n) ==
    read # <<>> /\ read[1] = "rotating" => mark # "none" /\ read[3] \in 1..(n + 1)

ClientTyped ==
    /\ client \in {"none", "active", "disabled"}
    /\ consent \in {"none", "given", "revoked"}
    /\ sessions \in Seq(LoginRows)
    /\ secret \in Seq(SecretRows) /\ Len(secret) <= MaxSecrets
    /\ \A i \in 1..Len(secret) : secret[i].version \in 1..Len(secret)
    /\ client = "none" => Len(secret) = 0
    /\ \A r \in Requests : RotationTyped(request[r], client, Len(secret))

LEMMA LatestIsThere ==
  ASSUME SignInAssumption, ClientTyped
  PROVE  LatestVersion \in 0..Len(secret)
<1> DEFINE n == Len(secret)
           above == {v \in Nat : \A i \in 1..n : secret[i].version <= v}
           Latest(v) == /\ v = 0 \/ \E i \in DOMAIN secret : secret[i].version = v
                        /\ \A i \in DOMAIN secret : secret[i].version <= v
<1>1. /\ secret \in Seq(SecretRows) /\ n \in Nat /\ n <= MaxSecrets /\ MaxSecrets \in Nat
      /\ \A i \in 1..n : secret[i].version \in 1..n
      /\ DOMAIN secret = 1..n
  BY DEF ClientTyped, SignInAssumption
<1> HIDE DEF n
<1>2. n \in above
  BY <1>1
<1>3. PICK m \in above : \A v \in above : m <= v
  <2>1. above \subseteq Nat /\ above # {}
    BY <1>2
  <2> HIDE DEF above
  <2> QED
    BY <2>1, LeastOfNats
<1>4. m \in 0..n
  BY <1>1, <1>2, <1>3
<1>5. m = 0 \/ \E i \in 1..n : secret[i].version = m
  <2> SUFFICES ASSUME m # 0, \A i \in 1..n : secret[i].version # m PROVE FALSE
    OBVIOUS
  <2>1. m - 1 \in Nat /\ \A i \in 1..n : secret[i].version <= m - 1
    BY <1>1, <1>3, <1>4
  <2>2. m - 1 \in above
    BY <2>1
  <2> QED
    BY <1>3, <1>4, <2>2
<1>6. Latest(m) /\ m \in 0..MaxSecrets
  <2>1. \A i \in 1..n : secret[i].version <= m
    BY <1>3
  <2>2. m \in 0..MaxSecrets
    BY <1>1, <1>4
  <2> HIDE DEF above
  <2> QED
    BY <1>1, <1>5, <2>1, <2>2
<1>7. LatestVersion \in 0..MaxSecrets /\ Latest(LatestVersion)
  <2>1. LatestVersion = CHOOSE v \in 0..MaxSecrets : Latest(v)
    BY DEF LatestVersion
  <2> HIDE DEF Latest
  <2> QED
    BY <1>6, <2>1
<1> QED
  BY <1>1, <1>7

LEMMA RotationsStayTyped ==
  ASSUME ClientTyped, SignInInv, NEW n \in Nat, Len(secret) <= n, client # "none" => client' # "none",
         \/ UNCHANGED request
         \/ \E r \in Requests : \E read :
               /\ request' = [request EXCEPT ![r] = read]
               /\ read # <<>> /\ read[1] = "rotating" => client' # "none" /\ read[3] \in 1..(n + 1)
  PROVE  \A r \in Requests : RotationTyped(request'[r], client', n)
<1>1. Len(secret) \in Nat /\ \A r \in Requests : RotationTyped(request[r], client, Len(secret))
  BY DEF ClientTyped
<1>2. CASE UNCHANGED request
  BY <1>1, <1>2 DEF RotationTyped
<1>3. ASSUME NEW r \in Requests, NEW read, request' = [request EXCEPT ![r] = read],
             read # <<>> /\ read[1] = "rotating" => client' # "none" /\ read[3] \in 1..(n + 1)
      PROVE  \A q \in Requests : RotationTyped(request'[q], client', n)
  <2>1. \A q \in Requests : request'[q] = IF q = r THEN read ELSE request[q]
    BY <1>3 DEF SignInInv
  <2> QED
    BY <1>1, <1>3, <2>1 DEF RotationTyped
<1> QED
  BY <1>2, <1>3

LEMMA ClientStep ==
  ASSUME SignInAssumption, SignInInv, ClientTyped, [SignInNext]_signInVars
  PROVE  ClientTyped'
<1> DEFINE n == Len(secret)
<1>1. /\ secret \in Seq(SecretRows) /\ n \in Nat /\ n <= MaxSecrets /\ sessions \in Seq(LoginRows)
      /\ \A i \in 1..n : secret[i].version \in 1..n
      /\ MaxSecrets \in Nat \ {0} /\ AbsoluteLife \in Nat /\ signNow \in Nat
  BY DEF ClientTyped, SignInAssumption, SignInInv
<1>2. \A i \in SessionIds : sessions[i] \in LoginRows
  BY <1>1 DEF SessionIds
<1>3. NewSession \in LoginRows
  BY <1>1 DEF NewSession, LoginRows
<1>4. Append(sessions, NewSession) \in Seq(LoginRows) /\ EnsureSession \in Seq(LoginRows)
  BY <1>1, <1>3 DEF EnsureSession
<1>5. \A i \in SessionIds : [sessions[i] EXCEPT !.revoked = TRUE] \in LoginRows
  BY <1>2 DEF LoginRows
\* All but the client's registration and the rotation of its secrets.
<1>6. ASSUME UNCHANGED secret, client' \in {"none", "active", "disabled"}, client # "none" => client' # "none",
             client' = "none" => client = "none",
             consent' \in {"none", "given", "revoked"}, sessions' \in Seq(LoginRows),
             \/ UNCHANGED request
             \/ \E r \in Requests : \E read :
                   /\ request' = [request EXCEPT ![r] = read]
                   /\ read # <<>> /\ read[1] = "rotating" => client' # "none" /\ read[3] \in 1..(n + 1)
      PROVE  ClientTyped'
  <2>11. n \in Nat /\ Len(secret) <= n
    BY <1>1
  <2>1. \A r \in Requests : RotationTyped(request'[r], client', n)
    <3> HIDE DEF n
    <3> QED
      BY <1>6, <2>11, RotationsStayTyped, Zenon
  <2> QED
    BY <1>6, <2>1 DEF ClientTyped
<1>7. client \in {"none", "active", "disabled"} /\ consent \in {"none", "given", "revoked"}
  BY DEF ClientTyped
<1>8. CASE RegisterClient
  <2> DEFINE first == <<[version |-> 1, revoked |-> FALSE]>>
  <2>1. secret' = first /\ client = "none" /\ client' = "active" /\ UNCHANGED <<consent, sessions, request>>
    BY <1>8 DEF RegisterClient, OneStep
  <2>2. first \in Seq(SecretRows) /\ Len(first) = 1 /\ first[1].version = 1
    BY DEF SecretRows
  <2>3. n = 0
    BY <2>1 DEF ClientTyped
  <2> HIDE DEF n, first
  <2>4. \A r \in Requests : RotationTyped(request'[r], client', 1)
    BY <2>1, <2>3, RotationsStayTyped DEF n
  <2> QED
    BY <1>1, <1>7, <2>1, <2>2, <2>4 DEF ClientTyped
<1>9. CASE DisableClient \/ EnableClient \/ SignInTimePasses \/ IssueCode \/ ReplayToken \/ RevokeToken
  BY <1>1, <1>6, <1>7, <1>9 DEF DisableClient, EnableClient, SignInTimePasses, IssueCode, ReplayToken,
                                RevokeToken, OneStep
<1>10. CASE EstablishSession
  BY <1>4, <1>6, <1>7, <1>10 DEF EstablishSession, OneStep
<1>11. CASE RevokeConsent \/ RevokeSubjectSessions
  <2>1. sessions' \in [1..Len(sessions) -> LoginRows]
    BY <1>2, <1>5, <1>11 DEF RevokeConsent, RevokeSubjectSessions, SessionsRevoked, SessionIds
  <2>11. Len(sessions) \in Nat
    BY <1>1
  <2>2. sessions' \in Seq(LoginRows)
    BY <2>1, <2>11, MappedSequence, Zenon
  <2> QED
    BY <1>6, <1>7, <1>11, <2>2 DEF RevokeConsent, RevokeSubjectSessions, OneStep
<1>12. ASSUME NEW r \in Requests, RotateReads(r) PROVE ClientTyped'
  <2> DEFINE read == <<"rotating", {i \in DOMAIN secret : ~secret[i].revoked}, LatestVersion + 1>>
  <2>1. /\ client # "none" /\ request' = [request EXCEPT ![r] = read]
        /\ UNCHANGED <<client, secret, consent, sessions>>
    BY <1>12 DEF RotateReads, OpensRequest
  <2>2. read[3] \in 1..(n + 1)
    BY <1>1, LatestIsThere
  <2> HIDE DEF read
  <2> QED
    BY <1>1, <1>6, <1>7, <2>1, <2>2
<1>13. ASSUME NEW r \in Requests, NEW read, request' = [request EXCEPT ![r] = read],
              read # <<>> => read[1] # "rotating", UNCHANGED <<client, secret>>,
              consent' \in {"none", "given", "revoked"}, sessions' \in Seq(LoginRows)
       PROVE  ClientTyped'
  BY <1>6, <1>7, <1>13
<1>14. ASSUME NEW r \in Requests, ExchangeReads(r) \/ RefreshReads(r) \/ LogoutReads(r) \/ GiveUpSignIn(r)
       PROVE  ClientTyped'
  <2>1. PICK read : /\ request' = [request EXCEPT ![r] = read] /\ (read # <<>> => read[1] # "rotating")
                    /\ UNCHANGED <<client, secret, consent, sessions>>
    <3>1. CASE ExchangeReads(r) \/ RefreshReads(r)
      BY <3>1 DEF ExchangeReads, RefreshReads, OpensRequest
    <3>2. CASE LogoutReads(r) \/ GiveUpSignIn(r)
      BY <3>2 DEF LogoutReads, GiveUpSignIn, OpensRequest, Ends
    <3> QED
      BY <1>14, <3>1, <3>2
  <2> QED
    BY <1>1, <1>7, <1>13, <2>1
<1>15. ASSUME NEW r \in Requests, ExchangeCode(r) \/ RefreshToken(r) PROVE ClientTyped'
  <2>1. /\ request' = [request EXCEPT ![r] = <<>>] /\ UNCHANGED <<client, secret>>
        /\ consent' \in {consent, "given"} /\ sessions' \in {sessions, EnsureSession}
    BY <1>15 DEF ExchangeCode, RefreshToken, Ends, EnsureGrant
  <2> QED
    BY <1>1, <1>4, <1>7, <1>13, <2>1
<1>16. ASSUME NEW r \in Requests, Logout(r) PROVE ClientTyped'
  <2>1. /\ request' = [request EXCEPT ![r] = <<>>] /\ UNCHANGED <<client, secret, consent>>
        /\ \E i : sessions' = [sessions EXCEPT ![i].revoked = TRUE]
    BY <1>16 DEF Logout, Ends
  <2>2. PICK i : sessions' = [sessions EXCEPT ![i].revoked = TRUE]
    BY <2>1
  <2>3. sessions' \in [1..Len(sessions) -> LoginRows]
    <3>1. sessions \in [1..Len(sessions) -> LoginRows]
      BY <1>1
    <3>2. sessions' = [j \in 1..Len(sessions) |->
                         IF j = i THEN [sessions[j] EXCEPT !.revoked = TRUE] ELSE sessions[j]]
      BY <2>2, <3>1
    <3> QED
      BY <1>2, <1>5, <3>2 DEF SessionIds
  <2>11. Len(sessions) \in Nat
    BY <1>1
  <2>4. sessions' \in Seq(LoginRows)
    BY <2>3, <2>11, MappedSequence, Zenon
  <2> QED
    BY <1>1, <1>7, <1>13, <2>1, <2>4
<1>17. ASSUME NEW r \in Requests, RotateClientSecret(r) PROVE ClientTyped'
  <2> DEFINE ended == [i \in DOMAIN secret |-> [secret[i] EXCEPT !.revoked = @ \/ i \in request[r][2]]]
             drawn == [version |-> request[r][3], revoked |-> FALSE]
  <2>1. /\ request[r] # <<>> /\ request[r][1] = "rotating" /\ request' = [request EXCEPT ![r] = <<>>]
        /\ n < MaxSecrets /\ secret' = Append(ended, drawn) /\ UNCHANGED <<client, consent, sessions>>
    BY <1>17 DEF RotateClientSecret, Reads, Ends
  <2>2. client # "none" /\ request[r][3] \in 1..(n + 1)
    BY <2>1 DEF ClientTyped, RotationTyped
  <2>3. \A i \in 1..n : secret[i] \in SecretRows
    BY <1>1
  <2>4. \A i \in 1..n : /\ [secret[i] EXCEPT !.revoked = @ \/ i \in request[r][2]] \in SecretRows
                        /\ [secret[i] EXCEPT !.revoked = @ \/ i \in request[r][2]].version = secret[i].version
    BY <2>3 DEF SecretRows
  <2>11. DOMAIN secret = 1..n
    BY <1>1
  <2>5. ended \in [1..n -> SecretRows] /\ \A i \in 1..n : ended[i].version = secret[i].version
    BY <2>4, <2>11
  <2>6. ended \in Seq(SecretRows) /\ Len(ended) = n
    BY <1>1, <2>5, MappedSequence
  <2>7. drawn \in SecretRows /\ drawn.version \in 1..(n + 1)
    BY <1>1, <2>2 DEF SecretRows
  <2> HIDE DEF ended, drawn
  <2>8. /\ secret' \in Seq(SecretRows) /\ Len(secret') = n + 1 /\ secret'[n + 1] = drawn
        /\ \A i \in 1..n : secret'[i] = ended[i]
    BY <2>1, <2>6, <2>7, AppendedRow
  <2> HIDE DEF n
  <2>9. \A i \in 1..(n + 1) : secret'[i].version \in 1..(n + 1)
    <3> TAKE i \in 1..(n + 1)
    <3>1. i \in 1..n \/ i = n + 1
      BY <1>1
    <3>2. CASE i \in 1..n
      <4>1. secret'[i].version = secret[i].version
        BY <2>5, <2>8, <3>2
      <4> QED
        BY <1>1, <3>2, <4>1
    <3>3. CASE i = n + 1
      BY <2>7, <2>8, <3>3
    <3> QED
      BY <3>1, <3>2, <3>3
  <2>10. \A q \in Requests : RotationTyped(request'[q], client', n + 1)
    <3>1. \E q \in Requests : \E read :
             /\ request' = [request EXCEPT ![q] = read]
             /\ read # <<>> /\ read[1] = "rotating" => client' # "none" /\ read[3] \in 1..(n + 1 + 1)
      BY <2>1
    <3>2. n + 1 \in Nat /\ Len(secret) <= n + 1
      BY <1>1 DEF n
    <3> QED
      BY <2>1, <3>1, <3>2, RotationsStayTyped
  <2> QED
    BY <1>1, <1>7, <2>1, <2>2, <2>8, <2>9, <2>10 DEF ClientTyped
<1>18. CASE UNCHANGED signInVars
  BY <1>1, <1>6, <1>7, <1>18 DEF signInVars
<1> QED
  BY <1>8, <1>9, <1>10, <1>11, <1>12, <1>14, <1>15, <1>16, <1>17, <1>18 DEF SignInNext

LEMMA SignInKeepsTypes == SignInSpec => []SignInTypeOK
<1> USE SignInAssumption
<1>1. SignInInit => ClientTyped
  BY DEF SignInInit, ClientTyped, RotationTyped, SignInAssumption
<1>2. SignInInv /\ ClientTyped => SignInTypeOK
  <2> SUFFICES ASSUME SignInInv, ClientTyped PROVE SignInTypeOK
    OBVIOUS
  <2>1. /\ codes \in Seq(CodeRows) /\ families \in Seq(FamilyRows) /\ tokens \in Seq(TokenRows)
        /\ sessions \in Seq(LoginRows) /\ secret \in Seq(SecretRows)
    BY DEF SignInInv, TokensOf, ClientTyped
  <2>2. /\ \A i \in 1..Len(codes) : codes[i] \in CodeRows
        /\ \A i \in 1..Len(families) : families[i] \in FamilyRows
        /\ \A i \in 1..Len(tokens) : tokens[i] \in TokenRows
        /\ \A i \in 1..Len(sessions) : sessions[i] \in LoginRows
        /\ \A i \in 1..Len(secret) : secret[i] \in SecretRows
        /\ DOMAIN secret = 1..Len(secret) /\ Len(secret) \in Nat /\ Len(codes) \in Nat
    BY <2>1, RowsOfSequence, Zenon
  <2>3. \A f \in FamilyIds : families[f] \in [code : 0..Len(codes), revoked : BOOLEAN, reused : BOOLEAN]
    <3> TAKE f \in FamilyIds
    <3>1. families[f] \in FamilyRows
      BY <2>2 DEF FamilyIds
    <3>2. families[f].code # 0 => families[f].code \in 1..Len(codes)
      BY DEF SignInInv, CodesSpent, FamilyIds
    <3>3. families[f].code \in 0..Len(codes)
      BY <2>2, <3>2
    <3> QED
      BY <3>1, <3>3 DEF FamilyRows
  <2>4. \A t \in TokenIds : tokens[t] \in [family : FamilyIds, expires : Nat, idle : Nat, rotated : BOOLEAN,
                                          revoked : BOOLEAN, known : BOOLEAN]
    <3> TAKE t \in TokenIds
    <3>1. tokens[t] \in TokenRows
      BY <2>2 DEF TokenIds
    <3>2. tokens[t].family \in FamilyIds
      BY DEF SignInInv, TokensOf, TokenIds, FamilyIds
    <3> QED
      BY <3>1, <3>2 DEF TokenRows
  <2>5. \A i \in DOMAIN secret : secret[i] \in [version : 1..MaxSecrets, revoked : BOOLEAN]
    <3>1. \A i \in 1..Len(secret) : secret[i].version \in 1..Len(secret)
      BY DEF ClientTyped
    <3>2. Len(secret) <= MaxSecrets /\ MaxSecrets \in Nat
      BY DEF ClientTyped, SignInAssumption
    <3> QED
      BY <2>2, <3>1, <3>2 DEF SecretRows
  <2> QED
    BY <2>2, <2>3, <2>4, <2>5 DEF SignInTypeOK, SignInInv, ClientTyped, CodeIds, SessionIds, CodeRows, LoginRows
<1>3. SignInInv /\ [SignInNext]_signInVars => SignInInv'
  BY SignInStep DEF SignInKept
<1> QED
  BY <1>1, <1>2, <1>3, SignInStarts, ClientStep, PTL DEF SignInSpec

-----------------------------------------------------------------------------
(* Notification: the workflows are no more than the commands that opened   *)
(* them, each has MaxSends tries at most, and a delivery counts no attempt *)
(* that is not one of them.                                                *)

WorkflowRows == [state : {"none", "live", "ended"}, tries : 0..MaxSends]
WorkflowSound(f) == /\ f \in WorkflowRows
                    /\ f.state = "none" => f.tries = 0
                    /\ f.state = "live" => f.tries < MaxSends
WorkflowsSound(fl) == fl \in [FlowKeys -> WorkflowRows] /\ \A n \in FlowKeys : WorkflowSound(fl[n])

\* The workflows that were started, and the tries that are behind them.
StartedIn(fl) == {n \in FlowKeys : fl[n].state # "none"}
TriedIn(fl) == {x \in FlowKeys \X (1..MaxSends) : x[2] <= fl[x[1]].tries \/ fl[x[1]].state = "ended"}

\* The commands that will start one.
OpensFlow == {"start", "retry"}
Opening == {s \in Staff : admin[s].does \in OpensFlow}

StaffSound(a, tried) ==
    \/ a = AtEase
    \/ \E does \in {"start", "retry", "cancel"}, seen \in DeliveryRows, n \in FlowKeys :
          a = [does |-> does, row |-> seen, flow |-> n] /\ seen.attempt <= tried

NotificationBounded ==
    /\ notices \in 0..MaxNotices /\ unrecorded \in BOOLEAN
    /\ notice \in {"absent", "pending", "delivered", "cancelled"}
    /\ outcomes \subseteq FlowKeys
    /\ WorkflowsSound(flows)
    /\ IsFiniteSet(Opening) /\ Cardinality(StartedIn(flows)) + Cardinality(Opening) <= notices
    /\ delivery.attempt <= Cardinality(TriedIn(flows))
    /\ \A c \in Couriers : Sends(c) => /\ run[c].flow \in FlowKeys
                                       /\ run[c].row.attempt <= Cardinality(TriedIn(flows))
    /\ DOMAIN admin = Staff
    /\ \A s \in Staff : StaffSound(admin[s], Cardinality(TriedIn(flows)))

LEMMA KeysAreNumbers ==
  ASSUME NotificationAssumption
  PROVE  FlowKeys \subseteq Nat /\ 0 \in FlowKeys /\ IsFiniteSet(FlowKeys)
<1>1. MaxSends * (MaxNotices + 1) \in Nat
  BY DEF NotificationAssumption
<1>2. IsFiniteSet(0..(MaxSends * (MaxNotices + 1)))
  BY <1>1, FS_Interval
<1> QED
  BY <1>1, <1>2 DEF FlowKeys

LEMMA TriesAreCounted ==
  ASSUME NotificationAssumption, NEW fl, WorkflowsSound(fl)
  PROVE  /\ IsFiniteSet(StartedIn(fl)) /\ Cardinality(StartedIn(fl)) \in Nat
         /\ IsFiniteSet(TriedIn(fl)) /\ Cardinality(TriedIn(fl)) \in Nat
         /\ Cardinality(TriedIn(fl)) <= Cardinality(StartedIn(fl)) * MaxSends
<1>1. IsFiniteSet(StartedIn(fl)) /\ Cardinality(StartedIn(fl)) \in Nat
  <2>1. StartedIn(fl) \subseteq FlowKeys
    BY DEF StartedIn
  <2> QED
    BY <2>1, KeysAreNumbers, FS_Subset, FS_CardinalityType
<1>2. IsFiniteSet(1..MaxSends) /\ Cardinality(1..MaxSends) = MaxSends
  BY FS_Interval DEF NotificationAssumption
<1>3. IsFiniteSet(StartedIn(fl) \X (1..MaxSends))
      /\ Cardinality(StartedIn(fl) \X (1..MaxSends)) = Cardinality(StartedIn(fl)) * MaxSends
  BY <1>1, <1>2, FS_Product
<1>4. TriedIn(fl) \subseteq StartedIn(fl) \X (1..MaxSends)
  <2> SUFFICES ASSUME NEW n \in FlowKeys, NEW i \in 1..MaxSends, <<n, i>> \in TriedIn(fl)
               PROVE  n \in StartedIn(fl)
    BY DEF TriedIn
  <2>1. i <= fl[n].tries \/ fl[n].state = "ended"
    BY DEF TriedIn
  <2>2. WorkflowSound(fl[n]) /\ i > 0
    BY DEF WorkflowsSound
  <2> QED
    BY <2>1, <2>2 DEF WorkflowSound, WorkflowRows, StartedIn
<1> QED
  BY <1>1, <1>3, <1>4, FS_Subset, FS_CardinalityType

LEMMA ProductsGrow ==
  ASSUME NEW i \in Nat, NEW j \in Nat, NEW k \in Nat, i <= j
  PROVE  i * k <= j * k
OBVIOUS

\* The next attempt is a key a workflow may have.
LEMMA NextAttemptIsAKey ==
  ASSUME NotificationAssumption, NotificationBounded
  PROVE  0..(Cardinality(TriedIn(flows)) + 1) \subseteq FlowKeys
<1> DEFINE started == Cardinality(StartedIn(flows))
           tried == Cardinality(TriedIn(flows))
<1>1. started \in Nat /\ tried \in Nat /\ tried <= started * MaxSends /\ Cardinality(Opening) \in Nat
  BY TriesAreCounted, FS_CardinalityType DEF NotificationBounded
<1>2. started + Cardinality(Opening) <= notices /\ notices \in 0..MaxNotices
  BY DEF NotificationBounded
<1> HIDE DEF started, tried
<1>3. MaxSends \in Nat /\ MaxSends >= 1 /\ MaxNotices \in Nat
  BY DEF NotificationAssumption
<1>4. started <= MaxNotices
  BY <1>1, <1>2, <1>3
<1>5. started * MaxSends <= MaxNotices * MaxSends
  BY <1>1, <1>3, <1>4, ProductsGrow
<1>6. MaxSends * (MaxNotices + 1) = MaxNotices * MaxSends + MaxSends
      /\ started * MaxSends \in Nat /\ MaxNotices * MaxSends \in Nat
  BY <1>1, <1>3
<1>7. tried + 1 <= MaxSends * (MaxNotices + 1)
  BY <1>1, <1>3, <1>5, <1>6
<1> QED
  BY <1>1, <1>3, <1>6, <1>7 DEF FlowKeys, tried

LEMMA DesksCounted ==
  ASSUME IsFiniteSet(Opening), DOMAIN admin = Staff, NEW s \in Staff, NEW a,
         admin' = [admin EXCEPT ![s] = a]
  PROVE  /\ IsFiniteSet(Opening') /\ Cardinality(Opening') \in Nat /\ Cardinality(Opening) \in Nat
         /\ Cardinality(Opening') <= Cardinality(Opening) + 1
         /\ (a.does \notin OpensFlow \/ s \in Opening) => Cardinality(Opening') <= Cardinality(Opening)
         /\ a.does \notin OpensFlow /\ s \in Opening => Cardinality(Opening') = Cardinality(Opening) - 1
<1>1. Opening' = IF a.does \in OpensFlow THEN Opening \union {s} ELSE Opening \ {s}
  BY DEF Opening
<1>2. /\ IsFiniteSet(Opening \union {s}) /\ IsFiniteSet(Opening \ {s}) /\ Cardinality(Opening) \in Nat
      /\ Cardinality(Opening \union {s})
           = IF s \in Opening THEN Cardinality(Opening) ELSE Cardinality(Opening) + 1
      /\ Cardinality(Opening \ {s})
           = IF s \in Opening THEN Cardinality(Opening) - 1 ELSE Cardinality(Opening)
  BY FS_AddElement, FS_RemoveElement, FS_CardinalityType
<1>3. Cardinality(Opening \union {s}) \in Nat /\ Cardinality(Opening \ {s}) \in Nat
  BY <1>2, FS_CardinalityType
<1> QED
  BY <1>1, <1>2, <1>3

\* More tries are behind the workflows, so what was sound is.
LEMMA TriesOnlyGrow ==
  ASSUME NotificationAssumption, NEW fl, NEW later, WorkflowsSound(fl), WorkflowsSound(later),
         TriedIn(fl) \subseteq TriedIn(later)
  PROVE  /\ Cardinality(TriedIn(fl)) <= Cardinality(TriedIn(later))
         /\ \A k \in Nat : k <= Cardinality(TriedIn(fl)) => k <= Cardinality(TriedIn(later))
         /\ \A a : StaffSound(a, Cardinality(TriedIn(fl))) => StaffSound(a, Cardinality(TriedIn(later)))
<1>1. /\ Cardinality(TriedIn(fl)) \in Nat /\ Cardinality(TriedIn(later)) \in Nat
      /\ Cardinality(TriedIn(fl)) <= Cardinality(TriedIn(later))
  BY TriesAreCounted, FS_Subset
<1>2. \A seen \in DeliveryRows : seen.attempt \in Nat
  BY DEF DeliveryRows
<1> QED
  BY <1>1, <1>2 DEF StaffSound

\* A step of the staff.
LEMMA DesksStayBounded ==
  ASSUME NotificationAssumption, NotificationInv, NotificationBounded, NEW s \in Staff,
         \/ RequestNotification(s) \/ CancelReads(s) \/ CancelPendingNotification(s)
         \/ RetryReads(s) \/ RetryDelivery(s) \/ StartDelivery(s) \/ LeaveDesk(s)
  PROVE  NotificationBounded'
<1> DEFINE tried == Cardinality(TriedIn(flows))
<1>1. UNCHANGED <<outcomes, run, unrecorded>>
  BY DEF RequestNotification, CancelReads, CancelPendingNotification, RetryReads, RetryDelivery,
         StartDelivery, LeaveDesk
<1>2. /\ tried \in Nat /\ Cardinality(StartedIn(flows)) \in Nat /\ delivery \in DeliveryRows
      /\ delivery.attempt \in Nat /\ StaffSound(admin[s], tried)
  BY TriesAreCounted DEF NotificationBounded, NotificationInv, DeliveryRows
<1>3. delivery'.attempt \in {0, delivery.attempt} /\ notice' \in {"absent", "pending", "delivered", "cancelled"}
  <2>1. CASE RequestNotification(s)
    <3>1. delivery' = delivery \/ delivery' = [NotRequested EXCEPT !.status = "pending"]
      BY <2>1 DEF RequestNotification
    <3>2. notice' = notice \/ notice' = "pending"
      BY <2>1 DEF RequestNotification
    <3> QED
      BY <3>1, <3>2 DEF NotRequested, NotificationBounded
  <2>2. CASE CancelPendingNotification(s) \/ RetryDelivery(s)
    <3>1. delivery' = delivery \/ \E st : delivery' = [delivery EXCEPT !.status = st]
      BY <2>2 DEF CancelPendingNotification, RetryDelivery
    <3>2. notice' \in {notice, "cancelled", "pending"}
      BY <2>2 DEF CancelPendingNotification, RetryDelivery
    <3> QED
      BY <1>2, <3>1, <3>2 DEF DeliveryRows, NotificationBounded
  <2>3. CASE CancelReads(s) \/ RetryReads(s) \/ StartDelivery(s) \/ LeaveDesk(s)
    BY <2>3 DEF CancelReads, RetryReads, StartDelivery, LeaveDesk, NotificationBounded
  <2> QED
    BY <2>1, <2>2, <2>3
<1>4. ASSUME NEW a, admin' = [admin EXCEPT ![s] = a], StaffSound(a, tried), UNCHANGED flows,
             \/ notices' = notices + 1 /\ notices < MaxNotices
             \/ notices' = notices /\ (a.does \notin OpensFlow \/ s \in Opening)
      PROVE  NotificationBounded'
  <2>1. DOMAIN admin' = Staff /\ \A o \in Staff : admin'[o] = IF o = s THEN a ELSE admin[o]
    BY <1>4 DEF NotificationBounded
  <2>2. \A o \in Staff : StaffSound(admin'[o], Cardinality(TriedIn(flows)))
    BY <1>4, <2>1 DEF NotificationBounded
  <2>3. /\ IsFiniteSet(Opening') /\ Cardinality(Opening') \in Nat /\ Cardinality(Opening) \in Nat
        /\ Cardinality(Opening') <= Cardinality(Opening) + 1
        /\ (a.does \notin OpensFlow \/ s \in Opening) => Cardinality(Opening') <= Cardinality(Opening)
    BY <1>4, DesksCounted DEF NotificationBounded
  <2>4. notices' \in 0..MaxNotices
        /\ Cardinality(StartedIn(flows)) + Cardinality(Opening') <= notices'
    BY <1>2, <1>4, <2>3 DEF NotificationBounded, NotificationAssumption
  <2>5. delivery'.attempt <= Cardinality(TriedIn(flows))
    BY <1>2, <1>3 DEF NotificationBounded
  <2> QED
    BY <1>1, <1>3, <1>4, <2>1, <2>2, <2>3, <2>4, <2>5 DEF NotificationBounded, Sends
<1>5. StaffSound(AtEase, tried) /\ AtEase.does \notin OpensFlow
  BY DEF StaffSound, AtEase, OpensFlow
<1>11. ASSUME NEW k \in {"start", "retry"}, admin[s].does = k
      PROVE  \E seen \in DeliveryRows, n \in FlowKeys :
                admin[s] = [does |-> k, row |-> seen, flow |-> n] /\ seen.attempt <= tried
  <2>1. admin[s] # AtEase
    BY <1>11 DEF AtEase
  <2>2. PICK does \in {"start", "retry", "cancel"}, seen \in DeliveryRows, n \in FlowKeys :
           admin[s] = [does |-> does, row |-> seen, flow |-> n] /\ seen.attempt <= tried
    BY <1>2, <2>1 DEF StaffSound
  <2>3. does = k
    BY <1>11, <2>2
  <2> QED
    BY <2>2, <2>3
<1>6. ASSUME NEW does \in {"start", "retry", "cancel"}, Begins(s, does), UNCHANGED flows
      PROVE  NotificationBounded'
  <2>1. StaffSound([does |-> does, row |-> delivery, flow |-> 0], tried)
    BY <1>2, KeysAreNumbers DEF StaffSound, NotificationBounded
  <2> QED
    BY <1>4, <1>6, <2>1 DEF Begins
<1>7. CASE RequestNotification(s) \/ CancelReads(s) \/ RetryReads(s)
  BY <1>6, <1>7 DEF RequestNotification, CancelReads, RetryReads
<1>8. CASE CancelPendingNotification(s) \/ LeaveDesk(s)
  BY <1>4, <1>5, <1>8 DEF CancelPendingNotification, LeaveDesk
<1>9. CASE RetryDelivery(s)
  <2>1. admin[s].does = "retry" /\ UNCHANGED <<flows, notices>>
    BY <1>9 DEF RetryDelivery
  <2>2. s \in Opening
    BY <2>1 DEF Opening, OpensFlow
  <2>3. PICK seen \in DeliveryRows, n \in FlowKeys :
           admin[s] = [does |-> "retry", row |-> seen, flow |-> n] /\ seen.attempt <= tried
    BY <2>1, <1>11
  <2>4. seen.attempt + 1 \in FlowKeys
    BY <1>2, <2>3, NextAttemptIsAKey DEF DeliveryRows
  <2>5. StaffSound([does |-> "start", row |-> seen, flow |-> seen.attempt + 1], tried)
    BY <2>3, <2>4 DEF StaffSound
  <2>6. \/ admin' = [admin EXCEPT ![s] = [does |-> "start", row |-> seen, flow |-> seen.attempt + 1]]
        \/ admin' = [admin EXCEPT ![s] = AtEase]
    <3> DEFINE was == admin[s]
               opened == [was EXCEPT !.does = "start", !.flow = was.row.attempt + 1]
    <3>1. \/ admin' = [admin EXCEPT ![s] = opened]
          \/ admin' = [admin EXCEPT ![s] = AtEase]
      BY <1>9 DEF RetryDelivery
    <3>2. was = [does |-> "retry", row |-> seen, flow |-> n]
      BY <2>3
    <3>3. was.row = seen
      BY <3>2
    <3>4. opened = [does |-> "start", row |-> seen, flow |-> seen.attempt + 1]
      <4>1. opened = [[does |-> "retry", row |-> seen, flow |-> n]
                         EXCEPT !.does = "start", !.flow = seen.attempt + 1]
        BY <3>2, <3>3
      <4> HIDE DEF opened, was
      <4> QED
        BY <4>1
    <3> HIDE DEF opened
    <3> QED
      BY <3>1, <3>4
  <2> QED
    BY <1>4, <1>5, <2>1, <2>2, <2>5, <2>6
<1>10. CASE StartDelivery(s)
  <2> DEFINE n == admin[s].flow
  <2>1. admin[s].does = "start" /\ admin' = [admin EXCEPT ![s] = AtEase] /\ UNCHANGED notices
    BY <1>10 DEF StartDelivery
  <2>2. s \in Opening /\ n \in FlowKeys
    <3>1. PICK seen \in DeliveryRows, k \in FlowKeys :
             admin[s] = [does |-> "start", row |-> seen, flow |-> k] /\ seen.attempt <= tried
      BY <2>1, <1>11
    <3> QED
      BY <2>1, <3>1 DEF Opening, OpensFlow
  <2>3. CASE UNCHANGED flows
    BY <1>4, <1>5, <2>1, <2>3
  <2>4. CASE flows[n].state = "none" /\ flows' = [flows EXCEPT ![n].state = "live"]
    <3>1. WorkflowSound(flows[n]) /\ flows \in [FlowKeys -> WorkflowRows] /\ MaxSends > 0 /\ MaxSends \in Nat
      BY <2>2 DEF NotificationBounded, WorkflowsSound, NotificationAssumption
    <3> DEFINE f == [flows[n] EXCEPT !.state = "live"]
    <3>2. flows' = [flows EXCEPT ![n] = f]
      BY <2>4
    <3>3. WorkflowSound(f) /\ f.tries = flows[n].tries /\ f.state = "live"
      BY <2>4, <3>1 DEF WorkflowSound, WorkflowRows
    <3> HIDE DEF f, n
    <3>4. flows' \in [FlowKeys -> WorkflowRows] /\ flows'[n] = f
          /\ \A k \in FlowKeys \ {n} : flows'[k] = flows[k]
      BY <2>2, <3>1, <3>2, <3>3 DEF WorkflowSound
    <3>5. WorkflowsSound(flows')
      BY <3>3, <3>4 DEF WorkflowsSound, NotificationBounded
    <3>6. StartedIn(flows') = StartedIn(flows) \union {n} /\ n \notin StartedIn(flows)
      BY <2>2, <2>4, <3>3, <3>4 DEF StartedIn
    <3>7. TriedIn(flows) = TriedIn(flows')
      BY <2>4, <3>3, <3>4 DEF TriedIn
    <3>8. Cardinality(StartedIn(flows')) = Cardinality(StartedIn(flows)) + 1
      BY <3>6, TriesAreCounted, FS_AddElement DEF NotificationBounded
    <3>9. IsFiniteSet(Opening') /\ Cardinality(Opening') = Cardinality(Opening) - 1
          /\ Cardinality(Opening) \in Nat
      BY <1>5, <2>1, <2>2, DesksCounted DEF NotificationBounded
    <3>10. Cardinality(StartedIn(flows')) + Cardinality(Opening') <= notices'
      BY <1>2, <2>1, <3>8, <3>9 DEF NotificationBounded
    <3>11. DOMAIN admin' = Staff /\ \A o \in Staff : StaffSound(admin'[o], tried)
      BY <1>5, <2>1 DEF NotificationBounded
    <3>12. delivery'.attempt <= tried
      BY <1>2, <1>3 DEF NotificationBounded
    <3> QED
      BY <1>1, <1>3, <2>1, <3>5, <3>7, <3>9, <3>10, <3>11, <3>12 DEF NotificationBounded, Sends
  <2> QED
    BY <1>10, <2>3, <2>4 DEF StartDelivery
<1> QED
  BY <1>7, <1>8, <1>9, <1>10

\* A step of a run: it may end a try of one workflow, and then counts an attempt.
LEMMA RunsStayBounded ==
  ASSUME NotificationAssumption, NotificationInv', NotificationBounded, NEW c \in Couriers,
         UNCHANGED <<admin, notices>>, unrecorded' \in BOOLEAN,
         notice' \in {notice, "delivered"}, outcomes' \subseteq FlowKeys,
         WorkflowsSound(flows'), StartedIn(flows') = StartedIn(flows), TriedIn(flows) \subseteq TriedIn(flows'),
         DOMAIN run = Couriers, NEW r, run' \in {run, [run EXCEPT ![c] = r]},
         r = AtEase \/ (r.flow \in FlowKeys /\ r.row = delivery),
         delivery \in DeliveryRows, \A o \in Couriers : Sends(o) => run[o].row.attempt \in Nat,
         delivery'.attempt <= Cardinality(TriedIn(flows'))
  PROVE  NotificationBounded'
<1> DEFINE tried == Cardinality(TriedIn(flows))
           later == Cardinality(TriedIn(flows'))
<1>1. /\ \A k \in Nat : k <= tried => k <= later
      /\ \A a : StaffSound(a, tried) => StaffSound(a, later)
  BY TriesOnlyGrow DEF NotificationBounded
<1>2. Opening' = Opening
  BY DEF Opening
<1>3. delivery.attempt \in Nat /\ delivery.attempt <= tried
  BY DEF DeliveryRows, NotificationBounded
<1>4. ASSUME NEW o \in Couriers, run'[o].does = "send"
      PROVE  run'[o].flow \in FlowKeys /\ run'[o].row.attempt <= later
  <2>1. CASE run'[o] = r
    <3>1. r # AtEase
      BY <1>4, <2>1 DEF AtEase
    <3> QED
      BY <1>1, <1>3, <2>1, <3>1
  <2>2. CASE run'[o] # r
    <3>1. run'[o] = run[o]
      BY <2>2
    <3>2. Sends(o)
      BY <1>4, <3>1 DEF Sends
    <3>3. run[o].flow \in FlowKeys /\ run[o].row.attempt <= tried /\ run[o].row.attempt \in Nat
      BY <3>2 DEF NotificationBounded
    <3> QED
      BY <1>1, <3>1, <3>3
  <2> QED
    BY <2>1, <2>2
<1>5. \A s \in Staff : StaffSound(admin'[s], later)
  BY <1>1 DEF NotificationBounded
<1> QED
  BY <1>2, <1>4, <1>5 DEF NotificationBounded, Sends

\* A workflow that has ended, or failed once more: a try more is behind it.
LEMMA TryEnds ==
  ASSUME NotificationAssumption, NEW fl, WorkflowsSound(fl), NEW n \in FlowKeys, fl[n].state = "live",
         NEW f, f = [fl[n] EXCEPT !.state = "ended"]
                \/ f = [state |-> IF fl[n].tries + 1 < MaxSends THEN "live" ELSE "ended",
                        tries |-> fl[n].tries + 1]
  PROVE  LET later == [fl EXCEPT ![n] = f] IN
         /\ WorkflowsSound(later) /\ StartedIn(later) = StartedIn(fl) /\ TriedIn(fl) \subseteq TriedIn(later)
         /\ Cardinality(TriedIn(fl)) + 1 <= Cardinality(TriedIn(later))
<1> DEFINE later == [fl EXCEPT ![n] = f]
           t == fl[n].tries
<1>1. fl \in [FlowKeys -> WorkflowRows] /\ t \in Nat /\ t < MaxSends /\ MaxSends \in Nat
      /\ fl[n] \in WorkflowRows
  BY DEF WorkflowsSound, WorkflowSound, WorkflowRows, NotificationAssumption
<1>2. WorkflowSound(f) /\ f.state \in {"live", "ended"} /\ f.tries >= t
      /\ (f.state = "ended" \/ f.tries >= t + 1)
  <2>1. CASE f = [fl[n] EXCEPT !.state = "ended"]
    BY <1>1, <2>1 DEF WorkflowSound, WorkflowRows
  <2>2. CASE f = [state |-> IF t + 1 < MaxSends THEN "live" ELSE "ended", tries |-> t + 1]
    BY <1>1, <2>2 DEF WorkflowSound, WorkflowRows
  <2> QED
    BY <2>1, <2>2
<1>3. later \in [FlowKeys -> WorkflowRows] /\ later[n] = f /\ \A k \in FlowKeys \ {n} : later[k] = fl[k]
  BY <1>1, <1>2 DEF WorkflowSound
<1> HIDE DEF later
<1>4. WorkflowsSound(later)
  BY <1>2, <1>3 DEF WorkflowsSound
<1>5. StartedIn(later) = StartedIn(fl)
  BY <1>2, <1>3 DEF StartedIn
<1>6. <<n, t + 1>> \in TriedIn(later) /\ <<n, t + 1>> \notin TriedIn(fl)
  <2>1. t + 1 \in 1..MaxSends
    BY <1>1
  <2>2. f.tries \in Nat
    BY <1>2 DEF WorkflowSound, WorkflowRows
  <2>3. t + 1 <= f.tries \/ f.state = "ended"
    BY <1>1, <1>2, <2>2
  <2>4. ~(t + 1 <= t)
    BY <1>1
  <2> HIDE DEF t
  <2>5. <<n, t + 1>> \in TriedIn(later)
    BY <1>3, <2>1, <2>3 DEF TriedIn
  <2> USE DEF t
  <2>6. <<n, t + 1>> \notin TriedIn(fl)
    BY <2>4 DEF TriedIn
  <2> QED
    BY <2>5, <2>6
<1>7. TriedIn(fl) \subseteq TriedIn(later)
  <2> SUFFICES ASSUME NEW k \in FlowKeys, NEW i \in 1..MaxSends, <<k, i>> \in TriedIn(fl)
               PROVE  <<k, i>> \in TriedIn(later)
    BY DEF TriedIn
  <2>1. i <= fl[k].tries \/ fl[k].state = "ended"
    BY DEF TriedIn
  <2>2. i <= later[k].tries \/ later[k].state = "ended"
    <3>1. f.tries \in Nat
      BY <1>2 DEF WorkflowSound, WorkflowRows
    <3> QED
      BY <1>1, <1>2, <1>3, <2>1, <3>1
  <2> QED
    BY <2>2 DEF TriedIn
<1>8. Cardinality(TriedIn(fl)) + 1 <= Cardinality(TriedIn(later))
  <2>1. IsFiniteSet(TriedIn(fl)) /\ Cardinality(TriedIn(fl)) \in Nat
        /\ IsFiniteSet(TriedIn(later)) /\ Cardinality(TriedIn(later)) \in Nat
    BY <1>4, TriesAreCounted
  <2>2. Cardinality(TriedIn(fl) \union {<<n, t + 1>>}) = Cardinality(TriedIn(fl)) + 1
    BY <1>6, <2>1, FS_AddElement
  <2>3. TriedIn(fl) \union {<<n, t + 1>>} \subseteq TriedIn(later)
    BY <1>6, <1>7
  <2> HIDE DEF t
  <2>4. Cardinality(TriedIn(fl) \union {<<n, t + 1>>}) <= Cardinality(TriedIn(later))
    BY <2>1, <2>3, FS_Subset
  <2> QED
    BY <2>2, <2>4
<1> QED
  BY <1>4, <1>5, <1>7, <1>8 DEF later

LEMMA CouriersStayBounded ==
  ASSUME NotificationAssumption, NotificationInv, NotificationInv', NotificationBounded,
         NEW c \in Couriers, CourierSteps(c)
  PROVE  NotificationBounded'
<1> DEFINE tried == Cardinality(TriedIn(flows))
<1>1. /\ WorkflowsSound(flows) /\ DOMAIN run = Couriers /\ delivery \in DeliveryRows /\ tried \in Nat
      /\ \A o \in Couriers : Sends(o) => run[o].row.attempt \in Nat
      /\ delivery.attempt <= tried /\ delivery.attempt \in Nat /\ unrecorded \in BOOLEAN /\ outcomes \subseteq FlowKeys
  BY TriesAreCounted DEF NotificationInv, NotificationBounded, DeliveryRows
<1>2. UNCHANGED <<admin, notices>>
  BY DEF CourierSteps, BeginRun, Delivered, AnswerUnknown, RefusedForGood, RefusedForNow,
         FailPermanently, FailUnregistered, SendTimesOut, LoseRun, CrashCourier
<1>3. ASSUME NEW n \in FlowKeys, BeginRun(c, n) PROVE NotificationBounded'
  <2>1. flows[n].state = "live" /\ UNCHANGED <<delivery, notice, outcomes, unrecorded>>
    BY <1>3 DEF BeginRun
  <2>2. CASE UNCHANGED flows
    <3> DEFINE r == [does |-> "send", flow |-> n, tries |-> flows[n].tries, row |-> delivery]
    <3>1. run' \in {run, [run EXCEPT ![c] = r]} /\ r.flow = n /\ r.row = delivery
      BY <1>3 DEF BeginRun
    <3> HIDE DEF r
    <3> QED
      BY <1>1, <1>2, <2>1, <2>2, <3>1, RunsStayBounded
  <2>3. CASE flows' = [flows EXCEPT ![n].state = "ended"] /\ UNCHANGED run
    <3>1. flows' = [flows EXCEPT ![n] = [flows[n] EXCEPT !.state = "ended"]]
      BY <2>3
    <3>2. WorkflowsSound(flows') /\ StartedIn(flows') = StartedIn(flows) /\ TriedIn(flows) \subseteq TriedIn(flows')
      BY <1>1, <2>1, <3>1, TryEnds
    <3>3. run' \in {run, [run EXCEPT ![c] = AtEase]}
      BY <2>3
    <3>4. delivery'.attempt <= Cardinality(TriedIn(flows'))
      BY <1>1, <2>1, <3>2, TriesOnlyGrow
    <3> QED
      BY <1>1, <1>2, <2>1, <3>2, <3>3, <3>4, RunsStayBounded
  <2> QED
    BY <1>3, <2>2, <2>3 DEF BeginRun
<1>4. CASE LoseRun(c) \/ CrashCourier(c)
  <2>1. run' \in {run, [run EXCEPT ![c] = AtEase]}
        /\ UNCHANGED <<delivery, notice, outcomes, flows, unrecorded>>
    BY <1>4 DEF LoseRun, CrashCourier
  <2> QED
    BY <1>1, <1>2, <2>1, RunsStayBounded
<1>5. CASE \/ Delivered(c) \/ AnswerUnknown(c) \/ RefusedForGood(c) \/ RefusedForNow(c)
           \/ FailPermanently(c) \/ FailUnregistered(c) \/ SendTimesOut(c)
  <2> DEFINE n == run[c].flow
  <2>1. CommitsRun(c) /\ (EndFlow(c) \/ FailStep(c))
    BY <1>5 DEF Delivered, AnswerUnknown, RefusedForGood, RefusedForNow, FailPermanently,
                FailUnregistered, SendTimesOut, Answered
  <2>2. /\ Sends(c) /\ flows[n].state = "live" /\ run' = [run EXCEPT ![c] = AtEase] /\ n \in FlowKeys
        /\ run[c].row.attempt <= tried /\ run[c].row.attempt \in Nat
    BY <1>1, <2>1 DEF CommitsRun, NotificationBounded
  <2>3. PICK f : /\ flows' = [flows EXCEPT ![n] = f]
                 /\ \/ f = [flows[n] EXCEPT !.state = "ended"]
                    \/ f = [state |-> IF flows[n].tries + 1 < MaxSends THEN "live" ELSE "ended",
                            tries |-> flows[n].tries + 1]
    <3>1. CASE EndFlow(c)
      <4>1. flows' = [flows EXCEPT ![n] = [flows[n] EXCEPT !.state = "ended"]]
        BY <3>1 DEF EndFlow
      <4> QED
        BY <4>1
    <3>2. CASE FailStep(c)
      <4>1. flows' = [flows EXCEPT ![n] =
                 [state |-> IF flows[n].tries + 1 < MaxSends THEN "live" ELSE "ended",
                  tries |-> flows[n].tries + 1]]
        BY <3>2 DEF FailStep
      <4> QED
        BY <4>1
    <3> QED
      BY <2>1, <3>1, <3>2
  <2>4. /\ WorkflowsSound(flows') /\ StartedIn(flows') = StartedIn(flows) /\ TriedIn(flows) \subseteq TriedIn(flows')
        /\ tried + 1 <= Cardinality(TriedIn(flows'))
    BY <1>1, <2>2, <2>3, TryEnds
  <2>5. delivery'.attempt \in {delivery.attempt, run[c].row.attempt + 1}
    <3>1. CASE FailUnregistered(c)
      BY <1>1, <3>1 DEF FailUnregistered, DeliveryRows
    <3>2. CASE \E st, keeps : WriteDelivery(c, st, keeps)
      BY <3>2 DEF WriteDelivery, Attempt
    <3>3. \/ FailUnregistered(c) \/ \E st, keeps : WriteDelivery(c, st, keeps)
      BY <1>5 DEF Delivered, AnswerUnknown, RefusedForGood, RefusedForNow, FailPermanently, SendTimesOut
    <3> QED
      BY <3>1, <3>2, <3>3
  <2>6. Cardinality(TriedIn(flows')) \in Nat
    BY <2>4, TriesAreCounted
  <2>7. delivery'.attempt <= Cardinality(TriedIn(flows'))
    BY <1>1, <2>2, <2>4, <2>5, <2>6
  <2>8. outcomes' = outcomes \/ outcomes' = outcomes \union {run[c].row.attempt + 1}
    BY <1>5 DEF Delivered, AnswerUnknown, RefusedForGood, RefusedForNow, FailPermanently,
                FailUnregistered, SendTimesOut, Answered, Attempt
  <2>9. run[c].row.attempt + 1 \in FlowKeys
    BY <1>1, <2>2, NextAttemptIsAKey
  <2>10. outcomes' \subseteq FlowKeys
    BY <1>1, <2>8, <2>9
  <2>11. notice' \in {notice, "delivered"} /\ unrecorded' \in BOOLEAN
    BY <1>1, <1>5 DEF Delivered, AnswerUnknown, RefusedForGood, RefusedForNow, FailPermanently,
                FailUnregistered, SendTimesOut
  <2>12. run' \in {run, [run EXCEPT ![c] = AtEase]}
    BY <2>2
  <2> QED
    BY <1>1, <1>2, <2>4, <2>7, <2>10, <2>11, <2>12, RunsStayBounded
<1> QED
  BY <1>3, <1>4, <1>5 DEF CourierSteps

\* The delivery, its attempts and its workflows keep their types: notification/workflows.py.
THEOREM NotificationKeepsTypes == NotificationSpec => []NotificationTypeOK
<1> USE NotificationAssumption
<1>1. NotificationInit => NotificationInv /\ NotificationBounded
  <2> SUFFICES ASSUME NotificationInit PROVE NotificationInv /\ NotificationBounded
    OBVIOUS
  <2>1. WorkflowsSound(flows) /\ StartedIn(flows) = {} /\ TriedIn(flows) = {}
    <3>1. \A n \in FlowKeys : flows[n] = [state |-> "none", tries |-> 0]
      BY DEF NotificationInit
    <3>2. 0 \in 0..MaxSends /\ 0 < MaxSends /\ \A i \in 1..MaxSends : ~(i <= 0)
      BY DEF NotificationAssumption
    <3>3. WorkflowsSound(flows)
      BY <3>1, <3>2 DEF NotificationInit, WorkflowsSound, WorkflowSound, WorkflowRows
    <3>4. TriedIn(flows) = {}
      BY <3>1, <3>2 DEF TriedIn
    <3> QED
      BY <3>1, <3>3, <3>4 DEF StartedIn
  <2>2. Opening = {}
    BY DEF NotificationInit, Opening, AtEase, OpensFlow
  <2>3. IsFiniteSet({}) /\ Cardinality({}) = 0
    BY FS_EmptySet
  <2>4. notices \in 0..MaxNotices /\ delivery.attempt = 0
    BY DEF NotificationInit, NotificationAssumption, NotRequested
  <2>5. \A c \in Couriers : ~Sends(c)
    BY DEF NotificationInit, Sends, AtEase
  <2>6. DOMAIN admin = Staff /\ \A s \in Staff : StaffSound(admin[s], Cardinality(TriedIn(flows)))
    BY DEF NotificationInit, StaffSound
  <2>7. outcomes = {} /\ notice = "absent" /\ unrecorded = FALSE /\ notices = 0
    BY DEF NotificationInit
  <2>8. /\ IsFiniteSet(Opening) /\ Cardinality(StartedIn(flows)) + Cardinality(Opening) <= notices
        /\ delivery.attempt <= Cardinality(TriedIn(flows))
    BY <2>1, <2>2, <2>3, <2>4, <2>7
  <2>9. notice \in {"absent", "pending", "delivered", "cancelled"} /\ outcomes \subseteq FlowKeys
        /\ unrecorded \in BOOLEAN
    BY <2>7
  <2> HIDE DEF NotificationInit
  <2> QED
    BY <2>1, <2>4, <2>5, <2>6, <2>8, <2>9, NotificationStarts DEF NotificationBounded
<1>2. NotificationInv /\ NotificationBounded /\ [NotificationNext]_notificationVars
         => NotificationInv' /\ NotificationBounded'
  <2> SUFFICES ASSUME NotificationInv, NotificationBounded, [NotificationNext]_notificationVars
               PROVE  NotificationInv' /\ NotificationBounded'
    OBVIOUS
  <2>1. NotificationInv'
    BY NotificationStep
  <2>2. CASE UNCHANGED notificationVars
    BY <2>1, <2>2 DEF notificationVars, NotificationBounded, Opening, Sends
  <2>3. CASE CleanNotifications
    <3>1. /\ delivery' = [delivery EXCEPT !.status = "cleaned"] /\ outcomes' = {}
          /\ UNCHANGED <<notice, flows, run, admin, notices, unrecorded>> /\ delivery \in DeliveryRows
      BY <2>3 DEF CleanNotifications, NotificationInv
    <3>2. delivery'.attempt = delivery.attempt /\ Opening' = Opening
      BY <3>1 DEF DeliveryRows, Opening
    <3> QED
      BY <2>1, <3>1, <3>2 DEF NotificationBounded, Sends
  <2>4. ASSUME NEW s \in Staff,
               \/ RequestNotification(s) \/ CancelReads(s) \/ CancelPendingNotification(s)
               \/ RetryReads(s) \/ RetryDelivery(s) \/ StartDelivery(s) \/ LeaveDesk(s)
        PROVE  NotificationBounded'
    BY <2>4, DesksStayBounded
  <2>5. ASSUME NEW c \in Couriers, CourierSteps(c) PROVE NotificationBounded'
    BY <2>1, <2>5, CouriersStayBounded
  <2> QED
    BY <2>1, <2>2, <2>3, <2>4, <2>5 DEF NotificationNext
<1>3. NotificationInv /\ NotificationBounded => NotificationTypeOK
  <2> SUFFICES ASSUME NotificationInv, NotificationBounded PROVE NotificationTypeOK
    OBVIOUS
  <2>1. delivery \in DeliveryRows /\ delivery.attempt \in FlowKeys
    BY NextAttemptIsAKey, TriesAreCounted DEF NotificationInv, NotificationBounded, DeliveryRows
  <2>2. delivery \in [status : DeliveryStates \union {"absent", "cleaned"},
                      attempt : FlowKeys, token : BOOLEAN]
    BY <2>1 DEF DeliveryRows
  <2> QED
    BY <2>2 DEF NotificationBounded, NotificationTypeOK, WorkflowsSound, WorkflowRows
<1> QED
  BY <1>1, <1>2, <1>3, PTL DEF NotificationSpec

=============================================================================
