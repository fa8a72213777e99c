---------------------------- MODULE ConfigProofs ----------------------------
(***************************************************************************)
(* What CheckValid guarantees of a running server, for all files.          *)
(***************************************************************************)
EXTENDS ServerConfig, TLAPS

\* The last server that came up was given a file that passed the check then.
Checked ==
    /\ server \in {"down", "up", "refused"}
    /\ accepted # None =>
           /\ accepted \in Files
           /\ conf = Loaded(accepted)
           /\ \E t \in Nat, names \in SUBSET HostNames :
                  t <= now /\ CheckValid(accepted, t, names)
    /\ server = "up" => accepted # None /\ CheckValid(accepted, startedAt, lookedUp)

Times == now \in Nat /\ startedAt \in Nat

Names == resolving \in SUBSET HostNames /\ lookedUp \in SUBSET HostNames

ConfigInv == file \in Files /\ Times /\ Names /\ Checked

LEMMA ConfigInit == Init => ConfigInv
  BY ConfigAssumption DEF Init, ConfigInv, Times, Names, Checked

LEMMA ConfigStep == ConfigInv /\ [Next]_vars => ConfigInv'
  <1> SUFFICES ASSUME ConfigInv, [Next]_vars PROVE ConfigInv'
    OBVIOUS
  <1> USE ConfigAssumption DEF ConfigInv, Times, Names
  <1>1. CASE Start
    <2>1. CASE CheckValid(file, now, resolving)
      BY <1>1, <2>1 DEF Start, Checked
    <2>2. CASE ~CheckValid(file, now, resolving)
      BY <1>1, <2>2 DEF Start, Checked
    <2>3. QED
      BY <2>1, <2>2
  <1>2. CASE Crash
    BY <1>2 DEF Crash, Checked
  <1>3. CASE \E f \in Files : Deploy(f)
    BY <1>3 DEF Deploy, Checked
  <1>4. CASE Tick
    BY <1>4 DEF Tick, Checked
  <1>5. CASE UNCHANGED vars
    BY <1>5 DEF vars, Checked
  <1>6. CASE NameServiceChanges
    BY <1>6 DEF NameServiceChanges, Checked
  <1>7. QED
    BY <1>1, <1>2, <1>3, <1>4, <1>5, <1>6 DEF Next

LEMMA ConfigInvariant == Spec => []ConfigInv
  BY ConfigInit, ConfigStep, PTL DEF Spec

-----------------------------------------------------------------------------
\* A reference that passed the check leads to a value that did.
LEMMA ResolvedValid ==
    ASSUME NEW entry, NEW named, NEW valid,
           NamedValid(named, valid), Resolvable(entry, named, valid)
    PROVE  Resolved(entry, named) \in valid
  BY DEF NamedValid, Resolvable, Resolved

\* The entries that resolution leaves are those of the file, resolved.
LEMMA LoadedRules ==
    ASSUME NEW f, NEW t, NEW names, CheckValid(f, t, names)
    PROVE  /\ \A i \in DOMAIN Loaded(f).tokenRules :
                  Loaded(f).tokenRules[i] \in StrongSecrets
           /\ \A i \in DOMAIN Loaded(f).ipRules :
                  Loaded(f).ipRules[i] \in Addresses(names)
  <1>1. \A i \in DOMAIN f.tokenEntries :
            Resolved(f.tokenEntries[i], f.tokens) \in StrongSecrets
    BY ResolvedValid DEF CheckValid
  <1>2. \A i \in DOMAIN f.ipEntries :
            Resolved(f.ipEntries[i], f.ipRules) \in Addresses(names)
    BY ResolvedValid DEF CheckValid
  <1>3. QED
    BY <1>1, <1>2 DEF Loaded

\* A running server matches against validated values only (config.go:231-353).
THEOREM RunningRulesValid == Spec => []RulesValidated
  <1>1. ConfigInv => RulesValidated
    BY LoadedRules DEF ConfigInv, Checked, RulesValidated
  <1>2. QED
    BY <1>1, ConfigInvariant, PTL

\* The two comparisons of a key's period agree: what CheckValid lists
\* authKeyByID finds (config.go:145-162, 379-390).
LEMMA ListedKeysFound ==
    ASSUME NEW keys, NEW t, KeysListed(keys, t), NoKeyTwice(keys),
           NEW i \in DOMAIN keys,
           \A j \in DOMAIN keys : j \in Nat
    PROVE  AuthKeyByID(keys, keys[i].id, t) = keys[i].secret
  <1> DEFINE hits == {h \in DOMAIN keys :
                         /\ keys[h].id = keys[i].id
                         /\ \A j \in DOMAIN keys : keys[j].id = keys[i].id => h <= j
                         /\ keys[h].notBefore # None => t >= keys[h].notBefore
                         /\ keys[h].notAfter # None => t < keys[h].notAfter}
  <1>1. \A j \in DOMAIN keys : keys[j].id = keys[i].id => j = i
    BY DEF NoKeyTwice
  <1>2. i <= i
    OBVIOUS
  <1>3. hits = {i}
    BY <1>1, <1>2 DEF KeysListed, KeyValid
  <1>4. (CHOOSE h \in hits : TRUE) = i
    BY <1>3
  <1>5. QED
    BY <1>3, <1>4 DEF AuthKeyByID

\* A server that has just started finds all its keys.
THEOREM KeysFoundAtStart == Spec => []CheckedKeysFound
  <1>1. ConfigInv => CheckedKeysFound
    <2> SUFFICES ASSUME ConfigInv, server = "up", startedAt = now,
                        NEW i \in DOMAIN conf.keys
                 PROVE  AuthKeyByID(conf.keys, conf.keys[i].id, now) = conf.keys[i].secret
      BY DEF CheckedKeysFound
    <2>1. accepted \in Files /\ conf.keys = accepted.keys /\ CheckValid(accepted, now, lookedUp)
      BY DEF ConfigInv, Checked, Loaded
    <2>2. \A j \in DOMAIN conf.keys : j \in Nat
      BY <2>1, ConfigAssumption
    <2>3. QED
      BY <2>1, <2>2, ListedKeysFound DEF CheckValid
  <1>2. QED
    BY <1>1, ConfigInvariant, PTL

\* A value that was let pass while some names resolved, and is not while
\* others do, is a name that does not.
LEMMA PassesUnlessName ==
    ASSUME NEW v, NEW before, NEW after, v \in Addresses(before), v \notin Addresses(after)
    PROVE  v \in HostNames /\ v \notin after
  BY DEF Addresses

\* Time and name service refuse a file that passed once only through a key
\* that has ended or a name in it.
LEMMA OnlyEndsRefuse ==
    ASSUME NEW f \in Files, NEW s \in Nat, NEW t \in Nat, s <= t,
           NEW before, NEW after,
           CheckValid(f, s, before), ~CheckValid(f, t, after)
    PROVE  \/ \E i \in DOMAIN f.keys : f.keys[i].notAfter # None /\ f.keys[i].notAfter <= t
           \/ \E n \in NamesIn(f) : n \notin after
  <1>1. CASE ~KeysListed(f.keys, t)
    <2>1. PICK i \in DOMAIN f.keys : KeyValid(f.keys[i], s) /\ ~KeyValid(f.keys[i], t)
      BY <1>1 DEF CheckValid, KeysListed
    <2>2. f.keys[i].notBefore \in Nat \cup {None} /\ f.keys[i].notAfter \in Nat \cup {None}
      BY ConfigAssumption
    <2>3. f.keys[i].notAfter # None /\ f.keys[i].notAfter <= t
      BY <2>1, <2>2 DEF KeyValid
    <2>4. QED
      BY <2>3
  <1>2. CASE f.authAddr \notin Addresses(after)
    <2>1. f.authAddr \in HostNames /\ f.authAddr \notin after
      BY <1>2, PassesUnlessName DEF CheckValid
    <2>2. QED
      BY <2>1 DEF NamesIn
  <1>3. CASE ~NamedValid(f.ipRules, Addresses(after))
    <2>1. PICK id \in DOMAIN f.ipRules : f.ipRules[id] \notin Addresses(after)
      BY <1>3 DEF NamedValid
    <2>2. f.ipRules[id] \in HostNames /\ f.ipRules[id] \notin after
      BY <2>1, PassesUnlessName DEF CheckValid, NamedValid
    <2>3. QED
      BY <2>2 DEF NamesIn
  <1>4. CASE \E i \in DOMAIN f.ipEntries :
                 ~Resolvable(f.ipEntries[i], f.ipRules, Addresses(after))
    <2>1. PICK i \in DOMAIN f.ipEntries :
              ~Resolvable(f.ipEntries[i], f.ipRules, Addresses(after))
      BY <1>4
    <2>2. Resolvable(f.ipEntries[i], f.ipRules, Addresses(before))
      BY DEF CheckValid
    <2>3. f.ipEntries[i].value \in Addresses(before)
          /\ f.ipEntries[i].value \notin Addresses(after)
      BY <2>1, <2>2 DEF Resolvable
    <2>4. f.ipEntries[i].value \in HostNames /\ f.ipEntries[i].value \notin after
      BY <2>3, PassesUnlessName
    <2>5. QED
      BY <2>4 DEF NamesIn
  <1>5. QED
    BY <1>1, <1>2, <1>3, <1>4 DEF CheckValid

\* A crash is survived unless a key has ended (config.go:159) or a name of
\* the file does not resolve (config.go:202, 214).
THEOREM RestartPossible == Spec => []RefusedForAReason
  <1>1. ConfigInv => RefusedForAReason
    <2> SUFFICES ASSUME ConfigInv, accepted # None, ~CheckValid(accepted, now, resolving)
                 PROVE  \/ \E i \in DOMAIN accepted.keys :
                               /\ accepted.keys[i].notAfter # None
                               /\ accepted.keys[i].notAfter <= now
                        \/ \E n \in NamesIn(accepted) : n \notin resolving
      BY DEF RefusedForAReason
    <2>1. PICK t \in Nat, names \in SUBSET HostNames :
              t <= now /\ CheckValid(accepted, t, names)
      BY DEF ConfigInv, Checked
    <2>2. accepted \in Files /\ now \in Nat
      BY DEF ConfigInv, Checked, Times
    <2>3. QED
      BY <2>1, <2>2, OnlyEndsRefuse
  <1>2. QED
    BY <1>1, ConfigInvariant, PTL
=============================================================================
