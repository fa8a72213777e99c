---------------------------- MODULE ServerConfig ----------------------------
(***************************************************************************)
(* The server's configuration file over time (cmd/authserver/config.go):   *)
(* an operator deploys files, the server starts with the current one if it *)
(* passes CheckValid, may crash, and is started again.  A file is its      *)
(* keys, the address to listen on, its named tokens and addresses, the     *)
(* entries of its token and address rules, and whether the rest of it      *)
(* (identifiers, ports, delays, log upload) is in order.  An address may   *)
(* be a host name, which is resolved at every start.                       *)
(***************************************************************************)
EXTENDS Naturals

CONSTANTS
    Files,          \* what may be deployed
    None,           \* a field or a time that is not set
    StrongSecrets,  \* what isWeakSecret lets pass, less the wildcard
    Literals,       \* addresses and networks that parse: validateIPRule lets them pass
    HostNames,      \* it lets these pass when they resolve
    MaxTime         \* bound of the clock

ASSUME ConfigAssumption ==
    /\ MaxTime \in Nat
    /\ Literals \cap HostNames = {}
    /\ None \notin Nat \cup Files
    /\ \A f \in Files : \A i \in DOMAIN f.keys :
           /\ i \in Nat
           /\ f.keys[i].notBefore \in Nat \cup {None}
           /\ f.keys[i].notAfter \in Nat \cup {None}

VARIABLES
    file,           \* the file on disk
    server,         \* "down", "up", or "refused" at its last start
    conf,           \* the globalConfig of the last server that came up
    startedAt, now,
    resolving,      \* the host names that resolve now
    lookedUp,       \* those that resolved at the last start
    accepted        \* the file of the last server that came up

vars == <<file, server, conf, startedAt, now, resolving, lookedUp, accepted>>

-----------------------------------------------------------------------------
\* Periods.  A key is active from notBefore on, up to notAfter exclusive.
\* CheckValid refuses a file that lists any other, authKeyByID does not find
\* it: the code compares twice.
KeyValidUpToItsEnd(k, t) ==
    /\ k.secret \in StrongSecrets
    /\ k.notBefore # None => t >= k.notBefore
    /\ k.notAfter # None => t <= k.notAfter

KeyValidWithTimeLeft(k, t) ==
    /\ k.secret \in StrongSecrets
    /\ k.notBefore # None => t >= k.notBefore
    /\ k.notAfter # None => t + 1 < k.notAfter

KeyValid(k, t) ==
    /\ k.secret \in StrongSecrets
    /\ k.notBefore # None => t >= k.notBefore
    /\ k.notAfter # None => t < k.notAfter

\* The secret under a key id at time t, None if there is none: the first key
\* with the id decides.
AuthKeyByID(keys, id, t) ==
    LET hits == {i \in DOMAIN keys :
                    /\ keys[i].id = id
                    /\ \A j \in DOMAIN keys : keys[j].id = id => i <= j
                    /\ keys[i].notBefore # None => t >= keys[i].notBefore
                    /\ keys[i].notAfter # None => t < keys[i].notAfter}
    IN  IF hits = {} THEN None ELSE keys[CHOOSE i \in hits : TRUE].secret

\* Rules.  An entry has a reference, a value of its own (an inline string
\* counts as one), and perhaps a field of the other kind of rule.
Resolvable(entry, named, valid) ==
    IF entry.ref # None
    THEN entry.value = None /\ ~entry.alien /\ entry.ref \in DOMAIN named
    ELSE entry.value # None /\ ~entry.alien /\ entry.value \in valid

\* The value under a reference was validated where it was named.
Resolved(entry, named) ==
    IF entry.ref # None THEN named[entry.ref] ELSE entry.value

NamedUnchecked(named, valid) == TRUE

NamedValid(named, valid) == \A id \in DOMAIN named : named[id] \in valid

KeysListed(keys, t) == keys # <<>> /\ \A i \in DOMAIN keys : KeyValid(keys[i], t)

NoKeyTwice(keys) == \A i, j \in DOMAIN keys : keys[i].id = keys[j].id => i = j

\* What validateIPRule, and ResolveUDPAddr for the address to listen on, let
\* pass while the given names resolve.
Addresses(names) == Literals \cup (HostNames \cap names)

CheckValid(f, t, names) ==
    /\ f.restValid
    /\ f.authAddr \in Addresses(names)
    /\ KeysListed(f.keys, t)
    /\ NoKeyTwice(f.keys)
    /\ NamedValid(f.tokens, StrongSecrets)
    /\ NamedValid(f.ipRules, Addresses(names))
    /\ \A i \in DOMAIN f.tokenEntries :
           Resolvable(f.tokenEntries[i], f.tokens, StrongSecrets)
    /\ \A i \in DOMAIN f.ipEntries :
           Resolvable(f.ipEntries[i], f.ipRules, Addresses(names))

\* What readConfig leaves behind: resolution overwrites the entries.
Loaded(f) ==
    [keys |-> f.keys,
     tokenRules |-> [i \in DOMAIN f.tokenEntries |-> Resolved(f.tokenEntries[i], f.tokens)],
     ipRules |-> [i \in DOMAIN f.ipEntries |-> Resolved(f.ipEntries[i], f.ipRules)]]

-----------------------------------------------------------------------------
Init ==
    /\ file \in Files
    /\ server = "down"
    /\ conf = None /\ accepted = None
    /\ now = 0 /\ startedAt = 0
    /\ resolving \in SUBSET HostNames /\ lookedUp = resolving

\* main: read, check, run.
Start ==
    /\ server # "up"
    /\ startedAt' = now /\ lookedUp' = resolving
    /\ IF CheckValid(file, now, resolving)
       THEN server' = "up" /\ conf' = Loaded(file) /\ accepted' = file
       ELSE server' = "refused" /\ UNCHANGED <<conf, accepted>>
    /\ UNCHANGED <<file, now, resolving>>

Crash ==
    /\ server = "up"
    /\ server' = "down"
    /\ UNCHANGED <<file, conf, startedAt, now, resolving, lookedUp, accepted>>

Deploy(f) ==
    /\ file' = f
    /\ UNCHANGED <<server, conf, startedAt, now, resolving, lookedUp, accepted>>

Tick ==
    /\ now < MaxTime
    /\ now' = now + 1
    /\ UNCHANGED <<file, server, conf, startedAt, resolving, lookedUp, accepted>>

\* A name begins to resolve, or does so no longer.
NameServiceChanges ==
    /\ \E n \in HostNames :
           resolving' = IF n \in resolving THEN resolving \ {n} ELSE resolving \cup {n}
    /\ UNCHANGED <<file, server, conf, startedAt, now, lookedUp, accepted>>

Next == Start \/ Crash \/ (\E f \in Files : Deploy(f)) \/ Tick \/ NameServiceChanges

Spec == Init /\ [][Next]_vars

-----------------------------------------------------------------------------
\* What a running server matches tokens and addresses against was validated
\* when it started, on whatever way it came into the rule: by reference it is
\* checked in another place (config.go:231-249) than inline (config.go:299-353).
RulesValidated ==
    server = "up" =>
        /\ \A i \in DOMAIN conf.tokenRules : conf.tokenRules[i] \in StrongSecrets
        /\ \A i \in DOMAIN conf.ipRules : conf.ipRules[i] \in Addresses(lookedUp)

\* A key that passed the check at start is the key its id finds at that very
\* moment, although the period is compared by other code (config.go:145-162,
\* config.go:379-390), also at both ends of it.
CheckedKeysFound ==
    server = "up" /\ startedAt = now =>
        \A i \in DOMAIN conf.keys :
            AuthKeyByID(conf.keys, conf.keys[i].id, now) = conf.keys[i].secret

\* The host names a file depends on: config.go:202 resolves those of the
\* address rules, config.go:214 that of the address to listen on.
NamesIn(f) ==
    HostNames \cap ({f.authAddr}
                     \cup {f.ipRules[id] : id \in DOMAIN f.ipRules}
                     \cup {f.ipEntries[i].value : i \in DOMAIN f.ipEntries})

\* A server that crashed comes up again with the file it ran on, unless a
\* key of it has ended meanwhile or a host name in it does not resolve now;
\* nothing else that changes stands in the way.
RefusedForAReason ==
    accepted # None /\ ~CheckValid(accepted, now, resolving) =>
        \/ \E i \in DOMAIN accepted.keys :
               accepted.keys[i].notAfter # None /\ accepted.keys[i].notAfter <= now
        \/ \E n \in NamesIn(accepted) : n \notin resolving

\* Clients of a key that is active can authenticate also while a key they
\* have migrated from is still listed (README.md:251-254): the server does
\* not refuse a file it has run on while some key of it is active.
ActiveKeysServed ==
    server = "refused" /\ startedAt = now /\ file = accepted =>
        \A i \in DOMAIN file.keys :
            AuthKeyByID(file.keys, file.keys[i].id, now) = None
=============================================================================
