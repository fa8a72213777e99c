------------------------- MODULE PendingChallenges -------------------------
(***************************************************************************)
(* The store of challenges the authentication server has handed out and    *)
(* not yet seen answered (pendingChallengeStore in challenge.go).  Every   *)
(* method holds s.mux from its first line to its return, so each is one    *)
(* atomic operation on the two maps below; the caller supplies the time it *)
(* read beforehand.                                                        *)
(***************************************************************************)
EXTENDS Naturals, FiniteSets, Functions

CONSTANTS
    Keys,       \* pendingChallengeKey: all that binds one challenge
    IPs,        \* source addresses
    IPOf,       \* the IP field of a key
    MaxGlobal,  \* maxGlobal, 0 for no limit
    MaxPerIP    \* maxPerIP, 0 for no limit

ASSUME StoreAssumption ==
    /\ IPOf \in [Keys -> IPs]
    /\ MaxGlobal \in Nat
    /\ MaxPerIP \in Nat

VARIABLES
    items,      \* items: a partial function from keys to ExpiresAt
    countByIP   \* countByIP: a partial function from addresses to counts

storeVars == <<items, countByIP>>

StoreInit ==
    /\ items = [k \in {} |-> 0]
    /\ countByIP = [ip \in {} |-> 0]

-----------------------------------------------------------------------------
\* What a lookup of countByIP yields: Go's zero value for an absent address.
Count(ip) == IF ip \in DOMAIN countByIP THEN countByIP[ip] ELSE 0

\* The challenges the store holds for an address.
Outstanding(ip) == {k \in DOMAIN items : IPOf[k] = ip}

\* Does add refuse the key for want of room?
FullOffByOne(k) ==
    \/ MaxGlobal > 0 /\ Cardinality(DOMAIN items) > MaxGlobal
    \/ MaxPerIP > 0 /\ Count(IPOf[k]) > MaxPerIP

Full(k) ==
    \/ MaxGlobal > 0 /\ Cardinality(DOMAIN items) >= MaxGlobal
    \/ MaxPerIP > 0 /\ Count(IPOf[k]) >= MaxPerIP

\* add(key, expiresAt) returns ~Full(k); a key already held keeps its expiry.
Add(k, expiresAt) ==
    IF Full(k) \/ k \in DOMAIN items
    THEN UNCHANGED storeVars
    ELSE /\ items' = [x \in DOMAIN items \cup {k} |->
                          IF x = k THEN expiresAt ELSE items[x]]
         /\ countByIP' = [ip \in DOMAIN countByIP \cup {IPOf[k]} |->
                              IF ip = IPOf[k] THEN Count(ip) + 1
                                              ELSE countByIP[ip]]

\* How many of the keys belong to an address.
Share(keys, ip) == Cardinality({k \in keys : IPOf[k] = ip})

\* Deleting a set of keys: each costs its address one count, and an address
\* whose count falls to zero or below loses its entry.
DropKeepsCount(gone) ==
    /\ items' = Restrict(items, DOMAIN items \ gone)
    /\ UNCHANGED countByIP

Drop(gone) ==
    /\ items' = Restrict(items, DOMAIN items \ gone)
    /\ countByIP' = [ip \in {i \in DOMAIN countByIP : countByIP[i] > Share(gone, i)}
                        |-> countByIP[ip] - Share(gone, ip)]

\* consume(key, now) deletes the key whether or not it is still valid ...
ConsumeKeepsItem(k) == UNCHANGED storeVars

ConsumeUnchecked(k) ==
    /\ items' = Restrict(items, DOMAIN items \ {k})
    /\ countByIP' = [ip \in DOMAIN countByIP \cup {IPOf[k]} |->
                        IF ip = IPOf[k] THEN Count(ip) - 1 ELSE countByIP[ip]]

Consume(k) == Drop(DOMAIN items \cap {k})

\* ... and reports whether it was.
AcceptsExpired(k, t) == k \in DOMAIN items

Accepts(k, t) == k \in DOMAIN items /\ items[k] > t

\* cleanup(now)
CleanupSparesDue(t) == Drop({k \in DOMAIN items : items[k] < t})

CleanupAll(t) == Drop(DOMAIN items)

Cleanup(t) == Drop({k \in DOMAIN items : items[k] <= t})

-----------------------------------------------------------------------------
StoreTypeOK ==
    /\ DOMAIN items \subseteq Keys
    /\ IsFiniteSet(DOMAIN items)
    /\ items \in [DOMAIN items -> Nat]
    /\ DOMAIN countByIP \subseteq IPs
    /\ countByIP \in [DOMAIN countByIP -> Nat]

\* The counter by which add refuses a source address is exactly the number
\* of that address's challenges in the map, and no address keeps an entry
\* it no longer needs: add, consume and cleanup all maintain the two maps
\* separately (challenge.go:51-52, 63-67, 79-83), and a drift would lock an
\* address out or let it exceed its share.
CountsExact ==
    \A ip \in IPs :
        /\ Count(ip) = Cardinality(Outstanding(ip))
        /\ ip \in DOMAIN countByIP => Outstanding(ip) # {}

\* The store never holds more challenges than maxGlobal in total or than
\* maxPerIP for one source address (challenge.go:42-47).
WithinLimits ==
    /\ MaxGlobal > 0 => Cardinality(DOMAIN items) <= MaxGlobal
    /\ MaxPerIP > 0 => \A ip \in IPs : Cardinality(Outstanding(ip)) <= MaxPerIP
=============================================================================
