------------------------- MODULE ChallengeLifecycle -------------------------
(***************************************************************************)
(* The two goroutines of waitForAuth that share the challenge store        *)
(* (auth.go:228-261): the reader, which handles one datagram at a time,    *)
(* and the cleaner.  Both read the clock before they ask for s.mux, so     *)
(* each call of the store is two steps here, and the other goroutine and   *)
(* the clock may move in between.                                          *)
(***************************************************************************)
EXTENDS PendingChallenges

CONSTANTS
    TTL,            \* authproto.ChallengeTTL
    CleanupPeriod,  \* the cleaner's ticker
    MaxLag,         \* how long a runnable goroutine may wait for a processor
    MaxTime         \* bound of the clock

ASSUME TimeAssumption ==
    /\ TTL \in Nat
    /\ CleanupPeriod \in Nat
    /\ MaxLag \in Nat
    /\ MaxTime \in Nat
    /\ MaxLag < TTL
    /\ MaxLag < CleanupPeriod

VARIABLES
    now,        \* the clock
    reader,     \* the store call the reader has yet to make, or Idle
    cleaner,    \* the cleanup the cleaner has yet to make, or Idle
    nextTick,   \* when the cleaner's ticker next fires
    issued,     \* history: the keys whose challenge was sent to a client
    redeemed    \* history: how often consume has accepted each key

clockVars == <<now, nextTick>>
history == <<issued, redeemed>>
vars == <<items, countByIP, now, reader, cleaner, nextTick, issued, redeemed>>

Idle == [op |-> "idle"]

Init ==
    /\ StoreInit
    /\ now = 0
    /\ reader = Idle
    /\ cleaner = Idle
    /\ nextTick = 0
    /\ issued = {}
    /\ redeemed = [k \in Keys |-> 0]

-----------------------------------------------------------------------------
\* handleChallengeRequest draws a fresh server nonce, so the key is new, and
\* computes expiresAt from the time it reads here.
ReadRequest(k) ==
    /\ reader = Idle
    /\ k \notin issued
    /\ reader' = [op |-> "add", key |-> k, at |-> now]
    /\ UNCHANGED <<storeVars, cleaner, clockVars, history>>

\* It registers the challenge, and answers only when there was room.
AddChallenge ==
    /\ reader.op = "add"
    /\ Add(reader.key, reader.at + TTL)
    /\ issued' = IF Full(reader.key) THEN issued ELSE issued \cup {reader.key}
    /\ reader' = Idle
    /\ UNCHANGED <<cleaner, clockVars, redeemed>>

\* handleChallengeResponse reads the time; any key may be named, also one
\* redeemed before (a repeated datagram) or never issued.
ReadResponse(k) ==
    /\ reader = Idle
    /\ reader' = [op |-> "consume", key |-> k, at |-> now]
    /\ UNCHANGED <<storeVars, cleaner, clockVars, history>>

ConsumeChallenge ==
    /\ reader.op = "consume"
    /\ Consume(reader.key)
    /\ redeemed' = IF Accepts(reader.key, reader.at)
                   THEN [redeemed EXCEPT ![reader.key] = @ + 1]
                   ELSE redeemed
    /\ reader' = Idle
    /\ UNCHANGED <<cleaner, clockVars, issued>>

\* The cleaner runs once at the start and then at every tick.
ReadClock ==
    /\ cleaner = Idle
    /\ now >= nextTick
    /\ cleaner' = [op |-> "cleanup", at |-> now]
    /\ nextTick' = nextTick + CleanupPeriod
    /\ UNCHANGED <<storeVars, now, reader, history>>

RunCleanup ==
    /\ cleaner.op = "cleanup"
    /\ Cleanup(cleaner.at)
    /\ cleaner' = Idle
    /\ UNCHANGED <<reader, clockVars, history>>

\* Time passes, but no goroutine that could run is left waiting for longer
\* than MaxLag.
Tick ==
    /\ now < MaxTime
    /\ reader # Idle => now < reader.at + MaxLag
    /\ cleaner # Idle => now < cleaner.at + MaxLag
    /\ cleaner = Idle => now < nextTick + MaxLag
    /\ now' = now + 1
    /\ UNCHANGED <<storeVars, reader, cleaner, nextTick, history>>

Next ==
    \/ \E k \in Keys : ReadRequest(k) \/ ReadResponse(k)
    \/ AddChallenge
    \/ ConsumeChallenge
    \/ ReadClock
    \/ RunCleanup
    \/ Tick

Spec == Init /\ [][Next]_vars

-----------------------------------------------------------------------------
TypeOK ==
    /\ StoreTypeOK
    /\ now \in Nat
    /\ nextTick \in Nat
    /\ reader \in {Idle} \cup [op : {"add", "consume"}, key : Keys, at : Nat]
    /\ cleaner \in {Idle} \cup [op : {"cleanup"}, at : Nat]
    /\ issued \subseteq Keys
    /\ redeemed \in [Keys -> Nat]

\* A challenge is redeemed at most once and never without having been
\* issued: however often a response is repeated or delayed, and whatever the
\* cleaner does meanwhile, one issue pays for one pending entry or for one
\* redemption (challenge.go:56-69; README.md:47, replay resistance).
RedeemedAtMostOnce ==
    \A k \in Keys :
        redeemed[k] + (IF k \in DOMAIN items THEN 1 ELSE 0)
            <= (IF k \in issued THEN 1 ELSE 0)

\* The time passed to consume was read before the lock was obtained
\* (auth.go:381), so a challenge may be redeemed after its expiry, but never
\* by more than the time the reader waited.
RedeemsInTime ==
    \A k \in Keys :
        redeemed'[k] > redeemed[k] => k \in DOMAIN items /\ now < items[k] + MaxLag

RedeemedInTime == [][RedeemsInTime]_vars

\* A challenge that is still valid leaves the store only by being redeemed:
\* no cleanup, whatever time it was given, and no response for another key
\* takes it away (challenge.go:63, 75-78).
LosesNoLiveChallenge ==
    \A k \in DOMAIN items \ DOMAIN items' :
        items[k] <= now \/ redeemed'[k] = redeemed[k] + 1

LiveChallengeKept == [][LosesNoLiveChallenge]_vars

\* A challenge nobody answers occupies its share of the limits for no longer
\* than a cleanup period and the goroutines' waits past its expiry
\* (auth.go:248-260): a source address locked out by stale challenges is
\* served again after that time.
DeadChallengesCollected ==
    \A k \in DOMAIN items : now < items[k] + CleanupPeriod + 2 * MaxLag
=============================================================================
