--------------------------- MODULE ChallengeProofs ---------------------------
(***************************************************************************)
(* Safety of the challenge store and of the goroutines that share it, for  *)
(* every set of keys and addresses and all limits and times.               *)
(***************************************************************************)
EXTENDS ChallengeLifecycle, FiniteSetTheorems, TLAPS

\* What every method of the store maintains.
StoreInv == StoreTypeOK /\ CountsExact /\ WithinLimits

\* An address's challenges are a finite part of the store's.
LEMMA OutstandingFinite ==
    ASSUME StoreInv, NEW ip
    PROVE  IsFiniteSet(Outstanding(ip)) /\ Cardinality(Outstanding(ip)) \in Nat
<1>1. Outstanding(ip) \subseteq DOMAIN items  BY DEF Outstanding
<1>2. IsFiniteSet(DOMAIN items)  BY DEF StoreInv, StoreTypeOK
<1>. QED  BY <1>1, <1>2, FS_Subset, FS_CardinalityType

\* The empty store is sound.
LEMMA StoreInitSound == StoreInit => StoreInv
<1>. SUFFICES ASSUME StoreInit PROVE StoreInv  OBVIOUS
<1>1. DOMAIN items = {} /\ DOMAIN countByIP = {}  BY DEF StoreInit
<1>2. \A ip \in IPs : Outstanding(ip) = {}  BY <1>1 DEF Outstanding
<1>3. IsFiniteSet({}) /\ Cardinality({}) = 0  BY FS_EmptySet
<1>4. StoreTypeOK  BY <1>1, <1>3 DEF StoreInit, StoreTypeOK
<1>5. CountsExact  BY <1>1, <1>2, <1>3 DEF CountsExact, Count
<1>6. WithinLimits
  <2>1. MaxGlobal > 0 => Cardinality(DOMAIN items) <= MaxGlobal
    BY <1>1, <1>3, StoreAssumption
  <2>2. MaxPerIP > 0 => \A ip \in IPs : Cardinality(Outstanding(ip)) <= MaxPerIP
    BY <1>2, <1>3, StoreAssumption
  <2>. QED  BY <2>1, <2>2 DEF WithinLimits
<1>. QED  BY <1>4, <1>5, <1>6 DEF StoreInv

\* add keeps the store sound: the count it tests is the number it is about
\* to increase.
LEMMA AddSound ==
    ASSUME StoreInv, NEW k \in Keys, NEW e \in Nat, Add(k, e)
    PROVE  StoreInv'
<1>1. CASE Full(k) \/ k \in DOMAIN items
  <2>1. UNCHANGED <<items, countByIP>>  BY <1>1 DEF Add, storeVars
  <2>. QED
    BY <2>1 DEF StoreInv, StoreTypeOK, CountsExact, WithinLimits, Count, Outstanding
<1>2. CASE ~Full(k) /\ k \notin DOMAIN items
  <2>. DEFINE home == IPOf[k]
  <2>1. /\ items' = [x \in DOMAIN items \cup {k} |->
                         IF x = k THEN e ELSE items[x]]
        /\ countByIP' = [ip \in DOMAIN countByIP \cup {home} |->
                             IF ip = home THEN Count(ip) + 1
                                          ELSE countByIP[ip]]
    BY <1>2 DEF Add
  <2>2. home \in IPs  BY StoreAssumption
  <2>3. DOMAIN items' = DOMAIN items \cup {k}  BY <2>1
  <2>4. IsFiniteSet(DOMAIN items)  BY DEF StoreInv, StoreTypeOK
  <2>5. /\ IsFiniteSet(DOMAIN items')
        /\ Cardinality(DOMAIN items') = Cardinality(DOMAIN items) + 1
        /\ Cardinality(DOMAIN items) \in Nat
    BY <1>2, <2>3, <2>4, FS_AddElement, FS_CardinalityType
  <2>6. \A ip \in IPs : ip # home => Outstanding(ip)' = Outstanding(ip)
    BY <2>3 DEF Outstanding
  <2>7. Outstanding(home)' = Outstanding(home) \cup {k}
    BY <2>3 DEF Outstanding
  <2>8. /\ Cardinality(Outstanding(home)') = Cardinality(Outstanding(home)) + 1
        /\ Cardinality(Outstanding(home)) \in Nat
    <3>1. k \notin Outstanding(home)  BY <1>2 DEF Outstanding
    <3>. QED  BY <2>7, <3>1, OutstandingFinite, FS_AddElement
  <2>9. Count(home) = Cardinality(Outstanding(home))
    BY <2>2 DEF StoreInv, CountsExact
  <2>10. StoreTypeOK'
    <3>1. Count(home) + 1 \in Nat  BY <2>8, <2>9
    <3>. QED  BY <2>1, <2>2, <2>3, <2>5, <3>1 DEF StoreInv, StoreTypeOK
  <2>11. CountsExact'
    <3>. SUFFICES ASSUME NEW ip \in IPs
                  PROVE  /\ Count(ip)' = Cardinality(Outstanding(ip)')
                         /\ ip \in DOMAIN countByIP' => Outstanding(ip)' # {}
      BY DEF CountsExact
    <3>1. CASE ip = home
      <4>1. Count(ip)' = Count(home) + 1  BY <2>1, <3>1 DEF Count
      <4>. QED  BY <2>7, <2>8, <2>9, <3>1, <4>1
    <3>2. CASE ip # home
      <4>1. Count(ip)' = Count(ip)  BY <2>1, <3>2 DEF Count
      <4>2. ip \in DOMAIN countByIP' => ip \in DOMAIN countByIP  BY <2>1, <3>2
      <4>. QED  BY <2>6, <3>2, <4>1, <4>2 DEF StoreInv, CountsExact
    <3>. QED  BY <3>1, <3>2
  <2>12. WithinLimits'
    <3>1. MaxGlobal > 0 => Cardinality(DOMAIN items') <= MaxGlobal
      BY <1>2, <2>5, StoreAssumption DEF Full
    <3>2. MaxPerIP > 0 => Cardinality(Outstanding(home)') <= MaxPerIP
      BY <1>2, <2>8, <2>9, StoreAssumption DEF Full
    <3>3. MaxPerIP > 0 => \A ip \in IPs : Cardinality(Outstanding(ip)') <= MaxPerIP
      BY <2>6, <3>2 DEF StoreInv, WithinLimits
    <3>. QED  BY <3>1, <3>3 DEF WithinLimits
  <2>. QED  BY <2>10, <2>11, <2>12 DEF StoreInv
<1>. QED  BY <1>1, <1>2

\* Deleting any of the store's challenges keeps it sound: consume and
\* cleanup are instances.
LEMMA DropSound ==
    ASSUME StoreInv, NEW gone \in SUBSET DOMAIN items, Drop(gone)
    PROVE  StoreInv'
<1>. DEFINE left(ip) == {k \in gone : IPOf[k] = ip}
<1>1. DOMAIN items' = DOMAIN items \ gone
  BY DEF Drop, Restrict
<1>2. /\ IsFiniteSet(DOMAIN items')
      /\ Cardinality(DOMAIN items') <= Cardinality(DOMAIN items)
      /\ Cardinality(DOMAIN items') \in Nat
      /\ Cardinality(DOMAIN items) \in Nat
  <2>1. DOMAIN items' \subseteq DOMAIN items  BY <1>1
  <2>2. IsFiniteSet(DOMAIN items)  BY DEF StoreInv, StoreTypeOK
  <2>. QED  BY <2>1, <2>2, FS_Subset, FS_CardinalityType
<1>3. ASSUME NEW ip \in IPs
      PROVE  /\ Outstanding(ip)' = Outstanding(ip) \ left(ip)
             /\ Cardinality(Outstanding(ip)') = Cardinality(Outstanding(ip)) - Share(gone, ip)
             /\ Share(gone, ip) \in Nat
             /\ Cardinality(Outstanding(ip)') \in Nat
             /\ Cardinality(Outstanding(ip)) \in Nat
             /\ Count(ip) = Cardinality(Outstanding(ip))
             /\ Outstanding(ip)' = {} <=> Cardinality(Outstanding(ip)') = 0
  <2>1. Outstanding(ip)' = Outstanding(ip) \ left(ip)
    BY <1>1 DEF Outstanding
  <2>2. left(ip) \subseteq Outstanding(ip)  BY DEF Outstanding
  <2>3. IsFiniteSet(Outstanding(ip)) /\ Cardinality(Outstanding(ip)) \in Nat
    BY OutstandingFinite
  <2>4. Outstanding(ip) \cap left(ip) = left(ip)  BY <2>2
  <2>5. IsFiniteSet(left(ip))  BY <2>2, <2>3, FS_Subset
  <2>6. Share(gone, ip) = Cardinality(left(ip))  BY DEF Share
  <2>7. IsFiniteSet(Outstanding(ip)')  BY <2>1, <2>3, FS_Difference
  <2>8. Cardinality(Outstanding(ip)') = Cardinality(Outstanding(ip)) - Cardinality(left(ip))
    BY <2>1, <2>3, <2>4, FS_Difference
  <2>9. Outstanding(ip)' = {} <=> Cardinality(Outstanding(ip)') = 0
    BY <2>7, FS_EmptySet
  <2>10. Count(ip) = Cardinality(Outstanding(ip))
    BY DEF StoreInv, CountsExact
  <2>. QED
    BY <2>1, <2>3, <2>5, <2>6, <2>7, <2>8, <2>9, <2>10, FS_CardinalityType
<1>4. countByIP' = [ip \in {i \in DOMAIN countByIP : countByIP[i] > Share(gone, i)}
                        |-> countByIP[ip] - Share(gone, ip)]
  BY DEF Drop
<1>5. DOMAIN countByIP \subseteq IPs /\ countByIP \in [DOMAIN countByIP -> Nat]
  BY DEF StoreInv, StoreTypeOK
<1>6. StoreTypeOK'
  <2>1. items' \in [DOMAIN items' -> Nat] /\ DOMAIN items' \subseteq Keys
    BY <1>1 DEF Drop, Restrict, StoreInv, StoreTypeOK
  <2>2. DOMAIN countByIP' \subseteq IPs  BY <1>4, <1>5
  <2>3. \A ip \in DOMAIN countByIP' : countByIP'[ip] \in Nat
    BY <1>3, <1>4, <1>5
  <2>. QED  BY <1>2, <1>4, <2>1, <2>2, <2>3 DEF StoreTypeOK
<1>7. CountsExact'
  <2>. SUFFICES ASSUME NEW ip \in IPs
                PROVE  /\ Count(ip)' = Cardinality(Outstanding(ip)')
                       /\ ip \in DOMAIN countByIP' => Outstanding(ip)' # {}
    BY DEF CountsExact
  <2>1. CASE ip \in DOMAIN countByIP /\ countByIP[ip] > Share(gone, ip)
    <3>1. Count(ip) = countByIP[ip]  BY <2>1 DEF Count
    <3>2. Count(ip)' = countByIP[ip] - Share(gone, ip)
      BY <1>4, <2>1 DEF Count
    <3>. QED  BY <1>3, <2>1, <3>1, <3>2
  <2>2. CASE ~(ip \in DOMAIN countByIP /\ countByIP[ip] > Share(gone, ip))
    <3>1. ip \notin DOMAIN countByIP'  BY <1>4, <2>2
    <3>2. Count(ip)' = 0  BY <3>1 DEF Count
    <3>3. Count(ip) <= Share(gone, ip)  BY <1>3, <1>5, <2>2 DEF Count
    <3>. QED  BY <1>3, <3>1, <3>2, <3>3
  <2>. QED  BY <2>1, <2>2
<1>8. WithinLimits'
  <2>1. MaxGlobal > 0 => Cardinality(DOMAIN items') <= MaxGlobal
    BY <1>2, StoreAssumption DEF StoreInv, WithinLimits
  <2>2. MaxPerIP > 0 => \A ip \in IPs : Cardinality(Outstanding(ip)') <= MaxPerIP
    BY <1>3, StoreAssumption DEF StoreInv, WithinLimits
  <2>. QED  BY <2>1, <2>2 DEF WithinLimits
<1>. QED  BY <1>6, <1>7, <1>8 DEF StoreInv

-----------------------------------------------------------------------------
\* The variables have their types in every state of the goroutines, and the
\* store is sound.
SafeInv == TypeOK /\ CountsExact /\ WithinLimits

LEMMA InitSafe == Init => SafeInv
<1>1. Init => StoreInv  BY StoreInitSound DEF Init
<1>. QED  BY <1>1 DEF Init, SafeInv, TypeOK, StoreInv, Idle

\* Idle is not a store call of any kind.
LEMMA IdleNot == Idle.op = "idle"
BY DEF Idle

LEMMA StepSafe == SafeInv /\ [Next]_vars => SafeInv'
<1>. SUFFICES ASSUME SafeInv, [Next]_vars PROVE SafeInv'  OBVIOUS
<1>1. StoreInv  BY DEF SafeInv, StoreInv, TypeOK
<1>. USE TimeAssumption
<1>2. ASSUME UNCHANGED storeVars PROVE StoreInv'
  BY <1>1, <1>2 DEF storeVars, StoreInv, StoreTypeOK, CountsExact, WithinLimits,
     Count, Outstanding
<1>3. ASSUME NEW k \in Keys, ReadRequest(k) PROVE SafeInv'
  BY <1>2, <1>3 DEF ReadRequest, SafeInv, TypeOK, StoreInv, clockVars, history
<1>4. ASSUME NEW k \in Keys, ReadResponse(k) PROVE SafeInv'
  BY <1>2, <1>4 DEF ReadResponse, SafeInv, TypeOK, StoreInv, clockVars, history
<1>5. CASE AddChallenge
  <2>1. reader.key \in Keys /\ reader.at \in Nat
    BY <1>5, IdleNot DEF AddChallenge, SafeInv, TypeOK
  <2>2. StoreInv'  BY <1>1, <1>5, <2>1, AddSound DEF AddChallenge
  <2>. QED
    BY <1>5, <2>1, <2>2 DEF AddChallenge, SafeInv, TypeOK, StoreInv, clockVars
<1>6. CASE ConsumeChallenge
  <2>1. reader.key \in Keys
    BY <1>6, IdleNot DEF ConsumeChallenge, SafeInv, TypeOK
  <2>2. StoreInv'  BY <1>1, <1>6, DropSound DEF ConsumeChallenge, Consume
  <2>. QED
    BY <1>6, <2>1, <2>2 DEF ConsumeChallenge, SafeInv, TypeOK, StoreInv, clockVars
<1>7. CASE ReadClock
  BY <1>2, <1>7 DEF ReadClock, SafeInv, TypeOK, StoreInv, history
<1>8. CASE RunCleanup
  <2>1. StoreInv'  BY <1>1, <1>8, DropSound DEF RunCleanup, Cleanup
  <2>. QED
    BY <1>8, <2>1 DEF RunCleanup, SafeInv, TypeOK, StoreInv, clockVars, history
<1>9. CASE Tick
  BY <1>2, <1>9 DEF Tick, SafeInv, TypeOK, StoreInv, history
<1>10. CASE UNCHANGED vars
  BY <1>2, <1>10 DEF vars, storeVars, SafeInv, TypeOK, StoreInv
<1>. QED
  BY <1>3, <1>4, <1>5, <1>6, <1>7, <1>8, <1>9, <1>10 DEF Next

\* Every variable keeps its type.
THEOREM TypeCorrect == Spec => []TypeOK
<1>1. SafeInv => TypeOK  BY DEF SafeInv
<1>. QED  BY InitSafe, StepSafe, <1>1, PTL DEF Spec

\* The counters of the store never drift from its contents: no sequence of
\* add, consume and cleanup locks an address out or lets it exceed its share.
THEOREM CountersExact == Spec => []CountsExact
<1>1. SafeInv => CountsExact  BY DEF SafeInv
<1>. QED  BY InitSafe, StepSafe, <1>1, PTL DEF Spec

\* Neither limit of the store is ever exceeded.
THEOREM LimitsHold == Spec => []WithinLimits
<1>1. SafeInv => WithinLimits  BY DEF SafeInv
<1>. QED  BY InitSafe, StepSafe, <1>1, PTL DEF Spec

-----------------------------------------------------------------------------
\* One issue pays for one pending entry or one redemption.  For this to be
\* inductive, a challenge the reader is about to register must not have been
\* issued yet: its nonce is fresh.
Ledger ==
    /\ RedeemedAtMostOnce
    /\ reader # Idle /\ reader.op = "add" => reader.key \notin issued

LEMMA StepLedger == SafeInv /\ Ledger /\ [Next]_vars => Ledger'
<1>. SUFFICES ASSUME SafeInv, Ledger, [Next]_vars PROVE Ledger'  OBVIOUS
<1>. USE DEF SafeInv, TypeOK, StoreTypeOK
<1>1. ASSUME UNCHANGED <<items, history>> PROVE RedeemedAtMostOnce'
  BY <1>1 DEF Ledger, RedeemedAtMostOnce, history
<1>2. ASSUME NEW k \in Keys, ReadRequest(k) PROVE Ledger'
  BY <1>1, <1>2 DEF ReadRequest, Ledger, storeVars, history, Idle
<1>3. ASSUME NEW k \in Keys, ReadResponse(k) PROVE Ledger'
  BY <1>1, <1>3 DEF ReadResponse, Ledger, storeVars, history, Idle
<1>4. CASE AddChallenge
  <2>. DEFINE k == reader.key
  <2>1. k \in Keys /\ k \notin issued /\ reader' = Idle
    BY <1>4, IdleNot DEF AddChallenge, Ledger
  <2>2. redeemed[k] = 0 /\ k \notin DOMAIN items
    BY <2>1 DEF Ledger, RedeemedAtMostOnce
  <2>3. CASE Full(k)
    BY <1>1, <1>4, <2>1, <2>3 DEF AddChallenge, Add, storeVars, Ledger, history, Idle
  <2>4. CASE ~Full(k)
    <3>1. /\ DOMAIN items' = DOMAIN items \cup {k}
          /\ issued' = issued \cup {k}
          /\ redeemed' = redeemed
      BY <1>4, <2>2, <2>4 DEF AddChallenge, Add
    <3>2. RedeemedAtMostOnce'
      BY <2>2, <3>1 DEF Ledger, RedeemedAtMostOnce
    <3>. QED  BY <2>1, <3>2 DEF Ledger, Idle
  <2>. QED  BY <2>3, <2>4
<1>5. CASE ConsumeChallenge
  <2>. DEFINE k == reader.key
  <2>1. k \in Keys /\ reader' = Idle /\ issued' = issued
    BY <1>5, IdleNot DEF ConsumeChallenge
  <2>2. DOMAIN items' = DOMAIN items \ {k}
    BY <1>5 DEF ConsumeChallenge, Consume, Drop, Restrict
  <2>3. \/ k \in DOMAIN items /\ redeemed' = [redeemed EXCEPT ![k] = @ + 1]
        \/ redeemed' = redeemed
    BY <1>5 DEF ConsumeChallenge, Accepts
  <2>4. ASSUME NEW x \in Keys
        PROVE  redeemed'[x] + (IF x \in DOMAIN items' THEN 1 ELSE 0)
                   <= (IF x \in issued' THEN 1 ELSE 0)
    BY <2>1, <2>2, <2>3 DEF Ledger, RedeemedAtMostOnce
  <2>. QED  BY <2>1, <2>4 DEF Ledger, RedeemedAtMostOnce, Idle
<1>6. CASE ReadClock
  BY <1>1, <1>6 DEF ReadClock, Ledger, storeVars, history, Idle
<1>7. CASE RunCleanup
  <2>1. DOMAIN items' \subseteq DOMAIN items /\ UNCHANGED <<reader, issued, redeemed>>
    BY <1>7 DEF RunCleanup, Cleanup, Drop, Restrict, history
  <2>. QED  BY <2>1 DEF Ledger, RedeemedAtMostOnce, Idle
<1>8. CASE Tick
  BY <1>1, <1>8 DEF Tick, Ledger, storeVars, history, Idle
<1>9. CASE UNCHANGED vars
  BY <1>1, <1>9 DEF vars, Ledger, history, Idle
<1>. QED  BY <1>2, <1>3, <1>4, <1>5, <1>6, <1>7, <1>8, <1>9 DEF Next

\* No challenge is redeemed twice, nor one that was never issued, whatever
\* responses arrive and however they are repeated.
THEOREM NoReplay == Spec => []RedeemedAtMostOnce
<1>1. Init => Ledger
  BY DEF Init, StoreInit, Ledger, RedeemedAtMostOnce
<1>2. Ledger => RedeemedAtMostOnce  BY DEF Ledger
<1>. QED  BY InitSafe, StepSafe, StepLedger, <1>1, <1>2, PTL DEF Spec

-----------------------------------------------------------------------------
\* The time a goroutine read is at most MaxLag old when it uses it; the
\* cleaner keeps to its ticks; and no challenge outlives the last sweep.
Timely ==
    /\ reader # Idle => reader.at <= now /\ now <= reader.at + MaxLag
    /\ cleaner # Idle =>
           /\ cleaner.at <= now
           /\ now <= cleaner.at + MaxLag
           /\ nextTick <= cleaner.at + CleanupPeriod
           /\ cleaner.at + CleanupPeriod <= nextTick + MaxLag
    /\ cleaner = Idle => now <= nextTick + MaxLag
    /\ nextTick <= now + CleanupPeriod
    /\ \A k \in DOMAIN items :
           nextTick < items[k] + (IF cleaner = Idle THEN CleanupPeriod
                                                    ELSE 2 * CleanupPeriod)

\* Only AddChallenge inserts, and what it inserts is not yet expired.
LEMMA InsertsLive ==
    ASSUME SafeInv, Timely, AddChallenge, NEW k \in DOMAIN items'
    PROVE  \/ k \in DOMAIN items /\ items'[k] = items[k]
           \/ items'[k] \in Nat /\ now < items'[k]
<1>1. reader.key \in Keys /\ reader.at \in Nat /\ reader # Idle
  BY IdleNot DEF AddChallenge, SafeInv, TypeOK
<1>2. now <= reader.at + MaxLag  BY <1>1 DEF Timely
<1>3. reader.at + TTL \in Nat /\ now < reader.at + TTL
  BY <1>1, <1>2, TimeAssumption DEF SafeInv, TypeOK
<1>. QED
  BY <1>3 DEF AddChallenge, Add, storeVars, SafeInv, TypeOK, StoreTypeOK

LEMMA StepTimely == SafeInv /\ Timely /\ [Next]_vars => Timely'
<1>. SUFFICES ASSUME SafeInv, Timely, [Next]_vars PROVE Timely'  OBVIOUS
<1>. USE TimeAssumption DEF SafeInv, TypeOK, StoreTypeOK
<1>1. ASSUME NEW k \in Keys, ReadRequest(k) \/ ReadResponse(k) PROVE Timely'
  <2>1. UNCHANGED <<items, now, nextTick, cleaner>>
    BY <1>1 DEF ReadRequest, ReadResponse, storeVars, clockVars
  <2>2. reader'.at = now
    BY <1>1 DEF ReadRequest, ReadResponse
  <2>. QED  BY <2>1, <2>2 DEF Timely, Idle
<1>2. CASE AddChallenge
  <2>1. reader' = Idle /\ UNCHANGED <<now, nextTick, cleaner>>
    BY <1>2 DEF AddChallenge, clockVars
  <2>2. ASSUME NEW k \in DOMAIN items'
        PROVE  nextTick < items'[k] + (IF cleaner = Idle THEN CleanupPeriod
                                                         ELSE 2 * CleanupPeriod)
    <3>1. CASE k \in DOMAIN items /\ items'[k] = items[k]
      BY <3>1 DEF Timely
    <3>2. CASE items'[k] \in Nat /\ now < items'[k]
      BY <3>2 DEF Timely
    <3>. QED  BY <1>2, <3>1, <3>2, InsertsLive
  <2>. QED  BY <2>1, <2>2 DEF Timely, Idle
<1>3. CASE ConsumeChallenge
  <2>1. reader' = Idle /\ UNCHANGED <<now, nextTick, cleaner>>
    BY <1>3 DEF ConsumeChallenge, clockVars
  <2>2. \A k \in DOMAIN items' : k \in DOMAIN items /\ items'[k] = items[k]
    BY <1>3 DEF ConsumeChallenge, Consume, Drop, Restrict
  <2>. QED  BY <2>1, <2>2 DEF Timely, Idle
<1>4. CASE ReadClock
  <2>1. /\ UNCHANGED <<items, now, reader>>
        /\ cleaner = Idle /\ now >= nextTick
        /\ cleaner' = [op |-> "cleanup", at |-> now]
        /\ nextTick' = nextTick + CleanupPeriod
    BY <1>4 DEF ReadClock, storeVars
  <2>2. cleaner' # Idle /\ cleaner'.at = now  BY <2>1 DEF Idle
  <2>3. \A k \in DOMAIN items' : nextTick' < items'[k] + 2 * CleanupPeriod
    BY <2>1 DEF Timely
  <2>. QED  BY <2>1, <2>2, <2>3 DEF Timely, Idle
<1>5. CASE RunCleanup
  <2>1. cleaner' = Idle /\ cleaner # Idle /\ UNCHANGED <<now, nextTick, reader>>
    BY <1>5, IdleNot DEF RunCleanup, clockVars
  <2>2. ASSUME NEW k \in DOMAIN items'
        PROVE  k \in DOMAIN items /\ items'[k] = items[k] /\ items[k] > cleaner.at
    BY <1>5, <2>1 DEF RunCleanup, Cleanup, Drop, Restrict
  <2>3. \A k \in DOMAIN items' : nextTick < items'[k] + CleanupPeriod
    BY <2>1, <2>2 DEF Timely
  <2>4. now <= nextTick + MaxLag
    BY <2>1 DEF Timely
  <2>. QED  BY <2>1, <2>3, <2>4 DEF Timely, Idle
<1>6. CASE Tick
  BY <1>6 DEF Tick, storeVars, Timely, Idle
<1>7. CASE UNCHANGED vars
  BY <1>7 DEF vars, Timely, Idle
<1>. QED  BY <1>1, <1>2, <1>3, <1>4, <1>5, <1>6, <1>7 DEF Next

LEMMA InitTimely == Init => Timely
BY TimeAssumption DEF Init, StoreInit, Timely

\* A challenge nobody answers is gone one cleanup period and two waits after
\* its expiry at the latest, so it cannot lock its address out for longer.
THEOREM DeadChallengesGo == Spec => []DeadChallengesCollected
<1>1. SafeInv /\ Timely => DeadChallengesCollected
  BY TimeAssumption DEF SafeInv, TypeOK, StoreTypeOK, Timely, DeadChallengesCollected
<1>. QED  BY InitSafe, StepSafe, InitTimely, StepTimely, <1>1, PTL DEF Spec

\* A challenge is never redeemed later than one wait after its expiry.
THEOREM RedeemedWhileFresh == Spec => RedeemedInTime
<1>1. SafeInv /\ Timely /\ [Next]_vars => [RedeemsInTime]_vars
  <2>. SUFFICES ASSUME SafeInv, Timely, [Next]_vars, NEW k \in Keys,
                       redeemed'[k] > redeemed[k]
                PROVE  k \in DOMAIN items /\ now < items[k] + MaxLag
    BY DEF RedeemsInTime
  <2>1. CASE ConsumeChallenge
    <3>1. k = reader.key /\ k \in DOMAIN items /\ items[k] > reader.at
      BY <2>1 DEF ConsumeChallenge, Accepts, SafeInv, TypeOK
    <3>2. reader # Idle /\ reader.at \in Nat
      BY <2>1, IdleNot DEF ConsumeChallenge, SafeInv, TypeOK
    <3>. QED
      BY <3>1, <3>2, TimeAssumption DEF Timely, SafeInv, TypeOK, StoreTypeOK
  <2>2. CASE UNCHANGED redeemed
    BY <2>2 DEF SafeInv, TypeOK
  <2>. QED
    BY <2>1, <2>2 DEF Next, ReadRequest, ReadResponse, AddChallenge, ReadClock,
       RunCleanup, Tick, vars, history
<1>. QED
  BY InitSafe, StepSafe, InitTimely, StepTimely, <1>1, PTL DEF Spec, RedeemedInTime

\* A challenge is lost to nobody before its time: it stays until it is
\* redeemed or expires.
THEOREM NoLiveChallengeLost == Spec => LiveChallengeKept
<1>1. SafeInv /\ Timely /\ [Next]_vars => [LosesNoLiveChallenge]_vars
  <2>. SUFFICES ASSUME SafeInv, Timely, [Next]_vars,
                       NEW k \in DOMAIN items \ DOMAIN items'
                PROVE  items[k] <= now \/ redeemed'[k] = redeemed[k] + 1
    BY DEF LosesNoLiveChallenge
  <2>. USE DEF SafeInv, TypeOK, StoreTypeOK
  <2>1. CASE ConsumeChallenge
    <3>1. k = reader.key /\ reader # Idle
      BY <2>1, IdleNot DEF ConsumeChallenge, Consume, Drop, Restrict
    <3>2. CASE items[k] > reader.at
      BY <2>1, <3>1, <3>2 DEF ConsumeChallenge, Accepts
    <3>3. CASE ~(items[k] > reader.at)
      BY <3>1, <3>3 DEF Timely
    <3>. QED  BY <3>2, <3>3
  <2>2. CASE RunCleanup
    <3>1. items[k] <= cleaner.at /\ cleaner # Idle
      BY <2>2, IdleNot DEF RunCleanup, Cleanup, Drop, Restrict
    <3>. QED  BY <3>1 DEF Timely
  <2>3. CASE AddChallenge
    BY <2>3 DEF AddChallenge, Add, storeVars
  <2>. QED
    BY <2>1, <2>2, <2>3 DEF Next, ReadRequest, ReadResponse, ReadClock, Tick,
       vars, storeVars
<1>. QED
  BY InitSafe, StepSafe, InitTimely, StepTimely, <1>1, PTL DEF Spec, LiveChallengeKept
=============================================================================
