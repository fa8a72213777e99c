---------------------------- MODULE LogLockProofs ----------------------------
(***************************************************************************)
(* How long the sweep of one forward can keep muxClient, for any number of *)
(* goroutines, of forwards and of expired entries and any timeout of the   *)
(* log service.                                                            *)
(***************************************************************************)
EXTENDS LogLocks, SequenceTheorems, FiniteSetTheorems, TLAPS

In(queue, g) == \E i \in 1 .. Len(queue) : queue[i] = g

Before(queue, g, h) ==
    \E i, j \in 1 .. Len(queue) : i < j /\ queue[i] = g /\ queue[j] = h

\* Nobody waits for the same mutex twice.
Distinct(queue) ==
    \A i, j \in 1 .. Len(queue) : queue[i] = queue[j] => i = j

Labels == {"idle", "mux", "holds", "log", "upload", "write"}

Logging(g) == pc[g] \in {"log", "upload", "write"}

\* Only refreshers log while they keep muxClient.
UsesMux(g) == pc[g] \in {"mux", "holds"} \/ (g \in Refreshers /\ Logging(g))

LockTypes ==
    /\ pc \in [Goroutines -> Labels]
    /\ muxClient \in Seq(Goroutines)
    /\ logger \in Seq(Goroutines)
    /\ {left, spent, held, swept} \subseteq Nat

\* The queue of the logger's mutex, whose head alone uploads.
LoggerQueued ==
    /\ Distinct(logger)
    /\ \A g \in Goroutines : Logging(g) <=> In(logger, g)
    /\ \A g \in Goroutines : pc[g] = "upload" => logger[1] = g

\* The queue of muxClient, where all but the head do nothing but wait.
MuxQueued ==
    /\ Distinct(muxClient)
    /\ \A g \in Goroutines : UsesMux(g) <=> In(muxClient, g)
    /\ \A g, h \in Goroutines : Before(muxClient, g, h) => pc[h] = "mux"

\* What one entry may cost: an upload of everybody but the other refreshers.
Share == PerEntry * Timeout

Uploading == \E g \in Goroutines : pc[g] = "upload"

\* What the upload at hand has cost so far.
Current == IF Uploading THEN spent ELSE 0

\* h has no upload left that the entry of g would have to wait for: it has
\* uploaded and come to wait behind g; or g has, and h is not ahead of it with
\* an upload.
Served(h, g) ==
    IF pc[g] = "write" THEN ~(Before(logger, h, g) /\ pc[h] \in {"log", "upload"})
    ELSE Before(logger, g, h) /\ pc[h] = "write"

Done(g) == {h \in Others \cup {g} : Served(h, g)}

\* The entries that are logged have had their share of time; the one at hand
\* has had an upload for each that is done.
Paced ==
    /\ Uploading => spent <= Timeout
    /\ left <= swept
    /\ \A g \in Refreshers : pc[g] = "holds" => held <= (swept - left) * Share
    /\ \A g \in Refreshers :
           Logging(g) =>
               /\ left < swept
               /\ held <= (swept - left - 1) * Share + Cardinality(Done(g)) * Timeout
                            + Current

LockInv == LockTypes /\ LoggerQueued /\ MuxQueued /\ Paced /\ StallBounded
-----------------------------------------------------------------------------
\* What a queue becomes when g comes to wait, and when its head has gone.
Joined(q, g, r) == r = Append(q, g)

Left(q, r) == q # <<>> /\ r = Tail(q)

LEMMA Joins ==
    ASSUME NEW q \in Seq(Goroutines), NEW g \in Goroutines, Distinct(q), ~In(q, g),
           NEW r, Joined(q, g, r)
    PROVE  /\ r \in Seq(Goroutines) /\ Distinct(r)
           /\ \A h \in Goroutines : In(r, h) <=> In(q, h) \/ h = g
           /\ \A h, k \in Goroutines : Before(r, h, k) <=> Before(q, h, k) \/ (In(q, h) /\ k = g)
           /\ q # <<>> => r[1] = q[1]
  <1>1. /\ r \in Seq(Goroutines) /\ Len(r) = Len(q) + 1 /\ Len(q) \in Nat
        /\ \A i \in 1 .. Len(q) : r[i] = q[i]
        /\ r[Len(q) + 1] = g
    BY AppendProperties, LenProperties DEF Joined
  <1>2. /\ \A i \in 1 .. Len(r) : i \in 1 .. Len(q) \/ i = Len(q) + 1
        /\ 1 .. Len(q) \subseteq 1 .. Len(r) /\ Len(q) + 1 \in 1 .. Len(r)
        /\ \A i \in 1 .. Len(q) : i < Len(q) + 1
    BY <1>1
  <1>3. Distinct(r)
    BY <1>1, <1>2 DEF Distinct, In
  <1>4. \A h \in Goroutines : In(r, h) <=> In(q, h) \/ h = g
    BY <1>1, <1>2 DEF In
  <1>5. ASSUME NEW h \in Goroutines, NEW k \in Goroutines
        PROVE  Before(r, h, k) <=> Before(q, h, k) \/ (In(q, h) /\ k = g)
    <2>1. Before(r, h, k) => Before(q, h, k) \/ (In(q, h) /\ k = g)
      BY <1>1, <1>2 DEF Before, In
    <2>2. Before(q, h, k) => Before(r, h, k)
      BY <1>1, <1>2 DEF Before
    <2>3. In(q, h) /\ k = g => Before(r, h, k)
      BY <1>1, <1>2 DEF Before, In
    <2>4. QED
      BY <2>1, <2>2, <2>3
  <1>6. q # <<>> => r[1] = q[1]
    <2>1. q # <<>> => Len(q) # 0
      BY EmptySeq
    <2>2. Len(q) # 0 => 1 \in 1 .. Len(q)
      BY <1>1
    <2>3. QED
      BY <1>1, <2>1, <2>2
  <1>7. QED
    BY <1>1, <1>3, <1>4, <1>5, <1>6

LEMMA Leaves ==
    ASSUME NEW q \in Seq(Goroutines), Distinct(q), NEW r, Left(q, r)
    PROVE  /\ r \in Seq(Goroutines) /\ Distinct(r)
           /\ \A h \in Goroutines : In(r, h) <=> In(q, h) /\ h # q[1]
           /\ \A h, k \in Goroutines : Before(r, h, k) <=> Before(q, h, k) /\ h # q[1]
  <1>1. /\ r \in Seq(Goroutines) /\ Len(q) \in Nat \ {0} /\ Len(r) = Len(q) - 1
        /\ \A i \in 1 .. Len(r) : r[i] = q[i + 1]
    BY HeadTailProperties, EmptySeq DEF Left
  <1>2. /\ \A i \in 1 .. Len(r) : i + 1 \in 1 .. Len(q) /\ i + 1 # 1
        /\ \A i \in 1 .. Len(q) : i # 1 => i - 1 \in 1 .. Len(r) /\ (i - 1) + 1 = i
        /\ 1 \in 1 .. Len(q)
    BY <1>1
  <1>3. Distinct(r)
    BY <1>1, <1>2 DEF Distinct
  <1>4. \A i \in 1 .. Len(q) : i # 1 => r[i - 1] = q[i]
    BY <1>1, <1>2
  <1>5. ASSUME NEW h \in Goroutines PROVE In(r, h) <=> In(q, h) /\ h # q[1]
    <2>1. In(r, h) => In(q, h) /\ h # q[1]
      BY <1>1, <1>2 DEF In, Distinct
    <2>2. In(q, h) /\ h # q[1] => In(r, h)
      BY <1>2, <1>4 DEF In
    <2>3. QED
      BY <2>1, <2>2
  <1>6. ASSUME NEW h \in Goroutines, NEW k \in Goroutines
        PROVE  Before(r, h, k) <=> Before(q, h, k) /\ h # q[1]
    <2>1. ASSUME Before(r, h, k) PROVE Before(q, h, k) /\ h # q[1]
      <3>1. PICK i, j \in 1 .. Len(r) : i < j /\ r[i] = h /\ r[j] = k
        BY <2>1 DEF Before
      <3>2. i + 1 < j + 1 /\ q[i + 1] = h /\ q[j + 1] = k
        BY <1>1, <3>1
      <3>3. i + 1 \in 1 .. Len(q) /\ j + 1 \in 1 .. Len(q) /\ i + 1 # 1
        BY <1>2
      <3>4. q[i + 1] # q[1]
        BY <1>2, <3>3 DEF Distinct
      <3>5. QED
        BY <3>2, <3>3, <3>4 DEF Before
    <2>2. ASSUME Before(q, h, k), h # q[1] PROVE Before(r, h, k)
      <3>1. PICK i, j \in 1 .. Len(q) : i < j /\ q[i] = h /\ q[j] = k
        BY <2>2 DEF Before
      <3>2. i # 1 /\ j # 1 /\ i - 1 < j - 1
        BY <1>2, <2>2, <3>1
      <3>3. QED
        BY <1>2, <1>4, <3>1, <3>2 DEF Before
    <2>3. QED
      BY <2>1, <2>2
  <1>7. QED
    BY <1>1, <1>3, <1>5, <1>6

\* The head of a queue is before everybody else in it.
LEMMA Heads ==
    ASSUME NEW q \in Seq(Goroutines), Distinct(q), NEW g \in Goroutines, In(q, g)
    PROVE  /\ q # <<>> /\ q[1] \in Goroutines /\ Head(q) = q[1] /\ In(q, q[1])
           /\ g # q[1] => Before(q, q[1], g)
           /\ \A h \in Goroutines : ~Before(q, h, q[1]) /\ ~Before(q, h, h)
  <1>1. Len(q) \in Nat
    BY LenProperties
  <1>2. PICK i \in 1 .. Len(q) : q[i] = g
    BY DEF In
  <1>3. 1 \in 1 .. Len(q) /\ Len(q) # 0 /\ (i # 1 => 1 < i)
    BY <1>1
  <1>4. q # <<>>
    BY <1>3
  <1>5. q[1] \in Goroutines /\ In(q, q[1]) /\ Head(q) = q[1]
    BY <1>3, <1>4, ElementOfSeq DEF In
  <1>6. g # q[1] => Before(q, q[1], g)
    BY <1>2, <1>3 DEF Before
  <1>7. \A h \in Goroutines : ~Before(q, h, q[1]) /\ ~Before(q, h, h)
    BY <1>1, <1>3 DEF Before, Distinct
  <1>8. QED
    BY <1>4, <1>5, <1>6, <1>7

\* Who can be done, and what that is worth.
LEMMA Counts ==
    /\ PerEntry \in Nat /\ Timeout \in Nat
    /\ \A g \in Goroutines : \A S \in SUBSET (Others \cup {g}) :
           /\ IsFiniteSet(S) /\ Cardinality(S) \in Nat
           /\ g \in Refreshers => Cardinality(S) <= PerEntry
           /\ \A T \in SUBSET S : Cardinality(T) <= Cardinality(S)
           /\ \A h \in S : \A T \in SUBSET (S \ {h}) : Cardinality(T) + 1 <= Cardinality(S)
  <1>1. IsFiniteSet(Others) /\ Cardinality(Others) \in Nat
    BY LogAssumption, FS_Union, FS_CardinalityType DEF Others
  <1>2. ASSUME NEW g \in Goroutines, NEW S \in SUBSET (Others \cup {g})
        PROVE  /\ IsFiniteSet(S) /\ Cardinality(S) \in Nat
               /\ g \in Refreshers => Cardinality(S) <= PerEntry
               /\ \A T \in SUBSET S : Cardinality(T) <= Cardinality(S)
               /\ \A h \in S : \A T \in SUBSET (S \ {h}) :
                      Cardinality(T) + 1 <= Cardinality(S)
    <2>1. IsFiniteSet(Others \cup {g})
      BY <1>1, FS_AddElement
    <2>2. IsFiniteSet(S) /\ Cardinality(S) \in Nat
          /\ Cardinality(S) <= Cardinality(Others \cup {g})
      BY <2>1, FS_Subset, FS_CardinalityType
    <2>3. ASSUME g \in Refreshers PROVE Cardinality(S) <= PerEntry
      <3>1. g \notin Others
        BY <2>3, LogAssumption DEF Others
      <3>2. Cardinality(Others \cup {g}) = Cardinality(Others) + 1
        BY <1>1, <3>1, FS_AddElement
      <3>3. QED
        BY <2>2, <3>2 DEF PerEntry
    <2>4. \A T \in SUBSET S : Cardinality(T) <= Cardinality(S)
      BY <2>2, FS_Subset
    <2>5. ASSUME NEW h \in S, NEW T \in SUBSET (S \ {h})
          PROVE  Cardinality(T) + 1 <= Cardinality(S)
      <3>1. IsFiniteSet(S \ {h}) /\ Cardinality(S \ {h}) = Cardinality(S) - 1
        BY <2>2, FS_RemoveElement
      <3>2. Cardinality(T) <= Cardinality(S \ {h})
        BY <3>1, FS_Subset
      <3>3. IsFiniteSet(T) /\ Cardinality(T) \in Nat
        BY <2>2, FS_Subset, FS_CardinalityType
      <3>4. QED
        BY <2>2, <3>1, <3>2, <3>3
    <2>6. QED
      BY <2>2, <2>3, <2>4, <2>5
  <1>3. PerEntry \in Nat /\ Timeout \in Nat
    BY <1>1, LogAssumption DEF PerEntry
  <1>4. QED
    BY <1>2, <1>3

\* The arithmetic of shares.
LEMMA Shares ==
    /\ Share \in Nat /\ Timeout \in Nat
    /\ \A n, m \in Nat : n <= m => n * Share <= m * Share /\ n * Timeout <= m * Timeout
    /\ \A n \in Nat : n * Share \in Nat /\ n * Timeout \in Nat
    /\ 0 * Share = 0
    /\ \A n \in Nat : (n + 1) * Share = n * Share + Share
                      /\ (n + 1) * Timeout = n * Timeout + Timeout
    /\ \A n \in Nat : n * PerEntry * Timeout = n * Share
  <1>1. PerEntry \in Nat /\ Timeout \in Nat
    BY Counts
  <1>2. \A n \in Nat : (n * PerEntry) * Timeout = n * (PerEntry * Timeout)
    BY <1>1
  <1>3. QED
    BY <1>1, <1>2 DEF Share

LEMMA SharePays ==
    ASSUME NEW n \in Nat, NEW m \in Nat, m < n
    PROVE  (n - m) * Share = (n - m - 1) * Share + Share /\ (n - m - 1) * Share \in Nat
  <1> DEFINE d == n - m - 1
  <1>1. d \in Nat /\ d + 1 = n - m
    OBVIOUS
  <1>2. (d + 1) * Share = d * Share + Share /\ d * Share \in Nat
    <2> HIDE DEF d
    <2> QED
      BY <1>1, Shares
  <1>3. QED
    BY <1>1, <1>2
-----------------------------------------------------------------------------
LEMMA LockInit == Init => LockInv
  <1> SUFFICES ASSUME Init PROVE LockInv
    OBVIOUS
  <1>1. \A g \in Goroutines : pc[g] = "idle"
    BY DEF Init
  <1>2. Refreshers \subseteq Goroutines
    BY DEF Goroutines
  <1>3. muxClient = <<>> /\ logger = <<>> /\ Len(<<>>) = 0
    BY DEF Init
  <1>4. LockTypes
    BY EmptySeq DEF Init, LockTypes, Labels
  <1>5. LoggerQueued /\ MuxQueued
    <2>1. \A g \in Goroutines : ~Logging(g) /\ ~UsesMux(g) /\ pc[g] # "upload"
      BY <1>1 DEF Logging, UsesMux
    <2>2. 1 .. Len(logger) = {} /\ 1 .. Len(muxClient) = {}
      BY <1>3
    <2>3. QED
      BY <2>1, <2>2 DEF LoggerQueued, MuxQueued, Distinct, In, Before
  <1>6. Paced
    <2>1. left <= swept
      BY DEF Init
    <2>2. ~Uploading /\ \A g \in Refreshers : ~Logging(g) /\ pc[g] # "holds"
      BY <1>1, <1>2 DEF Logging, Uploading
    <2>3. QED
      BY <2>1, <2>2 DEF Paced
  <1>7. StallBounded
    <2>1. held = 0 /\ swept \in Nat
      BY DEF Init
    <2>2. 0 <= swept * Share
      BY <2>1, Shares
    <2>3. QED
      BY <2>1, <2>2, Shares DEF StallBounded
  <1>8. QED
    BY <1>4, <1>5, <1>6, <1>7 DEF LockInv

\* A step that leaves a queue alone, and with it who is in it.
LEMMA LoggerStays ==
    ASSUME LoggerQueued, logger' = logger,
           \A g \in Goroutines : /\ Logging(g)' <=> Logging(g)
                                 /\ pc'[g] = "upload" => pc[g] = "upload"
    PROVE  LoggerQueued'
  BY DEF LoggerQueued, In

LEMMA MuxStays ==
    ASSUME MuxQueued, muxClient' = muxClient,
           \A g \in Goroutines : /\ UsesMux(g)' <=> UsesMux(g)
                                 /\ pc[g] = "mux" => pc'[g] = "mux"
    PROVE  MuxQueued'
  BY DEF MuxQueued, In, Before

\* Whoever holds muxClient is its head, the only refresher that logs.
LEMMA HeadOnly ==
    ASSUME LockTypes, MuxQueued, NEW g \in Goroutines, UsesMux(g), pc[g] # "mux"
    PROVE  /\ muxClient # <<>> /\ muxClient[1] = g /\ Head(muxClient) = g
           /\ \A h \in Refreshers : h # g => ~Logging(h) /\ pc[h] # "holds"
  <1>1. /\ muxClient \in Seq(Goroutines) /\ Distinct(muxClient)
        /\ \A h \in Goroutines : UsesMux(h) <=> In(muxClient, h)
        /\ \A h, k \in Goroutines : Before(muxClient, h, k) => pc[k] = "mux"
    BY DEF LockTypes, MuxQueued
  <1>2. /\ muxClient # <<>> /\ muxClient[1] \in Goroutines
        /\ Head(muxClient) = muxClient[1]
    BY <1>1, Heads
  <1>3. \A h \in Goroutines : UsesMux(h) /\ h # muxClient[1] => pc[h] = "mux"
    BY <1>1, <1>2, Heads
  <1>4. muxClient[1] = g
    BY <1>3
  <1>5. ASSUME NEW h \in Refreshers, h # g PROVE ~Logging(h) /\ pc[h] # "holds"
    <2>1. h \in Goroutines
      BY DEF Goroutines
    <2>2. UsesMux(h) => pc[h] = "mux"
      BY <1>3, <1>4, <1>5, <2>1
    <2>3. QED
      BY <2>2 DEF UsesMux, Logging
  <1>6. QED
    BY <1>2, <1>4, <1>5

LEMMA LogHead ==
    ASSUME LockTypes, LoggerQueued, NEW g \in Goroutines, Logging(g)
    PROVE  /\ logger # <<>> /\ logger[1] \in Goroutines /\ Head(logger) = logger[1]
           /\ Logging(logger[1])
           /\ g # logger[1] => Before(logger, logger[1], g)
           /\ \A h \in Goroutines : ~Before(logger, h, logger[1]) /\ ~Before(logger, h, h)
  <1>1. /\ logger \in Seq(Goroutines) /\ Distinct(logger)
        /\ \A h \in Goroutines : Logging(h) <=> In(logger, h)
    BY DEF LockTypes, LoggerQueued
  <1>2. QED
    BY <1>1, Heads

\* Whoever is at the head of the logger's mutex with an upload is not done.
LEMMA HeadNotDone ==
    ASSUME LockTypes, LoggerQueued, NEW g \in Goroutines, Logging(g),
           pc[logger[1]] = "upload"
    PROVE  logger[1] \notin Done(g)
  <1>1. logger[1] \in Goroutines /\ (g # logger[1] => Before(logger, logger[1], g))
    BY LogHead
  <1>2. ~Served(logger[1], g)
    BY <1>1 DEF Served
  <1>3. QED
    BY <1>2 DEF Done

\* A step that takes nothing from the refresher that has muxClient.
LEMMA PaceStays ==
    ASSUME LockTypes, Paced, StallBounded, UNCHANGED <<left, held, swept>>,
           Current' = Current, Uploading' => spent' <= Timeout,
           \A g \in Refreshers : pc'[g] = "holds" => pc[g] = "holds",
           \A g \in Refreshers : Logging(g)' => Logging(g) /\ Done(g) \subseteq Done(g)'
    PROVE  Paced' /\ StallBounded'
  <1>1. StallBounded'
    BY DEF StallBounded
  <1>2. ASSUME NEW g \in Refreshers, Logging(g)'
        PROVE  /\ left' < swept'
               /\ held' <= (swept' - left' - 1) * Share + Cardinality(Done(g)') * Timeout
                             + Current'
    <2>1. /\ left < swept
          /\ held <= (swept - left - 1) * Share + Cardinality(Done(g)) * Timeout + Current
      BY <1>2 DEF Paced
    <2>2. g \in Goroutines /\ Done(g)' \subseteq Others \cup {g} /\ Done(g) \subseteq Done(g)'
      BY <1>2 DEF Goroutines, Done
    <2>3. /\ Cardinality(Done(g)) \in Nat /\ Cardinality(Done(g)') \in Nat
          /\ Cardinality(Done(g)) <= Cardinality(Done(g)')
      BY <2>2, Counts
    <2>4. \A m, n \in Nat : m <= n => m * Timeout <= n * Timeout
                                      /\ m * Timeout \in Nat /\ n * Timeout \in Nat
      BY Shares
    <2>5. /\ Cardinality(Done(g)) * Timeout <= Cardinality(Done(g)') * Timeout
          /\ Cardinality(Done(g)) * Timeout \in Nat /\ Cardinality(Done(g)') * Timeout \in Nat
      BY <2>3, <2>4, Zenon
    <2>6. left \in Nat /\ swept \in Nat /\ held \in Nat /\ spent \in Nat
      BY DEF LockTypes
    <2>7. (swept - left - 1) * Share \in Nat
      BY <2>1, <2>6, SharePays
    <2>8. Current \in Nat
      BY <2>6 DEF Current
    <2>9. QED
      BY <2>1, <2>5, <2>6, <2>7, <2>8
  <1>3. QED
    BY <1>1, <1>2 DEF Paced

\* One that leaves those who log and their queue alone.
LEMMA PaceAlone ==
    ASSUME LockTypes, Paced, StallBounded, UNCHANGED <<left, held, swept, spent, logger>>,
           \A h \in Goroutines : \/ pc'[h] = pc[h]
                                 \/ ~Logging(h) /\ ~Logging(h)' /\ pc'[h] # "holds"
    PROVE  Paced' /\ StallBounded'
  <1>1. \A h \in Goroutines : /\ pc'[h] = "upload" <=> pc[h] = "upload"
                              /\ pc'[h] = "log" <=> pc[h] = "log"
                              /\ pc'[h] = "write" <=> pc[h] = "write"
                              /\ pc'[h] = "holds" => pc[h] = "holds"
    BY DEF Logging
  <1>2. Current' = Current /\ (Uploading' => spent' <= Timeout)
    BY <1>1 DEF Current, Uploading, Paced
  <1>3. Refreshers \subseteq Goroutines /\ Others \subseteq Goroutines
    BY DEF Goroutines
  <1>4. ASSUME NEW g \in Refreshers, Logging(g)'
        PROVE  Logging(g) /\ Done(g) \subseteq Done(g)'
    <2>1. Logging(g)
      BY <1>1, <1>3, <1>4 DEF Logging
    <2>2. \A h \in Others \cup {g} : Served(h, g) => Served(h, g)'
      BY <1>1, <1>3 DEF Served, Before
    <2>3. QED
      BY <2>1, <2>2 DEF Done
  <1>5. QED
    BY <1>1, <1>2, <1>3, <1>4, PaceStays

-----------------------------------------------------------------------------
\* muxClient.
LEMMA LockSafe ==
    ASSUME LockInv, NEW g \in Goroutines, Lock(g)
    PROVE  LockInv'
  <1> USE DEF LockInv
  <1>1. /\ pc[g] = "idle" /\ pc' = [pc EXCEPT ![g] = "mux"]
        /\ Joined(muxClient, g, muxClient')
        /\ UNCHANGED <<logger, left, spent, uploaded, held, swept>>
    BY DEF Lock, Goto, Joined
  <1>2. /\ pc'[g] = "mux" /\ pc' \in [Goroutines -> Labels]
        /\ \A h \in Goroutines : h # g => pc'[h] = pc[h]
    BY <1>1 DEF LockTypes, Labels
  <1>3. ~UsesMux(g) /\ ~In(muxClient, g) /\ ~Logging(g)
    BY <1>1 DEF UsesMux, Logging, MuxQueued
  <1>4. /\ muxClient' \in Seq(Goroutines) /\ Distinct(muxClient')
        /\ \A h \in Goroutines : In(muxClient', h) <=> In(muxClient, h) \/ h = g
        /\ \A h, k \in Goroutines :
               Before(muxClient', h, k) <=> Before(muxClient, h, k) \/ (In(muxClient, h) /\ k = g)
    <2>1. muxClient \in Seq(Goroutines) /\ Distinct(muxClient)
      BY DEF LockTypes, MuxQueued
    <2>2. QED
      BY <1>1, <1>3, <2>1, Joins
  <1>5. LockTypes'
    BY <1>1, <1>2, <1>4 DEF LockTypes
  <1>6. LoggerQueued'
    BY <1>1, <1>2, LoggerStays DEF Logging
  <1>7. MuxQueued'
    <2>1. \A h \in Goroutines : UsesMux(h)' <=> UsesMux(h) \/ h = g
      BY <1>1, <1>2 DEF UsesMux, Logging
    <2>2. \A h, k \in Goroutines : Before(muxClient', h, k) => pc'[k] = "mux"
      BY <1>2, <1>4 DEF MuxQueued
    <2>3. QED
      BY <1>4, <2>1, <2>2 DEF MuxQueued
  <1>8. Paced' /\ StallBounded'
    <2>1. ~Logging(g)'
      BY <1>2 DEF Logging
    <2>2. QED
      BY <1>1, <1>2, <1>3, <2>1, PaceAlone
  <1>9. QED
    BY <1>5, <1>6, <1>7, <1>8

LEMMA LockedSafe ==
    ASSUME LockInv, NEW g \in Goroutines, Locked(g)
    PROVE  LockInv'
  <1> USE DEF LockInv
  <1>1. /\ pc[g] = "mux" /\ pc' = [pc EXCEPT ![g] = "holds"]
        /\ muxClient # <<>> /\ Head(muxClient) = g
        /\ held' = 0
        /\ UNCHANGED <<muxClient, logger, spent, uploaded>>
    BY DEF Locked, Goto, First
  <1>2. swept' \in Nat /\ left' \in Nat /\ left' = swept' /\ swept' - left' = 0
    <2>1. 0 .. MaxExpired \subseteq Nat /\ {0} \subseteq Nat
      BY LogAssumption
    <2>2. swept' \in Nat
      BY <2>1 DEF Locked
    <2>3. left' = swept'
      BY DEF Locked
    <2>4. left' \in Nat
      BY <2>2, <2>3
    <2>5. \A m, n \in Nat : m = n => n - m = 0
      OBVIOUS
    <2>6. QED
      BY <2>2, <2>3, <2>4, <2>5, Zenon
  <1>3. /\ pc'[g] = "holds" /\ pc' \in [Goroutines -> Labels]
        /\ \A h \in Goroutines : h # g => pc'[h] = pc[h]
    BY <1>1 DEF LockTypes, Labels
  <1>4. LockTypes'
    BY <1>1, <1>2, <1>3 DEF LockTypes
  <1>5. LoggerQueued'
    BY <1>1, <1>3, LoggerStays DEF Logging
  <1>6. /\ \A h \in Goroutines : ~Before(muxClient, h, g)
        /\ \A h \in Goroutines : h # g => (UsesMux(h) => pc[h] = "mux")
    <2>1. /\ muxClient \in Seq(Goroutines) /\ Distinct(muxClient)
          /\ \A h \in Goroutines : UsesMux(h) <=> In(muxClient, h)
          /\ \A h, k \in Goroutines : Before(muxClient, h, k) => pc[k] = "mux"
      BY DEF LockTypes, MuxQueued
    <2>2. In(muxClient, g)
      BY <1>1, <2>1 DEF UsesMux
    <2>3. muxClient[1] = g
      BY <1>1, <2>1, <2>2, Heads
    <2>4. QED
      BY <2>1, <2>2, <2>3, Heads
  <1>7. MuxQueued'
    <2>1. \A h \in Goroutines : UsesMux(h)' <=> UsesMux(h)
      BY <1>1, <1>3 DEF UsesMux, Logging
    <2>2. \A h, k \in Goroutines : Before(muxClient, h, k) => pc'[k] = "mux"
      BY <1>3, <1>6 DEF MuxQueued
    <2>3. QED
      BY <1>1, <2>1, <2>2 DEF MuxQueued
  <1>8. \A h \in Refreshers : ~Logging(h)' /\ (pc'[h] = "holds" => h = g)
    <2>1. ASSUME NEW h \in Refreshers, h # g PROVE ~Logging(h) /\ pc[h] # "holds"
      <3>1. h \in Goroutines
        BY DEF Goroutines
      <3>2. UsesMux(h) => pc[h] = "mux"
        BY <1>6, <2>1, <3>1
      <3>3. QED
        BY <3>2 DEF UsesMux, Logging
    <2>2. Refreshers \subseteq Goroutines
      BY DEF Goroutines
    <2>3. QED
      BY <1>3, <2>1, <2>2 DEF Logging
  <1>9. Paced'
    <2>1. Uploading' => Uploading
      BY <1>3 DEF Uploading
    <2>2. (swept' - left') * Share = 0
      BY <1>1, <1>2, Shares
    <2>3. QED
      BY <1>1, <1>2, <1>8, <2>1, <2>2 DEF Paced
  <1>10. StallBounded'
    <2>1. \A n \in Nat : 0 <= n * PerEntry * Timeout
      <3>1. \A n \in Nat : n * Share \in Nat /\ n * PerEntry * Timeout = n * Share
        BY Shares
      <3>2. QED
        BY <3>1
    <2>2. 0 <= swept' * PerEntry * Timeout
      BY <1>2, <2>1, Zenon
    <2>3. QED
      BY <1>1, <2>2 DEF StallBounded
  <1>11. QED
    BY <1>4, <1>5, <1>7, <1>9, <1>10
-----------------------------------------------------------------------------
\* The head of muxClient gives it up.
LEMMA MuxReleased ==
    ASSUME LockTypes, MuxQueued, NEW g \in Goroutines, muxClient[1] = g,
           Left(muxClient, muxClient'),
           \A h \in Goroutines : /\ UsesMux(h)' <=> UsesMux(h) /\ h # g
                                 /\ h # g => pc'[h] = pc[h]
    PROVE  muxClient' \in Seq(Goroutines) /\ MuxQueued'
  <1>1. /\ muxClient' \in Seq(Goroutines) /\ Distinct(muxClient')
        /\ \A h \in Goroutines : In(muxClient', h) <=> In(muxClient, h) /\ h # g
        /\ \A h, k \in Goroutines :
               Before(muxClient', h, k) <=> Before(muxClient, h, k) /\ h # g
    <2>1. muxClient \in Seq(Goroutines) /\ Distinct(muxClient)
      BY DEF LockTypes, MuxQueued
    <2>2. QED
      BY <2>1, Leaves
  <1>2. ASSUME NEW h \in Goroutines, NEW k \in Goroutines, Before(muxClient', h, k)
        PROVE  pc'[k] = "mux"
    <2>1. Before(muxClient, h, k) /\ pc[k] = "mux"
      BY <1>1, <1>2 DEF MuxQueued
    <2>2. In(muxClient, h)
      BY <2>1 DEF Before, In
    <2>3. \A j \in Goroutines : ~Before(muxClient, j, g)
      BY <2>2, Heads DEF LockTypes, MuxQueued
    <2>4. k # g
      BY <2>1, <2>3
    <2>5. QED
      BY <2>1, <2>4
  <1>3. QED
    BY <1>1, <1>2 DEF MuxQueued

\* A goroutine comes to wait for the logger's mutex.
LEMMA LoggerJoined ==
    ASSUME LockTypes, LoggerQueued, NEW g \in Goroutines, ~Logging(g),
           Joined(logger, g, logger'), pc' = [pc EXCEPT ![g] = "log"]
    PROVE  /\ logger' \in Seq(Goroutines) /\ LoggerQueued'
           /\ \A h, k \in Goroutines :
                  Before(logger', h, k) <=> Before(logger, h, k) \/ (In(logger, h) /\ k = g)
           /\ ~In(logger, g)
  <1>1. ~In(logger, g)
    BY DEF LoggerQueued
  <1>2. /\ logger' \in Seq(Goroutines) /\ Distinct(logger')
        /\ \A h \in Goroutines : In(logger', h) <=> In(logger, h) \/ h = g
        /\ \A h, k \in Goroutines :
               Before(logger', h, k) <=> Before(logger, h, k) \/ (In(logger, h) /\ k = g)
        /\ logger # <<>> => logger'[1] = logger[1]
    <2>1. logger \in Seq(Goroutines) /\ Distinct(logger)
      BY DEF LockTypes, LoggerQueued
    <2>2. QED
      BY <1>1, <2>1, Joins
  <1>3. pc'[g] = "log" /\ \A h \in Goroutines : h # g => pc'[h] = pc[h]
    BY DEF LockTypes
  <1>4. \A h \in Goroutines : Logging(h)' <=> Logging(h) \/ h = g
    BY <1>3 DEF Logging
  <1>5. ASSUME NEW h \in Goroutines, pc'[h] = "upload"
        PROVE  logger'[1] = h
    <2>1. pc[h] = "upload" /\ logger[1] = h
      BY <1>3, <1>5 DEF LoggerQueued
    <2>2. logger # <<>>
      BY <2>1, LogHead DEF Logging
    <2>3. QED
      BY <1>2, <2>1, <2>2
  <1>6. QED
    BY <1>1, <1>2, <1>4, <1>5 DEF LoggerQueued

\* Somebody who is no refresher comes to wait behind whoever is there.
LEMMA PaceJoined ==
    ASSUME LockTypes, LoggerQueued, Paced, StallBounded,
           NEW g \in Others, ~Logging(g),
           Joined(logger, g, logger'), pc' = [pc EXCEPT ![g] = "log"],
           UNCHANGED <<left, spent, held, swept>>
    PROVE  Paced' /\ StallBounded'
  <1>1. g \in Goroutines /\ Refreshers \subseteq Goroutines /\ Others \subseteq Goroutines
        /\ g \notin Refreshers
    BY LogAssumption DEF Goroutines, Others
  <1>2. pc'[g] = "log" /\ \A h \in Goroutines : h # g => pc'[h] = pc[h]
    BY <1>1 DEF LockTypes
  <1>3. \A h, k \in Goroutines :
            Before(logger', h, k) <=> Before(logger, h, k) \/ (In(logger, h) /\ k = g)
    BY <1>1, LoggerJoined
  <1>4. ~In(logger, g) /\ \A h \in Goroutines : ~Before(logger, g, h)
    BY <1>1, LoggerJoined DEF In, Before
  <1>5. Current' = Current /\ (Uploading' => spent' <= Timeout)
    <2>1. Uploading' <=> Uploading
      BY <1>2 DEF Uploading, Logging
    <2>2. QED
      BY <2>1 DEF Current, Paced
  <1>6. ASSUME NEW r \in Refreshers, Logging(r)'
        PROVE  Logging(r) /\ Done(r) \subseteq Done(r)'
    <2>1. pc'[r] = pc[r] /\ Logging(r) /\ r # g /\ r \in Goroutines
      BY <1>1, <1>2, <1>6 DEF Logging
    <2>2. ASSUME NEW h \in Others \cup {r}, Served(h, r) PROVE Served(h, r)'
      <3>1. h \in Goroutines /\ (Before(logger', h, r) <=> Before(logger, h, r))
            /\ (Before(logger, r, h) => Before(logger', r, h))
        BY <1>1, <1>3, <2>1
      <3>2. CASE h = g
        BY <1>4, <2>1, <2>2, <3>1, <3>2 DEF Served, Logging
      <3>3. CASE h # g
        BY <1>2, <2>1, <2>2, <3>1, <3>3 DEF Served
      <3>4. QED
        BY <3>2, <3>3
    <2>3. QED
      BY <2>1, <2>2 DEF Done
  <1>7. \A r \in Refreshers : pc'[r] = "holds" => pc[r] = "holds"
    BY <1>1, <1>2
  <1>8. QED
    BY <1>5, <1>6, <1>7, PaceStays

LEMMA UnlockAndLogSafe ==
    ASSUME LockInv, NEW g \in Goroutines, UnlockAndLog(g)
    PROVE  LockInv'
  <1> USE DEF LockInv
  <1>1. /\ g \in Others /\ g \notin Refreshers /\ pc[g] = "holds"
        /\ muxClient' = Tail(muxClient)
        /\ UNCHANGED <<left, spent, uploaded, held, swept>>
        /\ \/ pc' = [pc EXCEPT ![g] = "log"] /\ logger' = Append(logger, g)
           \/ pc' = [pc EXCEPT ![g] = "idle"] /\ logger' = logger
    BY LogAssumption DEF UnlockAndLog, Goto, Others
  <1>2. /\ pc'[g] \in {"log", "idle"}
        /\ pc' \in [Goroutines -> Labels]
        /\ \A h \in Goroutines : h # g => pc'[h] = pc[h]
    BY <1>1 DEF LockTypes, Labels
  <1>3. UsesMux(g) /\ pc[g] # "mux" /\ ~Logging(g)
    BY <1>1 DEF UsesMux, Logging
  <1>4. muxClient # <<>> /\ muxClient[1] = g
    BY <1>3, HeadOnly
  <1>5. muxClient' \in Seq(Goroutines) /\ MuxQueued'
    <2>1. Left(muxClient, muxClient')
      BY <1>1, <1>4 DEF Left
    <2>2. \A h \in Goroutines : UsesMux(h)' <=> UsesMux(h) /\ h # g
      BY <1>1, <1>2 DEF UsesMux, Logging
    <2>3. QED
      BY <1>2, <1>4, <2>1, <2>2, MuxReleased
  <1>6. logger' \in Seq(Goroutines) /\ LoggerQueued' /\ Paced' /\ StallBounded'
    <2>1. CASE pc' = [pc EXCEPT ![g] = "log"] /\ logger' = Append(logger, g)
      <3>1. Joined(logger, g, logger')
        BY <2>1 DEF Joined
      <3>2. logger' \in Seq(Goroutines) /\ LoggerQueued'
        BY <1>3, <2>1, <3>1, LoggerJoined
      <3>3. Paced' /\ StallBounded'
        BY <1>1, <1>3, <2>1, <3>1, PaceJoined
      <3>4. QED
        BY <3>2, <3>3
    <2>2. CASE pc' = [pc EXCEPT ![g] = "idle"] /\ logger' = logger
      <3>1. pc'[g] = "idle"
        BY <2>2 DEF LockTypes
      <3>2. LoggerQueued'
        BY <1>2, <1>3, <2>2, <3>1, LoggerStays DEF Logging
      <3>3. ~Logging(g)' /\ pc'[g] # "holds"
        BY <3>1 DEF Logging
      <3>4. Paced' /\ StallBounded'
        BY <1>1, <1>2, <1>3, <2>2, <3>3, PaceAlone
      <3>5. QED
        BY <2>2, <3>2, <3>4 DEF LockTypes
    <2>3. QED
      BY <1>1, <2>1, <2>2
  <1>7. LockTypes'
    BY <1>1, <1>2, <1>5, <1>6 DEF LockTypes
  <1>8. QED
    BY <1>5, <1>6, <1>7

LEMMA LogOutrightSafe ==
    ASSUME LockInv, NEW g \in Goroutines, LogOutright(g)
    PROVE  LockInv'
  <1> USE DEF LockInv
  <1>1. /\ g \in Others /\ g \notin Refreshers /\ pc[g] = "idle"
        /\ pc' = [pc EXCEPT ![g] = "log"]
        /\ Joined(logger, g, logger')
        /\ UNCHANGED <<muxClient, left, spent, uploaded, held, swept>>
    BY DEF LogOutright, Goto, Joined, Goroutines
  <1>2. /\ pc'[g] = "log" /\ pc' \in [Goroutines -> Labels] /\ ~Logging(g)
        /\ \A h \in Goroutines : h # g => pc'[h] = pc[h]
    BY <1>1 DEF LockTypes, Labels, Logging
  <1>3. logger' \in Seq(Goroutines) /\ LoggerQueued'
    BY <1>1, <1>2, LoggerJoined
  <1>4. LockTypes'
    BY <1>1, <1>2, <1>3 DEF LockTypes
  <1>5. MuxQueued'
    BY <1>1, <1>2, MuxStays DEF UsesMux, Logging
  <1>6. Paced' /\ StallBounded'
    BY <1>1, <1>2, PaceJoined
  <1>7. QED
    BY <1>3, <1>4, <1>5, <1>6

-----------------------------------------------------------------------------
\* The sweep.  An entry that is to be logged starts with its whole share.
LEMMA LogExpiredSafe ==
    ASSUME LockInv, NEW g \in Goroutines, LogExpired(g)
    PROVE  LockInv'
  <1> USE DEF LockInv
  <1>1. /\ g \in Refreshers /\ pc[g] = "holds" /\ left > 0 /\ left' = left - 1
        /\ UNCHANGED <<muxClient, spent, uploaded, held, swept>>
    BY DEF LogExpired
  <1>2. /\ left \in Nat /\ swept \in Nat /\ held \in Nat /\ left' \in Nat
        /\ left <= swept /\ left' < swept /\ left' <= swept
        /\ swept - left' - 1 = swept - left /\ swept - left \in Nat
        /\ swept - left' = (swept - left) + 1
    BY <1>1 DEF LockTypes, Paced
  <1>3. held <= (swept - left) * Share
    BY <1>1 DEF Paced
  <1>4. StallBounded'
    BY <1>1 DEF StallBounded
  <1>5. \A h \in Refreshers : h # g => ~Logging(h) /\ pc[h] # "holds"
    BY <1>1, HeadOnly DEF UsesMux
  <1>6. CASE pc' = pc /\ logger' = logger
    <2>1. LoggerQueued' /\ MuxQueued'
      BY <1>1, <1>6, LoggerStays, MuxStays DEF UsesMux, Logging
    <2>2. LockTypes'
      BY <1>1, <1>2, <1>6 DEF LockTypes
    <2>3. held' <= (swept' - left') * Share
      <3>1. (swept - left) * Share <= ((swept - left) + 1) * Share
        BY <1>2, Shares
      <3>2. \A n \in Nat : n * Share \in Nat
        BY Shares
      <3>3. swept - left \in Nat /\ (swept - left) + 1 \in Nat
        BY <1>2
      <3>4. (swept - left) * Share \in Nat /\ ((swept - left) + 1) * Share \in Nat
        BY <3>2, <3>3, Zenon
      <3>5. QED
        BY <1>1, <1>2, <1>3, <3>1, <3>4
    <2>4. \A h \in Refreshers : ~Logging(h)'
      BY <1>1, <1>5, <1>6 DEF Logging
    <2>5. Uploading' => Uploading
      BY <1>6 DEF Uploading
    <2>6. Paced'
      BY <1>1, <1>2, <2>3, <2>4, <2>5 DEF Paced
    <2>7. QED
      BY <1>4, <2>1, <2>2, <2>6
  <1>7. CASE pc' = [pc EXCEPT ![g] = "log"] /\ Joined(logger, g, logger')
    <2>1. /\ pc'[g] = "log" /\ pc' \in [Goroutines -> Labels]
          /\ \A h \in Goroutines : h # g => pc'[h] = pc[h]
      BY <1>7 DEF LockTypes, Labels
    <2>2. logger' \in Seq(Goroutines) /\ LoggerQueued'
      BY <1>1, <1>7, LoggerJoined DEF Logging
    <2>3. LockTypes'
      BY <1>1, <1>2, <2>1, <2>2 DEF LockTypes
    <2>4. MuxQueued'
      BY <1>1, <2>1, MuxStays DEF UsesMux, Logging
    <2>5. Paced'
      <3>1. Cardinality(Done(g)') * Timeout \in Nat
        <4>1. Done(g)' \subseteq Others \cup {g}
          BY DEF Done
        <4>2. Cardinality(Done(g)') \in Nat
          BY <4>1, Counts
        <4>3. \A n \in Nat : n * Timeout \in Nat
          BY Shares
        <4>4. QED
          BY <4>2, <4>3, Zenon
      <3>2. Current' \in Nat
        BY <1>1 DEF Current, LockTypes
      <3>3. (swept - left) * Share \in Nat
        BY <1>2, Shares
      <3>4. held' <= (swept' - left' - 1) * Share + Cardinality(Done(g)') * Timeout + Current'
        BY <1>1, <1>2, <1>3, <3>1, <3>2, <3>3
      <3>5. Uploading' => Uploading
        BY <2>1 DEF Uploading
      <3>6. \A h \in Refreshers : pc'[h] # "holds" /\ (Logging(h)' => h = g)
        BY <1>5, <2>1 DEF Logging, Goroutines
      <3>7. QED
        BY <1>1, <1>2, <3>4, <3>5, <3>6 DEF Paced
    <2>6. QED
      BY <1>4, <2>2, <2>3, <2>4, <2>5
  <1>8. QED
    BY <1>6, <1>7 DEF LogExpired, Goto, Joined

LEMMA UnlockSafe ==
    ASSUME LockInv, NEW g \in Goroutines, Unlock(g)
    PROVE  LockInv'
  <1> USE DEF LockInv
  <1>1. /\ pc[g] = "holds" /\ pc' = [pc EXCEPT ![g] = "idle"]
        /\ muxClient' = Tail(muxClient)
        /\ UNCHANGED <<logger, left, spent, uploaded, held, swept>>
    BY DEF Unlock, Goto
  <1>2. /\ pc'[g] = "idle" /\ pc' \in [Goroutines -> Labels]
        /\ \A h \in Goroutines : h # g => pc'[h] = pc[h]
        /\ ~Logging(g) /\ ~Logging(g)'
    BY <1>1 DEF LockTypes, Labels, Logging
  <1>3. muxClient # <<>> /\ muxClient[1] = g
    BY <1>1, HeadOnly DEF UsesMux
  <1>4. muxClient' \in Seq(Goroutines) /\ MuxQueued'
    <2>1. Left(muxClient, muxClient')
      BY <1>1, <1>3 DEF Left
    <2>2. \A h \in Goroutines : UsesMux(h)' <=> UsesMux(h) /\ h # g
      BY <1>1, <1>2 DEF UsesMux, Logging
    <2>3. QED
      BY <1>2, <1>3, <2>1, <2>2, MuxReleased
  <1>5. LoggerQueued'
    BY <1>1, <1>2, LoggerStays DEF Logging
  <1>6. LockTypes'
    BY <1>1, <1>2, <1>4 DEF LockTypes
  <1>7. Paced' /\ StallBounded'
    BY <1>1, <1>2, PaceAlone
  <1>8. QED
    BY <1>4, <1>5, <1>6, <1>7
-----------------------------------------------------------------------------
\* Uploads.
LEMMA FireSafe ==
    ASSUME LockInv, NEW g \in Goroutines, Fire(g)
    PROVE  LockInv'
  <1> USE DEF LockInv
  <1>1. /\ pc[g] = "log" /\ pc' = [pc EXCEPT ![g] = "upload"] /\ spent' = 0
        /\ UNCHANGED <<muxClient, logger, left, uploaded, held, swept>>
        /\ logger # <<>> /\ Head(logger) = g
    BY DEF Fire, Goto, First
  <1>2. /\ pc'[g] = "upload" /\ pc' \in [Goroutines -> Labels]
        /\ \A h \in Goroutines : h # g => pc'[h] = pc[h]
    BY <1>1 DEF LockTypes, Labels
  <1>3. logger[1] = g
    BY <1>1, LogHead DEF Logging
  <1>4. LockTypes'
    BY <1>1, <1>2 DEF LockTypes
  <1>5. LoggerQueued'
    <2>1. \A h \in Goroutines : Logging(h)' <=> Logging(h)
      BY <1>1, <1>2 DEF Logging
    <2>2. \A h \in Goroutines : pc'[h] = "upload" => logger[1] = h
      BY <1>2, <1>3 DEF LoggerQueued
    <2>3. QED
      BY <1>1, <2>1, <2>2 DEF LoggerQueued, In
  <1>6. MuxQueued'
    BY <1>1, <1>2, MuxStays DEF UsesMux, Logging
  <1>7. Paced' /\ StallBounded'
    <2>1. ~Uploading
      BY <1>1, <1>3 DEF Uploading, LoggerQueued
    <2>2. Current = 0 /\ Current' = 0
      BY <1>1, <2>1 DEF Current
    <2>3. spent' <= Timeout
      BY <1>1, Counts
    <2>4. \A r \in Refreshers : pc'[r] = "holds" => pc[r] = "holds"
      BY <1>2 DEF Goroutines
    <2>5. ASSUME NEW r \in Refreshers, Logging(r)'
          PROVE  Logging(r) /\ Done(r) \subseteq Done(r)'
      <3>1. Logging(r) /\ (pc'[r] = "write" <=> pc[r] = "write")
        BY <1>1, <1>2, <2>5 DEF Logging, Goroutines
      <3>2. \A h \in Goroutines : /\ pc'[h] \in {"log", "upload"} <=> pc[h] \in {"log", "upload"}
                                  /\ pc'[h] = "write" <=> pc[h] = "write"
        BY <1>1, <1>2
      <3>3. Others \cup {r} \subseteq Goroutines
        BY DEF Goroutines
      <3>4. \A h \in Others \cup {r} : Served(h, r) => Served(h, r)'
        BY <1>1, <3>1, <3>2, <3>3 DEF Served, Before
      <3>5. QED
        BY <3>1, <3>4 DEF Done
    <2>6. QED
      BY <1>1, <2>2, <2>3, <2>4, <2>5, PaceStays
  <1>8. QED
    BY <1>4, <1>5, <1>6, <1>7

\* What a queue becomes when its head joins it again.
LEMMA Turns ==
    ASSUME NEW q \in Seq(Goroutines), NEW g \in Goroutines, Distinct(q), q[1] = g,
           NEW t, Left(q, t), NEW r, Joined(t, g, r)
    PROVE  /\ r \in Seq(Goroutines) /\ Distinct(r)
           /\ \A h \in Goroutines : In(r, h) <=> (In(q, h) /\ h # g) \/ h = g
           /\ \A h \in Goroutines : In(q, h) /\ h # g => Before(r, h, g)
           /\ \A h, k \in Goroutines : h # g /\ k # g => (Before(r, h, k) <=> Before(q, h, k))
  <1>1. /\ t \in Seq(Goroutines) /\ Distinct(t)
        /\ \A h \in Goroutines : In(t, h) <=> In(q, h) /\ h # g
        /\ \A h, k \in Goroutines : Before(t, h, k) <=> Before(q, h, k) /\ h # g
    BY Leaves
  <1>2. ~In(t, g)
    BY <1>1
  <1>3. /\ r \in Seq(Goroutines) /\ Distinct(r)
        /\ \A h \in Goroutines : In(r, h) <=> In(t, h) \/ h = g
        /\ \A h, k \in Goroutines : Before(r, h, k) <=> Before(t, h, k) \/ (In(t, h) /\ k = g)
    BY <1>1, <1>2, Joins
  <1>4. QED
    BY <1>1, <1>3

\* The head of the logger's queue comes to wait again, behind everybody else.
LEMMA LoggerTurns ==
    ASSUME LockTypes, LoggerQueued, NEW g \in Goroutines, pc[g] = "upload",
           logger' = Append(Tail(logger), g), pc' = [pc EXCEPT ![g] = "write"]
    PROVE  /\ logger' \in Seq(Goroutines) /\ LoggerQueued'
           /\ \A h \in Goroutines : pc'[h] # "upload"
           /\ \A h \in Goroutines : In(logger, h) /\ h # g => Before(logger', h, g)
           /\ \A h, k \in Goroutines :
                  h # g /\ k # g => (Before(logger', h, k) <=> Before(logger, h, k))
  <1>1. logger # <<>> /\ logger[1] = g /\ logger \in Seq(Goroutines) /\ Distinct(logger)
    BY LogHead DEF Logging, LockTypes, LoggerQueued
  <1>2. /\ logger' \in Seq(Goroutines) /\ Distinct(logger')
        /\ \A h \in Goroutines : In(logger', h) <=> (In(logger, h) /\ h # g) \/ h = g
        /\ \A h \in Goroutines : In(logger, h) /\ h # g => Before(logger', h, g)
        /\ \A h, k \in Goroutines :
               h # g /\ k # g => (Before(logger', h, k) <=> Before(logger, h, k))
    <2>1. Left(logger, Tail(logger)) /\ Joined(Tail(logger), g, logger')
      BY <1>1 DEF Left, Joined
    <2>2. QED
      BY <1>1, <2>1, Turns
  <1>5. pc'[g] = "write" /\ \A h \in Goroutines : h # g => pc'[h] = pc[h]
    BY DEF LockTypes
  <1>6. \A h \in Goroutines : pc'[h] # "upload"
    BY <1>1, <1>5 DEF LoggerQueued
  <1>7. \A h \in Goroutines : (Logging(h)' <=> Logging(h)) /\ Logging(g)
    BY <1>5 DEF Logging
  <1>8. LoggerQueued'
    BY <1>2, <1>6, <1>7 DEF LoggerQueued
  <1>9. QED
    BY <1>2, <1>6, <1>8

\* An upload that is over adds its goroutine to those that are done.
LEMMA OneMoreDone ==
    ASSUME LockTypes, LoggerQueued, MuxQueued, NEW g \in Goroutines, pc[g] = "upload",
           logger' = Append(Tail(logger), g), pc' = [pc EXCEPT ![g] = "write"],
           NEW r \in Refreshers, Logging(r)
    PROVE  /\ Done(r)' \subseteq Others \cup {r}
           /\ g \in Done(r)' /\ Done(r) \subseteq Done(r)' \ {g}
  <1>1. pc'[g] = "write" /\ \A h \in Goroutines : h # g => pc'[h] = pc[h]
    BY DEF LockTypes
  <1>2. logger[1] = g /\ r \in Goroutines /\ Others \cup {r} \subseteq Goroutines
    BY DEF LoggerQueued, Goroutines
  <1>3. g \in Others \cup {r}
    <2>1. ASSUME g \in Refreshers PROVE g = r
      <3>1. UsesMux(r) /\ pc[r] # "mux"
        BY DEF UsesMux, Logging
      <3>2. Logging(g)
        BY DEF Logging
      <3>3. QED
        BY <1>2, <2>1, <3>1, <3>2, HeadOnly
    <2>2. QED
      BY <2>1 DEF Goroutines
  <1>4. /\ \A h \in Goroutines : In(logger, h) /\ h # g => Before(logger', h, g)
        /\ \A h, k \in Goroutines :
               h # g /\ k # g => (Before(logger', h, k) <=> Before(logger, h, k))
    BY LoggerTurns
  <1>5. g \notin Done(r)
    BY <1>2, HeadNotDone
  <1>6. Served(g, r)'
    <2>1. CASE r = g
      BY <1>1, <2>1 DEF Served
    <2>2. CASE r # g
      <3>1. In(logger, r)
        BY <1>2 DEF LoggerQueued
      <3>2. Before(logger', r, g)
        BY <1>2, <1>4, <2>2, <3>1
      <3>3. QED
        BY <1>1, <3>2 DEF Served
    <2>3. QED
      BY <2>1, <2>2
  <1>7. ASSUME NEW h \in Done(r) PROVE Served(h, r)'
    <2>1. h # g /\ h \in Goroutines /\ Served(h, r) /\ pc'[h] = pc[h]
      BY <1>1, <1>2, <1>5, <1>7 DEF Done
    <2>2. CASE r = g
      BY <1>1, <2>1, <2>2 DEF Served
    <2>3. CASE r # g
      <3>1. pc'[r] = pc[r] /\ (Before(logger', h, r) <=> Before(logger, h, r))
            /\ (Before(logger', r, h) <=> Before(logger, r, h))
        BY <1>1, <1>2, <1>4, <2>1, <2>3
      <3>2. QED
        BY <2>1, <3>1 DEF Served
    <2>4. QED
      BY <2>2, <2>3
  <1>8. QED
    BY <1>3, <1>5, <1>6, <1>7 DEF Done

LEMMA ReturnSafe ==
    ASSUME LockInv, NEW g \in Goroutines, Return(g)
    PROVE  LockInv'
  <1> USE DEF LockInv
  <1>1. /\ pc[g] = "upload" /\ pc' = [pc EXCEPT ![g] = "write"]
        /\ logger' = Append(Tail(logger), g)
        /\ UNCHANGED <<muxClient, left, spent, uploaded, held, swept>>
    BY DEF Return, Goto
  <1>2. /\ pc'[g] = "write" /\ pc' \in [Goroutines -> Labels]
        /\ \A h \in Goroutines : h # g => pc'[h] = pc[h]
    BY <1>1 DEF LockTypes, Labels
  <1>3. /\ logger' \in Seq(Goroutines) /\ LoggerQueued'
        /\ \A h \in Goroutines : pc'[h] # "upload"
    BY <1>1, LoggerTurns
  <1>4. LockTypes'
    BY <1>1, <1>2, <1>3 DEF LockTypes
  <1>5. MuxQueued'
    BY <1>1, <1>2, MuxStays DEF UsesMux, Logging
  <1>6. /\ left \in Nat /\ swept \in Nat /\ held \in Nat /\ spent \in Nat
        /\ spent <= Timeout /\ Timeout \in Nat
        /\ Current = spent /\ Current' = 0 /\ ~Uploading'
    <2>1. Uploading /\ ~Uploading'
      BY <1>1, <1>3 DEF Uploading
    <2>2. QED
      BY <1>4, <2>1, Counts DEF LockTypes, Paced, Current
  <1>7. ASSUME NEW r \in Refreshers, Logging(r)
        PROVE  /\ left < swept
               /\ held <= (swept - left - 1) * Share + Cardinality(Done(r)') * Timeout
    <2>1. /\ left < swept
          /\ held <= (swept - left - 1) * Share + Cardinality(Done(r)) * Timeout + spent
      BY <1>6, <1>7 DEF Paced
    <2>2. /\ Done(r)' \subseteq Others \cup {r}
          /\ g \in Done(r)' /\ Done(r) \subseteq Done(r)' \ {g}
      BY <1>1, <1>7, OneMoreDone
    <2>3. /\ Cardinality(Done(r)) \in Nat /\ Cardinality(Done(r)') \in Nat
          /\ Cardinality(Done(r)) + 1 <= Cardinality(Done(r)')
      <3>1. Done(r) \subseteq Others \cup {r} /\ r \in Goroutines
        BY DEF Done, Goroutines
      <3>2. QED
        BY <2>2, <3>1, Counts
    <2>4. /\ (Cardinality(Done(r)) + 1) * Timeout <= Cardinality(Done(r)') * Timeout
          /\ Cardinality(Done(r)') * Timeout \in Nat
      <3>1. Cardinality(Done(r)) + 1 \in Nat
        BY <2>3
      <3>2. \A m, n \in Nat : m <= n => m * Timeout <= n * Timeout /\ n * Timeout \in Nat
        BY Shares
      <3>3. QED
        BY <2>3, <3>1, <3>2, Zenon
    <2>5. /\ (Cardinality(Done(r)) + 1) * Timeout = Cardinality(Done(r)) * Timeout + Timeout
          /\ Cardinality(Done(r)) * Timeout \in Nat
      BY <2>3, Shares
    <2>6. (swept - left - 1) * Share \in Nat
      BY <1>6, <2>1, SharePays
    <2>7. QED
      BY <1>6, <2>1, <2>4, <2>5, <2>6
  <1>8. \A r \in Refreshers : /\ Logging(r)' <=> Logging(r)
                              /\ pc'[r] = "holds" => pc[r] = "holds"
    BY <1>1, <1>2 DEF Logging, Goroutines
  <1>9. ASSUME NEW r \in Refreshers, Logging(r)'
        PROVE  /\ left' < swept'
               /\ held' <= (swept' - left' - 1) * Share + Cardinality(Done(r)') * Timeout
                             + Current'
    <2>1. /\ left < swept
          /\ held <= (swept - left - 1) * Share + Cardinality(Done(r)') * Timeout
      BY <1>7, <1>8, <1>9
    <2>2. Cardinality(Done(r)') * Timeout \in Nat
      <3>1. Done(r)' \subseteq Others \cup {r} /\ r \in Goroutines
        BY DEF Done, Goroutines
      <3>2. Cardinality(Done(r)') \in Nat
        BY <3>1, Counts
      <3>3. \A n \in Nat : n * Timeout \in Nat
        BY Shares
      <3>4. QED
        BY <3>2, <3>3, Zenon
    <2>3. (swept - left - 1) * Share \in Nat
      BY <1>6, <2>1, SharePays
    <2>4. QED
      BY <1>1, <1>6, <2>1, <2>2, <2>3
  <1>10. Paced' /\ StallBounded'
    BY <1>1, <1>6, <1>8, <1>9 DEF Paced, StallBounded
  <1>11. QED
    BY <1>3, <1>4, <1>5, <1>10

LEMMA WriteSafe ==
    ASSUME LockInv, NEW g \in Goroutines, Write(g)
    PROVE  LockInv'
  <1> USE DEF LockInv
  <1>1. /\ pc[g] = "write" /\ logger # <<>> /\ Head(logger) = g
        /\ pc' = [pc EXCEPT ![g] = IF g \in Refreshers THEN "holds" ELSE "idle"]
        /\ logger' = Tail(logger)
        /\ UNCHANGED <<muxClient, left, spent, uploaded, held, swept>>
    BY DEF Write, Goto, First
  <1>2. /\ pc'[g] = (IF g \in Refreshers THEN "holds" ELSE "idle")
        /\ pc' \in [Goroutines -> Labels]
        /\ \A h \in Goroutines : h # g => pc'[h] = pc[h]
    BY <1>1 DEF LockTypes, Labels
  <1>3. Logging(g) /\ logger[1] = g
    BY <1>1, LogHead DEF Logging
  <1>4. /\ logger' \in Seq(Goroutines) /\ Distinct(logger')
        /\ \A h \in Goroutines : In(logger', h) <=> In(logger, h) /\ h # g
        /\ \A h, k \in Goroutines : Before(logger', h, k) <=> Before(logger, h, k) /\ h # g
    <2>1. Left(logger, logger')
      BY <1>1 DEF Left
    <2>2. logger \in Seq(Goroutines) /\ Distinct(logger)
      BY DEF LockTypes, LoggerQueued
    <2>3. QED
      BY <1>3, <2>1, <2>2, Leaves
  <1>5. LockTypes'
    BY <1>1, <1>2, <1>4 DEF LockTypes
  <1>6. \A h \in Goroutines : pc[h] # "upload" /\ pc'[h] # "upload"
    BY <1>1, <1>2, <1>3 DEF LoggerQueued
  <1>7. LoggerQueued'
    <2>1. \A h \in Goroutines : Logging(h)' <=> Logging(h) /\ h # g
      BY <1>2 DEF Logging
    <2>2. QED
      BY <1>4, <1>6, <2>1 DEF LoggerQueued
  <1>8. MuxQueued'
    <2>1. \A h \in Goroutines : (UsesMux(h)' <=> UsesMux(h)) /\ (pc[h] = "mux" => pc'[h] = "mux")
      BY <1>1, <1>2 DEF UsesMux, Logging
    <2>2. QED
      BY <1>1, <2>1, MuxStays
  <1>9. ~Uploading /\ ~Uploading' /\ Current = 0 /\ Current' = 0
    BY <1>6 DEF Uploading, Current
  <1>10. CASE g \in Refreshers
    <2>1. \A h \in Refreshers : h # g => ~Logging(h) /\ pc[h] # "holds"
      BY <1>1, <1>3, <1>10, HeadOnly DEF UsesMux
    <2>2. \A h \in Refreshers : ~Logging(h)' /\ (pc'[h] = "holds" => h = g)
      BY <1>2, <1>10, <2>1 DEF Logging, Goroutines
    <2>3. left < swept
          /\ held <= (swept - left - 1) * Share + Cardinality(Done(g)) * Timeout + Current
      BY <1>3, <1>10 DEF Paced
    <2>4. Cardinality(Done(g)) * Timeout <= Share /\ Cardinality(Done(g)) * Timeout \in Nat
      <3>1. Done(g) \subseteq Others \cup {g}
        BY DEF Done
      <3>2. Cardinality(Done(g)) \in Nat /\ Cardinality(Done(g)) <= PerEntry /\ PerEntry \in Nat
        BY <1>10, <3>1, Counts
      <3>3. \A m, n \in Nat : m <= n => m * Timeout <= n * Timeout /\ m * Timeout \in Nat
        BY Shares
      <3>4. /\ Cardinality(Done(g)) * Timeout <= PerEntry * Timeout
            /\ Cardinality(Done(g)) * Timeout \in Nat
        BY <3>2, <3>3, Zenon
      <3>5. QED
        BY <3>4 DEF Share
    <2>5. left \in Nat /\ swept \in Nat /\ held \in Nat /\ Share \in Nat
      BY Shares DEF LockTypes
    <2>6. (swept - left) * Share = (swept - left - 1) * Share + Share
          /\ (swept - left - 1) * Share \in Nat
      BY <2>3, <2>5, SharePays
    <2>7. held <= (swept - left) * Share
      BY <1>9, <2>3, <2>4, <2>5, <2>6
    <2>8. left <= swept
      BY <2>3, <2>5
    <2>9. Paced' /\ StallBounded'
      BY <1>1, <1>9, <2>2, <2>7, <2>8 DEF Paced, StallBounded
    <2>10. QED
      BY <1>5, <1>7, <1>8, <2>9
  <1>11. CASE g \notin Refreshers
    <2>1. \A r \in Refreshers : pc'[r] = pc[r] /\ r \in Goroutines /\ r # g
      BY <1>2, <1>11 DEF Goroutines
    <2>2. ASSUME NEW r \in Refreshers, Logging(r)'
          PROVE  Logging(r) /\ Done(r) \subseteq Done(r)'
      <3>1. Logging(r)
        BY <2>1, <2>2 DEF Logging
      <3>2. ~Before(logger, r, g)
        BY <1>3, <2>1, LogHead
      <3>3. ASSUME NEW h \in Others \cup {r}, Served(h, r) PROVE Served(h, r)'
        <4>1. h \in Goroutines /\ (Before(logger', h, r) => Before(logger, h, r))
              /\ (Before(logger', r, h) <=> Before(logger, r, h))
          BY <1>4, <2>1 DEF Goroutines
        <4>2. CASE h = g
          BY <1>2, <1>11, <2>1, <3>2, <3>3, <4>2 DEF Served
        <4>3. CASE h # g
          BY <1>2, <2>1, <3>3, <4>1, <4>3 DEF Served
        <4>4. QED
          BY <4>2, <4>3
      <3>4. QED
        BY <3>1, <3>3 DEF Done
    <2>3. Paced' /\ StallBounded'
      BY <1>1, <1>9, <2>1, <2>2, PaceStays
    <2>4. QED
      BY <1>5, <1>7, <1>8, <2>3
  <1>12. QED
    BY <1>10, <1>11

-----------------------------------------------------------------------------
\* Time passes only in uploads, and for those who wait for muxClient only in
\* those of whoever is not done.
LEMMA TickTypes ==
    ASSUME LockInv, Tick
    PROVE  /\ held' \in Nat /\ spent' \in Nat /\ held' <= held + 1
           /\ muxClient = <<>> => held' = held
           /\ Uploading => spent' = spent + 1 /\ spent' <= Timeout
           /\ UNCHANGED <<pc, muxClient, logger, left, uploaded, swept>>
  <1> USE DEF LockInv
  <1>1. UNCHANGED <<pc, muxClient, logger, left, uploaded, swept>>
    BY DEF Tick
  <1>2. held \in Nat /\ spent \in Nat /\ Timeout \in Nat
    BY Shares DEF LockTypes
  <1>3. \A n \in Nat : \A cap : Capped(n, cap) \in {n, n + 1}
    BY DEF Capped
  <1>4. held' \in {held, held + 1} /\ (muxClient = <<>> => held' = held)
    BY <1>2, <1>3 DEF Tick
  <1>5. spent' \in {spent, spent + 1}
    BY <1>2, <1>3 DEF Tick
  <1>6. ASSUME NEW g \in Goroutines, pc[g] = "upload"
        PROVE  spent' = spent + 1 /\ spent' <= Timeout
    <2>1. spent < Timeout
      BY <1>6 DEF Tick, Waits, UploadMayLast
    <2>2. spent < 2 * Timeout
      BY <1>2, <2>1
    <2>3. spent' = spent + 1
      BY <1>6, <2>2 DEF Tick, Capped
    <2>4. QED
      BY <1>2, <2>1, <2>3
  <1>7. QED
    BY <1>1, <1>2, <1>4, <1>5, <1>6 DEF Uploading

LEMMA StalledByUpload ==
    ASSUME LockInv, Tick, muxClient # <<>>
    PROVE  \E g \in Refreshers : /\ Logging(g)
                                 /\ \A h \in Refreshers : pc[h] # "holds"
                                 /\ \A h \in Refreshers : h # g => ~Logging(h)
                                 /\ logger[1] \in Others \cup {g}
                                 /\ pc[logger[1]] = "upload"
  <1> USE DEF LockInv
  <1> DEFINE g == muxClient[1]
  <1>1. g \in Goroutines /\ Head(muxClient) = g /\ In(muxClient, g)
    <2>1. /\ muxClient \in Seq(Goroutines) /\ Distinct(muxClient)
          /\ Len(muxClient) \in Nat \ {0}
      BY EmptySeq DEF LockTypes, MuxQueued
    <2>2. 1 \in 1 .. Len(muxClient)
      BY <2>1
    <2>3. g \in Goroutines /\ In(muxClient, g)
      BY <2>1, <2>2, ElementOfSeq DEF In
    <2>4. QED
      BY <2>1, <2>3, Heads
  <1> HIDE DEF g
  <1>2. UsesMux(g)
    BY <1>1 DEF MuxQueued
  <1>3. pc[g] \notin {"mux", "holds"}
    BY <1>1 DEF Tick, Waits, First, UploadMayLast
  <1>4. g \in Refreshers /\ Logging(g)
    BY <1>2, <1>3 DEF UsesMux
  <1>5. \A h \in Refreshers : h # g => ~Logging(h) /\ pc[h] # "holds"
    BY <1>1, <1>2, <1>3, HeadOnly
  <1>6. /\ logger # <<>> /\ logger[1] \in Goroutines /\ Head(logger) = logger[1]
        /\ Logging(logger[1])
    BY <1>1, <1>4, LogHead
  <1>7. pc[logger[1]] \notin {"log", "write"}
    BY <1>6 DEF Tick, Waits, First, UploadMayLast
  <1>8. pc[logger[1]] = "upload"
    BY <1>6, <1>7 DEF Logging
  <1>9. logger[1] \in Others \cup {g}
    BY <1>5, <1>6 DEF Goroutines
  <1>10. QED
    BY <1>3, <1>4, <1>5, <1>8, <1>9

LEMMA TickSafe == LockInv /\ Tick => LockInv'
  <1> SUFFICES ASSUME LockInv, Tick PROVE LockInv'
    OBVIOUS
  <1> USE DEF LockInv
  <1>1. /\ held' \in Nat /\ spent' \in Nat /\ held' <= held + 1
        /\ muxClient = <<>> => held' = held
        /\ Uploading => spent' = spent + 1 /\ spent' <= Timeout
        /\ UNCHANGED <<pc, muxClient, logger, left, uploaded, swept>>
    BY TickTypes
  <1>2. LockTypes'
    BY <1>1 DEF LockTypes
  <1>3. LoggerQueued' /\ MuxQueued'
    BY <1>1, LoggerStays, MuxStays DEF UsesMux, Logging
  <1>4. (Uploading' <=> Uploading) /\ (Uploading' => spent' <= Timeout)
    BY <1>1 DEF Uploading
  <1>5. CASE muxClient = <<>>
    <2>1. \A g \in Refreshers : ~Logging(g) /\ pc[g] # "holds"
      <3>1. \A g \in Goroutines : ~In(muxClient, g)
        BY <1>5, EmptySeq DEF In
      <3>2. \A g \in Goroutines : ~UsesMux(g)
        BY <3>1 DEF MuxQueued
      <3>3. QED
        BY <3>2 DEF UsesMux, Goroutines
    <2>2. \A g \in Refreshers : ~Logging(g)' /\ pc'[g] # "holds"
      BY <1>1, <2>1 DEF Logging
    <2>3. Paced'
      BY <1>1, <1>4, <2>2 DEF Paced
    <2>4. StallBounded'
      BY <1>1, <1>5 DEF StallBounded
    <2>5. QED
      BY <1>2, <1>3, <2>3, <2>4
  <1>6. CASE muxClient # <<>>
    <2>1. PICK g \in Refreshers : /\ Logging(g)
                                  /\ \A h \in Refreshers : pc[h] # "holds"
                                  /\ \A h \in Refreshers : h # g => ~Logging(h)
                                  /\ logger[1] \in Others \cup {g}
                                  /\ pc[logger[1]] = "upload"
      BY <1>6, StalledByUpload
    <2>2. g \in Goroutines /\ logger[1] \in Goroutines
      BY <2>1 DEF Goroutines
    <2>3. /\ Uploading /\ Current = spent /\ Current' = spent + 1
          /\ spent' = spent + 1 /\ spent' <= Timeout
      BY <1>1, <1>4, <2>1, <2>2 DEF Uploading, Current
    <2>4. /\ held \in Nat /\ spent \in Nat /\ left \in Nat /\ swept \in Nat
          /\ left < swept /\ left <= swept /\ Timeout \in Nat /\ Share \in Nat
      BY <2>1, Shares DEF LockTypes, Paced
    <2>5. (swept - left - 1) * Share \in Nat
          /\ (swept - left) * Share = (swept - left - 1) * Share + Share
      BY <2>4, SharePays
    <2>6. held <= (swept - left - 1) * Share + Cardinality(Done(g)) * Timeout + spent
      BY <2>1, <2>3 DEF Paced
    <2>7. /\ Cardinality(Done(g)) * Timeout + Timeout <= Share
          /\ Cardinality(Done(g)) * Timeout \in Nat
      <3>1. logger[1] \notin Done(g)
        BY <2>1, <2>2, HeadNotDone
      <3>2. Done(g) \subseteq (Others \cup {g}) \ {logger[1]}
        BY <3>1 DEF Done
      <3>3. Cardinality(Done(g)) \in Nat
        BY <2>2, <3>2, Counts
      <3>4. /\ Cardinality(Done(g)) + 1 <= Cardinality(Others \cup {g})
            /\ Cardinality(Others \cup {g}) <= PerEntry
            /\ Cardinality(Others \cup {g}) \in Nat
        BY <2>1, <2>2, <3>2, Counts
      <3>5. Cardinality(Done(g)) + 1 \in Nat /\ Cardinality(Done(g)) + 1 <= PerEntry
            /\ PerEntry \in Nat
        BY <3>3, <3>4, Counts
      <3>6. \A m, n \in Nat : m <= n => m * Timeout <= n * Timeout
        BY Shares
      <3>7. (Cardinality(Done(g)) + 1) * Timeout <= PerEntry * Timeout
        BY <3>5, <3>6, Zenon
      <3>8. /\ (Cardinality(Done(g)) + 1) * Timeout = Cardinality(Done(g)) * Timeout + Timeout
            /\ Cardinality(Done(g)) * Timeout \in Nat
        BY <3>3, Shares
      <3>9. QED
        BY <3>7, <3>8 DEF Share
    <2>8. held' <= (swept - left - 1) * Share + Cardinality(Done(g)) * Timeout + Current'
      BY <1>1, <2>3, <2>4, <2>5, <2>6, <2>7
    <2>9. Paced'
      <3>1. Done(g)' = Done(g)
        BY <1>1 DEF Done, Served, Before
      <3>2. \A h \in Refreshers : (Logging(h)' => h = g) /\ pc'[h] # "holds"
        BY <1>1, <2>1 DEF Logging
      <3>3. held' <= (swept' - left' - 1) * Share + Cardinality(Done(g)') * Timeout + Current'
        BY <1>1, <2>8, <3>1
      <3>4. left' < swept' /\ left' <= swept'
        BY <1>1, <2>4
      <3>5. QED
        BY <1>4, <3>2, <3>3, <3>4 DEF Paced
    <2>10. StallBounded'
      <3>1. held' <= (swept - left) * Share
        BY <1>1, <2>3, <2>4, <2>5, <2>7, <2>8
      <3>2. \A m, n \in Nat : m <= n => m * Share <= n * Share
        BY Shares
      <3>3. swept - left \in Nat /\ swept - left <= swept
        BY <2>4
      <3>4. (swept - left) * Share <= swept * Share
        BY <2>4, <3>2, <3>3, Zenon
      <3>5. (swept - left) * Share \in Nat /\ swept * Share \in Nat
            /\ swept * PerEntry * Timeout = swept * Share
        BY <2>4, <2>5, Shares
      <3>6. held' <= swept * PerEntry * Timeout
        BY <1>1, <3>1, <3>4, <3>5
      <3>7. QED
        BY <1>1, <3>6 DEF StallBounded
    <2>11. QED
      BY <1>2, <1>3, <2>9, <2>10
  <1>7. QED
    BY <1>5, <1>6

-----------------------------------------------------------------------------
LEMMA LockStep == LockInv /\ [Next]_vars => LockInv'
  <1> SUFFICES ASSUME LockInv, [Next]_vars PROVE LockInv'
    OBVIOUS
  <1>1. ASSUME NEW g \in Goroutines,
               \/ Lock(g) \/ Locked(g) \/ UnlockAndLog(g) \/ LogOutright(g)
               \/ LogExpired(g) \/ Unlock(g) \/ Fire(g) \/ Return(g) \/ Write(g)
        PROVE  LockInv'
    BY <1>1, LockSafe, LockedSafe, UnlockAndLogSafe, LogOutrightSafe, LogExpiredSafe,
       UnlockSafe, FireSafe, ReturnSafe, WriteSafe
  <1>2. CASE Tick
    BY <1>2, TickSafe
  <1>3. CASE UNCHANGED vars
    <2> USE <1>3 DEF vars, LockInv
    <2>1. LockTypes'
      BY DEF LockTypes
    <2>2. LoggerQueued'
      BY DEF LoggerQueued, Distinct, In, Logging
    <2>3. MuxQueued'
      BY DEF MuxQueued, Distinct, In, Before, UsesMux, Logging
    <2>4. Paced'
      <3>1. \A g \in Refreshers : Done(g)' = Done(g)
        BY DEF Done, Served, Before
      <3>2. Current' = Current /\ (Uploading' <=> Uploading)
        BY DEF Current, Uploading
      <3>3. QED
        BY <3>1, <3>2 DEF Paced, Logging
    <2>5. StallBounded'
      BY DEF StallBounded
    <2>6. QED
      BY <2>1, <2>2, <2>3, <2>4, <2>5
  <1>4. QED
    BY <1>1, <1>2, <1>3 DEF Next

LEMMA LockInvariant == Spec => []LockInv
  BY LockInit, LockStep, PTL DEF Spec

\* A sweep keeps muxClient for one upload of everybody who logs without it and
\* its own per entry that expired, however many forwards there are, so that no
\* authorization and no connection waits without bound for it (auth.go:37-57).
THEOREM StallsEnd == Spec => []StallBounded
  <1>1. LockInv => StallBounded
    BY DEF LockInv
  <1>2. QED
    BY <1>1, LockInvariant, PTL
=============================================================================
