------------------------------ MODULE LogLocks ------------------------------
(***************************************************************************)
(* muxClient and the mutex of the logger.  The refresher of each forward   *)
(* logs every entry that expired while it holds muxClient (auth.go:37-57), *)
(* all others log without it; logrus (1.4.2) takes the mutex of the logger *)
(* twice for an entry, to run the hooks and to write, and the SLS hook is  *)
(* an HTTP request.  Both mutexes hand over in the order of arrival, as    *)
(* Go's do once a waiter has waited a millisecond.  Goroutines take no     *)
(* time of their own.                                                      *)
(***************************************************************************)
EXTENDS Naturals, Sequences, FiniteSets

CONSTANTS
    Handlers,       \* reader and acceptors
    Refreshers,     \* one for each forward
    Loggers,        \* connections, drop timers, cleaner, starter: they only log
    MaxExpired,     \* bound: entries of a forward that expire together
    Timeout         \* of the hook's HTTP client in ticks

ASSUME LogAssumption ==
    /\ IsFiniteSet(Handlers) /\ IsFiniteSet(Refreshers) /\ IsFiniteSet(Loggers)
    /\ Refreshers \cap (Handlers \cup Loggers) = {} /\ Handlers \cap Loggers = {}
    /\ MaxExpired \in Nat
    /\ Timeout \in Nat

Others == Handlers \cup Loggers

Goroutines == Others \cup Refreshers

VARIABLES
    pc,         \* "idle", waits for "mux", "holds" it, waits for "log", "upload",
                \* waits to "write"
    muxClient,  \* who holds it, and who waits
    logger,     \* the same of the logger's mutex
    left,       \* expired entries the refresher with muxClient has still to log
    spent,      \* ticks the current upload has taken
    uploaded,   \* severities whose entries run the hook
    held,       \* ticks that muxClient has been held
    swept       \* entries that expired for this sweep

vars == <<pc, muxClient, logger, left, spent, uploaded, held, swept>>

\* None without the hook or under a level above error; warn is also what an
\* unknown level falls back to.  Nothing is logged at trace.
initLogger ==
    uploaded \in {{}, {"error"}, {"error", "warn"}, {"error", "warn", "info"},
                  {"error", "warn", "info", "debug"}}

Init ==
    /\ pc = [g \in Goroutines |-> "idle"]
    /\ muxClient = <<>> /\ logger = <<>>
    /\ left = 0 /\ spent = 0 /\ held = 0 /\ swept = 0
    /\ initLogger

Goto(g, label) == pc' = [pc EXCEPT ![g] = label]

First(queue, g) == queue # <<>> /\ Head(queue) = g

-----------------------------------------------------------------------------
Lock(g) ==
    /\ g \notin Loggers /\ pc[g] = "idle"
    /\ Goto(g, "mux")
    /\ muxClient' = Append(muxClient, g)
    /\ UNCHANGED <<logger, left, spent, uploaded, held, swept>>

\* muxClient is g's.  A refresher finds what expired.
Locked(g) ==
    /\ pc[g] = "mux" /\ First(muxClient, g)
    /\ Goto(g, "holds")
    /\ held' = 0
    /\ swept' \in IF g \in Refreshers THEN 0 .. MaxExpired ELSE {0}
    /\ left' = swept'
    /\ UNCHANGED <<muxClient, logger, spent, uploaded>>

\* A handler unlocks, then logs the outcome; a renewal at debug only.
UnlockAndLog(g) ==
    /\ g \in Handlers /\ pc[g] = "holds"
    /\ muxClient' = Tail(muxClient)
    /\ \E lvl \in {"debug", "info", "warn"} :
           IF lvl \in uploaded
           THEN Goto(g, "log") /\ logger' = Append(logger, g)
           ELSE Goto(g, "idle") /\ UNCHANGED logger
    /\ UNCHANGED <<left, spent, uploaded, held, swept>>

\* A packet that is ignored, an address that is compared or denied, a
\* connection refused by the limiter or whose dial failed, a drop that is
\* over, a cleanup, a start that failed are logged without asking for
\* muxClient.  Errors come from the starter only.
LogOutright(g) ==
    /\ g \notin Refreshers /\ pc[g] = "idle"
    /\ IF g \in Handlers THEN "warn" \in uploaded ELSE uploaded # {}
    /\ Goto(g, "log")
    /\ logger' = Append(logger, g)
    /\ UNCHANGED <<muxClient, left, spent, uploaded, held, swept>>

\* A refresher logs and deletes one entry after the other.
LogExpired(g) ==
    /\ g \in Refreshers /\ pc[g] = "holds" /\ left > 0
    /\ left' = left - 1
    /\ IF "info" \in uploaded
       THEN Goto(g, "log") /\ logger' = Append(logger, g)
       ELSE UNCHANGED <<pc, logger>>
    /\ UNCHANGED <<muxClient, spent, uploaded, held, swept>>

Unlock(g) ==
    /\ g \in Refreshers /\ pc[g] = "holds" /\ left = 0
    /\ Goto(g, "idle")
    /\ muxClient' = Tail(muxClient)
    /\ UNCHANGED <<logger, left, spent, uploaded, held, swept>>

\* The hook runs under the logger's mutex.  The upload ends when the service
\* answers, or fails, at the latest by its timeout.
Fire(g) ==
    /\ pc[g] = "log" /\ First(logger, g)
    /\ Goto(g, "upload")
    /\ spent' = 0
    /\ UNCHANGED <<muxClient, logger, left, uploaded, held, swept>>

\* The entry is written under the same mutex, which is asked for again.
Return(g) ==
    /\ pc[g] = "upload"
    /\ Goto(g, "write")
    /\ logger' = Append(Tail(logger), g)
    /\ UNCHANGED <<muxClient, left, spent, uploaded, held, swept>>

Write(g) ==
    /\ pc[g] = "write" /\ First(logger, g)
    /\ Goto(g, IF g \in Refreshers THEN "holds" ELSE "idle")
    /\ logger' = Tail(logger)
    /\ UNCHANGED <<muxClient, left, spent, uploaded, held, swept>>

-----------------------------------------------------------------------------
UploadMayHang(g) == pc[g] = "upload"

UploadMayRetry(g) == pc[g] = "upload" /\ spent < 2 * Timeout

UploadMayLast(g) == pc[g] = "upload" /\ spent < Timeout

Waits(g) ==
    \/ pc[g] = "idle"
    \/ pc[g] = "mux" /\ ~First(muxClient, g)
    \/ pc[g] \in {"log", "write"} /\ ~First(logger, g)
    \/ UploadMayLast(g)

\* The two clocks are capped where they are no longer told apart.
Capped(n, cap) == IF n < cap THEN n + 1 ELSE n

\* Uploads that an expired entry takes, its own included: nobody overtakes it
\* in both of its waits, and the other refreshers wait for muxClient.
PerEntry == Cardinality(Others) + 1

Tick ==
    /\ \A g \in Goroutines : Waits(g)
    /\ spent' = IF \E g \in Goroutines : pc[g] = "upload" THEN Capped(spent, 2 * Timeout)
                ELSE spent
    /\ held' = IF muxClient # <<>> THEN Capped(held, MaxExpired * PerEntry * Timeout + 1)
               ELSE held
    /\ UNCHANGED <<pc, muxClient, logger, left, uploaded, swept>>

Step(g) ==
    Locked(g) \/ UnlockAndLog(g) \/ LogExpired(g) \/ Unlock(g) \/ Fire(g) \/ Write(g)

Next ==
    \/ \E g \in Goroutines : \/ Lock(g) \/ Locked(g) \/ UnlockAndLog(g) \/ LogOutright(g)
                             \/ LogExpired(g) \/ Unlock(g)
                             \/ Fire(g) \/ Return(g) \/ Write(g)
    \/ Tick

\* A goroutine that can run does; the log service need not answer at all, but
\* the request is over at its timeout.
Overdue(g) == ~UploadMayLast(g) /\ Return(g)

Fairness ==
    /\ \A g \in Goroutines : WF_vars(Step(g)) /\ WF_vars(Overdue(g))
    /\ WF_vars(Tick)

Spec == Init /\ [][Next]_vars /\ Fairness

-----------------------------------------------------------------------------
\* Whoever asks for muxClient gets it, though a sweep uploads under it: the
\* logger's mutex is never held by one who waits for muxClient, and every
\* upload has its timeout (sls.go:82, auth.go:47).
EveryoneServed == \A g \in Goroutines : pc[g] = "mux" ~> pc[g] = "holds"

\* So long, and no longer, may one sweep keep authorizations and connections
\* waiting: for each entry that expired, one upload of everybody who logs
\* without muxClient, connections included, and the entry's own, however many
\* forwards there are and though an entry waits twice for the logger's mutex.
\* The sweeps of several forwards may follow each other (auth.go:37-57).
StallBounded == held <= swept * PerEntry * Timeout
=============================================================================
