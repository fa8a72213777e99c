---------------------------- MODULE RenewalLoop ----------------------------
(***************************************************************************)
(* One renewal loop of the client (startAuthOfServer), there is one for    *)
(* each entry of authconfigs, together with the window that its grants     *)
(* keep open at the server.  An attempt is over when the response has been *)
(* written or something failed before; whether the response arrives and is *)
(* granted the client never learns.  The name of the server is resolved in *)
(* every attempt, before there is a deadline, so an attempt may outlast    *)
(* the interval; the ticker goes on meanwhile and its channel holds one    *)
(* tick.  The loops share only the stop channel; nobody waits for the done *)
(* channel startAllAuth drops.                                             *)
(***************************************************************************)
EXTENDS Naturals

CONSTANTS
    Configured,     \* intervals that configurations may give, or None
    None,           \* no interval given
    MinInterval,    \* 10 s in the code
    DefaultInterval,
    MaxAttempt,     \* longest attempt: the resolver's time, and the read deadline
    MaxFlight,      \* a response later than that is refused: the life of a challenge
    Prompt,         \* what attempt and response take each when nothing is wrong
    Period,         \* authexpiredtime of the server
    AlarmFactor,    \* 10 in the code
    MaxMissed       \* bound: attempts without a grant in a row when one more fails

ASSUME RenewalAssumption ==
    /\ Configured \subseteq Nat \cup {None} /\ None \notin Nat
    /\ MinInterval \in Nat \ {0} /\ DefaultInterval \in Nat
    /\ MinInterval <= DefaultInterval
    /\ MaxAttempt \in Nat /\ MaxFlight \in Nat
    /\ Prompt \in Nat /\ Prompt <= MaxAttempt /\ Prompt <= MaxFlight
    /\ Period \in Nat \ {0}
    /\ AlarmFactor \in Nat \ {0, 1}
    /\ MaxMissed \in Nat

VARIABLES
    interval,               \* ticks between two of the ticker
    phase,                  \* ticks since it fired
    ready,                  \* a tick is in its channel
    pc,                     \* of the loop's goroutine
    elapsed,                \* ticks since the attempt at hand, or the last, began
    failCount, nextAlarm,   \* the loop's counters
    flight,                 \* by age, how many responses are on their way
    since,                  \* ticks since the last grant, up to Period
    stop,                   \* the stop channel is closed
    trouble,                \* may anything still fail, or be slow?
    \* history
    granted,                \* was there ever a grant?
    begun,                  \* attempts begun since the last grant
    overrun,                \* ticks that attempts outlasted the interval since then
    alarmed,                \* failCount at the last alarm since an attempt succeeded
    late                    \* attempts begun since stop was closed and the ticker fired

ticker == <<interval, phase, ready>>
counters == <<failCount, nextAlarm, alarmed>>
server == <<since, granted>>
account == <<begun, overrun>>
world == <<stop, trouble>>
vars == <<interval, phase, ready, pc, elapsed, failCount, nextAlarm, flight, since,
          stop, trouble, granted, begun, overrun, alarmed, late>>

Ages == 0 .. MaxFlight

\* An interval that is too short ends the program before it does anything.
CheckValid(n) == n # None => n >= MinInterval

SetDefaultValue(n) == IF n = None THEN DefaultInterval ELSE n

\* The ticker is there before the first attempt, which is made at once.
Init ==
    /\ \E n \in Configured : CheckValid(n) /\ interval = SetDefaultValue(n)
    /\ phase = 0 /\ ready = FALSE
    /\ pc = "attempt" /\ elapsed = 0
    /\ failCount = 0 /\ nextAlarm = 1
    /\ flight = [a \in Ages |-> 0]
    /\ since = Period /\ granted = FALSE
    /\ stop = FALSE /\ trouble = TRUE
    /\ begun = 0 /\ overrun = 0 /\ alarmed = 0 /\ late = 0

-----------------------------------------------------------------------------
MayMiss == trouble /\ begun < MaxMissed

\* auth returned an error; a warning when the count reaches the threshold.
FailGivesUp ==
    /\ pc = "attempt" /\ MayMiss
    /\ pc' = "ended"
    /\ failCount' = failCount + 1
    /\ UNCHANGED <<ticker, elapsed, nextAlarm, alarmed, flight, server, world, account, late>>

Fail ==
    /\ pc = "attempt" /\ MayMiss
    /\ pc' = "select"
    /\ failCount' = failCount + 1
    /\ IF failCount' >= nextAlarm
       THEN nextAlarm' = nextAlarm * AlarmFactor /\ alarmed' = failCount'
       ELSE UNCHANGED <<nextAlarm, alarmed>>
    /\ UNCHANGED <<ticker, elapsed, flight, server, world, account, late>>

\* auth returned nil.
SucceedKeepsAlarm ==
    /\ pc = "attempt"
    /\ pc' = "select"
    /\ failCount' = 0 /\ alarmed' = 0
    /\ flight' = [flight EXCEPT ![0] = @ + 1]
    /\ UNCHANGED <<ticker, elapsed, nextAlarm, server, world, account, late>>

Succeed ==
    /\ pc = "attempt"
    /\ pc' = "select"
    /\ failCount' = 0 /\ nextAlarm' = 1 /\ alarmed' = 0
    /\ flight' = [flight EXCEPT ![0] = @ + 1]
    /\ UNCHANGED <<ticker, elapsed, server, world, account, late>>

\* A response arrives and is granted, also one that a later attempt has
\* overtaken; or it is lost, or refused in silence.
Arrive ==
    /\ \E a \in Ages : flight[a] > 0 /\ flight' = [flight EXCEPT ![a] = @ - 1]
    /\ since' = 0 /\ granted' = TRUE
    /\ begun' = 0 /\ overrun' = 0
    /\ UNCHANGED <<ticker, pc, elapsed, counters, world, late>>

Lose ==
    /\ MayMiss
    /\ \E a \in Ages : flight[a] > 0 /\ flight' = [flight EXCEPT ![a] = @ - 1]
    /\ UNCHANGED <<ticker, pc, elapsed, counters, server, world, account, late>>

Begin ==
    /\ pc' = "attempt" /\ elapsed' = 0
    /\ begun' = begun + 1
    /\ late' = IF stop THEN late + 1 ELSE late
    /\ UNCHANGED <<interval, phase, counters, flight, server, world, overrun>>

\* The two cases of the select.  When both are ready Go takes either.
ContinueWaits ==
    /\ pc = "select" /\ ready
    /\ ready' = FALSE
    /\ UNCHANGED <<interval, phase, pc, elapsed, counters, flight, server, world, account, late>>

Continue ==
    /\ pc = "select" /\ ready
    /\ ready' = FALSE
    /\ Begin

BreakLeavesSelectOnly ==
    /\ pc = "select" /\ stop
    /\ Begin
    /\ UNCHANGED ready

Break ==
    /\ pc = "select" /\ stop
    /\ pc' = "ended"
    /\ UNCHANGED <<ticker, elapsed, counters, flight, server, world, account, late>>

-----------------------------------------------------------------------------
\* Time.  Whoever can act does so before it passes.
Limit(most) == IF trouble THEN most ELSE Prompt

Waits ==
    \/ pc = "attempt" /\ elapsed < Limit(MaxAttempt)
    \/ pc = "select" /\ ~ready /\ ~stop
    \/ pc = "ended"

Older == [a \in Ages |-> IF a = 0 THEN 0 ELSE flight[a - 1]]

\* The ticker fires, unless the loop has stopped it; a tick that nobody has
\* fetched is not doubled.
TickerRuns ==
    IF pc = "ended"
    THEN UNCHANGED <<phase, ready, late>>
    ELSE IF phase + 1 < interval
         THEN phase' = phase + 1 /\ UNCHANGED <<ready, late>>
         ELSE phase' = 0 /\ ready' = TRUE /\ late' = 0

Tick ==
    /\ Waits
    /\ \A a \in Ages : a >= Limit(MaxFlight) => flight[a] = 0
    /\ TickerRuns
    /\ elapsed' = IF pc = "ended" THEN elapsed ELSE elapsed + 1
    /\ overrun' = IF pc = "attempt" /\ elapsed >= interval THEN overrun + 1 ELSE overrun
    /\ flight' = Older
    /\ since' = IF since < Period THEN since + 1 ELSE since
    /\ UNCHANGED <<interval, pc, counters, granted, world, begun>>

-----------------------------------------------------------------------------
\* Main closes stop; what was wrong with resolver, network or server is
\* mended for good.
CloseStop ==
    /\ ~stop
    /\ stop' = TRUE
    /\ UNCHANGED <<ticker, pc, elapsed, counters, flight, server, trouble, account, late>>

TroubleEnds ==
    /\ trouble
    /\ trouble' = FALSE
    /\ UNCHANGED <<ticker, pc, elapsed, counters, flight, server, stop, account, late>>

Goroutine == Fail \/ Succeed \/ Continue \/ Break

Next ==
    \/ Fail \/ Succeed \/ Arrive \/ Lose \/ Continue \/ Break
    \/ Tick \/ CloseStop \/ TroubleEnds

\* The goroutine runs, ticker, resolver and read deadline are kept, and what
\* is on its way arrives or is lost.  A select that finds stop and the ticker
\* ready draws one of them at random: a loop whose attempts all outlast the
\* interval comes there again and again, and takes stop once.
Fairness ==
    /\ WF_vars(Goroutine) /\ SF_vars(Break)
    /\ WF_vars(Arrive \/ Lose) /\ WF_vars(Tick)

Spec == Init /\ [][Next]_vars /\ Fairness

-----------------------------------------------------------------------------
TypeOK ==
    /\ interval \in Nat \ {0} /\ phase \in 0 .. interval - 1 /\ ready \in BOOLEAN
    /\ pc \in {"attempt", "select", "ended"} /\ elapsed \in Nat
    /\ failCount \in Nat /\ nextAlarm \in Nat \ {0}
    /\ flight \in [Ages -> Nat]
    /\ since \in 0 .. Period
    /\ stop \in BOOLEAN /\ trouble \in BOOLEAN /\ granted \in BOOLEAN
    /\ begun \in Nat /\ overrun \in Nat /\ alarmed \in Nat /\ late \in Nat

\* An address that was granted access loses it while its client runs only
\* after so many attempts in a row without a grant (failed, lost, refused, or
\* not decided yet), that the intervals between them, and what attempts
\* outlasted the interval for (auth.go:15), fill the server's period.  With
\* interval and authexpiredtime equal, as in the templates, the time to the
\* next grant is enough.
LapseAccounted ==
    (granted /\ pc # "ended" /\ since = Period)
        => (begun + 1) * interval + overrun >= Period

\* While attempts fail there has been a warning after the last success, and
\* fewer than AlarmFactor times as many failures as when it was given: the
\* threshold that grows with each warning (auth.go:155-160) never silences a
\* failure that begins after a success.
AlarmsKeepPace ==
    failCount > 0 => alarmed > 0 /\ failCount < AlarmFactor * alarmed

\* After stop is closed at most one attempt begins for each time the ticker
\* fires, although select may take the ticker when both are ready
\* (auth.go:166-171): one that is over before the ticker fires again is the
\* last.  Attempts that outlast the ticker may follow each other.
OneAttemptPerTick == late <= 1

\* The loop ends after stop is closed.
StopEndsLoop == stop ~> pc = "ended"

\* Once the trouble is over, the address regains access and keeps it, if the
\* period leaves room for one interval, until the loop is stopped: no
\* sequence of failures, overlong attempts and late responses makes the loop
\* give up or fall out of step.
RegainsAccess == ~trouble ~> [](since < Period \/ stop)
=============================================================================
