# A verification project for connauth

connauth lets a client open a TCP port of a server for its own source address
by a UDP challenge-response exchange. This directory holds TLA+ models of that
program, the TLC configurations that check them on small instances, and TLAPS
proofs of the main theorems for every value of the constants. References such
as `forward.go:78` are to the repository's files and lines.

Check a model with `tlc -config MCForward.cfg MCForward`, a proof with
`tlapm ForwardProofs.tla`. PROJECT.json lists components, runs, theorems, the
hazards of the code with the properties that cover them, and for each
definition the source lines it models.

## The system

| part | source | state | operations |
|---|---|---|---|
| challenge store | `cmd/authserver/challenge.go` | `items` (key to expiry), `countByIP`, two limits, a mutex | `add`, `consume`, `cleanup` |
| authentication listener | `cmd/authserver/auth.go:211-416` | a UDP socket; a reader, a cleaner and a closer goroutine | `handleAuthPacket`, `handleChallengeRequest`, `handleChallengeResponse`, the minute's `cleanup` |
| authorized client list | `cmd/authserver/auth.go:15-209, 418-425` | `allClientList` per forward (address and client id to expiry), `muxClient` | `authorizeClient`, `isIPAuthed`, `isClientAuthed` (used by tests only), `refreshClientList` |
| forwarder | `cmd/authserver/forward.go` | per port a listener, its connections, the limiter's `global` and `byIP`, `stop`, `done` | accept, `acquire`, dial, two copiers, `release`, drop timer, refresher, shutdown |
| authentication client | `cmd/authclient/auth.go` | per port a ticker and failure counters; per attempt a socket and a nonce | `auth`, the renewal loop |
| authproto | `utils/authproto` | none | `Seal`, `Open`, `TimestampAllowed`, message validation |
| server configuration | `cmd/authserver/config.go` | `globalConfig`, read only once the program runs | validation, rule resolution, defaults, `authKeyByID` |
| client configuration | `cmd/authclient/config.go` | read only | validation, defaults |
| main and service wrapper | `cmd/*/main.go`, `utils/service` | the exit and stop channels | start-up, shutdown |
| logging | `utils/logger`, `utils/logrus/hooks`, `cmd/*/logger.go` | the logger's mutex, an HTTP client | `Fire` uploads one entry |

How they interact:

1. The client sends a request (client nonce, timestamp). The server's reader
   checks the key's active period and the timestamp, draws a server nonce,
   registers the challenge in the store and sends it to the request's address.
2. The client reads one datagram within five seconds, checks that it is its
   own challenge and not expired, and sends the response with its token. It
   reads no answer: the server never sends one.
3. The reader consumes the challenge and, if it was still valid, asks
   `authorizeClient`, which enters the address and client id in the list of
   the first forward that matches port and token.
4. Each forward's acceptor asks `isIPAuthed` about the address of a
   connection; a goroutine per admitted connection takes a slot of the
   limiter, dials the forward address and copies in both directions. A
   refresher per forward removes expired entries every second.

The reader, cleaner, acceptors, handlers and refreshers run concurrently. The
store, the list and each limiter have a mutex of their own; the sockets are
shared by the two copiers of a connection.

### What is hard about it, and what makes each part correct

- **Store.** Two maps are kept in step by three methods, and the callers read
  the clock before they get the mutex. Correct: the counters count, the limits
  hold, a challenge is redeemed at most once and hardly after its expiry, a
  live one is never lost, a dead one does not keep its address out for long.
- **List.** Expired entries stay until someone meets them: a response, a
  connection (walking the map in random order up to the first live entry), or
  the refresher. Correct: none of this can be seen. The list answers like a
  window in which a grant ends by itself.
- **Forwarder.** A connection ends on many paths, and its slot is given back
  by one of two copiers while the other may run. Correct: every slot is given
  back once, the backend sees no more connections than the limits allow, no
  socket leaks, every connection ends, shutdown completes.
- **Exchange.** Datagrams are lost, repeated, delayed and reordered, hosts move
  to another address, clocks differ, keys end, the server restarts and forgets.
  Correct: nobody is admitted without a complete, fresh and unrepeated
  exchange from that very address.
- **Client loop.** A response that is lost looks like a success, an attempt
  resolves the server's name before it has a deadline and may outlast the
  interval, warnings become rarer the longer failure lasts, and `select` may
  overlook stop. Correct: a lapse of access is accounted for by attempts without
  a grant and by the time they overran, failure that follows a success is always
  reported, the loop recovers by itself, and stop ends it.
- **A grant that ends.** It is asked for at accept only. Correct: what it
  admitted outlives it by the dial and one deadline, no more.
- **Start-up and shutdown.** Parts fail one by one and the failure is only
  logged; packets arrive before the start is complete, stop comes at any
  moment, and the reader must tell a passing error from the end. Correct: what
  can be served is, nothing panics, the listener stops.
- **Configuration.** A key's period is compared in two places, a rule's value
  is validated in one of two, host names are resolved at every start; a file
  that was good ceases to be. Correct: the places agree, and only a key's end or
  a name that does not resolve makes a good file bad.
- **Logging.** It may be a blocking upload, under `muxClient`, behind the uploads
  of everybody else. Correct: nobody waits for ever, and for how long one sweep
  keeps the others waiting is known.

The list of hazards with their lines is in PROJECT.json.

## The modules

| module | models | proofs |
|---|---|---|
| `PendingChallenges` | the store, one operator per method | `ChallengeProofs` |
| `ChallengeLifecycle` | EXTENDS it by the reader, the cleaner and the clock | `ChallengeProofs` |
| `AccessWindow` | what the client list promises (abstract) | |
| `ClientList` | the list and everything that touches it; refines `AccessWindow` | `ClientListProofs` |
| `SlotPool` | what the limiter of a port promises (abstract) | |
| `Forward` | one forwarded port; refines `SlotPool` | `ForwardProofs` |
| `Handshake` | clients, network and handlers, composed with the store (INSTANCE `PendingChallenges`) and the window (INSTANCE `AccessWindow`) | `HandshakeProofs` |
| `RenewalLoop` | the client's loop for one port, with the window its grants keep open | `RenewalProofs` |
| `Gateway` | EXTENDS `Forward` by the grants that open the port (INSTANCE `AccessWindow`) | `ForwardProofs` |
| `Lifecycle` | the server's starter, the goroutines of the UDP listener with socket errors, the stop | `LifecycleProofs` |
| `ServerConfig` | the configuration file over time: keys, named values, rules, restarts | `ConfigProofs` |
| `LogLocks` | `muxClient` and the logger's mutex, with uploads | `LogLockProofs` |
| `MC*` | the small instances | |

Conventions: variables and actions carry the names of the code where there are
any. A Go map is a function on the set of its keys. Times are numbers of
ticks; `x.After(now)` is `x > now`. An operation under a mutex is one step;
where the code reads the clock or a decision before the lock, that is a step
of its own. An operator that stands directly before another and resembles it
(`FullOffByOne` before `Full`) is a plausible defect of that operator: putting
it in the other's place must break a property, and PROJECT.json says which.

**PendingChallenges and ChallengeLifecycle.** `items` and `countByIP` are the
two maps; `Count` is the lookup with Go's zero value. `Add`, `Consume`,
`Cleanup` are the methods, `Full` and `Accepts` their results. In the code
`consume` and `cleanup` delete key by key; `Drop` is the effect of the loop,
which holds the mutex throughout. `ReadRequest`/`AddChallenge` and
`ReadResponse`/`ConsumeChallenge` are the two halves of the reader's call:
`time.Now()`, then the method. `ReadClock`/`RunCleanup` are the cleaner's. A
goroutine may wait up to `MaxLag` between the halves; that is an assumption
about the scheduler and the mutex, used by the three timing properties and by
no other. Keys drawn for a request are new, because the server nonce is
(`auth.go:320`); a response may name any key.

**ClientList and AccessWindow.** `allClientList` is per forward a function from
clients (address and client id) to expiry. `Grant`, `RefuseFull` and
`RefuseUnmatched` are the outcomes of `authorizeClient`, `Entitling` the
forwards whose port and rules match. Token and IP rules are given by the sets
of tokens and addresses they match. `IsIPAuthed` deletes any set of the
expired entries of the address if it finds a live one (the map's order is
random), and all of them if it does not. `Listening` are the forwards whose
port could be bound: only they have an acceptor and a refresher. `reply` holds
the last answer, so that the refinement speaks about answers and not only
about state. The mapping sends the list to its live entries (`Window`); a
cleanup is a stuttering step of the window, a clock tick is where grants end.

**Forward.** `task[c]` is where the goroutine of a connection is, `up[c]` where
the second copier (`go forward(source, dest)`) is; `front` and `back` are the
sockets. `EndDown` closes back, `ReturnDown` front, because `forward` defers
`dest.Close` before `source.Close`; `EndUp`, `ReturnUp` the reverse. Closing a
socket again has no effect. `age` counts the time since the one call of
`SetDeadline`, `quiet` the time since bytes passed; the latter exists only for
the property that compares them. A copier may end when a peer closed, when the
other copier closed a socket, or at the deadline. The answer of `isIPAuthed`
is a free choice here. `Asking` and `Holders`, read off `task`, are what the
limiter's two counters stand for: under this mapping the port implements
`SlotPool`, where a connection is refused only if there is no room.

**Handshake.** `net` is the set of all datagrams ever sent: reading one leaves
it there, which gives repetition, delay and reordering; never reading it is
loss. `StartAttempt`, `AnswerChallenge`, `RejectChallenge`, `GiveUp` are the
paths of the client's `auth`; `HandleRequest`, `HandleResponse` and `Authorize`
are the server's handlers, with a restart possible between the last two.
Clients' clocks differ from the server's by `Skew`; messages carry whole
seconds (`Unix`), so there are `Second` clock readings to a second. Sealing is
taken as perfect: only a client makes its requests and responses, only the
server makes challenges. Unlike in `ChallengeLifecycle`, a handler takes no
time.

**RenewalLoop.** `interval` is what `CheckValid` and `SetDefaultValue` leave of
the configured one. `phase` is the ticker, which runs whatever the loop does;
`ready` is the one place of its channel. `pc` is "attempt" during `auth`, which
takes any time up to `MaxAttempt`: `auth` resolves the server's name
(`authclient/auth.go:15`) before it sets the read deadline (`:46`), so `MaxAttempt`
is in no relation to the interval. `Fail` and `Succeed` are the two branches after
`auth`; a success only puts a response on its way. `flight` counts those by
their age, because one may still be on its way when the next attempt begins, or
overtake it; each `Arrive`s, or is lost or refused (`Lose`), and the client cannot
tell. `Continue` and `Break` are the two cases of the `select`, either of which may
be taken when both are ready. `since` and `granted` are the window at the server;
`begun`, `overrun`, `alarmed` and `late` are history. The loops of other ports
share nothing with it but `stop`.

**Gateway.** The actions are those of `Forward`, except that the acceptor's
decision is the answer of `AccessWindow`'s `Dial` (`Decide`), that nobody closes
`stop`, as nobody does in the program, and that a tick lets a copy or a dial not
last beyond its timeout (`Settled`). A timeout of 0 is none, in the code as here:
`AccessEnds` speaks of ports that have both. `AccessWindow` stands for the list:
`ClientListProofs` shows that the list answers so. `gone` counts the ticks since
an address lost its access.

**Lifecycle.** `starter` is the next step of `Main`'s goroutine
(`main.go:34-47`); `StartForward(i)` may fail because another program, or an
earlier entry of the configuration, has the port. `running` are the goroutines
in the `WaitGroup` of `waitForAuth`, `inbox` what `ReadFromUDP` will return.
`Interrupt` and `StopService` are the two ways to close `exit` (signal, service
manager), `CloseStop` is `Main`, and `RunReturns` ends the process, which waits
for nobody. Every action but the environment's needs the process (`Up`).

**ServerConfig.** A file is a record of what `CheckValid` distinguishes; what
`validateSecret` accepts is the constant `StrongSecrets`. `Addresses` is what
`validateIPRule` and the check of `authaddr` let pass: literals always, host names
when they resolve at that start. `resolving` is the name service
(`NameServiceChanges`), `lookedUp` what it answered at the last start. All checks
without a bearing on keys, rules and addresses are one field, `restValid`.
`Resolvable` and `Resolved` are the two results of `resolveTokenRule` and
`resolveIPRule`, which have the same control; `Loaded` is what `readConfig` leaves
behind. `Deploy`, `Crash` and `Tick` are the operator, the machine and time. That
`waitForAuth` resolves `authaddr` once more after the check is a way for the start
to fail in `Lifecycle`.

**LogLocks.** `muxClient` and `logger` are queues, their head the holder.
`Handlers` (reader, acceptors) take `muxClient` and log after giving it up or
without it; `Refreshers`, one for each forward, log while they keep it; `Loggers`
(connections, drop timers, the cleaner, the starter) never ask for it. `left` are
the expired entries that the refresher with `muxClient` has yet to log
(`auth.go:45`), `uploaded` the severities that run the hook at the configured
level, of which nothing below debug is ever used. `Lock`, `Locked`, `LogExpired`
and `Unlock` are the sweep. `Fire` to `Return` is the hook, which logrus 1.4.2 (the
version in `go.mod`) runs under the logger's mutex, up to the client's timeout;
logrus then asks for the same mutex again to write the entry (`Write`). A member
of `Loggers` stands for one goroutine after another: there are as many as are
alive at a time.

## The runs

| run | instance | shows |
|---|---|---|
| `challenges` | 3+2 keys of two addresses, limits 3 and 2, TTL 2, period 3, lag 1, 8 ticks; symmetric keys | `TypeOK`, `CountsExact`, `WithinLimits`, `RedeemedAtMostOnce`, `RedeemedInTime`, `LiveChallengeKept`, `DeadChallengesCollected` |
| `clientlist` | three clients, two of them behind one address, two places, two forwards, static addresses of which one is denied, 3 ticks | `TypeOK`, `WithinCapacity`, `ImplementsAccessWindow`, `ExpiredForgotten` |
| `forward` | four connections, two of one address; two slots in all and one per address, no timeout; the two are symmetric | `TypeOK`, `BackendWithinLimits`, `NothingLeaks`, `ImplementsSlotPool` |
| `forward_live` | two connections of one address, which has two slots; timeout 2, drop delay, shutdown | `SlotsExact`, `EveryConnectionEnds`, `StopCompletes`, `NothingAcceptedAfterDone` |
| `forward_idle` | two connections, timeout 2 | `OnlyIdleCut` is violated, see below |
| `handshake` | two clients that share an address, one of which may move and try twice; two nonces, one challenge per address, one place, one restart, 7 ticks | `TypeOK`, `RedeemedOnce`, `AnswersOwnChallenge`, `AdmittedHaveAnswered`, `GrantsAreRecent` |
| `renewal` | attempts of up to 5 ticks and responses of up to 4, of 1 each when nothing is wrong; configured intervals none (4), 3 and 2 (refused), period 10, up to three attempts in a row without a grant before one more fails, alarm factor 2 | `LapseAccounted`, `AlarmsKeepPace`, `OneAttemptPerTick`, `StopEndsLoop`, `RegainsAccess` |
| `gateway` | three connections from two addresses, one of them denied though static; a client behind each, period, dial and deadline of one tick, drop delay, 4 ticks | `AccessEnds` |
| `lifecycle` | three forwards, the second on the port of the first, any port or the UDP address taken | `PortsGoToFirst`, `NeverPanics`, `EveryFreePortServed`, `PacketsTaken`, `ListenerStops` |
| `serverconfig` | all pairs of keys with beginnings and ends, all shapes of rule entries, a host name in rules and as address to listen on; 2 ticks | `RulesValidated`, `CheckedKeysFound`, `RefusedForAReason` |
| `config_rotation` | one file with an old key that ends and a new one | `ActiveKeysServed` is violated, see below |
| `loglocks` | reader, one acceptor, two refreshers and a connection; two entries of a forward expire together, uploads of a tick | `StallBounded`, `EveryoneServed` |

Why the bounds are enough. In `challenges` one address can reach its own limit
and, with the other, the global one; the clock lets a challenge be made,
expire, miss a cleanup by the lag and be collected by the next, and both time
bounds are reached (one tick less and TLC finds a violation). In `clientlist`
each place is wanted by a third client, two clients share an address so that
one entry can be expired and the other live, and a window can open, be renewed
and close. In `forward` there are more connections than slots, which meets both
outcomes of `acquire` with every state of a holder, and each limit refuses where
the other would not; in `forward_live` an address holds two slots, so that giving
one back leaves the other. In
`handshake` the second attempt lets a challenge of the first turn up late, the
clock passes the past skew, the challenge's life and the key's end, and a
window opens and closes. In `renewal` an attempt outlasts both intervals, two responses
are on their way together, the period survives one attempt without a grant at
the longer interval and two at the shorter, and the bound of `LapseAccounted` is
reached and needs each of its terms; the failures cross the alarm threshold more
than once. In `gateway` access ends before the slot, during the dial and during the
copy. In `lifecycle` the third forward stands behind one that fails. In
`serverconfig` the clock stands before, at and after the beginning of a period and
up to its end, and a name stops and begins to resolve between two starts. In
`loglocks` the bound of `StallBounded` is reached, as in `handshake` is that of
`AdmittedHaveAnswered`. What does not depend on an instance at all is proved,
see below. So are the types of `RenewalLoop`, `Lifecycle` and `LogLocks`, which
no run repeats.

All runs check deadlock but three. `handshake` and `gateway` stop when the
counters that bound them are used up, `lifecycle` when the process has ended.

### Fairness

`clientlist`, `forward_live`, `renewal`, `lifecycle` and `loglocks` need it. A
forward's refresher never stops and waits for nothing but `muxClient`, held only
briefly, and time goes on: weak fairness of `RefreshClientList` and `Tick`. In `Forward` each
goroutine that can run does, a dial has a timeout (`forward.go:70`) and a
timer fires: weak fairness of the steps of a connection's goroutine, of its
second copier and of the shutdown. Nothing is assumed of clients, of the
backend, or of whoever owns `stop`. Logging is assumed to return, which
`LogLocks` looks into.

In `RenewalLoop` the goroutine runs, the ticker fires, and a response arrives
or is lost; resolver and read deadline (`authclient/auth.go:15, 46`) let every
attempt end some time. No attempt need succeed, or be over within the interval,
until the trouble is over. `Break` has strong fairness: a loop whose attempts
all outlast the interval finds both cases of its `select` ready every time, and
Go draws one of them at random, so that it overlooks stop for ever with
probability 0 only. Without it `StopEndsLoop` fails, by just that loop.

In `Lifecycle` each goroutine that can run does, while the process is up; no
packet need come, nor a signal, nor need the process go. In `LogLocks` a goroutine
that can run does, and an upload is over at the timeout of the HTTP client
(`sls.go:82`), whatever the log service does; mutexes are handed over in the order
of arrival, as Go's are once somebody has waited for a millisecond.

### The findings

`forward_idle`: `config.yaml.template:68` calls `idletimeoutms` the "idle
timeout in milliseconds for established forwarding". The code sets one
deadline when the dial succeeds (`forward.go:78-84`) and never moves it. TLC's
trace is a connection that carries bytes at every tick and is cut when the
time since it was established reaches the timeout.

`config_rotation`: `README.md:251-254` lets the old key stay in `authkeys` while
clients migrate, and says that "clients using either active `keyid` can
authenticate". `CheckValid` refuses any file that lists a key past its
`notafter` (`config.go:154-161`), although `authKeyByID` would simply not find
it. TLC's trace is a server that runs on such a file, crashes after the old
key's end and does not come up again, so that the new, active key is not served
either.

## What is proved

For every value of the constants that meets their assumptions:

| theorem | states |
|---|---|
| `ChallengeProofs!TypeCorrect`, `CountersExact`, `LimitsHold` | types; the counters count; the limits hold |
| `ChallengeProofs!NoReplay` | `[]RedeemedAtMostOnce` |
| `ChallengeProofs!DeadChallengesGo`, `RedeemedWhileFresh`, `NoLiveChallengeLost` | the timing properties |
| `ClientListProofs!ListTypeCorrect`, `CapacityHolds` | types; the list stays within its limit |
| `ClientListProofs!ListImplementsWindow` | `Spec => AW!Spec` under the mapping above |
| `HandshakeProofs!HandshakeTypeCorrect`, `ChallengesRedeemedOnce`, `ClientsAnswerOwnChallenge` | types; no nonce is redeemed twice; an attempt answers its own challenge |
| `HandshakeProofs!OnlyAnsweredAdmitted`, `GrantsRestOnRecentRequests` | who is admitted has completed the exchange from that address, and not longer ago than skew, challenge life and period; no grant without a recent request |
| `RenewalProofs!LoopTypeCorrect`, `LapseExplained`, `AlarmsHeard`, `StopHeeded` | types; what a lapse is accounted for by; alarms keep pace; one attempt per tick after stop |
| `ConfigProofs!RunningRulesValid`, `KeysFoundAtStart`, `RestartPossible` | rules are validated; listed keys are found; only a key's end or a name refuses a good file |
| `LifecycleProofs!LifecycleTypeCorrect`, `ReaderNeverPanics`, `FreePortsServed` | types; no packet before the list; a port that is free goes to the first entry that names it |
| `ForwardProofs!PortTypeCorrect`, `SlotsCounted`, `LimitsProtectBackend`, `SocketsClosed`, `DoneMeansDone` | types; the slots; the limits; no leak; nothing accepted after `done` |
| `ForwardProofs!PortImplementsPool` | `Spec => Pool!Spec`: the limiter is a pool that knows its holders |
| `ForwardProofs!GatewayImplementsPort`, `GatewayImplementsGrants`, `GatewayPort` | the composition implements both its parts, so what is proved of a port holds behind its grants |
| `ForwardProofs!AccessBounded` | `[]AccessEnds` |
| `LogLockProofs!StallsEnd` | `[]StallBounded` |

The arguments:

- *Store.* `StoreInv` (types, exact counters, limits) is kept by `AddSound` and
  `DropSound`, which say what adding one key and deleting any set of keys do
  to the cardinalities; `consume` and `cleanup` are both a `Drop`. `SafeInv`
  adds the types of the goroutines' state. `NoReplay` needs `Ledger`: a
  challenge about to be registered has never been issued, so that one issue
  pays for one pending entry or one redemption. The timing theorems need
  `Timely`: a time a goroutine holds is at most `MaxLag` old, the cleaner keeps
  to its ticks, and no entry outlives the last sweep; none of these follows
  from the property alone.
- *List.* Types are inductive. Capacity needs that a grant counts what is left
  after the expired entries are gone. For the refinement, `DeleteInvisible`
  says that deleting expired entries leaves the window as it is; each
  operation is then a step of the window or a stutter, and `TickImplements`
  shows that the clock ends the same grants on both sides.
- *Forward.* `PortInv` is the conjunction of the types, `Counted` (the counters
  equal the number of slot holders, who are finitely many and within the
  limits), `SocketsFollow` (where the sockets are by where the goroutine is: the
  backend is open only while the goroutine copies) and `Stopped` (the acceptor
  has returned when `done` is closed). That the backend is protected although
  the slot is returned by one copier only follows from `Counted` and
  `SocketsFollow` together. For the pool, `CountersTellRoom` turns the comparison
  of the counters into one of the sets of holders; each step of the port then
  asks, takes, refuses, returns or stutters.
- *Gateway.* Every step is one of the port or leaves it alone, and the same of
  the grants, which gives both refinements and carries `PortInv` over.
  `AccessEnds` is not inductive: `Elapsed` adds that an address is without access
  for no longer than the connection has dialed or, while it copies, than the
  longest dial and the age of its deadline together (`Lasting`), and for no time
  at all when the goroutine is spawned (`Admitted`). That time passes only when
  nobody has anything to do at once (`Settled`) hands each stage's time to the
  next.
- *Handshake.* `net` only grows, so what was sent once stays a witness
  (`ExchangeStays`). `HandshakeInv` adds to the properties `Ledger` (a nonce has
  one pending challenge, or was redeemed once, or neither), `Traced` (behind
  every pending challenge, and behind the response being handled, stand a
  request from that address and a challenge sent to it) and `Fresh` (a pending
  challenge ends at most `MaxPastSkew + TTL` after the time of its request) and
  `Prompt` (the response being handled came before that time was up). Admission
  needs `Traced` and `Prompt` across the two steps of the handler; `Prompt` is
  `Fresh` with the expiry that `consume` checks. The window enters only
  through `GrantDomains`: a grant adds its own address and client, to the
  forward of its own port and token, until that forward's period is over.
- *Renewal.* `LapseAccounted` is not inductive. `GrantAge` bounds the age of the
  last grant by the attempts begun since it, by what they overran and by where
  ticker and attempt stand; it needs `Rhythm` (with no tick in the channel the last
  attempt began after the ticker last fired). `TickTaken` says that an attempt
  after stop has used up the tick. No relation between `MaxAttempt`, `MaxFlight` and
  the interval is assumed. `Threshold` ties the alarm threshold to the count at
  the last alarm.
- *Configuration.* `Checked`: what a server runs on was loaded from a file that
  passed `CheckValid` at a time not later than now. The theorems then are about
  the operators: `ResolvedValid` (a reference leads to a validated value),
  `ListedKeysFound` (the two comparisons agree, with no id twice),
  `OnlyEndsRefuse` and `PassesUnlessName` (time makes a good file bad through a
  key's end only, the name service through a name that no longer resolves).
- *Lifecycle.* `ListFirst`: the list is made before the starter goes on, and the
  listener exists only after that. `Outcomes`: no two forwards listen on one
  port, and each port that was free when an entry had its turn is served by that
  entry or an earlier one.
- *Locks.* `LoggerQueued` and `MuxQueued` say who stands in which queue: everyone
  once, only the logger's head uploads, and of those in `muxClient`'s queue only
  the refresher at its head logs. `Paced` bounds the time the sweep has kept
  `muxClient`: each entry that is done has cost at most `Share`, an upload of
  everybody who logs without `muxClient` and its own, and the entry at hand an
  upload of each that is `Done` with regard to it: has come to stand behind it
  with its upload over, or, once the entry only waits to be written, is not
  ahead of it with an upload to come. Nobody ceases to be done (`PaceStays`), an
  upload that is over adds its goroutine (`OneMoreDone`), and whoever uploads is
  not done yet (`HeadNotDone`): so one upload each, although the entry stands in
  the queue twice.

Assumptions: those in the `ASSUME`s of the modules (types of the constants, and
for the timing theorems of the store that a wait is shorter than a challenge's
life and than the cleanup period: with 30 s and 60 s the code leaves ample room).
`RenewalLoop` assumes nothing of the length of attempts and responses but that
each has some bound. `StallBounded` rests on mutexes that are handed over in the
order of arrival, on the upload's timeout, and on goroutines that take no time of
their own; it bounds one sweep, and several forwards may sweep one after another.
Induction over data and `RECURSIVE` operators are not used.

Only model-checked: the liveness properties (`ExpiredForgotten`,
`EveryConnectionEnds`, `StopCompletes`, `StopEndsLoop`, `RegainsAccess`,
`EveryFreePortServed`, `PacketsTaken`, `ListenerStops`, `EveryoneServed`), which
this prover cannot do. Every invariant and every action property that a passing
run checks is proved.

## What is not modelled, and why

- AES-GCM, JSON and the length limits of fields (`authproto/crypto.go`,
  `protocol.go:69-112`): data without state; sealing is assumed perfect.
- The bytes of a forwarded stream, and with them what half-closing loses.
- What rule values match: rules are given by it. So what a host name in a rule
  comes to (it passes the check and matches nothing), non-canonical addresses and
  the wildcards of tokens are outside.
- Persistent errors of `Accept` and `ReadFromUDP`: retried without a pause, and
  nothing in the code bounds that.
- The encoding and signature of a log upload, the Windows event log and the
  redirection of the log there: I/O only.
- The text of identifiers, secrets and addresses and the limits and defaults of
  a forward (`authserver/config.go:20-73, 166-208`), and all of the client's
  configuration but the interval: checks without state, met by construction.

## Plan

Done, in this order:

1. `PendingChallenges`, `ChallengeLifecycle`, proofs.
2. `AccessWindow`, `ClientList`, refinement, proofs.
3. `Forward`, proofs.
4. `Handshake`, proofs.
5. `RenewalLoop`, proofs.
6. `Gateway`, proofs.
7. `Lifecycle`, proofs.
8. `ServerConfig`, proofs.
9. `LogLocks`, proofs.
10. `SlotPool`, refinement, proofs.

Left:

11. The two streams of a connection, for what half-closing loses; the values of
    rules, for what a host name in a rule comes to.
