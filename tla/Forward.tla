------------------------------ MODULE Forward ------------------------------
(***************************************************************************)
(* One forwarded port of the server (forward.go): the acceptor, the        *)
(* goroutine of every admitted connection with the second copier it        *)
(* starts, the limiter they share, the closing of refused connections and  *)
(* the shutdown of the listener.  A connection is its two sockets, front   *)
(* (to the client) and back (to the forward address), and the goroutines   *)
(* that work on them; the bytes it carries are abstracted to the fact that *)
(* some passed.                                                            *)
(***************************************************************************)
EXTENDS Naturals, FiniteSets, Functions

CONSTANTS
    Conns,          \* the connections clients will make
    IPs, IPOf,      \* source addresses, and each connection's
    MaxConnGlobal, MaxConnPerIP,    \* the limits, 0 for none
    IdleTimeout,    \* idletimeoutms in ticks, 0 for none
    DropDelay,      \* does a refused connection linger (dropdelaytime > 0)?
    MayStop         \* is stop ever closed? startForward's own never is

ASSUME ForwardAssumption ==
    /\ IPOf \in [Conns -> IPs]
    /\ MaxConnGlobal \in Nat
    /\ MaxConnPerIP \in Nat
    /\ IdleTimeout \in Nat
    /\ DropDelay \in BOOLEAN
    /\ MayStop \in BOOLEAN

VARIABLES
    global, byIP,       \* connectionLimiter
    task,               \* where the connection's goroutine (or timer) is
    up,                 \* where its second copier, go forward(source, dest), is
    front, back,        \* its sockets
    clientGone, backendGone,    \* has the peer closed its end?
    age,                \* ticks since the deadline was set, up to IdleTimeout
    quiet,              \* ticks since bytes last passed, up to IdleTimeout
    stop, listener,     \* the stop channel is closed; the listener is open
    running,            \* the goroutines of startForwardWithStop not yet done
    done                \* the done channel is closed

limiter == <<global, byIP>>
sockets == <<front, back>>
peers == <<clientGone, backendGone>>
clocks == <<age, quiet>>
port == <<stop, listener, running, done>>
vars == <<global, byIP, task, up, front, back, clientGone, backendGone,
          age, quiet, stop, listener, running, done>>

Init ==
    /\ global = 0
    /\ byIP = [ip \in {} |-> 0]
    /\ task = [c \in Conns |-> "away"]
    /\ up = [c \in Conns |-> "off"]
    /\ front = [c \in Conns |-> "none"]
    /\ back = [c \in Conns |-> "none"]
    /\ clientGone = [c \in Conns |-> FALSE]
    /\ backendGone = [c \in Conns |-> FALSE]
    /\ age = [c \in Conns |-> 0]
    /\ quiet = [c \in Conns |-> 0]
    /\ stop = FALSE
    /\ listener = TRUE
    /\ running = {"closer", "acceptor", "refresher"}
    /\ done = FALSE

Close(socket, c) == [socket EXCEPT ![c] = "closed"]

Goto(c, label) == task' = [task EXCEPT ![c] = label]

-----------------------------------------------------------------------------
\* The limiter.  Both operations hold its mutex.
Held(ip) == IF ip \in DOMAIN byIP THEN byIP[ip] ELSE 0

CanAcquireOneMore(ip) ==
    /\ MaxConnGlobal > 0 => global <= MaxConnGlobal
    /\ MaxConnPerIP > 0 => Held(ip) <= MaxConnPerIP

CanAcquireOneLess(ip) ==
    /\ MaxConnGlobal > 0 => global + 1 < MaxConnGlobal
    /\ MaxConnPerIP > 0 => Held(ip) < MaxConnPerIP

CanAcquire(ip) ==
    /\ MaxConnGlobal > 0 => global < MaxConnGlobal
    /\ MaxConnPerIP > 0 => Held(ip) < MaxConnPerIP

AcquireCountsDown(ip) ==
    /\ global' = global - 1
    /\ byIP' = [i \in DOMAIN byIP \cup {ip} |->
                   IF i = ip THEN Held(i) + 1 ELSE byIP[i]]

Acquire(ip) ==
    /\ global' = global + 1
    /\ byIP' = [i \in DOMAIN byIP \cup {ip} |->
                   IF i = ip THEN Held(i) + 1 ELSE byIP[i]]

ReleaseForgetsIP(ip) ==
    /\ global' = IF global > 0 THEN global - 1 ELSE global
    /\ byIP' = Restrict(byIP, DOMAIN byIP \ {ip})

Release(ip) ==
    /\ global' = IF global > 0 THEN global - 1 ELSE global
    /\ byIP' = IF Held(ip) > 1
               THEN [byIP EXCEPT ![ip] = @ - 1]
               ELSE Restrict(byIP, DOMAIN byIP \ {ip})

-----------------------------------------------------------------------------
\* The acceptor takes one connection at a time and asks isIPAuthed about its
\* address; the answer is the authorized client list's.
Accept(c) ==
    /\ "acceptor" \in running
    /\ listener
    /\ task[c] = "away"
    /\ \A d \in Conns : task[d] # "accepted"
    /\ Goto(c, "accepted")
    /\ front' = [front EXCEPT ![c] = "open"]
    /\ UNCHANGED <<limiter, up, back, peers, clocks, port>>

\* A permitted connection gets a goroutine of its own.
Admit(c) ==
    /\ task[c] = "accepted"
    /\ Goto(c, "spawned")
    /\ UNCHANGED <<limiter, up, sockets, peers, clocks, port>>

\* Any other is closed, at once or by a timer.
TurnAway(c) ==
    /\ task[c] = "accepted"
    /\ IF DropDelay
       THEN Goto(c, "dropping") /\ UNCHANGED front
       ELSE Goto(c, "done") /\ front' = Close(front, c)
    /\ UNCHANGED <<limiter, up, back, peers, clocks, port>>

Drop(c) ==
    /\ task[c] = "dropping"
    /\ Goto(c, "done")
    /\ front' = Close(front, c)
    /\ UNCHANGED <<limiter, up, back, peers, clocks, port>>

\* The goroutine asks for a slot ...
GetSlot(c) ==
    /\ task[c] = "spawned"
    /\ CanAcquire(IPOf[c])
    /\ Acquire(IPOf[c])
    /\ Goto(c, "dialing")
    /\ UNCHANGED <<up, sockets, peers, clocks, port>>

NoSlot(c) ==
    /\ task[c] = "spawned"
    /\ ~CanAcquire(IPOf[c])
    /\ Goto(c, "done")
    /\ front' = Close(front, c)
    /\ UNCHANGED <<limiter, up, back, peers, clocks, port>>

\* ... and connects to the forward address.  The deadline is set once, when
\* that succeeds.
DialFailsKeepsFront(c) ==
    /\ task[c] = "dialing"
    /\ Goto(c, "releasing")
    /\ UNCHANGED <<limiter, up, sockets, peers, clocks, port>>

DialFails(c) ==
    /\ task[c] = "dialing"
    /\ Goto(c, "releasing")
    /\ front' = Close(front, c)
    /\ UNCHANGED <<limiter, up, back, peers, clocks, port>>

DialSucceeds(c) ==
    /\ task[c] = "dialing"
    /\ Goto(c, "copying")
    /\ up' = [up EXCEPT ![c] = "copying"]
    /\ back' = [back EXCEPT ![c] = "open"]
    /\ age' = [age EXCEPT ![c] = 0]
    /\ quiet' = [quiet EXCEPT ![c] = 0]
    /\ UNCHANGED <<limiter, front, peers, port>>

NeverExpired(c) == FALSE

Expired(c) == IdleTimeout > 0 /\ age[c] = IdleTimeout

\* A copy loop ends when a read or a write fails: a peer closed its end (the
\* copier that reads from it sees the end of the stream, the other may fail
\* to write), the other copier closed a socket, or the deadline passed.
CopyEnds(c) ==
    \/ clientGone[c] \/ backendGone[c]
    \/ front[c] = "closed" \/ back[c] = "closed"
    \/ Expired(c)

\* forward(dest, source), in the connection's goroutine: after the loop it
\* closes back, then front.
EndDown(c) ==
    /\ task[c] = "copying"
    /\ CopyEnds(c)
    /\ Goto(c, "closing")
    /\ back' = Close(back, c)
    /\ UNCHANGED <<limiter, up, front, peers, clocks, port>>

ReturnDown(c) ==
    /\ task[c] = "closing"
    /\ Goto(c, "releasing")
    /\ front' = Close(front, c)
    /\ UNCHANGED <<limiter, up, back, peers, clocks, port>>

\* forward(source, dest), in the other: it closes front, then back.
EndUp(c) ==
    /\ up[c] = "copying"
    /\ CopyEnds(c)
    /\ up' = [up EXCEPT ![c] = "closing"]
    /\ front' = Close(front, c)
    /\ UNCHANGED <<limiter, task, back, peers, clocks, port>>

ReturnUp(c) ==
    /\ up[c] = "closing"
    /\ up' = [up EXCEPT ![c] = "off"]
    /\ back' = Close(back, c)
    /\ UNCHANGED <<limiter, task, front, peers, clocks, port>>

\* The deferred release, once handleConn has returned.
ReleaseSlot(c) ==
    /\ task[c] = "releasing"
    /\ Release(IPOf[c])
    /\ Goto(c, "done")
    /\ UNCHANGED <<up, sockets, peers, clocks, port>>

\* Bytes pass in either direction.
Transfer(c) ==
    /\ task[c] = "copying" \/ up[c] = "copying"
    /\ front[c] = "open" /\ back[c] = "open"
    /\ ~Expired(c)
    /\ quiet' = [quiet EXCEPT ![c] = 0]
    /\ UNCHANGED <<limiter, task, up, sockets, peers, age, port>>

\* The peers, which owe the server nothing.
ClientLeaves(c) ==
    /\ front[c] = "open"
    /\ clientGone' = [clientGone EXCEPT ![c] = TRUE]
    /\ UNCHANGED <<limiter, task, up, sockets, backendGone, clocks, port>>

BackendLeaves(c) ==
    /\ back[c] = "open"
    /\ backendGone' = [backendGone EXCEPT ![c] = TRUE]
    /\ UNCHANGED <<limiter, task, up, sockets, clientGone, clocks, port>>

Tick ==
    LET passed(clock) ==
            [c \in Conns |->
                IF task[c] = "copying" /\ clock[c] < IdleTimeout
                THEN clock[c] + 1 ELSE clock[c]]
    IN  /\ age' = passed(age)
        /\ quiet' = passed(quiet)
        /\ UNCHANGED <<limiter, task, up, sockets, peers, port>>

-----------------------------------------------------------------------------
\* Shutdown: the owner closes stop, the closer closes the listener, which
\* wakes the acceptor, and done is closed when all three have returned.
CloseStop ==
    /\ MayStop /\ ~stop
    /\ stop' = TRUE
    /\ UNCHANGED <<limiter, task, up, sockets, peers, clocks, listener, running, done>>

Exits(goroutine) ==
    /\ goroutine \in running
    /\ running' = running \ {goroutine}
    /\ UNCHANGED <<limiter, task, up, sockets, peers, clocks, stop, done>>

CloserForgetsListener ==
    /\ stop
    /\ Exits("closer")
    /\ UNCHANGED listener

CloseListener ==
    /\ stop
    /\ Exits("closer")
    /\ listener' = FALSE

AcceptorExits ==
    /\ ~listener
    /\ \A c \in Conns : task[c] # "accepted"
    /\ Exits("acceptor")
    /\ UNCHANGED listener

RefresherExits ==
    /\ stop
    /\ Exits("refresher")
    /\ UNCHANGED listener

CloseDoneEarly ==
    /\ stop
    /\ ~done
    /\ done' = TRUE
    /\ UNCHANGED <<limiter, task, up, sockets, peers, clocks, stop, listener, running>>

CloseDone ==
    /\ running = {}
    /\ ~done
    /\ done' = TRUE
    /\ UNCHANGED <<limiter, task, up, sockets, peers, clocks, stop, listener, running>>

-----------------------------------------------------------------------------
\* The steps of the goroutines that serve a connection.
Serve(c) ==
    \/ Admit(c) \/ TurnAway(c) \/ Drop(c)
    \/ GetSlot(c) \/ NoSlot(c)
    \/ DialFails(c) \/ DialSucceeds(c)
    \/ EndDown(c) \/ ReturnDown(c)
    \/ ReleaseSlot(c)

ServeUp(c) == EndUp(c) \/ ReturnUp(c)

Shutdown == CloseListener \/ AcceptorExits \/ RefresherExits \/ CloseDone

Next ==
    \/ \E c \in Conns :
           \/ Accept(c) \/ Serve(c) \/ ServeUp(c)
           \/ Transfer(c) \/ ClientLeaves(c) \/ BackendLeaves(c)
    \/ Tick
    \/ CloseStop
    \/ Shutdown

\* Every goroutine that can run does, timers fire and a dial ends; clients,
\* backends and the owner of stop may do nothing.
Fairness ==
    /\ \A c \in Conns : WF_vars(Serve(c)) /\ WF_vars(ServeUp(c))
    /\ WF_vars(Tick)
    /\ WF_vars(CloseListener)
    /\ WF_vars(AcceptorExits)
    /\ WF_vars(RefresherExits)
    /\ WF_vars(CloseDone)

Spec == Init /\ [][Next]_vars /\ Fairness

-----------------------------------------------------------------------------
Labels == {"away", "accepted", "dropping", "spawned", "dialing", "copying",
           "closing", "releasing", "done"}

TypeOK ==
    /\ global \in Nat
    /\ DOMAIN byIP \subseteq IPs
    /\ byIP \in [DOMAIN byIP -> Nat]
    /\ task \in [Conns -> Labels]
    /\ up \in [Conns -> {"off", "copying", "closing"}]
    /\ front \in [Conns -> {"none", "open", "closed"}]
    /\ back \in [Conns -> {"none", "open", "closed"}]
    /\ clientGone \in [Conns -> BOOLEAN]
    /\ backendGone \in [Conns -> BOOLEAN]
    /\ age \in [Conns -> 0 .. IdleTimeout]
    /\ quiet \in [Conns -> 0 .. IdleTimeout]
    /\ stop \in BOOLEAN
    /\ listener \in BOOLEAN
    /\ running \subseteq {"closer", "acceptor", "refresher"}
    /\ done \in BOOLEAN

HoldsSlot(c) == task[c] \in {"dialing", "copying", "closing", "releasing"}

Asking == {c \in Conns : task[c] = "spawned"}
Holders == {c \in Conns : HoldsSlot(c)}

\* The limiter's counters are exactly the slots connections hold, whatever
\* way each ended: refused, failed dial or either copier first, a slot is
\* given back once (forward.go:145-170), and no address keeps a zero entry.
SlotsExact ==
    /\ global = Cardinality(Holders)
    /\ \A ip \in IPs :
           LET held == {c \in Holders : IPOf[c] = ip}
           IN  /\ Held(ip) = Cardinality(held)
               /\ ip \in DOMAIN byIP => held # {}

\* The limiter, which keeps two counters and no names, answers like a pool
\* that knows its holders: whoever asks is refused only while others hold all
\* the slots there are, or all of its address (forward.go:38-43), and nothing
\* else that ends a connection touches a slot.
Pool == INSTANCE SlotPool WITH asking <- Asking, holding <- Holders

ImplementsSlotPool == Pool!Spec

\* The limits bound what they are for: the connections open to the forward
\* address, although the slot is returned by one of the two copiers while
\* the other may still run (forward.go:86-88; README.md:49).
BackendWithinLimits ==
    LET open == {c \in Conns : back[c] = "open"}
    IN  /\ MaxConnGlobal > 0 => Cardinality(open) <= MaxConnGlobal
        /\ MaxConnPerIP > 0 =>
               \A ip \in IPs : Cardinality({c \in open : IPOf[c] = ip}) <= MaxConnPerIP

\* When a connection's goroutine has returned, both of its sockets are
\* closed, on every path through it.
NothingLeaks ==
    \A c \in Conns :
        task[c] = "done" => front[c] = "closed" /\ back[c] # "open"

\* With an idle timeout every accepted connection comes to an end, its
\* sockets closed and its copiers gone, even if neither peer ever sends or
\* closes: no peer can hold a slot for ever.
EveryConnectionEnds ==
    \A c \in Conns :
        task[c] = "accepted" ~> /\ task[c] = "done" /\ up[c] = "off"
                                /\ front[c] = "closed" /\ back[c] # "open"

\* Closing stop ends the goroutines of the port and closes done: the acceptor
\* does not stay in Accept (forward.go:111-125).
StopCompletes == stop ~> done

\* Once done is closed no connection is accepted.
AcceptsNone ==
    done => \A c \in Conns : task[c] = "away" => task'[c] = "away"

NothingAcceptedAfterDone == [][AcceptsNone]_vars

\* An established forwarding both of whose peers are there is ended only
\* after bytes have ceased to pass for the idle timeout, as the template of
\* the configuration has it: "idle timeout in milliseconds for established
\* forwarding" (config.yaml.template:68).
EndsOnlyWhenIdle ==
    \A c \in Conns :
        (/\ task[c] = "copying" /\ task'[c] = "closing"
         /\ front[c] = "open" /\ back[c] = "open"
         /\ ~clientGone[c] /\ ~backendGone[c])
            => quiet[c] = IdleTimeout

OnlyIdleCut == [][EndsOnlyWhenIdle]_vars
=============================================================================
