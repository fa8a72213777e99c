------------------------------ MODULE Gateway ------------------------------
(***************************************************************************)
(* One forwarded port with the grants it is opened by: Forward, whose      *)
(* acceptor asks AccessWindow, the promise that ClientList is proved to    *)
(* keep.  isIPAuthed is asked once, when a connection is accepted; what    *)
(* becomes of the connection when the grant ends afterwards is the         *)
(* question here.  Goroutines take no time of their own: all that lasts is *)
(* a dial, the transfer and the delay before a refused connection closes.  *)
(***************************************************************************)
EXTENDS Forward

CONSTANTS
    Clients, ClientIP, Period, Denied, Static, MaxClients,  \* see AccessWindow
    DialTimeout,    \* dialtimeoutms in ticks, 0 for none
    Port,           \* the one forward
    Request,        \* what its clients ask for: this port, a token that matches
    MaxTime         \* bound of the clock

ASSUME GatewayAssumption == DialTimeout \in Nat

VARIABLES
    now, window, reply,     \* see AccessWindow
    dialed,     \* ticks that a connection's dial has lasted
    gone        \* ticks since an address last had access, up to Lapse + 1

AW == INSTANCE AccessWindow
      WITH Forwards <- {Port}, Target <- [r \in {Request} |-> Port],
           NoForward <- Request

grantVars == <<now, window, reply>>
gatewayVars == <<vars, grantVars, dialed, gone>>

\* What a connection can still last when its address has lost access.
Lapse == DialTimeout + IdleTimeout

HasAccess(ip) ==
    /\ ip \notin Denied
    /\ ip \in Static[Port] \/ \E c \in DOMAIN window[Port] : ClientIP[c] = ip

GatewayInit ==
    /\ Init
    /\ AW!Init
    /\ dialed = [c \in Conns |-> 0]
    /\ gone = [ip \in IPs |-> IF HasAccess(ip) THEN 0 ELSE Lapse + 1]

-----------------------------------------------------------------------------
\* A client authenticates.
Authorize(c) ==
    /\ AW!Grant(c, Request) \/ AW!Refuse(c, Request)
    /\ gone' = [ip \in IPs |-> IF HasAccess(ip)' THEN 0 ELSE gone[ip]]
    /\ UNCHANGED <<vars, dialed>>

\* The acceptor asks isIPAuthed about the connection it accepted.
Decide(c) ==
    /\ task[c] = "accepted"
    /\ AW!Dial(Port, IPOf[c])
    /\ IF reply'.ok THEN Admit(c) ELSE TurnAway(c)
    /\ UNCHANGED <<dialed, gone>>

\* All other steps of the port, whose stop nobody closes.
ServePort(c) ==
    /\ \/ Accept(c) \/ Drop(c) \/ GetSlot(c) \/ NoSlot(c)
       \/ DialFails(c) \/ DialSucceeds(c)
       \/ EndDown(c) \/ ReturnDown(c) \/ EndUp(c) \/ ReturnUp(c)
       \/ ReleaseSlot(c)
       \/ Transfer(c) \/ ClientLeaves(c) \/ BackendLeaves(c)
    /\ UNCHANGED <<grantVars, dialed, gone>>

\* Time passes when nobody has anything left to do at once: a dial ends by
\* its timeout, a copy by the deadline.
DialMayHang(c) == TRUE

DialMayLast(c) ==
    DialTimeout > 0 /\ task[c] = "dialing" => dialed[c] < DialTimeout

Settled(c) ==
    /\ task[c] \in {"away", "dropping", "dialing", "copying", "done"}
    /\ up[c] # "closing"
    /\ DialMayLast(c)
    /\ task[c] = "copying" \/ up[c] = "copying" => ~CopyEnds(c)

GatewayTick ==
    /\ now < MaxTime
    /\ \A c \in Conns : Settled(c)
    /\ Tick
    /\ AW!Advance
    /\ dialed' = [c \in Conns |->
                     IF task[c] = "dialing" /\ dialed[c] < DialTimeout
                     THEN dialed[c] + 1 ELSE dialed[c]]
    /\ gone' = [ip \in IPs |-> IF HasAccess(ip)' THEN 0
                               ELSE IF gone[ip] > Lapse THEN gone[ip] ELSE gone[ip] + 1]

GatewayNext ==
    \/ \E c \in Clients : Authorize(c)
    \/ \E c \in Conns : Decide(c) \/ ServePort(c)
    \/ GatewayTick

GatewaySpec == GatewayInit /\ [][GatewayNext]_gatewayVars

-----------------------------------------------------------------------------
\* A connection to the backend outlives the access of its address, since the
\* grant is not asked for again (forward.go:136, config.yaml.template:71),
\* but only by the dial and the one deadline, if both are set; and as long
\* does it hold its slot.  An address that never had access, or is denied,
\* has neither.
AccessEnds ==
    IdleTimeout > 0 /\ DialTimeout > 0 =>
        \A c \in Conns : back[c] = "open" \/ HoldsSlot(c) => gone[IPOf[c]] <= Lapse
=============================================================================
