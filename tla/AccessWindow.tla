---------------------------- MODULE AccessWindow ----------------------------
(***************************************************************************)
(* What the authorized client list of the server promises: a grant opens a *)
(* forward to the client's address for that forward's period and to nobody *)
(* else, and the limit turns away only newcomers, only while it is reached *)
(* by clients whose grants still run.  There is no list to clean up here:  *)
(* a grant ends by itself.                                                 *)
(***************************************************************************)
EXTENDS Naturals, FiniteSets, Functions

CONSTANTS
    Forwards,   \* the forwarded ports
    Clients,    \* what a grant is made to: an address and a client id
    IPs,        \* source addresses
    ClientIP,   \* the address of a client
    Period,     \* how long a grant lasts, per forward
    Target,     \* the forward a request (port and token) is entitled to,
    NoForward,  \* ... or this
    Denied,     \* addresses never admitted
    Static,     \* addresses admitted without a grant, per forward
    MaxClients  \* limit of concurrent grants per forward, 0 for none

VARIABLES
    now,
    window,     \* per forward, the end of every grant that still runs
    reply       \* the last answer given

vars == <<now, window, reply>>

Requests == DOMAIN Target

Granted(c, f, renewed) ==
    [op |-> "auth", client |-> c, forward |-> f, ok |-> TRUE, renewed |-> renewed]

\* A refusal names the forward that had no room, if one was asked for.
Refused(c, f) ==
    [op |-> "auth", client |-> c, forward |-> f, ok |-> FALSE, renewed |-> FALSE]

Dialed(f, ip, ok) == [op |-> "dial", forward |-> f, ip |-> ip, ok |-> ok]

Asked(f, c, ok) == [op |-> "ask", forward |-> f, client |-> c, ok |-> ok]

NoReply == [op |-> "none"]

\* The grants of w that still run at time t.
Running(w, t) == Restrict(w, {c \in DOMAIN w : w[c] > t})

Init ==
    /\ now = 0
    /\ window = [f \in Forwards |-> [c \in {} |-> 0]]
    /\ reply = NoReply

-----------------------------------------------------------------------------
Exhausted(f, c) ==
    /\ c \notin DOMAIN window[f]
    /\ MaxClients > 0
    /\ Cardinality(DOMAIN window[f]) >= MaxClients

Grant(c, r) ==
    LET f == Target[r]
    IN  /\ f # NoForward
        /\ ~Exhausted(f, c)
        /\ window' = [window EXCEPT ![f] =
                         Running([x \in DOMAIN @ \cup {c} |->
                                     IF x = c THEN now + Period[f] ELSE @[x]], now)]
        /\ reply' = Granted(c, f, c \in DOMAIN window[f])
        /\ UNCHANGED now

Refuse(c, r) ==
    /\ Target[r] = NoForward \/ Exhausted(Target[r], c)
    /\ reply' = Refused(c, Target[r])
    /\ UNCHANGED <<now, window>>

\* A connection from an address, and the same question about one client.
Dial(f, ip) ==
    /\ reply' = Dialed(f, ip,
                       /\ ip \notin Denied
                       /\ \/ ip \in Static[f]
                          \/ \E c \in DOMAIN window[f] : ClientIP[c] = ip)
    /\ UNCHANGED <<now, window>>

Ask(f, c) ==
    /\ reply' = Asked(f, c,
                      /\ ClientIP[c] \notin Denied
                      /\ ClientIP[c] \in Static[f] \/ c \in DOMAIN window[f])
    /\ UNCHANGED <<now, window>>

Advance ==
    /\ now' = now + 1
    /\ window' = [f \in Forwards |-> Running(window[f], now + 1)]
    /\ UNCHANGED reply

Next ==
    \/ \E c \in Clients, r \in Requests : Grant(c, r) \/ Refuse(c, r)
    \/ \E f \in Forwards, ip \in IPs : Dial(f, ip)
    \/ \E f \in Forwards, c \in Clients : Ask(f, c)
    \/ Advance

Spec == Init /\ [][Next]_vars
=============================================================================
