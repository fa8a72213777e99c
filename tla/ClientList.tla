----------------------------- MODULE ClientList -----------------------------
(***************************************************************************)
(* The authorized client list of the server (allClientList in auth.go) and *)
(* everything that reads or writes it: the handler of challenge responses, *)
(* the acceptor and the refresher of each forward.  They run concurrently, *)
(* but each holds muxClient from before it reads the clock until it is     *)
(* done, so each operation is one step.  Expired entries stay in the list  *)
(* until one of these operations comes across them.                        *)
(***************************************************************************)
EXTENDS Naturals, FiniteSets, Functions

CONSTANTS
    NumForwards,        \* len(globalConfig.ForwardConfigs)
    Ports, Tokens,      \* what a response may name
    BindPort,           \* per forward
    AllowTokens,        \* per forward, the tokens its rules match
    GlobalAllowTokens,  \* the tokens the global rules match
    AuthExpiredTime,    \* per forward
    Listening,          \* the forwards that could bind their port
    IPs,
    GlobalDenyIPs, GlobalAllowIPs,  \* the addresses the global rules match
    AllowIPs,           \* per forward, the addresses its rules match
    Clients,            \* authorizedClientKey
    ClientIP,           \* the IP field of such a key
    MaxAuthorizedClients,
    MaxTime             \* bound of the clock

Forwards == 1 .. NumForwards

ASSUME ListAssumption ==
    /\ NumForwards \in Nat
    /\ BindPort \in [Forwards -> Ports]
    /\ AllowTokens \in [Forwards -> SUBSET Tokens]
    /\ GlobalAllowTokens \subseteq Tokens
    /\ AuthExpiredTime \in [Forwards -> Nat]
    /\ Listening \subseteq Forwards
    /\ AllowIPs \in [Forwards -> SUBSET IPs]
    /\ ClientIP \in [Clients -> IPs]
    /\ MaxAuthorizedClients \in Nat
    /\ MaxTime \in Nat

VARIABLES
    now,
    allClientList,  \* per forward, a partial function from clients to ExpiresAt
    reply           \* the last answer given

vars == <<now, allClientList, reply>>

-----------------------------------------------------------------------------
\* state.ExpiresAt.After(now)
Live(f) == {c \in DOMAIN allClientList[f] : allClientList[f][c] > now}

\* The forwards whose port and token rules a request satisfies; the loop of
\* authorizeClient serves the first.
Entitling(port, token) ==
    {f \in Forwards : /\ BindPort[f] = port
                      /\ token \in GlobalAllowTokens \cup AllowTokens[f]}

First(S) == CHOOSE f \in S : \A g \in S : f <= g

\* isStaticIPAllowed
StaticIPs(f) == GlobalAllowIPs \cup AllowIPs[f]

\* What the list stands for: its live entries, and the rules' verdicts.
NoForward == 0

Window ==
    [f \in Forwards |-> Restrict(allClientList[f], Live(f))]

Target ==
    [r \in Ports \X Tokens |->
        IF Entitling(r[1], r[2]) = {} THEN NoForward ELSE First(Entitling(r[1], r[2]))]

AW == INSTANCE AccessWindow
        WITH window     <- Window,
             Period     <- AuthExpiredTime,
             Denied     <- GlobalDenyIPs,
             Static     <- [f \in Forwards |-> StaticIPs(f)],
             MaxClients <- MaxAuthorizedClients

\* initClientList
Init ==
    /\ now = 0
    /\ allClientList = [f \in Forwards |-> [c \in {} |-> 0]]
    /\ reply = AW!NoReply

-----------------------------------------------------------------------------
DeleteForgetsForward(f, gone) ==
    allClientList' =
        IF DOMAIN allClientList[f] \subseteq gone
        THEN Restrict(allClientList, Forwards \ {f})
        ELSE [allClientList EXCEPT ![f] = Restrict(@, DOMAIN @ \ gone)]

Delete(f, gone) ==
    allClientList' = [allClientList EXCEPT ![f] = Restrict(@, DOMAIN @ \ gone)]

\* With the forward locked: drop what expired, then grant or renew, or
\* refuse a newcomer for want of room.
ListFullStale(f, c) ==
    /\ c \notin Live(f)
    /\ MaxAuthorizedClients > 0
    /\ Cardinality(DOMAIN allClientList[f]) >= MaxAuthorizedClients

ListHasRoomForOneMore(f, c) ==
    /\ c \notin Live(f)
    /\ MaxAuthorizedClients > 0
    /\ Cardinality(Live(f)) > MaxAuthorizedClients

ListFull(f, c) ==
    /\ c \notin Live(f)
    /\ MaxAuthorizedClients > 0
    /\ Cardinality(Live(f)) >= MaxAuthorizedClients

Grant(f, c) ==
    /\ ~ListFull(f, c)
    /\ allClientList' =
           [allClientList EXCEPT ![f] =
               [x \in Live(f) \cup {c} |->
                   IF x = c THEN now + AuthExpiredTime[f] ELSE @[x]]]
    /\ reply' = AW!Granted(c, f, c \in Live(f))
    /\ UNCHANGED now

RefuseFull(f, c) ==
    /\ ListFull(f, c)
    /\ Delete(f, DOMAIN allClientList[f] \ Live(f))
    /\ reply' = AW!Refused(c, f)
    /\ UNCHANGED now

RefuseUnmatched(c, port, token) ==
    /\ Entitling(port, token) = {}
    /\ reply' = AW!Refused(c, NoForward)
    /\ UNCHANGED <<now, allClientList>>

AuthorizeClient(c, port, token) ==
    \/ /\ Entitling(port, token) # {}
       /\ LET f == First(Entitling(port, token))
          IN  Grant(f, c) \/ RefuseFull(f, c)
    \/ RefuseUnmatched(c, port, token)

\* isIPAuthed.  The map is walked in an order of the runtime's choosing, up
\* to the first live entry of the address; the expired ones met before it
\* are deleted.
IsIPAuthed(f, ip) ==
    LET listed == {c \in DOMAIN allClientList[f] : ClientIP[c] = ip}
    IN  \/ /\ ip \in GlobalDenyIPs
           /\ reply' = AW!Dialed(f, ip, FALSE)
           /\ UNCHANGED <<now, allClientList>>
        \/ /\ ip \in StaticIPs(f) \ GlobalDenyIPs
           /\ reply' = AW!Dialed(f, ip, TRUE)
           /\ UNCHANGED <<now, allClientList>>
        \/ /\ ip \notin StaticIPs(f) \cup GlobalDenyIPs
           /\ listed \cap Live(f) # {}
           /\ \E met \in SUBSET (listed \ Live(f)) : Delete(f, met)
           /\ reply' = AW!Dialed(f, ip, TRUE)
           /\ UNCHANGED now
        \/ /\ ip \notin StaticIPs(f) \cup GlobalDenyIPs
           /\ listed \cap Live(f) = {}
           /\ Delete(f, listed)
           /\ reply' = AW!Dialed(f, ip, FALSE)
           /\ UNCHANGED now

\* isClientAuthed
IsClientAuthed(f, c) ==
    \/ /\ ClientIP[c] \in GlobalDenyIPs
       /\ reply' = AW!Asked(f, c, FALSE)
       /\ UNCHANGED <<now, allClientList>>
    \/ /\ ClientIP[c] \in StaticIPs(f) \ GlobalDenyIPs
       /\ reply' = AW!Asked(f, c, TRUE)
       /\ UNCHANGED <<now, allClientList>>
    \/ /\ ClientIP[c] \notin StaticIPs(f) \cup GlobalDenyIPs
       /\ Delete(f, {c} \ Live(f))
       /\ reply' = AW!Asked(f, c, c \in Live(f))
       /\ UNCHANGED now

\* refreshClientList, called by the forward's refresher every second
RefreshSparesLast(f) ==
    /\ Cardinality(DOMAIN allClientList[f]) > 1
    /\ Delete(f, DOMAIN allClientList[f] \ Live(f))
    /\ UNCHANGED <<now, reply>>

RefreshClientList(f) ==
    /\ DOMAIN allClientList[f] # {}
    /\ Delete(f, DOMAIN allClientList[f] \ Live(f))
    /\ UNCHANGED <<now, reply>>

Tick ==
    /\ now < MaxTime
    /\ now' = now + 1
    /\ UNCHANGED <<allClientList, reply>>

Next ==
    \/ \E c \in Clients, port \in Ports, token \in Tokens :
           AuthorizeClient(c, port, token)
    \/ \E f \in Listening :
           \/ \E ip \in IPs : IsIPAuthed(f, ip)
           \/ \E c \in Clients : IsClientAuthed(f, c)
           \/ RefreshClientList(f)
    \/ Tick

\* A forward that listens has a refresher, which never stops and waits for
\* nothing but the mutex, and time goes on.
Fairness ==
    /\ \A f \in Listening : WF_vars(RefreshClientList(f))
    /\ WF_vars(Tick)

Spec == Init /\ [][Next]_vars /\ Fairness

-----------------------------------------------------------------------------
Answers ==
    {AW!NoReply}
    \cup [op : {"auth"}, client : Clients, forward : Forwards \cup {NoForward},
          ok : BOOLEAN, renewed : BOOLEAN]
    \cup [op : {"dial"}, forward : Forwards, ip : IPs, ok : BOOLEAN]
    \cup [op : {"ask"}, forward : Forwards, client : Clients, ok : BOOLEAN]

TypeOK ==
    /\ now \in Nat
    /\ DOMAIN allClientList = Forwards
    /\ \A f \in Forwards :
           /\ DOMAIN allClientList[f] \subseteq Clients
           /\ IsFiniteSet(DOMAIN allClientList[f])
           /\ allClientList[f] \in [DOMAIN allClientList[f] -> Nat]
    /\ reply \in Answers

\* A forward's list never grows past the limit, whichever entries of it are
\* expired, renewed or deleted in passing (auth.go:188-194).
WithinCapacity ==
    MaxAuthorizedClients > 0 =>
        \A f \in Forwards : Cardinality(DOMAIN allClientList[f]) <= MaxAuthorizedClients

\* The list does what the abstract window promises: only its live entries
\* count, so when, in which order and by whom expired entries are deleted
\* never changes an answer to a response or to a connection, and a client
\* whose grant still runs is renewed even when the list is full.
ImplementsAccessWindow == AW!Spec

\* An expired entry does not stay for ever: the refresher forgets the client
\* unless a renewal gets there first (auth.go:37-57, forward.go:199-211).
ExpiredForgotten ==
    \A f \in Listening, c \in Clients :
        []<>(c \notin DOMAIN allClientList[f] \ Live(f))
=============================================================================
