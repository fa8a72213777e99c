----------------------------- MODULE Handshake -----------------------------
(***************************************************************************)
(* The authentication protocol end to end: the attempts of the clients     *)
(* (auth in authclient/auth.go), the datagrams between them and the        *)
(* server, and the server's handlers (authserver/auth.go), composed with   *)
(* the store of pending challenges and with the access window that the     *)
(* authorized client list implements.                                      *)
(*                                                                         *)
(* The network may lose, repeat, delay and reorder datagrams, and a        *)
(* client's address may change under it.  Sealed datagrams are what their  *)
(* sender made them: AES-GCM is taken as perfect.  Handlers take no time   *)
(* here; ChallengeLifecycle accounts for the time they take.               *)
(***************************************************************************)
EXTENDS Integers, FiniteSets

CONSTANTS
    Clients,        \* the entries clients authenticate for: one client id,
                    \* server key, port and token each
    IPs,
    Homes,          \* the addresses a client's datagrams may come from
    Skew,           \* how far a client's clock is ahead of the server's
    KeyFrom, KeyUntil,      \* when a client's key is active at the server
    Forwards, NoForward,
    Target,         \* the forward a client's port and token are good for
    Period,         \* authexpiredtime, per forward
    MaxClients,     \* maxAuthorizedClients
    MaxGlobal, MaxPerIP,    \* limits of the pending challenges
    Second,         \* clock readings per second
    TTL, MaxPastSkew, MaxFutureSkew,    \* authproto's constants
    ReadTimeout,    \* how long a client waits for its challenge
    MaxAttempts, MaxNonce, MaxRestarts, MaxTime     \* bounds

ASSUME HandshakeAssumption ==
    /\ Homes \in [Clients -> SUBSET IPs]
    /\ \A c \in Clients : Homes[c] # {}
    /\ Skew \in [Clients -> Int]
    /\ KeyFrom \in [Clients -> Nat]
    /\ KeyUntil \in [Clients -> Nat]
    /\ NoForward \notin Forwards
    /\ Target \in [Clients -> Forwards \cup {NoForward}]
    /\ Period \in [Forwards -> Nat]
    /\ MaxClients \in Nat
    /\ MaxGlobal \in Nat
    /\ MaxPerIP \in Nat
    /\ Second \in Nat \ {0}
    /\ {TTL, MaxPastSkew, MaxFutureSkew, ReadTimeout} \subseteq Nat
    /\ MaxAttempts \in [Clients -> Nat]
    /\ {MaxNonce, MaxRestarts, MaxTime} \subseteq Nat

VARIABLES
    now,        \* the server's clock
    net,        \* every datagram sent so far
    client,     \* per client, its attempt and what it waits for
    items, countByIP,   \* the pending challenges
    window, reply,      \* the access window
    server,     \* the response whose challenge was just redeemed, or Idle
    nonces,     \* how many server nonces were drawn
    restarts,   \* how often the server was restarted
    redeemed    \* history: how often each server nonce was redeemed

serverVars == <<items, countByIP, window, reply, server, nonces, restarts, redeemed>>
vars == <<now, net, client, serverVars>>

Attempts == UNION {1 .. MaxAttempts[c] : c \in Clients}
Nonces == 1 .. MaxNonce

\* A pending challenge names the address, the client with its nonce (an
\* attempt has one) and the server's nonce; the other fields of the key are
\* the client's.
Keys == IPs \X Clients \X Attempts \X Nonces

KeyAnyAddress(ip, m, nonce) ==
    <<CHOOSE i \in IPs : TRUE, m.client, m.attempt, nonce>>

Key(ip, m, nonce) == <<ip, m.client, m.attempt, nonce>>

Store == INSTANCE PendingChallenges WITH IPOf <- [k \in Keys |-> k[1]]

\* The window is granted to an address and a client id.
Window == INSTANCE AccessWindow
            WITH Clients  <- IPs \X Clients,
                 ClientIP <- [g \in IPs \X Clients |-> g[1]],
                 Denied   <- {},
                 Static   <- [f \in Forwards |-> {}]

Idle == [type |-> "none"]

-----------------------------------------------------------------------------
\* Time.  Messages carry whole seconds.
Unix(t) == t \div Second

ClientClock(c) == now + Skew[c]

TimestampNeverStale(ts) == ts * Second <= now + MaxFutureSkew

TimestampAllowed(ts) ==
    /\ ts * Second >= now - MaxPastSkew
    /\ ts * Second <= now + MaxFutureSkew

\* authKeyByID
KeyActive(c) == KeyFrom[c] <= now /\ now < KeyUntil[c]

Requests == {m \in net : m.type = "request"}
Challenges == {m \in net : m.type = "challenge"}
Responses == {m \in net : m.type = "response"}

Init ==
    /\ now = 0
    /\ net = {}
    /\ client = [c \in Clients |-> [waiting |-> FALSE, attempt |-> 0,
                                    addr |-> CHOOSE ip \in Homes[c] : TRUE,
                                    until |-> 0]]
    /\ Store!StoreInit
    /\ window = [f \in Forwards |-> [g \in {} |-> 0]]
    /\ reply = Window!NoReply
    /\ server = Idle
    /\ nonces = 0
    /\ restarts = 0
    /\ redeemed = [n \in Nonces |-> 0]

-----------------------------------------------------------------------------
\* auth: a new socket, a new nonce and a request.
StartAttempt(c, ip) ==
    LET n == client[c].attempt + 1
    IN  /\ ~client[c].waiting
        /\ n <= MaxAttempts[c]
        /\ ip \in Homes[c]
        /\ client' = [client EXCEPT ![c] = [waiting |-> TRUE, attempt |-> n, addr |-> ip,
                                            until |-> now + ReadTimeout]]
        /\ net' = net \cup {[type |-> "request", from |-> ip, client |-> c, attempt |-> n,
                             ts |-> Unix(ClientClock(c))]}
        /\ UNCHANGED <<now, serverVars>>

\* It reads one datagram.  A challenge of an earlier attempt, or of another
\* client of the address, can turn up on a reused port: only one that is not
\* expired and names this very attempt is answered, and any other ends it.
AcceptsAnyChallenge(c, m) == m.expires > Unix(ClientClock(c))

AcceptsChallenge(c, m) ==
    /\ m.expires > Unix(ClientClock(c))
    /\ m.client = c
    /\ m.attempt = client[c].attempt

Stop(c) == client' = [client EXCEPT ![c] = [@ EXCEPT !.waiting = FALSE, !.until = 0]]

\* The response may leave from another address than the request did.
AnswerChallenge(c, m, ip) ==
    /\ client[c].waiting
    /\ now < client[c].until
    /\ m.to = client[c].addr
    /\ AcceptsChallenge(c, m)
    /\ ip \in Homes[c]
    /\ net' = net \cup {[type |-> "response", from |-> ip, client |-> c,
                         attempt |-> client[c].attempt, nonce |-> m.nonce,
                         ts |-> Unix(ClientClock(c))]}
    /\ Stop(c)
    /\ UNCHANGED <<now, serverVars>>

RejectChallenge(c, m) ==
    /\ client[c].waiting
    /\ now < client[c].until
    /\ m.to = client[c].addr
    /\ ~AcceptsChallenge(c, m)
    /\ Stop(c)
    /\ UNCHANGED <<now, net, serverVars>>

\* The read fails: nothing came in time, or the server is unreachable.
GiveUp(c) ==
    /\ client[c].waiting
    /\ Stop(c)
    /\ UNCHANGED <<now, net, serverVars>>

-----------------------------------------------------------------------------
\* handleAuthPacket: the reader is free, and the sender's key may be used now.
\* Then Validate looks at the timestamp.
HandlesPacket(m) ==
    /\ server = Idle
    /\ KeyActive(m.client)
    /\ TimestampAllowed(m.ts)

\* handleChallengeRequest: draw a nonce, register the challenge and, if there
\* was room, send it.
HandleRequest(m) ==
    LET nonce == nonces + 1
        key == Key(m.from, m, nonce)
    IN  /\ HandlesPacket(m)
        /\ nonce <= MaxNonce
        /\ nonces' = nonce
        /\ Store!Add(key, now + TTL)
        /\ net' = IF Store!Full(key)
                  THEN net
                  ELSE net \cup {[type |-> "challenge", to |-> m.from, client |-> m.client,
                                  attempt |-> m.attempt, nonce |-> nonce,
                                  expires |-> Unix(now + TTL)]}
        /\ UNCHANGED <<now, client, window, reply, server, restarts, redeemed>>

\* handleChallengeResponse: redeem the challenge ...
RedeemsUsed(key) == TRUE

Redeems(key) == Store!Accepts(key, now)

HandleResponse(m) ==
    LET key == Key(m.from, m, m.nonce)
    IN  /\ HandlesPacket(m)
        /\ Store!Consume(key)
        /\ IF Redeems(key)
           THEN /\ server' = m
                /\ redeemed' = [redeemed EXCEPT ![m.nonce] = @ + 1]
           ELSE UNCHANGED <<server, redeemed>>
        /\ UNCHANGED <<now, net, client, window, reply, nonces, restarts>>

\* ... and authorize the client.
Authorize ==
    /\ server # Idle
    /\ LET g == <<server.from, server.client>>
       IN  Window!Grant(g, server.client) \/ Window!Refuse(g, server.client)
    /\ server' = Idle
    /\ UNCHANGED <<net, client, items, countByIP, nonces, restarts, redeemed>>

\* The cleaner may run at any time.
Cleanup ==
    /\ \E k \in DOMAIN items : items[k] <= now
    /\ Store!Cleanup(now)
    /\ UNCHANGED <<now, net, client, window, reply, server, nonces, restarts, redeemed>>

\* The server keeps nothing across a restart; datagrams survive it.  CheckValid
\* refuses a configuration that lists a key out of its time, so such keys have
\* been removed from it, which leaves them as inactive as they were.
Restart ==
    /\ restarts < MaxRestarts
    /\ restarts' = restarts + 1
    /\ items' = [k \in {} |-> 0]
    /\ countByIP' = [ip \in {} |-> 0]
    /\ window' = [f \in Forwards |-> [g \in {} |-> 0]]
    /\ server' = Idle
    /\ UNCHANGED <<now, net, client, reply, nonces, redeemed>>

Tick ==
    /\ now < MaxTime
    /\ server = Idle
    /\ Window!Advance
    /\ UNCHANGED <<net, client, items, countByIP, server, nonces, restarts, redeemed>>

Next ==
    \/ \E c \in Clients :
           \/ \E ip \in IPs : StartAttempt(c, ip)
           \/ \E m \in Challenges :
                  \/ \E ip \in IPs : AnswerChallenge(c, m, ip)
                  \/ RejectChallenge(c, m)
           \/ GiveUp(c)
    \/ \E m \in Requests : HandleRequest(m)
    \/ \E m \in Responses : HandleResponse(m)
    \/ Authorize
    \/ Cleanup
    \/ Restart
    \/ Tick

Spec == Init /\ [][Next]_vars

-----------------------------------------------------------------------------
Messages ==
    [type : {"request"}, from : IPs, client : Clients, attempt : Attempts, ts : Int]
    \cup [type : {"challenge"}, to : IPs, client : Clients, attempt : Attempts,
          nonce : Nonces, expires : Int]
    \cup [type : {"response"}, from : IPs, client : Clients, attempt : Attempts,
          nonce : Nonces, ts : Int]

TypeOK ==
    /\ now \in Nat
    /\ net \subseteq Messages
    /\ client \in [Clients -> [waiting : BOOLEAN, attempt : {0} \cup Attempts,
                               addr : IPs, until : Nat]]
    /\ Store!StoreTypeOK
    /\ DOMAIN window = Forwards
    /\ \A f \in Forwards : DOMAIN window[f] \subseteq IPs \X Clients
    /\ server \in {Idle} \cup {m \in net : m.type = "response"}
    /\ nonces \in 0 .. MaxNonce
    /\ restarts \in 0 .. MaxRestarts
    /\ redeemed \in [Nonces -> Nat]

\* No challenge is redeemed twice, whatever datagrams are repeated or
\* delayed and whenever the server is restarted.
RedeemedOnce == \A n \in Nonces : redeemed[n] <= 1

\* Every response carries the nonce of a challenge that was made for this
\* very attempt of this very client: a late or stray challenge is never
\* mistaken for the attempt's own (authclient/auth.go:56-61).
AnswersOwnChallenge ==
    \A r \in Responses :
        \E q \in Challenges :
            q.nonce = r.nonce /\ q.client = r.client /\ q.attempt = r.attempt

\* Whoever the window admits has completed the whole exchange from that very
\* address: it asked from there, the challenge was sent there, and the answer
\* came from there (auth.go:326-334, 372-380).  And it is admitted no longer
\* than its forward's period after the latest moment at which the challenge
\* of that request could be redeemed: no delay or repetition prolongs it.
AdmittedHaveAnswered ==
    \A f \in Forwards :
        \A g \in DOMAIN window[f] :
            /\ Target[g[2]] = f
            /\ \E r \in Responses, q \in Challenges, m \in Requests :
                   /\ r.from = g[1] /\ q.to = g[1] /\ m.from = g[1]
                   /\ r.client = g[2] /\ q.client = g[2] /\ m.client = g[2]
                   /\ r.nonce = q.nonce
                   /\ r.attempt = q.attempt /\ q.attempt = m.attempt
                   /\ window[f][g] < m.ts * Second + MaxPastSkew + TTL + Period[f]

\* A grant rests on a request that is recent: no delay of the three datagrams
\* can make an exchange last longer than the skew allowed to its request and
\* the life of its challenge together (README.md:47).
GrantIsRecent ==
    (server = Idle /\ server' # Idle) =>
        \E m \in Requests :
            /\ m.client = server'.client
            /\ m.attempt = server'.attempt
            /\ now < m.ts * Second + MaxPastSkew + TTL

GrantsAreRecent == [][GrantIsRecent]_vars
=============================================================================
