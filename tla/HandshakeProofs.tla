--------------------------- MODULE HandshakeProofs ---------------------------
(***************************************************************************)
(* The safety of the exchange for all clients, addresses, clocks and       *)
(* periods, whatever becomes of the datagrams.                             *)
(***************************************************************************)
EXTENDS Handshake, FiniteSetTheorems, TLAPS

\* The store's finite sets are those of the library.
LEMMA SameFinite ==
    \A S : (Store!IsFiniteSet(S) <=> IsFiniteSet(S)) /\ Store!Cardinality(S) = Cardinality(S)
  BY DEF Store!IsFiniteSet, IsFiniteSet, Store!Cardinality, Cardinality

\* What every step of the store does to its types.
LEMMA StoreInitTypes == Store!StoreInit => Store!StoreTypeOK
  BY FS_EmptySet, SameFinite DEF Store!StoreInit, Store!StoreTypeOK

LEMMA AddTypes ==
    ASSUME Store!StoreTypeOK, NEW k \in Keys, NEW e \in Nat, Store!Add(k, e)
    PROVE  /\ Store!StoreTypeOK'
           /\ \/ Store!Full(k) /\ UNCHANGED items
              \/ k \in DOMAIN items /\ UNCHANGED items
              \/ /\ ~Store!Full(k)
                 /\ DOMAIN items' = DOMAIN items \cup {k}
                 /\ items'[k] = e
                 /\ \A x \in DOMAIN items : x # k => items'[x] = items[x]
  <1>1. CASE Store!Full(k) \/ k \in DOMAIN items
    BY <1>1 DEF Store!Add, Store!storeVars, Store!StoreTypeOK
  <1>2. CASE ~(Store!Full(k) \/ k \in DOMAIN items)
    <2>1. /\ items' = [x \in DOMAIN items \cup {k} |-> IF x = k THEN e ELSE items[x]]
          /\ countByIP' = [ip \in DOMAIN countByIP \cup {k[1]} |->
                               IF ip = k[1] THEN Store!Count(ip) + 1 ELSE countByIP[ip]]
      BY <1>2 DEF Store!Add
    <2>2. k[1] \in IPs
      BY DEF Keys
    <2>3. IsFiniteSet(DOMAIN items')
      BY <2>1, FS_AddElement, SameFinite DEF Store!StoreTypeOK
    <2>4. Store!Count(k[1]) + 1 \in Nat
      BY DEF Store!Count, Store!StoreTypeOK
    <2>5. Store!StoreTypeOK'
      BY <2>1, <2>2, <2>3, <2>4, SameFinite DEF Store!StoreTypeOK
    <2>6. QED
      BY <1>2, <2>1, <2>5
  <1>3. QED
    BY <1>1, <1>2

LEMMA DropTypes ==
    ASSUME Store!StoreTypeOK, NEW gone \in SUBSET DOMAIN items, Store!Drop(gone)
    PROVE  /\ Store!StoreTypeOK'
           /\ DOMAIN items' = DOMAIN items \ gone
           /\ \A k \in DOMAIN items' : items'[k] = items[k]
  <1>1. items' = [k \in DOMAIN items \ gone |-> items[k]]
    BY DEF Store!Drop, Store!Restrict
  <1>2. \A S : S \subseteq DOMAIN items => IsFiniteSet(S)
    <2>1. IsFiniteSet(DOMAIN items)
      BY SameFinite DEF Store!StoreTypeOK
    <2>2. QED
      BY <2>1, FS_Subset
  <1>3. \A ip : Store!Share(gone, ip) \in Nat
    <2>1. \A ip : Store!Share(gone, ip)
                     = Cardinality({k \in gone : [x \in Keys |-> x[1]][k] = ip})
      BY SameFinite DEF Store!Share
    <2>2. \A ip : {k \in gone : [x \in Keys |-> x[1]][k] = ip} \subseteq DOMAIN items
      OBVIOUS
    <2>3. QED
      BY <1>2, <2>1, <2>2, FS_CardinalityType
  <1>4. DOMAIN countByIP' \subseteq IPs /\ countByIP' \in [DOMAIN countByIP' -> Nat]
    BY <1>3 DEF Store!Drop, Store!StoreTypeOK
  <1>5. Store!IsFiniteSet(DOMAIN items')
    <2>1. DOMAIN items' \subseteq DOMAIN items
      BY <1>1
    <2>2. QED
      BY <1>2, <2>1, SameFinite
  <1>6. QED
    BY <1>1, <1>4, <1>5 DEF Store!StoreTypeOK

-----------------------------------------------------------------------------
\* Each nonce has at most one pending challenge, and none once it is redeemed.
Ledger ==
    /\ \A k \in DOMAIN items : k[4] <= nonces /\ redeemed[k[4]] = 0
    /\ \A k, l \in DOMAIN items : k[4] = l[4] => k = l
    /\ \A n \in Nonces : redeemed[n] <= 1 /\ (n > nonces => redeemed[n] = 0)

\* An address has asked for a client, and was sent the challenge.
Exchange(ip, c, a, n) ==
    /\ \E m \in Requests : m.from = ip /\ m.client = c /\ m.attempt = a
    /\ \E q \in Challenges : q.to = ip /\ q.client = c /\ q.attempt = a /\ q.nonce = n

\* Pending challenges, and the response at hand, are parts of an exchange.
Traced ==
    /\ \A k \in DOMAIN items : Exchange(k[1], k[2], k[3], k[4])
    /\ server # Idle => Exchange(server.from, server.client, server.attempt, server.nonce)

\* A challenge ends soon after the request it answers ...
Fresh ==
    \A k \in DOMAIN items :
        \E m \in Requests :
            /\ m.from = k[1] /\ m.client = k[2] /\ m.attempt = k[3]
            /\ items[k] <= m.ts * Second + MaxPastSkew + TTL

\* ... so the response at hand has come in time for the request it goes back to.
Prompt ==
    server # Idle =>
        \E m \in Requests :
            /\ m.from = server.from /\ m.client = server.client /\ m.attempt = server.attempt
            /\ now < m.ts * Second + MaxPastSkew + TTL

HandshakeInv ==
    /\ TypeOK /\ Ledger /\ Traced /\ Fresh /\ Prompt
    /\ AnswersOwnChallenge /\ AdmittedHaveAnswered

LEMMA HandshakeInit == Init => HandshakeInv
  <1> SUFFICES ASSUME Init PROVE HandshakeInv
    OBVIOUS
  <1> USE HandshakeAssumption
  <1>1. net = {} /\ DOMAIN items = {} /\ server = Idle
    BY DEF Init, Store!StoreInit
  <1>2. TypeOK
    <2>1. client \in [Clients -> [waiting : BOOLEAN, attempt : {0} \cup Attempts,
                                  addr : IPs, until : Nat]]
      <3>1. \A c \in Clients : (CHOOSE ip \in Homes[c] : TRUE) \in IPs
        OBVIOUS
      <3>2. QED
        BY <3>1 DEF Init
    <2>2. Store!StoreTypeOK
      BY StoreInitTypes DEF Init
    <2>3. nonces \in 0 .. MaxNonce /\ restarts \in 0 .. MaxRestarts
      BY DEF Init
    <2>4. QED
      BY <1>1, <2>1, <2>2, <2>3 DEF Init, TypeOK
  <1>3. Ledger
    BY <1>1 DEF Init, Ledger
  <1>4. Traced /\ Fresh /\ Prompt /\ AnswersOwnChallenge
    BY <1>1 DEF Traced, Fresh, Prompt, AnswersOwnChallenge, Responses
  <1>5. AdmittedHaveAnswered
    BY DEF Init, AdmittedHaveAnswered
  <1>6. QED
    BY <1>2, <1>3, <1>4, <1>5 DEF HandshakeInv

\* Nothing that was sent is ever taken back.
LEMMA ExchangeStays ==
    ASSUME net \subseteq net', NEW ip, NEW c, NEW a, NEW n, Exchange(ip, c, a, n)
    PROVE  Exchange(ip, c, a, n)'
  BY DEF Exchange, Requests, Challenges

LEMMA AdmittedStay ==
    ASSUME net \subseteq net', AdmittedHaveAnswered,
           \A f \in Forwards : \A g \in DOMAIN window'[f] :
               g \in DOMAIN window[f] /\ window'[f][g] = window[f][g]
    PROVE  AdmittedHaveAnswered'
  BY DEF AdmittedHaveAnswered, Requests, Challenges, Responses

LEMMA FreshStays ==
    ASSUME net \subseteq net', Fresh, DOMAIN items' \subseteq DOMAIN items,
           \A k \in DOMAIN items' : items'[k] = items[k]
    PROVE  Fresh'
  BY DEF Fresh, Requests

LEMMA PromptStays ==
    ASSUME net \subseteq net', Prompt, UNCHANGED <<now, server>>
    PROVE  Prompt'
  BY DEF Prompt, Requests

\* What a client does leaves the server as it is.
LEMMA ClientStep ==
    ASSUME HandshakeInv, net \subseteq net', UNCHANGED <<now, serverVars>>
    PROVE  Ledger' /\ Traced' /\ Fresh' /\ Prompt' /\ AdmittedHaveAnswered'
  <1> USE DEF serverVars
  <1>1. Ledger'
    BY DEF HandshakeInv, Ledger
  <1>2. Traced'
    BY ExchangeStays DEF HandshakeInv, Traced
  <1>3. Fresh' /\ Prompt' /\ AdmittedHaveAnswered'
    BY FreshStays, PromptStays, AdmittedStay DEF HandshakeInv
  <1>4. QED
    BY <1>1, <1>2, <1>3

-----------------------------------------------------------------------------
\* Clients.
LEMMA WholeSeconds ==
    ASSUME NEW t \in Int
    PROVE  Unix(t) \in Int
  BY HandshakeAssumption DEF Unix

LEMMA ClockTypes ==
    ASSUME TypeOK, NEW c \in Clients
    PROVE  Unix(ClientClock(c)) \in Int
  <1>1. now + Skew[c] \in Int
    BY HandshakeAssumption DEF TypeOK
  <1>2. QED
    BY <1>1, WholeSeconds DEF ClientClock

\* The types of what a client does not touch.
LEMMA ClientTypes ==
    ASSUME TypeOK, net \subseteq net', net' \subseteq Messages,
           client' \in [Clients -> [waiting : BOOLEAN, attempt : {0} \cup Attempts,
                                    addr : IPs, until : Nat]],
           UNCHANGED <<now, serverVars>>
    PROVE  TypeOK'
  <1>1. Store!StoreTypeOK'
    BY DEF serverVars, TypeOK, Store!StoreTypeOK
  <1>2. server' \in {Idle} \cup {m \in net' : m.type = "response"}
    BY DEF serverVars, TypeOK
  <1>3. QED
    BY <1>1, <1>2 DEF serverVars, TypeOK

LEMMA StartAttemptSafe ==
    ASSUME HandshakeInv, NEW c \in Clients, NEW ip \in IPs, StartAttempt(c, ip)
    PROVE  HandshakeInv'
  <1> DEFINE n == client[c].attempt + 1
             r == [type |-> "request", from |-> ip, client |-> c, attempt |-> n,
                   ts |-> Unix(ClientClock(c))]
  <1>1. n \in Attempts
    <2>1. client[c].attempt \in {0} \cup Attempts
      BY DEF HandshakeInv, TypeOK
    <2>2. client[c].attempt \in Nat /\ MaxAttempts[c] \in Nat
      BY <2>1, HandshakeAssumption DEF Attempts
    <2>3. n \in 1 .. MaxAttempts[c]
      BY <2>2 DEF StartAttempt
    <2>4. QED
      BY <2>3 DEF Attempts
  <1>2. net' = net \cup {r} /\ r \in Messages
    BY <1>1, ClockTypes DEF HandshakeInv, StartAttempt, Messages
  <1>3. client' \in [Clients -> [waiting : BOOLEAN, attempt : {0} \cup Attempts,
                                 addr : IPs, until : Nat]]
    <2>1. now + ReadTimeout \in Nat
      BY HandshakeAssumption DEF HandshakeInv, TypeOK
    <2>2. QED
      BY <1>1, <2>1 DEF HandshakeInv, TypeOK, StartAttempt
  <1>4. UNCHANGED <<now, serverVars>>
    BY DEF StartAttempt
  <1>5. TypeOK'
    BY <1>2, <1>3, <1>4, ClientTypes DEF HandshakeInv, TypeOK
  <1>6. AnswersOwnChallenge'
    <2>1. Responses' = Responses /\ Challenges' = Challenges
      BY <1>2 DEF Responses, Challenges
    <2>2. QED
      BY <2>1 DEF HandshakeInv, AnswersOwnChallenge
  <1>7. QED
    BY <1>2, <1>4, <1>5, <1>6, ClientStep DEF HandshakeInv

LEMMA StopTypes ==
    ASSUME TypeOK, NEW c \in Clients, Stop(c)
    PROVE  client' \in [Clients -> [waiting : BOOLEAN, attempt : {0} \cup Attempts,
                                    addr : IPs, until : Nat]]
  BY DEF TypeOK, Stop

LEMMA AnswerSafe ==
    ASSUME HandshakeInv, NEW c \in Clients, NEW m \in Challenges, NEW ip \in IPs,
           AnswerChallenge(c, m, ip)
    PROVE  HandshakeInv'
  <1> DEFINE r == [type |-> "response", from |-> ip, client |-> c,
                   attempt |-> client[c].attempt, nonce |-> m.nonce,
                   ts |-> Unix(ClientClock(c))]
  <1>1. m.nonce \in Nonces /\ m.attempt \in Attempts
    BY DEF HandshakeInv, TypeOK, Messages, Challenges
  <1>2. m.client = c /\ m.attempt = client[c].attempt
    BY DEF AnswerChallenge, AcceptsChallenge
  <1>3. net' = net \cup {r} /\ r \in Messages
    BY <1>1, <1>2, ClockTypes DEF HandshakeInv, AnswerChallenge, Messages
  <1>4. UNCHANGED <<now, serverVars>> /\ Stop(c)
    BY DEF AnswerChallenge
  <1>5. TypeOK'
    BY <1>3, <1>4, StopTypes, ClientTypes DEF HandshakeInv, TypeOK
  <1>6. AnswersOwnChallenge'
    <2>1. Responses' = Responses \cup {r} /\ Challenges' = Challenges
      BY <1>3 DEF Responses, Challenges
    <2>2. m.nonce = r.nonce /\ m.client = r.client /\ m.attempt = r.attempt
      BY <1>2
    <2>3. QED
      BY <2>1, <2>2 DEF HandshakeInv, AnswersOwnChallenge
  <1>7. QED
    BY <1>3, <1>4, <1>5, <1>6, ClientStep DEF HandshakeInv

LEMMA StopSafe ==
    ASSUME HandshakeInv, NEW c \in Clients, Stop(c), UNCHANGED <<now, net, serverVars>>
    PROVE  HandshakeInv'
  <1>1. TypeOK'
    BY StopTypes, ClientTypes DEF HandshakeInv, TypeOK
  <1>2. AnswersOwnChallenge'
    BY DEF HandshakeInv, AnswersOwnChallenge, Responses, Challenges
  <1>3. QED
    BY <1>1, <1>2, ClientStep DEF HandshakeInv

-----------------------------------------------------------------------------
\* The server's handlers.
LEMMA SecondsTyped == \A x \in Int : x * Second \in Int
  BY HandshakeAssumption

LEMMA RequestSafe ==
    ASSUME HandshakeInv, NEW m \in Requests, HandleRequest(m)
    PROVE  HandshakeInv'
  <1> DEFINE nonce == nonces + 1
             key == Key(m.from, m, nonce)
             q == [type |-> "challenge", to |-> m.from, client |-> m.client,
                   attempt |-> m.attempt, nonce |-> nonce, expires |-> Unix(now + TTL)]
  <1>1. m.from \in IPs /\ m.client \in Clients /\ m.attempt \in Attempts /\ m.ts \in Int
    BY DEF HandshakeInv, TypeOK, Messages, Requests
  <1>2. nonces \in Nat /\ nonce \in Nat /\ nonce \in Nonces /\ nonces' = nonce
    BY HandshakeAssumption DEF HandleRequest, HandshakeInv, TypeOK, Nonces
  <1>3. now \in Nat /\ now + TTL \in Nat /\ now + TTL \in Int
    BY HandshakeAssumption DEF HandshakeInv, TypeOK
  <1>4. /\ key \in Keys
        /\ key[1] = m.from /\ key[2] = m.client /\ key[3] = m.attempt /\ key[4] = nonce
    BY <1>1, <1>2 DEF Key, Keys
  <1>5. key \notin DOMAIN items
    <2>1. \A k \in DOMAIN items : k[4] <= nonces
      BY DEF HandshakeInv, Ledger
    <2>2. ~(nonce <= nonces)
      BY <1>2
    <2>3. QED
      BY <1>4, <2>1, <2>2
  <1>6. /\ Store!StoreTypeOK'
        /\ \/ Store!Full(key) /\ UNCHANGED items
           \/ /\ ~Store!Full(key)
              /\ DOMAIN items' = DOMAIN items \cup {key}
              /\ items'[key] = now + TTL
              /\ \A x \in DOMAIN items : items'[x] = items[x]
    <2>1. Store!Add(key, now + TTL)
      BY DEF HandleRequest
    <2>2. Store!StoreTypeOK
      BY DEF HandshakeInv, TypeOK
    <2>3. QED
      BY <1>3, <1>4, <1>5, <2>1, <2>2, AddTypes
  <1>7. /\ net' = net \cup (IF Store!Full(key) THEN {} ELSE {q})
        /\ UNCHANGED <<now, client, window, reply, server, restarts, redeemed>>
    BY DEF HandleRequest
  <1>8. q \in Messages
    BY <1>1, <1>2, <1>3, WholeSeconds DEF Messages
  <1>9. /\ net \subseteq net' /\ net' \subseteq Messages
        /\ Responses' = Responses /\ Requests' = Requests
        /\ Challenges \subseteq Challenges'
        /\ ~Store!Full(key) => q \in Challenges'
    BY <1>7, <1>8 DEF HandshakeInv, TypeOK, Requests, Challenges, Responses
  <1>10. TypeOK'
    <2>1. server' \in {Idle} \cup {x \in net' : x.type = "response"}
      BY <1>7, <1>9 DEF HandshakeInv, TypeOK
    <2>2. nonces' \in 0 .. MaxNonce
      BY <1>2 DEF Nonces
    <2>3. QED
      BY <1>6, <1>7, <1>9, <2>1, <2>2 DEF HandshakeInv, TypeOK
  <1>11. Ledger'
    <2>1. \A k \in DOMAIN items : k[4] \in Nat
      BY DEF HandshakeInv, TypeOK, Store!StoreTypeOK, Keys, Nonces
    <2>2. redeemed[nonce] = 0 /\ (\A k \in DOMAIN items : k[4] <= nonces)
      BY <1>2 DEF HandshakeInv, Ledger
    <2>3. \A k \in DOMAIN items : k[4] <= nonce /\ k[4] # nonce
      BY <1>2, <2>1, <2>2
    <2>4. \A n \in Nonces : n > nonce => n > nonces
      BY <1>2 DEF Nonces
    <2>5. \A k \in DOMAIN items' : k[4] <= nonces' /\ redeemed'[k[4]] = 0
      BY <1>2, <1>4, <1>6, <1>7, <2>2, <2>3 DEF HandshakeInv, Ledger
    <2>6. \A k, l \in DOMAIN items' : k[4] = l[4] => k = l
      BY <1>4, <1>6, <2>3 DEF HandshakeInv, Ledger
    <2>7. \A n \in Nonces : redeemed'[n] <= 1 /\ (n > nonces' => redeemed'[n] = 0)
      BY <1>2, <1>7, <2>4 DEF HandshakeInv, Ledger
    <2>8. QED
      BY <2>5, <2>6, <2>7 DEF Ledger
  <1>12. Traced'
    <2>1. \A k \in DOMAIN items : Exchange(k[1], k[2], k[3], k[4])'
      BY <1>9, ExchangeStays DEF HandshakeInv, Traced
    <2>2. ASSUME NEW k, k = key, ~Store!Full(key)
          PROVE  Exchange(k[1], k[2], k[3], k[4])'
      <3>1. \E x \in Requests' : x.from = k[1] /\ x.client = k[2] /\ x.attempt = k[3]
        BY <1>4, <1>9, <2>2
      <3>2. \E x \in Challenges' : /\ x.to = k[1] /\ x.client = k[2]
                                  /\ x.attempt = k[3] /\ x.nonce = k[4]
        BY <1>4, <1>9, <2>2
      <3>3. QED
        BY <3>1, <3>2 DEF Exchange
    <2>3. ASSUME NEW k \in DOMAIN items'
          PROVE  Exchange(k[1], k[2], k[3], k[4])'
      <3>1. k \in DOMAIN items \/ (k = key /\ ~Store!Full(key))
        BY <1>6
      <3>2. QED
        BY <2>1, <2>2, <3>1
    <2>5. (server # Idle => Exchange(server.from, server.client, server.attempt, server.nonce))'
      BY <1>7, <1>9, ExchangeStays DEF HandshakeInv, Traced
    <2>6. QED
      BY <2>3, <2>5 DEF Traced
  <1>13. Fresh'
    <2>1. now + TTL <= m.ts * Second + MaxPastSkew + TTL
      <3>1. m.ts * Second >= now - MaxPastSkew
        BY DEF HandleRequest, HandlesPacket, TimestampAllowed
      <3>2. m.ts * Second \in Int /\ now \in Int /\ MaxPastSkew \in Int /\ TTL \in Int
        BY <1>1, <1>3, SecondsTyped, HandshakeAssumption
      <3>3. QED
        BY <3>1, <3>2
    <2>2. \A k \in DOMAIN items' : k = key \/ (k \in DOMAIN items /\ items'[k] = items[k])
      BY <1>6
    <2>3. ASSUME NEW k \in DOMAIN items'
          PROVE  \E x \in Requests' : /\ x.from = k[1] /\ x.client = k[2] /\ x.attempt = k[3]
                                      /\ items'[k] <= x.ts * Second + MaxPastSkew + TTL
      <3>1. CASE k \in DOMAIN items /\ items'[k] = items[k]
        BY <1>9, <3>1 DEF HandshakeInv, Fresh
      <3>2. CASE k = key /\ k \notin DOMAIN items
        BY <1>4, <1>6, <1>9, <2>1, <2>3, <3>2
      <3>3. QED
        BY <1>5, <2>2, <3>1, <3>2
    <2>4. QED
      BY <2>3 DEF Fresh
  <1>14. AnswersOwnChallenge' /\ AdmittedHaveAnswered' /\ Prompt'
    <2>1. AnswersOwnChallenge'
      BY <1>9 DEF HandshakeInv, AnswersOwnChallenge
    <2>2. QED
      BY <1>7, <1>9, <2>1, AdmittedStay, PromptStays DEF HandshakeInv
  <1>15. QED
    BY <1>10, <1>11, <1>12, <1>13, <1>14 DEF HandshakeInv

\* Deleting challenges takes nothing from what is known of the others.
LEMMA DropSafe ==
    ASSUME HandshakeInv, NEW gone \in SUBSET DOMAIN items, Store!Drop(gone),
           UNCHANGED <<net, nonces>>,
           \A k \in DOMAIN items \ gone : redeemed'[k[4]] = redeemed[k[4]]
    PROVE  /\ Store!StoreTypeOK'
           /\ DOMAIN items' = DOMAIN items \ gone
           /\ \A k \in DOMAIN items' : k[4] <= nonces' /\ redeemed'[k[4]] = 0
           /\ \A k, l \in DOMAIN items' : k[4] = l[4] => k = l
           /\ \A k \in DOMAIN items' : Exchange(k[1], k[2], k[3], k[4])'
           /\ Fresh'
  <1>1. /\ Store!StoreTypeOK'
        /\ DOMAIN items' = DOMAIN items \ gone
        /\ \A k \in DOMAIN items' : items'[k] = items[k]
    BY DropTypes DEF HandshakeInv, TypeOK
  <1>2. /\ \A k \in DOMAIN items' : k[4] <= nonces' /\ redeemed'[k[4]] = 0
        /\ \A k, l \in DOMAIN items' : k[4] = l[4] => k = l
    BY <1>1 DEF HandshakeInv, Ledger
  <1>3. \A k \in DOMAIN items' : Exchange(k[1], k[2], k[3], k[4])'
    BY <1>1, ExchangeStays DEF HandshakeInv, Traced
  <1>4. Fresh'
    BY <1>1, FreshStays DEF HandshakeInv
  <1>5. QED
    BY <1>1, <1>2, <1>3, <1>4

\* What is redeemed was pending, hence asked for recently.
LEMMA RedeemedPromptly ==
    ASSUME HandshakeInv, NEW m \in Responses, Redeems(Key(m.from, m, m.nonce))
    PROVE  \E q \in Requests :
               /\ q.from = m.from /\ q.client = m.client /\ q.attempt = m.attempt
               /\ now < q.ts * Second + MaxPastSkew + TTL
  <1> DEFINE key == Key(m.from, m, m.nonce)
  <1>1. key \in DOMAIN items /\ items[key] > now
    BY DEF Redeems, Store!Accepts
  <1>2. key[1] = m.from /\ key[2] = m.client /\ key[3] = m.attempt
    BY DEF Key
  <1>3. PICK q \in Requests : /\ q.from = key[1] /\ q.client = key[2] /\ q.attempt = key[3]
                              /\ items[key] <= q.ts * Second + MaxPastSkew + TTL
    BY <1>1 DEF HandshakeInv, Fresh
  <1>4. now < q.ts * Second + MaxPastSkew + TTL
    <2>1. q.ts \in Int
      BY DEF HandshakeInv, TypeOK, Messages, Requests
    <2>2. q.ts * Second \in Int /\ MaxPastSkew \in Int /\ TTL \in Int /\ now \in Int
      BY <2>1, SecondsTyped, HandshakeAssumption DEF HandshakeInv, TypeOK
    <2>3. items[key] \in Int
      BY <1>1 DEF HandshakeInv, TypeOK, Store!StoreTypeOK
    <2>4. QED
      BY <1>1, <1>3, <2>2, <2>3
  <1>5. QED
    BY <1>2, <1>3, <1>4

LEMMA ResponseSafe ==
    ASSUME HandshakeInv, NEW m \in Responses, HandleResponse(m)
    PROVE  HandshakeInv'
  <1> DEFINE key == Key(m.from, m, m.nonce)
  <1>1. /\ m \in net /\ m.type = "response" /\ m.from \in IPs /\ m.client \in Clients
        /\ m.nonce \in Nonces
    BY DEF HandshakeInv, TypeOK, Messages, Responses
  <1>2. key[1] = m.from /\ key[2] = m.client /\ key[3] = m.attempt /\ key[4] = m.nonce
    BY DEF Key
  <1>3. UNCHANGED <<now, net, client, window, reply, nonces, restarts>>
    BY DEF HandleResponse
  <1>4. Store!Drop(DOMAIN items \cap {key})
    BY DEF HandleResponse, Store!Consume
  <1>5. redeemed \in [Nonces -> Nat]
    BY DEF HandshakeInv, TypeOK
  <1>6. CASE Redeems(key)
    <2>1. server' = m /\ redeemed' = [redeemed EXCEPT ![m.nonce] = @ + 1]
      BY <1>6 DEF HandleResponse
    <2>2. key \in DOMAIN items
      BY <1>6 DEF Redeems, Store!Accepts
    <2>3. redeemed[m.nonce] = 0 /\ m.nonce <= nonces
      BY <1>2, <2>2 DEF HandshakeInv, Ledger
    <2>4. \A k \in DOMAIN items \ (DOMAIN items \cap {key}) : k[4] # m.nonce
      BY <1>2, <2>2 DEF HandshakeInv, Ledger
    <2>5. \A k \in DOMAIN items : k[4] \in Nonces
      BY DEF HandshakeInv, TypeOK, Store!StoreTypeOK, Keys
    <2>6. \A k \in DOMAIN items \ (DOMAIN items \cap {key}) : redeemed'[k[4]] = redeemed[k[4]]
      BY <1>5, <2>1, <2>4, <2>5
    <2>7. /\ Store!StoreTypeOK'
          /\ \A k \in DOMAIN items' : k[4] <= nonces' /\ redeemed'[k[4]] = 0
          /\ \A k, l \in DOMAIN items' : k[4] = l[4] => k = l
          /\ \A k \in DOMAIN items' : Exchange(k[1], k[2], k[3], k[4])'
          /\ Fresh'
      BY <1>3, <1>4, <2>6, DropSafe
    <2>8. TypeOK'
      <3>1. redeemed' \in [Nonces -> Nat]
        BY <1>1, <1>5, <2>1
      <3>2. server' \in {Idle} \cup {x \in net' : x.type = "response"}
        BY <1>1, <1>3, <2>1
      <3>3. QED
        BY <1>3, <2>7, <3>1, <3>2 DEF HandshakeInv, TypeOK
    <2>9. Ledger'
      <3>1. \A n \in Nonces : redeemed'[n] <= 1 /\ (n > nonces' => redeemed'[n] = 0)
        <4>1. ASSUME NEW n \in Nonces
              PROVE  redeemed'[n] <= 1 /\ (n > nonces' => redeemed'[n] = 0)
          <5>1. CASE n = m.nonce
            <6>1. redeemed'[n] = 1
              BY <1>1, <1>5, <2>1, <2>3, <5>1
            <6>2. ~(n > nonces')
              BY <1>1, <1>3, <2>3, <5>1 DEF HandshakeInv, TypeOK, Nonces
            <6>3. QED
              BY <6>1, <6>2
          <5>2. CASE n # m.nonce
            BY <1>3, <1>5, <2>1, <4>1, <5>2 DEF HandshakeInv, Ledger
          <5>3. QED
            BY <5>1, <5>2
        <4>2. QED
          BY <4>1
      <3>2. QED
        BY <2>7, <3>1 DEF Ledger
    <2>10. Traced'
      <3>1. Exchange(m.from, m.client, m.attempt, m.nonce)
        BY <1>2, <2>2 DEF HandshakeInv, Traced
      <3>2. Exchange(m.from, m.client, m.attempt, m.nonce)'
        BY <1>3, <3>1, ExchangeStays
      <3>3. (server # Idle => Exchange(server.from, server.client, server.attempt, server.nonce))'
        BY <2>1, <3>2
      <3>4. QED
        BY <2>7, <3>3 DEF Traced
    <2>11. AnswersOwnChallenge' /\ AdmittedHaveAnswered'
      BY <1>3, AdmittedStay DEF HandshakeInv, AnswersOwnChallenge, Responses, Challenges
    <2>12. Prompt'
      BY <1>3, <1>6, <2>1, RedeemedPromptly DEF Prompt, Requests
    <2>13. QED
      BY <2>7, <2>8, <2>9, <2>10, <2>11, <2>12 DEF HandshakeInv
  <1>7. CASE ~Redeems(key)
    <2>1. UNCHANGED <<server, redeemed>>
      BY <1>7 DEF HandleResponse
    <2>2. /\ Store!StoreTypeOK'
          /\ \A k \in DOMAIN items' : k[4] <= nonces' /\ redeemed'[k[4]] = 0
          /\ \A k, l \in DOMAIN items' : k[4] = l[4] => k = l
          /\ \A k \in DOMAIN items' : Exchange(k[1], k[2], k[3], k[4])'
          /\ Fresh'
      BY <1>3, <1>4, <2>1, DropSafe
    <2>3. TypeOK' /\ Ledger'
      BY <1>3, <2>1, <2>2 DEF HandshakeInv, TypeOK, Ledger
    <2>4. Traced'
      BY <1>3, <2>1, <2>2, ExchangeStays DEF HandshakeInv, Traced
    <2>5. AnswersOwnChallenge' /\ AdmittedHaveAnswered' /\ Prompt'
      BY <1>3, <2>1, AdmittedStay, PromptStays
         DEF HandshakeInv, AnswersOwnChallenge, Responses, Challenges
    <2>6. QED
      BY <2>2, <2>3, <2>4, <2>5 DEF HandshakeInv
  <1>8. QED
    BY <1>6, <1>7

\* An authorization admits the answering client to its own forward, for that
\* forward's period.
LEMMA GrantDomains ==
    ASSUME TypeOK, NEW g \in IPs \X Clients,
           Window!Grant(g, g[2]) \/ Window!Refuse(g, g[2])
    PROVE  /\ DOMAIN window' = Forwards
           /\ \A f \in Forwards : \A h \in DOMAIN window'[f] :
                  \/ h \in DOMAIN window[f] /\ window'[f][h] = window[f][h]
                  \/ h = g /\ f = Target[g[2]] /\ window'[f][h] = now + Period[f]
           /\ UNCHANGED now
  <1>1. CASE Window!Refuse(g, g[2])
    BY <1>1 DEF Window!Refuse, TypeOK
  <1>2. CASE Window!Grant(g, g[2])
    <2> DEFINE t == Target[g[2]]
               W == [x \in DOMAIN window[t] \cup {g} |->
                         IF x = g THEN now + Period[t] ELSE window[t][x]]
    <2>1. t \in Forwards
      BY <1>2, HandshakeAssumption DEF Window!Grant
    <2>2. window' = [window EXCEPT ![t] = Window!Running(W, now)] /\ UNCHANGED now
      BY <1>2 DEF Window!Grant
    <2>3. \A h \in DOMAIN Window!Running(W, now) :
              /\ h \in DOMAIN window[t] \cup {g}
              /\ Window!Running(W, now)[h] = W[h]
      BY DEF Window!Running, Window!Restrict
    <2>4. window'[t] = Window!Running(W, now)
      BY <2>1, <2>2 DEF TypeOK
    <2>5. ASSUME NEW h \in DOMAIN window'[t]
          PROVE  \/ h \in DOMAIN window[t] /\ window'[t][h] = window[t][h]
                 \/ h = g /\ window'[t][h] = now + Period[t]
      BY <2>3, <2>4
    <2>6. \A f \in Forwards \ {t} : window'[f] = window[f]
      BY <2>2 DEF TypeOK
    <2>7. QED
      BY <2>1, <2>2, <2>5, <2>6 DEF TypeOK
  <1>3. QED
    BY <1>1, <1>2

LEMMA AuthorizeSafe == HandshakeInv /\ Authorize => HandshakeInv'
  <1> SUFFICES ASSUME HandshakeInv, Authorize PROVE HandshakeInv'
    OBVIOUS
  <1> DEFINE g == <<server.from, server.client>>
  <1>1. server # Idle /\ server \in Responses
    BY DEF HandshakeInv, TypeOK, Authorize, Responses
  <1>2. g \in IPs \X Clients /\ g[1] = server.from /\ g[2] = server.client
    BY <1>1 DEF HandshakeInv, TypeOK, Messages, Responses
  <1>3. Window!Grant(g, g[2]) \/ Window!Refuse(g, g[2])
    BY <1>2 DEF Authorize
  <1>4. TypeOK
    BY DEF HandshakeInv
  <1>5. /\ DOMAIN window' = Forwards
        /\ \A f \in Forwards : \A h \in DOMAIN window'[f] :
               \/ h \in DOMAIN window[f] /\ window'[f][h] = window[f][h]
               \/ h = g /\ f = Target[g[2]] /\ window'[f][h] = now + Period[f]
        /\ UNCHANGED now
    BY <1>2, <1>3, <1>4, GrantDomains
  <1>6. /\ UNCHANGED <<net, client, items, countByIP, nonces, restarts, redeemed>>
        /\ server' = Idle
    BY DEF Authorize
  <1>7. TypeOK'
    <2>1. Store!StoreTypeOK'
      BY <1>4, <1>6 DEF TypeOK, Store!StoreTypeOK
    <2>2. \A f \in Forwards : DOMAIN window'[f] \subseteq IPs \X Clients
      BY <1>2, <1>4, <1>5 DEF TypeOK
    <2>3. QED
      BY <1>4, <1>5, <1>6, <2>1, <2>2 DEF TypeOK
  <1>8. Ledger' /\ Fresh' /\ Prompt' /\ AnswersOwnChallenge'
    BY <1>6 DEF HandshakeInv, Ledger, Fresh, Prompt, AnswersOwnChallenge,
                Requests, Challenges, Responses
  <1>9. Traced'
    BY <1>6, ExchangeStays DEF HandshakeInv, Traced
  <1>10. AdmittedHaveAnswered'
    <2>1. PICK m \in Requests :
              /\ m.from = server.from /\ m.client = server.client
              /\ m.attempt = server.attempt
              /\ now < m.ts * Second + MaxPastSkew + TTL
      BY <1>1 DEF HandshakeInv, Prompt
    <2>2. PICK q \in Challenges :
              /\ q.to = server.from /\ q.client = server.client
              /\ q.attempt = server.attempt /\ q.nonce = server.nonce
      BY <1>1 DEF HandshakeInv, Traced, Exchange
    <2>3. \A f \in Forwards : now + Period[f] < m.ts * Second + MaxPastSkew + TTL + Period[f]
      <3>1. m.ts \in Int
        BY <1>4 DEF TypeOK, Messages, Requests
      <3>2. m.ts * Second \in Int /\ MaxPastSkew \in Int /\ TTL \in Int /\ now \in Int
        BY <1>4, <3>1, SecondsTyped, HandshakeAssumption DEF TypeOK
      <3>3. QED
        BY <2>1, <3>2, HandshakeAssumption
    <2>4. /\ Responses' = Responses /\ Challenges' = Challenges /\ Requests' = Requests
      BY <1>6 DEF Responses, Challenges, Requests
    <2>5. ASSUME NEW f \in Forwards, NEW h \in DOMAIN window'[f]
          PROVE  /\ Target[h[2]] = f
                 /\ \E r \in Responses, p \in Challenges, x \in Requests :
                        /\ r.from = h[1] /\ p.to = h[1] /\ x.from = h[1]
                        /\ r.client = h[2] /\ p.client = h[2] /\ x.client = h[2]
                        /\ r.nonce = p.nonce
                        /\ r.attempt = p.attempt /\ p.attempt = x.attempt
                        /\ window'[f][h] < x.ts * Second + MaxPastSkew + TTL + Period[f]
      <3>1. CASE h \in DOMAIN window[f] /\ window'[f][h] = window[f][h]
        BY <3>1 DEF HandshakeInv, AdmittedHaveAnswered
      <3>2. CASE h = g /\ f = Target[g[2]] /\ window'[f][h] = now + Period[f]
        BY <1>1, <1>2, <2>1, <2>2, <2>3, <3>2
      <3>3. QED
        BY <1>5, <3>1, <3>2
    <2>6. QED
      BY <2>4, <2>5 DEF AdmittedHaveAnswered
  <1>11. QED
    BY <1>7, <1>8, <1>9, <1>10 DEF HandshakeInv

LEMMA CleanupSafe == HandshakeInv /\ Cleanup => HandshakeInv'
  <1> SUFFICES ASSUME HandshakeInv, Cleanup PROVE HandshakeInv'
    OBVIOUS
  <1> DEFINE gone == {k \in DOMAIN items : items[k] <= now}
  <1>1. Store!Drop(gone)
    BY DEF Cleanup, Store!Cleanup
  <1>2. UNCHANGED <<now, net, client, window, reply, server, nonces, restarts, redeemed>>
    BY DEF Cleanup
  <1>3. /\ Store!StoreTypeOK'
        /\ \A k \in DOMAIN items' : k[4] <= nonces' /\ redeemed'[k[4]] = 0
        /\ \A k, l \in DOMAIN items' : k[4] = l[4] => k = l
        /\ \A k \in DOMAIN items' : Exchange(k[1], k[2], k[3], k[4])'
        /\ Fresh'
    BY <1>1, <1>2, DropSafe
  <1>4. TypeOK' /\ Ledger'
    BY <1>2, <1>3 DEF HandshakeInv, TypeOK, Ledger
  <1>5. Traced'
    BY <1>2, <1>3, ExchangeStays DEF HandshakeInv, Traced
  <1>6. AnswersOwnChallenge' /\ AdmittedHaveAnswered' /\ Prompt'
    BY <1>2, AdmittedStay, PromptStays
       DEF HandshakeInv, AnswersOwnChallenge, Responses, Challenges
  <1>7. QED
    BY <1>3, <1>4, <1>5, <1>6 DEF HandshakeInv

\* A restart forgets every challenge, every grant and the response at hand.
LEMMA RestartSafe == HandshakeInv /\ Restart => HandshakeInv'
  <1> SUFFICES ASSUME HandshakeInv, Restart PROVE HandshakeInv'
    OBVIOUS
  <1>1. /\ DOMAIN items' = {} /\ items' = [k \in {} |-> 0] /\ countByIP' = [ip \in {} |-> 0]
        /\ window' = [f \in Forwards |-> [g \in {} |-> 0]]
        /\ server' = Idle
        /\ UNCHANGED <<now, net, client, reply, nonces, redeemed>>
    BY DEF Restart
  <1>2. restarts' \in 0 .. MaxRestarts
    BY HandshakeAssumption DEF Restart, HandshakeInv, TypeOK
  <1>3. Store!StoreTypeOK'
    BY <1>1, FS_EmptySet, SameFinite DEF Store!StoreTypeOK
  <1>4. TypeOK'
    BY <1>1, <1>2, <1>3 DEF HandshakeInv, TypeOK
  <1>5. Ledger' /\ Traced' /\ Fresh' /\ Prompt'
    BY <1>1 DEF HandshakeInv, Ledger, Traced, Fresh, Prompt
  <1>6. AnswersOwnChallenge' /\ AdmittedHaveAnswered'
    BY <1>1 DEF HandshakeInv, AnswersOwnChallenge, AdmittedHaveAnswered,
                Responses, Challenges
  <1>7. QED
    BY <1>4, <1>5, <1>6 DEF HandshakeInv

LEMMA TickSafe == HandshakeInv /\ Tick => HandshakeInv'
  <1> SUFFICES ASSUME HandshakeInv, Tick PROVE HandshakeInv'
    OBVIOUS
  <1>1. /\ now' = now + 1 /\ now' \in Nat
        /\ window' = [f \in Forwards |-> Window!Running(window[f], now + 1)]
    BY DEF Tick, Window!Advance, HandshakeInv, TypeOK
  <1>2. UNCHANGED <<net, client, items, countByIP, server, nonces, restarts, redeemed>>
        /\ server = Idle
    BY DEF Tick
  <1>3. \A f \in Forwards : \A g \in DOMAIN window'[f] :
            g \in DOMAIN window[f] /\ window'[f][g] = window[f][g]
    BY <1>1 DEF Window!Running, Window!Restrict
  <1>4. TypeOK'
    <2>1. Store!StoreTypeOK'
      BY <1>2 DEF HandshakeInv, TypeOK, Store!StoreTypeOK
    <2>2. DOMAIN window' = Forwards
          /\ \A f \in Forwards : DOMAIN window'[f] \subseteq IPs \X Clients
      BY <1>1, <1>3 DEF HandshakeInv, TypeOK
    <2>3. QED
      BY <1>1, <1>2, <2>1, <2>2 DEF HandshakeInv, TypeOK
  <1>5. Ledger' /\ AnswersOwnChallenge'
    BY <1>2 DEF HandshakeInv, Ledger, AnswersOwnChallenge, Responses, Challenges
  <1>6. Traced'
    BY <1>2, ExchangeStays DEF HandshakeInv, Traced
  <1>7. Fresh' /\ Prompt' /\ AdmittedHaveAnswered'
    BY <1>2, <1>3, FreshStays, AdmittedStay DEF HandshakeInv, Prompt
  <1>8. QED
    BY <1>4, <1>5, <1>6, <1>7 DEF HandshakeInv

-----------------------------------------------------------------------------
LEMMA HandshakeStep == HandshakeInv /\ [Next]_vars => HandshakeInv'
  <1> SUFFICES ASSUME HandshakeInv, [Next]_vars PROVE HandshakeInv'
    OBVIOUS
  <1>1. ASSUME NEW c \in Clients, NEW ip \in IPs, StartAttempt(c, ip)
        PROVE  HandshakeInv'
    BY <1>1, StartAttemptSafe
  <1>2. ASSUME NEW c \in Clients, NEW m \in Challenges, NEW ip \in IPs,
               AnswerChallenge(c, m, ip)
        PROVE  HandshakeInv'
    BY <1>2, AnswerSafe
  <1>3. ASSUME NEW c \in Clients, NEW m \in Challenges, RejectChallenge(c, m)
        PROVE  HandshakeInv'
    <2>1. Stop(c) /\ UNCHANGED <<now, net, serverVars>>
      BY <1>3 DEF RejectChallenge
    <2>2. QED
      BY <2>1, StopSafe
  <1>4. ASSUME NEW c \in Clients, GiveUp(c)
        PROVE  HandshakeInv'
    <2>1. Stop(c) /\ UNCHANGED <<now, net, serverVars>>
      BY <1>4 DEF GiveUp
    <2>2. QED
      BY <2>1, StopSafe
  <1>5. ASSUME NEW m \in Requests, HandleRequest(m)
        PROVE  HandshakeInv'
    BY <1>5, RequestSafe
  <1>6. ASSUME NEW m \in Responses, HandleResponse(m)
        PROVE  HandshakeInv'
    BY <1>6, ResponseSafe
  <1>7. CASE Authorize \/ Cleanup \/ Restart \/ Tick
    BY <1>7, AuthorizeSafe, CleanupSafe, RestartSafe, TickSafe
  <1>8. CASE UNCHANGED vars
    <2>1. UNCHANGED <<now, net, serverVars>> /\ client' = client
      BY <1>8 DEF vars
    <2>2. TypeOK'
      BY <2>1, ClientTypes DEF HandshakeInv, TypeOK
    <2>3. AnswersOwnChallenge'
      BY <2>1 DEF HandshakeInv, AnswersOwnChallenge, Responses, Challenges
    <2>4. QED
      BY <2>1, <2>2, <2>3, ClientStep DEF HandshakeInv
  <1>9. QED
    BY <1>1, <1>2, <1>3, <1>4, <1>5, <1>6, <1>7, <1>8 DEF Next

LEMMA HandshakeInvariant == Spec => []HandshakeInv
  BY HandshakeInit, HandshakeStep, PTL DEF Spec

\* Nothing but a response that redeems its challenge makes the server go on to
\* authorize.
LEMMA RecentStep == HandshakeInv /\ [Next]_vars => [GrantIsRecent]_vars
  <1> SUFFICES ASSUME HandshakeInv, Next, server = Idle, server' # Idle
               PROVE  GrantIsRecent
    BY DEF GrantIsRecent
  <1>1. PICK m \in Responses : HandleResponse(m)
    BY DEF Next, StartAttempt, AnswerChallenge, RejectChallenge, GiveUp, serverVars,
           HandleRequest, Authorize, Cleanup, Restart, Tick
  <1>2. Redeems(Key(m.from, m, m.nonce)) /\ server' = m
    BY <1>1 DEF HandleResponse
  <1>3. QED
    BY <1>2, RedeemedPromptly DEF GrantIsRecent

-----------------------------------------------------------------------------
\* The state of the exchange is well typed.
THEOREM HandshakeTypeCorrect == Spec => []TypeOK
  <1>1. HandshakeInv => TypeOK
    BY DEF HandshakeInv
  <1>2. QED
    BY <1>1, HandshakeInvariant, PTL

\* No challenge is redeemed twice, whatever datagrams are repeated or delayed
\* and whenever the server is restarted (consume, challenge.go:55).
THEOREM ChallengesRedeemedOnce == Spec => []RedeemedOnce
  <1>1. HandshakeInv => RedeemedOnce
    BY DEF HandshakeInv, Ledger, RedeemedOnce
  <1>2. QED
    BY <1>1, HandshakeInvariant, PTL

\* A late or stray challenge is never mistaken for the attempt's own
\* (authclient/auth.go:56-61).
THEOREM ClientsAnswerOwnChallenge == Spec => []AnswersOwnChallenge
  <1>1. HandshakeInv => AnswersOwnChallenge
    BY DEF HandshakeInv
  <1>2. QED
    BY <1>1, HandshakeInvariant, PTL

\* Whoever the window admits has completed the whole exchange from that very
\* address, for the forward its port and token name (auth.go:326-334, 372-380),
\* on a request that is no older than the skew allowed to it, the life of its
\* challenge and the forward's period together.
THEOREM OnlyAnsweredAdmitted == Spec => []AdmittedHaveAnswered
  <1>1. HandshakeInv => AdmittedHaveAnswered
    BY DEF HandshakeInv
  <1>2. QED
    BY <1>1, HandshakeInvariant, PTL

\* No delay of the three datagrams makes an exchange last longer than the skew
\* allowed to its request and the life of its challenge together.
THEOREM GrantsRestOnRecentRequests == Spec => GrantsAreRecent
  BY HandshakeInvariant, RecentStep, PTL DEF Spec, GrantsAreRecent
=============================================================================
