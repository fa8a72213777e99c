-------------------------- MODULE ClientListProofs --------------------------
(***************************************************************************)
(* The authorized client list keeps its types and its limit and implements *)
(* the abstract window, for every number of forwards and all rules, limits *)
(* and periods.                                                            *)
(***************************************************************************)
EXTENDS ClientList, FiniteSetTheorems, WellFoundedInduction, TLAPS

\* The window's module has its own copy of Cardinality, which is the same.
LEMMA SameCardinality == \A S : AW!Cardinality(S) = Cardinality(S)
BY DEF AW!Cardinality, Cardinality

LEMMA LiveListed == \A f : Live(f) \subseteq DOMAIN allClientList[f]
BY DEF Live

\* The first of the entitling forwards is one of them.
LEMMA FirstEntitled ==
    ASSUME NEW port, NEW token, Entitling(port, token) # {}
    PROVE  /\ First(Entitling(port, token)) \in Entitling(port, token)
           /\ First(Entitling(port, token)) \in Forwards
<1>. DEFINE S == Entitling(port, token)
            less == OpToRel(<, Nat)
<1>1. S \subseteq Nat /\ S # {}  BY ListAssumption DEF Entitling, Forwards
<1>2. PICK f \in S : \A g \in S : <<g, f>> \notin less
  BY <1>1, NatLessThanWellFounded, WFMin
<1>3. ASSUME NEW x \in Nat, NEW y \in Nat, <<x, y>> \notin less
      PROVE  y <= x
  BY <1>3 DEF OpToRel
<1>4. \A g \in S : f <= g  BY <1>1, <1>2, <1>3
<1>5. First(S) \in S  BY <1>4 DEF First
<1>. QED  BY <1>5 DEF Entitling

-----------------------------------------------------------------------------
\* Deleting expired entries of one list is invisible: it keeps the types, it
\* makes no list longer and it leaves the window as it is.
LEMMA DeleteKeepsTypes ==
    ASSUME TypeOK, NEW f \in Forwards, NEW gone, Delete(f, gone)
    PROVE  /\ DOMAIN allClientList' = Forwards
           /\ \A g \in Forwards :
                  /\ DOMAIN allClientList'[g] \subseteq DOMAIN allClientList[g]
                  /\ IsFiniteSet(DOMAIN allClientList'[g])
                  /\ allClientList'[g] \in [DOMAIN allClientList'[g] -> Nat]
<1>1. DOMAIN allClientList' = Forwards  BY DEF TypeOK, Delete
<1>2. ASSUME NEW g \in Forwards
      PROVE  /\ DOMAIN allClientList'[g] \subseteq DOMAIN allClientList[g]
             /\ IsFiniteSet(DOMAIN allClientList'[g])
             /\ allClientList'[g] \in [DOMAIN allClientList'[g] -> Nat]
  <2>1. IsFiniteSet(DOMAIN allClientList[g]) /\ allClientList[g] \in [DOMAIN allClientList[g] -> Nat]
    BY DEF TypeOK
  <2>2. CASE g = f
    <3>1. allClientList'[g] = Restrict(allClientList[g], DOMAIN allClientList[g] \ gone)
      BY <2>2 DEF TypeOK, Delete
    <3>2. DOMAIN allClientList'[g] = DOMAIN allClientList[g] \ gone
      BY <3>1 DEF Restrict
    <3>. QED  BY <2>1, <3>1, <3>2, FS_Subset DEF Restrict
  <2>3. CASE g # f
    <3>1. allClientList'[g] = allClientList[g]  BY <2>3 DEF TypeOK, Delete
    <3>. QED  BY <2>1, <3>1
  <2>. QED  BY <2>2, <2>3
<1>. QED  BY <1>1, <1>2

LEMMA DeleteInvisible ==
    ASSUME TypeOK, NEW f \in Forwards, NEW gone, gone \cap Live(f) = {},
           Delete(f, gone), now' = now
    PROVE  Window' = Window
<1>1. ASSUME NEW g \in Forwards
      PROVE  Restrict(allClientList'[g], Live(g)') = Restrict(allClientList[g], Live(g))
  <2>1. CASE g = f
    <3>1. allClientList'[g] = Restrict(allClientList[g], DOMAIN allClientList[g] \ gone)
      BY <2>1 DEF TypeOK, Delete
    <3>2. Live(g)' = Live(g)
      BY <2>1, <3>1 DEF Restrict, Live
    <3>3. Live(g) \subseteq DOMAIN allClientList[g] \ gone
      BY <2>1 DEF Live
    <3>. QED  BY <3>1, <3>2, <3>3 DEF Restrict
  <2>2. CASE g # f
    <3>1. allClientList'[g] = allClientList[g]  BY <2>2 DEF TypeOK, Delete
    <3>. QED  BY <3>1 DEF Live
  <2>. QED  BY <2>1, <2>2
<1>. QED  BY <1>1 DEF Window

\* What a grant does to the lists.
LEMMA GrantUpdates ==
    ASSUME TypeOK, NEW f \in Forwards, NEW c \in Clients, Grant(f, c)
    PROVE  /\ DOMAIN allClientList' = Forwards
           /\ allClientList'[f] = [x \in Live(f) \cup {c} |->
                  IF x = c THEN now + AuthExpiredTime[f] ELSE allClientList[f][x]]
           /\ \A g \in Forwards \ {f} : allClientList'[g] = allClientList[g]
BY DEF TypeOK, Grant

-----------------------------------------------------------------------------
LEMMA StepTypes == TypeOK /\ [Next]_vars => TypeOK'
<1>. SUFFICES ASSUME TypeOK, [Next]_vars PROVE TypeOK'  OBVIOUS
<1>1. ASSUME NEW f \in Forwards, NEW gone, Delete(f, gone),
             now' = now, reply' \in Answers
      PROVE  TypeOK'
  BY <1>1, DeleteKeepsTypes DEF TypeOK
<1>2. ASSUME UNCHANGED <<now, allClientList>>, reply' \in Answers PROVE TypeOK'
  BY <1>2 DEF TypeOK
<1>3. ASSUME NEW f \in Forwards, NEW c \in Clients, Grant(f, c) PROVE TypeOK'
  <2>1. (c \in Live(f)) \in BOOLEAN  OBVIOUS
  <2>2. reply' \in Answers /\ now' = now
    <3>1. AW!Granted(c, f, c \in Live(f)) \in Answers
      BY <2>1 DEF Answers, AW!Granted
    <3>. QED  BY <1>3, <3>1 DEF Grant
  <2>3. now + AuthExpiredTime[f] \in Nat  BY ListAssumption DEF TypeOK
  <2>4. ASSUME NEW g \in Forwards
        PROVE  /\ DOMAIN allClientList'[g] \subseteq Clients
               /\ IsFiniteSet(DOMAIN allClientList'[g])
               /\ allClientList'[g] \in [DOMAIN allClientList'[g] -> Nat]
    <3>1. CASE g = f
      <4>1. DOMAIN allClientList'[g] = Live(f) \cup {c}
        BY <1>3, <3>1, GrantUpdates
      <4>2. Live(f) \subseteq DOMAIN allClientList[f]  BY LiveListed
      <4>3. IsFiniteSet(Live(f) \cup {c})
        BY <4>2, FS_Subset, FS_AddElement DEF TypeOK
      <4>4. DOMAIN allClientList[f] \subseteq Clients
        BY DEF TypeOK
      <4>5. \A x \in DOMAIN allClientList[f] : allClientList[f][x] \in Nat
        BY DEF TypeOK
      <4>6. allClientList'[g] \in [DOMAIN allClientList'[g] -> Nat]
        <5>. DEFINE end(x) == IF x = c THEN now + AuthExpiredTime[f] ELSE allClientList[f][x]
        <5>1. allClientList'[g] = [x \in Live(f) \cup {c} |-> end(x)]
          BY <1>3, <3>1, GrantUpdates
        <5>2. \A x \in Live(f) \cup {c} : end(x) \in Nat
          BY <2>3, <4>2, <4>5
        <5>. HIDE DEF end
        <5>. QED  BY <5>1, <5>2
      <4>. QED  BY <4>1, <4>2, <4>3, <4>4, <4>6
    <3>2. CASE g # f
      BY <1>3, <3>2, GrantUpdates DEF TypeOK
    <3>. QED  BY <3>1, <3>2
  <2>. QED  BY <1>3, <2>2, <2>4, GrantUpdates DEF TypeOK
<1>4. ASSUME NEW c \in Clients, NEW port \in Ports, NEW token \in Tokens,
             AuthorizeClient(c, port, token)
      PROVE  TypeOK'
  <2>. DEFINE f == First(Entitling(port, token))
  <2>1. CASE Entitling(port, token) # {} /\ Grant(f, c)
    BY <1>3, <2>1, FirstEntitled
  <2>2. CASE Entitling(port, token) # {} /\ RefuseFull(f, c)
    <3>1. f \in Forwards  BY <2>2, FirstEntitled
    <3>2. AW!Refused(c, f) \in Answers  BY <3>1 DEF Answers, AW!Refused
    <3>. QED  BY <1>1, <2>2, <3>1, <3>2 DEF RefuseFull
  <2>3. CASE RefuseUnmatched(c, port, token)
    <3>1. AW!Refused(c, NoForward) \in Answers
      BY DEF Answers, AW!Refused
    <3>. QED  BY <1>2, <2>3, <3>1 DEF RefuseUnmatched
  <2>. QED  BY <1>4, <2>1, <2>2, <2>3 DEF AuthorizeClient
<1>5. ASSUME NEW f \in Forwards, NEW ip \in IPs, IsIPAuthed(f, ip) PROVE TypeOK'
  <2>1. \A b \in BOOLEAN : AW!Dialed(f, ip, b) \in Answers
    BY DEF Answers, AW!Dialed
  <2>. QED  BY <1>1, <1>2, <1>5, <2>1 DEF IsIPAuthed
<1>6. ASSUME NEW f \in Forwards, NEW c \in Clients, IsClientAuthed(f, c) PROVE TypeOK'
  <2>1. \A b \in BOOLEAN : AW!Asked(f, c, b) \in Answers
    BY DEF Answers, AW!Asked
  <2>2. (c \in Live(f)) \in BOOLEAN  OBVIOUS
  <2>. QED  BY <1>1, <1>2, <1>6, <2>1, <2>2 DEF IsClientAuthed
<1>7. ASSUME NEW f \in Forwards, RefreshClientList(f) PROVE TypeOK'
  BY <1>1, <1>7 DEF RefreshClientList, TypeOK
<1>8. CASE Tick
  BY <1>8 DEF Tick, TypeOK
<1>9. CASE UNCHANGED vars
  BY <1>9 DEF vars, TypeOK
<1>. QED
  BY <1>4, <1>5, <1>6, <1>7, <1>8, <1>9, ListAssumption DEF Next

LEMMA InitTypes == Init => TypeOK
BY FS_EmptySet DEF Init, TypeOK, Answers

\* Every variable keeps its type.
THEOREM ListTypeCorrect == Spec => []TypeOK
BY InitTypes, StepTypes, PTL DEF Spec

-----------------------------------------------------------------------------
\* The limit holds: an operation that does not grant makes no list longer,
\* and a grant counts what is left after the expired entries are gone.
LEMMA StepCapacity ==
    TypeOK /\ WithinCapacity /\ [Next]_vars => WithinCapacity'
<1>. SUFFICES ASSUME TypeOK, WithinCapacity, [Next]_vars, MaxAuthorizedClients > 0,
                     NEW g \in Forwards
              PROVE  Cardinality(DOMAIN allClientList'[g]) <= MaxAuthorizedClients
  BY DEF WithinCapacity
<1>1. /\ IsFiniteSet(DOMAIN allClientList[g])
      /\ Cardinality(DOMAIN allClientList[g]) \in Nat
      /\ Cardinality(DOMAIN allClientList[g]) <= MaxAuthorizedClients
  BY FS_CardinalityType DEF TypeOK, WithinCapacity
<1>2. ASSUME DOMAIN allClientList'[g] \subseteq DOMAIN allClientList[g]
      PROVE  Cardinality(DOMAIN allClientList'[g]) <= MaxAuthorizedClients
  <2>1. /\ Cardinality(DOMAIN allClientList'[g]) \in Nat
        /\ Cardinality(DOMAIN allClientList'[g]) <= Cardinality(DOMAIN allClientList[g])
    BY <1>1, <1>2, FS_Subset, FS_CardinalityType
  <2>. QED  BY <1>1, <2>1, ListAssumption
<1>3. ASSUME NEW f \in Forwards, NEW gone, Delete(f, gone)
      PROVE  Cardinality(DOMAIN allClientList'[g]) <= MaxAuthorizedClients
  BY <1>2, <1>3, DeleteKeepsTypes
<1>4. ASSUME NEW f \in Forwards, NEW c \in Clients, Grant(f, c)
      PROVE  Cardinality(DOMAIN allClientList'[g]) <= MaxAuthorizedClients
  <2>1. CASE g # f
    <3>1. allClientList'[g] = allClientList[g]  BY <1>4, <2>1, GrantUpdates
    <3>. QED  BY <1>1, <3>1
  <2>2. CASE g = f
    <3>1. DOMAIN allClientList'[g] = Live(g) \cup {c}
      BY <1>4, <2>2, GrantUpdates
    <3>2. Live(g) \subseteq DOMAIN allClientList[g]  BY LiveListed
    <3>3. IsFiniteSet(Live(g)) /\ Cardinality(Live(g)) \in Nat
      BY <1>1, <3>2, FS_Subset, FS_CardinalityType
    <3>4. CASE c \in Live(g)
      <4>1. DOMAIN allClientList'[g] \subseteq DOMAIN allClientList[g]
        BY <3>1, <3>2, <3>4
      <4>. QED  BY <1>2, <4>1
    <3>5. CASE c \notin Live(g)
      <4>1. Cardinality(Live(g)) < MaxAuthorizedClients
        BY <1>4, <2>2, <3>3, <3>5, ListAssumption DEF Grant, ListFull
      <4>2. Cardinality(Live(g) \cup {c}) = Cardinality(Live(g)) + 1
        BY <3>3, <3>5, FS_AddElement
      <4>. QED  BY <3>1, <3>3, <4>1, <4>2, ListAssumption
    <3>. QED  BY <3>4, <3>5
  <2>. QED  BY <2>1, <2>2
<1>5. ASSUME UNCHANGED allClientList
      PROVE  Cardinality(DOMAIN allClientList'[g]) <= MaxAuthorizedClients
  BY <1>1, <1>5
<1>6. ASSUME NEW c \in Clients, NEW port \in Ports, NEW token \in Tokens,
             AuthorizeClient(c, port, token)
      PROVE  Cardinality(DOMAIN allClientList'[g]) <= MaxAuthorizedClients
  <2>1. CASE Entitling(port, token) # {} /\ Grant(First(Entitling(port, token)), c)
    BY <1>4, <2>1, FirstEntitled
  <2>2. CASE Entitling(port, token) # {} /\ RefuseFull(First(Entitling(port, token)), c)
    BY <1>3, <2>2, FirstEntitled DEF RefuseFull
  <2>3. CASE RefuseUnmatched(c, port, token)
    BY <1>5, <2>3 DEF RefuseUnmatched
  <2>. QED  BY <1>6, <2>1, <2>2, <2>3 DEF AuthorizeClient
<1>7. ASSUME NEW f \in Forwards, NEW ip \in IPs, IsIPAuthed(f, ip)
      PROVE  Cardinality(DOMAIN allClientList'[g]) <= MaxAuthorizedClients
  BY <1>3, <1>5, <1>7 DEF IsIPAuthed
<1>8. ASSUME NEW f \in Forwards, NEW c \in Clients, IsClientAuthed(f, c)
      PROVE  Cardinality(DOMAIN allClientList'[g]) <= MaxAuthorizedClients
  BY <1>3, <1>5, <1>8 DEF IsClientAuthed
<1>9. ASSUME NEW f \in Forwards, RefreshClientList(f)
      PROVE  Cardinality(DOMAIN allClientList'[g]) <= MaxAuthorizedClients
  BY <1>3, <1>9 DEF RefreshClientList
<1>10. CASE Tick
  BY <1>5, <1>10 DEF Tick
<1>11. CASE UNCHANGED vars
  BY <1>5, <1>11 DEF vars
<1>. QED
  BY <1>6, <1>7, <1>8, <1>9, <1>10, <1>11, ListAssumption DEF Next

\* No list of authorized clients ever exceeds the limit.
THEOREM CapacityHolds == Spec => []WithinCapacity
<1>1. Init => WithinCapacity
  BY FS_EmptySet, ListAssumption DEF Init, WithinCapacity
<1>. QED  BY InitTypes, StepTypes, StepCapacity, <1>1, PTL DEF Spec

-----------------------------------------------------------------------------
\* The parts of the mapping an abstract step looks at.
LEMMA WindowAt ==
    ASSUME NEW f \in Forwards
    PROVE  /\ Window[f] = Restrict(allClientList[f], Live(f))
           /\ DOMAIN Window[f] = Live(f)
           /\ \A c \in Live(f) : Window[f][c] = allClientList[f][c]
BY DEF Window, Restrict

LEMMA TargetAt ==
    ASSUME NEW port \in Ports, NEW token \in Tokens
    PROVE  /\ <<port, token>> \in AW!Requests
           /\ Target[<<port, token>>] = IF Entitling(port, token) = {} THEN NoForward
                                        ELSE First(Entitling(port, token))
BY DEF Target, AW!Requests

\* An operation that only deletes expired entries and answers is, seen from
\* the window, an answer.
LEMMA DialImplements ==
    ASSUME TypeOK, NEW f \in Forwards, NEW ip \in IPs, IsIPAuthed(f, ip)
    PROVE  AW!Dial(f, ip)
<1>. DEFINE listed == {c \in DOMAIN allClientList[f] : ClientIP[c] = ip}
            admitted == /\ ip \notin GlobalDenyIPs
                        /\ \/ ip \in StaticIPs(f)
                           \/ \E c \in Live(f) : ClientIP[c] = ip
<1>1. Window' = Window /\ now' = now
  <2>1. CASE UNCHANGED <<now, allClientList>>
    BY <2>1 DEF Window, Live
  <2>2. CASE \E met \in SUBSET (listed \ Live(f)) : Delete(f, met) /\ now' = now
    BY <2>2, DeleteInvisible
  <2>3. CASE listed \cap Live(f) = {} /\ Delete(f, listed) /\ now' = now
    BY <2>3, DeleteInvisible
  <2>. QED  BY <2>1, <2>2, <2>3 DEF IsIPAuthed
<1>2. listed \cap Live(f) # {} <=> \E c \in Live(f) : ClientIP[c] = ip
  BY LiveListed
<1>3. reply' = AW!Dialed(f, ip, admitted)
  BY <1>2 DEF IsIPAuthed
<1>. QED  BY <1>1, <1>3, WindowAt DEF AW!Dial

LEMMA AskImplements ==
    ASSUME TypeOK, NEW f \in Forwards, NEW c \in Clients, IsClientAuthed(f, c)
    PROVE  AW!Ask(f, c)
<1>1. Window' = Window /\ now' = now
  <2>1. CASE UNCHANGED <<now, allClientList>>
    BY <2>1 DEF Window, Live
  <2>2. CASE Delete(f, {c} \ Live(f)) /\ now' = now
    BY <2>2, DeleteInvisible
  <2>. QED  BY <2>1, <2>2 DEF IsClientAuthed
<1>. DEFINE answer == /\ ClientIP[c] \notin GlobalDenyIPs
                      /\ ClientIP[c] \in StaticIPs(f) \/ c \in Live(f)
<1>2. reply' = AW!Asked(f, c, answer)
  <2>1. CASE ClientIP[c] \in GlobalDenyIPs \cup StaticIPs(f)
    BY <2>1 DEF IsClientAuthed
  <2>2. CASE ClientIP[c] \notin GlobalDenyIPs \cup StaticIPs(f)
    <3>1. answer <=> c \in Live(f)  BY <2>2
    <3>2. reply' = AW!Asked(f, c, c \in Live(f))  BY <2>2 DEF IsClientAuthed
    <3>. HIDE DEF answer
    <3>. QED  BY <3>1, <3>2
  <2>. QED  BY <2>1, <2>2
<1>. QED  BY <1>1, <1>2, WindowAt DEF AW!Ask

\* A grant opens or extends the client's window and touches no other.
LEMMA GrantImplements ==
    ASSUME TypeOK, NEW c \in Clients, NEW port \in Ports, NEW token \in Tokens,
           Entitling(port, token) # {},
           Grant(First(Entitling(port, token)), c)
    PROVE  AW!Grant(c, <<port, token>>)
<1>. DEFINE f == First(Entitling(port, token))
            r == <<port, token>>
<1>1. f \in Forwards /\ Target[r] = f /\ f # NoForward
  BY FirstEntitled, TargetAt, ListAssumption DEF Forwards, NoForward
<1>. HIDE DEF f
<1>2. Grant(f, c)  BY DEF f
<1>3. ~AW!Exhausted(f, c)
  <2>1. DOMAIN Window[f] = Live(f)  BY <1>1, WindowAt
  <2>2. ~ListFull(f, c)  BY <1>2 DEF Grant
  <2>. QED  BY <2>1, <2>2, SameCardinality DEF ListFull, AW!Exhausted
<1>4. reply' = AW!Granted(c, f, c \in DOMAIN Window[f]) /\ now' = now
  BY <1>1, <1>2, WindowAt DEF Grant
<1>. DEFINE w == [x \in DOMAIN Window[f] \cup {c} |->
                     IF x = c THEN now + AuthExpiredTime[f] ELSE Window[f][x]]
<1>5. w = allClientList'[f]
  <2>1. allClientList'[f] = [x \in Live(f) \cup {c} |->
            IF x = c THEN now + AuthExpiredTime[f] ELSE allClientList[f][x]]
    BY <1>1, <1>2, GrantUpdates
  <2>. QED  BY <1>1, <2>1, WindowAt
<1>6. Window'[f] = AW!Running(w, now)
  <2>1. Window'[f] = Restrict(allClientList'[f], Live(f)')
    BY <1>1 DEF Window
  <2>2. Live(f)' = {x \in DOMAIN w : w[x] > now}
    BY <1>4, <1>5 DEF Live
  <2>. HIDE DEF w
  <2>. QED  BY <1>5, <2>1, <2>2 DEF AW!Running, AW!Restrict, Restrict
<1>7. \A g \in Forwards \ {f} : Window'[g] = Window[g]
  BY <1>1, <1>2, <1>4, GrantUpdates DEF Window, Live
<1>8. Window' = [Window EXCEPT ![f] = AW!Running(w, now)]
  BY <1>6, <1>7 DEF Window
<1>. QED
  BY <1>1, <1>3, <1>4, <1>8 DEF AW!Grant

LEMMA RefuseImplements ==
    ASSUME TypeOK, NEW c \in Clients, NEW port \in Ports, NEW token \in Tokens,
           \/ RefuseUnmatched(c, port, token)
           \/ /\ Entitling(port, token) # {}
              /\ RefuseFull(First(Entitling(port, token)), c)
    PROVE  AW!Refuse(c, <<port, token>>)
<1>1. CASE RefuseUnmatched(c, port, token)
  <2>1. Window' = Window  BY <1>1 DEF RefuseUnmatched, Window, Live
  <2>. QED  BY <1>1, <2>1, TargetAt DEF RefuseUnmatched, AW!Refuse
<1>2. CASE Entitling(port, token) # {} /\ RefuseFull(First(Entitling(port, token)), c)
  <2>. DEFINE f == First(Entitling(port, token))
  <2>1. f \in Forwards /\ Target[<<port, token>>] = f
    BY <1>2, FirstEntitled, TargetAt
  <2>. HIDE DEF f
  <2>2. RefuseFull(f, c)  BY <1>2 DEF f
  <2>3. Window' = Window
    BY <2>1, <2>2, DeleteInvisible DEF RefuseFull
  <2>4. AW!Exhausted(f, c)
    <3>1. DOMAIN Window[f] = Live(f)  BY <2>1, WindowAt
    <3>2. ListFull(f, c)  BY <2>2 DEF RefuseFull
    <3>. QED  BY <3>1, <3>2, SameCardinality DEF ListFull, AW!Exhausted
  <2>. QED  BY <2>1, <2>2, <2>3, <2>4 DEF RefuseFull, AW!Refuse
<1>. QED  BY <1>1, <1>2

\* As time passes the same entries of the list run out as of the window.
LEMMA TickImplements == TypeOK /\ Tick => AW!Advance
<1>. SUFFICES ASSUME TypeOK, Tick PROVE AW!Advance  OBVIOUS
<1>1. allClientList' = allClientList /\ now' = now + 1 /\ reply' = reply
  BY DEF Tick
<1>2. ASSUME NEW f \in Forwards
      PROVE  Restrict(allClientList[f], Live(f)') = AW!Running(Window[f], now + 1)
  <2>1. now \in Nat /\ \A x \in DOMAIN allClientList[f] : allClientList[f][x] \in Nat
    BY DEF TypeOK
  <2>2. Live(f)' = {x \in DOMAIN Window[f] : Window[f][x] > now + 1}
    <3>1. Live(f)' = {x \in DOMAIN allClientList[f] : allClientList[f][x] > now + 1}
      BY <1>1 DEF Live
    <3>2. Live(f)' = {x \in Live(f) : allClientList[f][x] > now + 1}
      BY <2>1, <3>1 DEF Live
    <3>3. \A x \in Live(f) : Window[f][x] = allClientList[f][x]
      BY WindowAt
    <3>4. DOMAIN Window[f] = Live(f)
      BY WindowAt
    <3>. QED  BY <3>2, <3>3, <3>4
  <2>3. \A x \in Live(f)' : Window[f][x] = allClientList[f][x]
    BY <2>2, WindowAt
  <2>. QED  BY <2>2, <2>3 DEF AW!Running, AW!Restrict, Restrict
<1>. QED  BY <1>1, <1>2 DEF AW!Advance, Window

LEMMA StepImplements == TypeOK /\ [Next]_vars => [AW!Next]_(AW!vars)
<1>. SUFFICES ASSUME TypeOK, [Next]_vars PROVE AW!Next \/ UNCHANGED AW!vars
  OBVIOUS
<1>1. ASSUME NEW c \in Clients, NEW port \in Ports, NEW token \in Tokens,
             AuthorizeClient(c, port, token)
      PROVE  AW!Next
  <2>1. AW!Grant(c, <<port, token>>) \/ AW!Refuse(c, <<port, token>>)
    BY <1>1, GrantImplements, RefuseImplements DEF AuthorizeClient
  <2>. QED  BY <2>1, TargetAt DEF AW!Next
<1>2. ASSUME NEW f \in Forwards, NEW ip \in IPs, IsIPAuthed(f, ip) PROVE AW!Next
  BY <1>2, DialImplements DEF AW!Next
<1>3. ASSUME NEW f \in Forwards, NEW c \in Clients, IsClientAuthed(f, c) PROVE AW!Next
  BY <1>3, AskImplements DEF AW!Next
<1>4. ASSUME NEW f \in Forwards, RefreshClientList(f) PROVE UNCHANGED AW!vars
  BY <1>4, DeleteInvisible DEF RefreshClientList, AW!vars
<1>5. CASE Tick
  BY <1>5, TickImplements DEF AW!Next
<1>6. CASE UNCHANGED vars
  BY <1>6 DEF vars, AW!vars, Window, Live
<1>. QED
  BY <1>1, <1>2, <1>3, <1>4, <1>5, <1>6, ListAssumption DEF Next

\* The list, cleaned up lazily by whoever comes across an expired entry,
\* answers every request and every connection as the abstract window does.
THEOREM ListImplementsWindow == Spec => ImplementsAccessWindow
<1>1. Init => AW!Init
  BY DEF Init, AW!Init, Window, Live, Restrict
<1>. QED
  BY InitTypes, StepTypes, StepImplements, <1>1, PTL
     DEF Spec, ImplementsAccessWindow, AW!Spec
=============================================================================
