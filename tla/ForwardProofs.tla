---------------------------- MODULE ForwardProofs ----------------------------
(***************************************************************************)
(* Safety of a forwarded port for any set of connections and any limits:   *)
(* its slots are counted exactly, its limits bound the connections open to *)
(* the forward address, no connection's sockets are left open, and its     *)
(* limiter implements a pool that knows who holds its slots.  And of the   *)
(* port with the grants that open it (Gateway), for any clients and any    *)
(* timeouts: no connection outlives the access of its address by more than *)
(* a dial and a deadline.                                                  *)
(***************************************************************************)
EXTENDS Gateway, FiniteSetTheorems, TLAPS

HoldersOf(ip) == {c \in Holders : IPOf[c] = ip}

-----------------------------------------------------------------------------
\* The connection a step of Next serves, if any, is the only one whose
\* control moves, and the limiter is used by GetSlot and ReleaseSlot alone.
LEMMA StepsElsewhere ==
    ASSUME TypeOK, NEW c \in Conns,
           \/ Accept(c) \/ Admit(c) \/ TurnAway(c) \/ Drop(c) \/ NoSlot(c)
           \/ DialFails(c) \/ DialSucceeds(c) \/ EndDown(c) \/ ReturnDown(c)
    PROVE  UNCHANGED limiter /\ Holders' = Holders
<1>1. PICK label \in Labels :
          /\ task' = [task EXCEPT ![c] = label]
          /\ (label \in {"dialing", "copying", "closing", "releasing"}) <=> HoldsSlot(c)
  BY DEF Accept, Admit, TurnAway, Drop, NoSlot, DialFails, DialSucceeds, EndDown,
         ReturnDown, Goto, Labels, HoldsSlot, TypeOK
<1>2. \A d \in Conns : HoldsSlot(d)' <=> HoldsSlot(d)
  BY <1>1 DEF HoldsSlot, TypeOK
<1>3. UNCHANGED limiter
  BY DEF Accept, Admit, TurnAway, Drop, NoSlot, DialFails, DialSucceeds, EndDown,
         ReturnDown
<1>. QED  BY <1>2, <1>3 DEF Holders

LEMMA StepsOfOthers ==
    ASSUME TypeOK,
           \/ \E c \in Conns : ServeUp(c) \/ Transfer(c) \/ ClientLeaves(c) \/ BackendLeaves(c)
           \/ Tick \/ CloseStop \/ Shutdown \/ UNCHANGED vars
    PROVE  UNCHANGED <<limiter, task>> /\ Holders' = Holders
<1>1. UNCHANGED <<limiter, task>>
  BY DEF ServeUp, EndUp, ReturnUp, Transfer, ClientLeaves, BackendLeaves, Tick,
         CloseStop, Shutdown, CloseListener, AcceptorExits, RefresherExits,
         CloseDone, Exits, vars, limiter
<1>. QED  BY <1>1 DEF Holders, HoldsSlot

\* GetSlot makes one connection a holder, ReleaseSlot takes one away.
LEMMA GetSlotAdds ==
    ASSUME TypeOK, NEW c \in Conns, GetSlot(c)
    PROVE  c \notin Holders /\ Holders' = Holders \cup {c}
BY DEF GetSlot, Goto, Holders, HoldsSlot, TypeOK

LEMMA ReleaseSlotRemoves ==
    ASSUME TypeOK, NEW c \in Conns, ReleaseSlot(c)
    PROVE  c \in Holders /\ Holders' = Holders \ {c}
BY DEF ReleaseSlot, Goto, Holders, HoldsSlot, TypeOK

-----------------------------------------------------------------------------
\* The counters count the holders, of whom there are finitely many and no
\* more than the limits allow.
Counted ==
    /\ IsFiniteSet(Holders)
    /\ global = Cardinality(Holders)
    /\ DOMAIN byIP \subseteq IPs
    /\ \A ip \in IPs :
           /\ Held(ip) = Cardinality(HoldersOf(ip))
           /\ ip \in DOMAIN byIP => HoldersOf(ip) # {}
           /\ MaxConnPerIP > 0 => Cardinality(HoldersOf(ip)) <= MaxConnPerIP
    /\ MaxConnGlobal > 0 => Cardinality(Holders) <= MaxConnGlobal

LEMMA HoldersOfFinite ==
    ASSUME Counted, NEW ip
    PROVE  IsFiniteSet(HoldersOf(ip)) /\ Cardinality(HoldersOf(ip)) \in Nat
<1>1. HoldersOf(ip) \subseteq Holders  BY DEF HoldersOf
<1>. QED  BY <1>1, FS_Subset, FS_CardinalityType DEF Counted

LEMMA GetSlotCounted ==
    ASSUME TypeOK, Counted, NEW c \in Conns, GetSlot(c)
    PROVE  Counted'
<1>. DEFINE home == IPOf[c]
<1>1. home \in IPs  BY ForwardAssumption
<1>2. c \notin Holders /\ Holders' = Holders \cup {c}  BY GetSlotAdds
<1>3. /\ IsFiniteSet(Holders')
      /\ Cardinality(Holders') = Cardinality(Holders) + 1
      /\ Cardinality(Holders) \in Nat
  BY <1>2, FS_AddElement, FS_CardinalityType DEF Counted
<1>4. /\ global' = global + 1
      /\ byIP' = [i \in DOMAIN byIP \cup {home} |->
                     IF i = home THEN Held(i) + 1 ELSE byIP[i]]
      /\ CanAcquire(home)
  BY DEF GetSlot, Acquire
<1>5. /\ HoldersOf(home)' = HoldersOf(home) \cup {c}
      /\ c \notin HoldersOf(home)
      /\ \A ip \in IPs \ {home} : HoldersOf(ip)' = HoldersOf(ip)
  BY <1>2 DEF HoldersOf
<1>6. /\ Cardinality(HoldersOf(home)') = Cardinality(HoldersOf(home)) + 1
      /\ Cardinality(HoldersOf(home)) \in Nat
  BY <1>5, HoldersOfFinite, FS_AddElement
<1>7. MaxConnGlobal > 0 => Cardinality(Holders') <= MaxConnGlobal
  BY <1>3, <1>4, ForwardAssumption DEF Counted, CanAcquire
<1>8. ASSUME NEW ip \in IPs
      PROVE  /\ Held(ip)' = Cardinality(HoldersOf(ip)')
             /\ ip \in DOMAIN byIP' => HoldersOf(ip)' # {}
             /\ MaxConnPerIP > 0 => Cardinality(HoldersOf(ip)') <= MaxConnPerIP
  <2>1. CASE ip = home
    <3>1. Held(home)' = Held(home) + 1  BY <1>4 DEF Held
    <3>2. Held(home) = Cardinality(HoldersOf(home))  BY <1>1 DEF Counted
    <3>3. MaxConnPerIP > 0 => Held(home) < MaxConnPerIP  BY <1>4 DEF CanAcquire
    <3>4. Held(home)' = Cardinality(HoldersOf(home)')  BY <1>6, <3>1, <3>2
    <3>5. HoldersOf(home)' # {}  BY <1>5
    <3>6. MaxConnPerIP > 0 => Cardinality(HoldersOf(home)') <= MaxConnPerIP
      BY <1>6, <3>2, <3>3, ForwardAssumption
    <3>. QED  BY <2>1, <3>4, <3>5, <3>6
  <2>2. CASE ip # home
    <3>1. Held(ip)' = Held(ip) /\ (ip \in DOMAIN byIP' => ip \in DOMAIN byIP)
      BY <1>4, <2>2 DEF Held
    <3>. QED  BY <1>5, <2>2, <3>1 DEF Counted
  <2>. QED  BY <2>1, <2>2
<1>9. DOMAIN byIP' \subseteq IPs  BY <1>1, <1>4 DEF Counted
<1>. QED  BY <1>3, <1>4, <1>7, <1>8, <1>9 DEF Counted

LEMMA ReleaseSlotCounted ==
    ASSUME TypeOK, Counted, NEW c \in Conns, ReleaseSlot(c)
    PROVE  Counted'
<1>. DEFINE home == IPOf[c]
<1>1. home \in IPs  BY ForwardAssumption
<1>2. c \in Holders /\ Holders' = Holders \ {c}  BY ReleaseSlotRemoves
<1>3. /\ IsFiniteSet(Holders')
      /\ Cardinality(Holders') = Cardinality(Holders) - 1
      /\ Cardinality(Holders) \in Nat
      /\ Cardinality(Holders) > 0
  <2>1. IsFiniteSet(Holders)  BY DEF Counted
  <2>2. IsFiniteSet(Holders \ {c}) /\ Cardinality(Holders \ {c}) = Cardinality(Holders) - 1
    BY <1>2, <2>1, FS_RemoveElement
  <2>3. Cardinality(Holders) \in Nat /\ Cardinality(Holders) # 0
    BY <1>2, <2>1, FS_CardinalityType, FS_EmptySet
  <2>. QED  BY <1>2, <2>2, <2>3
<1>4. /\ global' = global - 1
      /\ byIP' = IF Held(home) > 1
                 THEN [byIP EXCEPT ![home] = @ - 1]
                 ELSE Restrict(byIP, DOMAIN byIP \ {home})
  BY <1>3 DEF ReleaseSlot, Release, Counted
<1>5. /\ HoldersOf(home)' = HoldersOf(home) \ {c}
      /\ c \in HoldersOf(home)
      /\ \A ip \in IPs \ {home} : HoldersOf(ip)' = HoldersOf(ip)
  BY <1>2 DEF HoldersOf
<1>6. /\ Cardinality(HoldersOf(home)') = Cardinality(HoldersOf(home)) - 1
      /\ Cardinality(HoldersOf(home)) \in Nat
      /\ Cardinality(HoldersOf(home)) > 0
      /\ HoldersOf(home)' = {} <=> Cardinality(HoldersOf(home)') = 0
  <2>1. IsFiniteSet(HoldersOf(home)) /\ Cardinality(HoldersOf(home)) \in Nat
    BY HoldersOfFinite
  <2>2. IsFiniteSet(HoldersOf(home) \ {c})
        /\ Cardinality(HoldersOf(home) \ {c}) = Cardinality(HoldersOf(home)) - 1
    BY <1>5, <2>1, FS_RemoveElement
  <2>3. Cardinality(HoldersOf(home)) # 0
    BY <1>5, <2>1, FS_EmptySet
  <2>4. HoldersOf(home) \ {c} = {} <=> Cardinality(HoldersOf(home) \ {c}) = 0
    BY <2>2, FS_EmptySet
  <2>. QED  BY <1>5, <2>1, <2>2, <2>3, <2>4
<1>7. MaxConnGlobal > 0 => Cardinality(Holders') <= MaxConnGlobal
  BY <1>3, ForwardAssumption DEF Counted
<1>8. Held(home) = Cardinality(HoldersOf(home))  BY <1>1 DEF Counted
<1>9. home \in DOMAIN byIP /\ byIP[home] = Held(home)
  BY <1>6, <1>8 DEF Held
<1>10. ASSUME NEW ip \in IPs
       PROVE  /\ Held(ip)' = Cardinality(HoldersOf(ip)')
              /\ ip \in DOMAIN byIP' => HoldersOf(ip)' # {}
              /\ MaxConnPerIP > 0 => Cardinality(HoldersOf(ip)') <= MaxConnPerIP
  <2>1. CASE ip = home
    <3>1. MaxConnPerIP > 0 => Cardinality(HoldersOf(home)') <= MaxConnPerIP
      BY <1>1, <1>6, ForwardAssumption DEF Counted
    <3>2. CASE Held(home) > 1
      <4>1. Held(home)' = Held(home) - 1
        BY <1>4, <1>9, <3>2 DEF Held
      <4>. QED  BY <1>6, <1>8, <2>1, <3>1, <3>2, <4>1
    <3>3. CASE ~(Held(home) > 1)
      <4>1. home \notin DOMAIN byIP'  BY <1>4, <3>3 DEF Restrict
      <4>2. Held(home)' = 0  BY <4>1 DEF Held
      <4>3. Cardinality(HoldersOf(home)) = 1  BY <1>6, <1>8, <3>3
      <4>. QED  BY <1>6, <2>1, <3>1, <4>1, <4>2, <4>3
    <3>. QED  BY <3>2, <3>3
  <2>2. CASE ip # home
    <3>1. Held(ip)' = Held(ip) /\ (ip \in DOMAIN byIP' => ip \in DOMAIN byIP)
      BY <1>4, <2>2 DEF Held, Restrict
    <3>. QED  BY <1>5, <2>2, <3>1 DEF Counted
  <2>. QED  BY <2>1, <2>2
<1>11. DOMAIN byIP' \subseteq IPs  BY <1>4 DEF Counted, Restrict
<1>. QED  BY <1>3, <1>4, <1>7, <1>10, <1>11 DEF Counted

LEMMA StepCounted == TypeOK /\ Counted /\ [Next]_vars => Counted'
<1>. SUFFICES ASSUME TypeOK, Counted, [Next]_vars PROVE Counted'  OBVIOUS
<1>1. ASSUME UNCHANGED limiter, Holders' = Holders PROVE Counted'
  BY <1>1 DEF limiter, Counted, Held, HoldersOf
<1>2. ASSUME NEW c \in Conns, Accept(c) \/ Serve(c) PROVE Counted'
  BY <1>1, <1>2, StepsElsewhere, GetSlotCounted, ReleaseSlotCounted DEF Serve
<1>3. CASE \/ \E c \in Conns : ServeUp(c) \/ Transfer(c) \/ ClientLeaves(c) \/ BackendLeaves(c)
           \/ Tick \/ CloseStop \/ Shutdown \/ UNCHANGED vars
  BY <1>1, <1>3, StepsOfOthers
<1>. QED  BY <1>2, <1>3 DEF Next

-----------------------------------------------------------------------------
LEMMA InitTypes == Init => TypeOK
<1>. SUFFICES ASSUME Init PROVE TypeOK  OBVIOUS
<1>1. 0 \in 0 .. IdleTimeout  BY ForwardAssumption
<1>2. DOMAIN byIP = {} /\ byIP \in [DOMAIN byIP -> Nat]  BY DEF Init
<1>. QED  BY <1>1, <1>2 DEF Init, TypeOK, Labels

LEMMA StepTypes == TypeOK /\ [Next]_vars => TypeOK'
<1>. SUFFICES ASSUME TypeOK, [Next]_vars PROVE TypeOK'  OBVIOUS
<1>. USE ForwardAssumption DEF TypeOK, Labels, Goto, Close, limiter, sockets, peers,
         clocks, port
<1>1. ASSUME NEW c \in Conns, Accept(c) PROVE TypeOK'
  BY <1>1 DEF Accept
<1>2. ASSUME NEW c \in Conns, Admit(c) PROVE TypeOK'
  BY <1>2 DEF Admit
<1>3. ASSUME NEW c \in Conns, TurnAway(c) PROVE TypeOK'
  BY <1>3 DEF TurnAway
<1>4. ASSUME NEW c \in Conns, Drop(c) PROVE TypeOK'
  BY <1>4 DEF Drop
<1>5. ASSUME NEW c \in Conns, GetSlot(c) PROVE TypeOK'
  BY <1>5 DEF GetSlot, Acquire, Held
<1>6. ASSUME NEW c \in Conns, NoSlot(c) PROVE TypeOK'
  BY <1>6 DEF NoSlot
<1>7. ASSUME NEW c \in Conns, DialFails(c) PROVE TypeOK'
  BY <1>7 DEF DialFails
<1>8. ASSUME NEW c \in Conns, DialSucceeds(c) PROVE TypeOK'
  BY <1>8 DEF DialSucceeds
<1>9. ASSUME NEW c \in Conns, EndDown(c) PROVE TypeOK'
  BY <1>9 DEF EndDown
<1>10. ASSUME NEW c \in Conns, ReturnDown(c) PROVE TypeOK'
  BY <1>10 DEF ReturnDown
<1>11. ASSUME NEW c \in Conns, ReleaseSlot(c) PROVE TypeOK'
  BY <1>11 DEF ReleaseSlot, Release, Held, Restrict
<1>12. ASSUME NEW c \in Conns, EndUp(c) PROVE TypeOK'
  BY <1>12 DEF EndUp
<1>13. ASSUME NEW c \in Conns, ReturnUp(c) PROVE TypeOK'
  BY <1>13 DEF ReturnUp
<1>14. ASSUME NEW c \in Conns, Transfer(c) PROVE TypeOK'
  BY <1>14 DEF Transfer
<1>15. ASSUME NEW c \in Conns, ClientLeaves(c) PROVE TypeOK'
  BY <1>15 DEF ClientLeaves
<1>16. ASSUME NEW c \in Conns, BackendLeaves(c) PROVE TypeOK'
  BY <1>16 DEF BackendLeaves
<1>17. CASE Tick
  BY <1>17 DEF Tick
<1>18. CASE CloseStop
  BY <1>18 DEF CloseStop
<1>19. CASE Shutdown
  BY <1>19 DEF Shutdown, CloseListener, AcceptorExits, RefresherExits, CloseDone, Exits
<1>20. CASE UNCHANGED vars
  BY <1>20 DEF vars
<1>. QED
  BY <1>1, <1>2, <1>3, <1>4, <1>5, <1>6, <1>7, <1>8, <1>9, <1>10, <1>11, <1>12, <1>13, <1>14, <1>15, <1>16, <1>17, <1>18, <1>19, <1>20
     DEF Next, Serve, ServeUp

-----------------------------------------------------------------------------
\* Where a connection's sockets are, by where its goroutine is: the backend
\* is open only while the goroutine copies, and nothing is open once it
\* has closed both.
SocketsFollow ==
    \A c \in Conns :
        /\ task[c] \in {"away", "accepted", "dropping", "spawned", "dialing"}
               => back[c] = "none" /\ up[c] = "off"
        /\ back[c] = "open" => task[c] = "copying"
        /\ task[c] \in {"releasing", "done"} => front[c] = "closed"

LEMMA StepSockets == TypeOK /\ SocketsFollow /\ [Next]_vars => SocketsFollow'
<1>. SUFFICES ASSUME TypeOK, SocketsFollow, [Next]_vars PROVE SocketsFollow'  OBVIOUS
<1>. USE DEF TypeOK, SocketsFollow, Labels, Goto, Close, sockets
<1>1. ASSUME NEW c \in Conns, Accept(c) PROVE SocketsFollow'
  BY <1>1 DEF Accept
<1>2. ASSUME NEW c \in Conns, Admit(c) PROVE SocketsFollow'
  BY <1>2 DEF Admit
<1>3. ASSUME NEW c \in Conns, TurnAway(c) PROVE SocketsFollow'
  BY <1>3 DEF TurnAway
<1>4. ASSUME NEW c \in Conns, Drop(c) PROVE SocketsFollow'
  BY <1>4 DEF Drop
<1>5. ASSUME NEW c \in Conns, GetSlot(c) PROVE SocketsFollow'
  BY <1>5 DEF GetSlot
<1>6. ASSUME NEW c \in Conns, NoSlot(c) PROVE SocketsFollow'
  BY <1>6 DEF NoSlot
<1>7. ASSUME NEW c \in Conns, DialFails(c) PROVE SocketsFollow'
  BY <1>7 DEF DialFails
<1>8. ASSUME NEW c \in Conns, DialSucceeds(c) PROVE SocketsFollow'
  BY <1>8 DEF DialSucceeds
<1>9. ASSUME NEW c \in Conns, EndDown(c) PROVE SocketsFollow'
  BY <1>9 DEF EndDown
<1>10. ASSUME NEW c \in Conns, ReturnDown(c) PROVE SocketsFollow'
  BY <1>10 DEF ReturnDown
<1>11. ASSUME NEW c \in Conns, ReleaseSlot(c) PROVE SocketsFollow'
  BY <1>11 DEF ReleaseSlot
<1>12. ASSUME NEW c \in Conns, EndUp(c) PROVE SocketsFollow'
  BY <1>12 DEF EndUp
<1>13. ASSUME NEW c \in Conns, ReturnUp(c) PROVE SocketsFollow'
  BY <1>13 DEF ReturnUp
<1>14. ASSUME NEW c \in Conns, Transfer(c) PROVE SocketsFollow'
  BY <1>14 DEF Transfer
<1>15. ASSUME NEW c \in Conns, ClientLeaves(c) PROVE SocketsFollow'
  BY <1>15 DEF ClientLeaves
<1>16. ASSUME NEW c \in Conns, BackendLeaves(c) PROVE SocketsFollow'
  BY <1>16 DEF BackendLeaves
<1>17. CASE Tick \/ CloseStop \/ Shutdown \/ UNCHANGED vars
  BY <1>17 DEF Tick, CloseStop, Shutdown, CloseListener, AcceptorExits,
     RefresherExits, CloseDone, Exits, vars
<1>. QED
  BY <1>1, <1>2, <1>3, <1>4, <1>5, <1>6, <1>7, <1>8, <1>9, <1>10, <1>11, <1>12, <1>13, <1>14, <1>15, <1>16, <1>17
     DEF Next, Serve, ServeUp

\* The acceptor has returned when done is closed, and nobody starts another.
Stopped == done => "acceptor" \notin running

LEMMA StepStopped == Stopped /\ [Next]_vars => Stopped'
<1>. SUFFICES ASSUME Stopped, [Next]_vars PROVE Stopped'  OBVIOUS
<1>1. CASE UNCHANGED port
  BY <1>1 DEF Stopped, port
<1>2. CASE CloseStop
  BY <1>2 DEF Stopped, CloseStop
<1>3. CASE Shutdown
  BY <1>3 DEF Stopped, Shutdown, CloseListener, AcceptorExits, RefresherExits,
     CloseDone, Exits
<1>. QED
  BY <1>1, <1>2, <1>3 DEF Next, Serve, ServeUp, Accept, Admit, TurnAway, Drop, GetSlot,
     NoSlot, DialFails, DialSucceeds, EndDown, ReturnDown, ReleaseSlot, EndUp, ReturnUp,
     Transfer, ClientLeaves, BackendLeaves, Tick, vars, port

-----------------------------------------------------------------------------
PortInv == TypeOK /\ Counted /\ SocketsFollow /\ Stopped

LEMMA InitPort == Init => PortInv
<1>. SUFFICES ASSUME Init PROVE PortInv  OBVIOUS
<1>1. Holders = {}  BY DEF Init, Holders, HoldsSlot
<1>2. \A ip \in IPs : HoldersOf(ip) = {} /\ Held(ip) = 0
  BY <1>1 DEF Init, HoldersOf, Held
<1>3. IsFiniteSet({}) /\ Cardinality({}) = 0  BY FS_EmptySet
<1>4. Counted
  <2>1. global = 0 /\ DOMAIN byIP = {}  BY DEF Init
  <2>2. MaxConnGlobal > 0 => Cardinality(Holders) <= MaxConnGlobal
    BY <1>1, <1>3, ForwardAssumption
  <2>3. ASSUME NEW ip \in IPs
        PROVE  /\ Held(ip) = Cardinality(HoldersOf(ip))
               /\ MaxConnPerIP > 0 => Cardinality(HoldersOf(ip)) <= MaxConnPerIP
    BY <1>2, <1>3, ForwardAssumption
  <2>. QED  BY <1>1, <1>3, <2>1, <2>2, <2>3 DEF Counted
<1>5. SocketsFollow /\ Stopped  BY DEF Init, SocketsFollow, Stopped
<1>. QED  BY <1>4, <1>5, InitTypes DEF PortInv

LEMMA StepPort == PortInv /\ [Next]_vars => PortInv'
BY StepTypes, StepCounted, StepSockets, StepStopped DEF PortInv

\* Every variable keeps its type.
THEOREM PortTypeCorrect == Spec => []TypeOK
<1>1. PortInv => TypeOK  BY DEF PortInv
<1>. QED  BY InitPort, StepPort, <1>1, PTL DEF Spec

\* A slot is taken once and given back once, on every path a connection's
\* goroutine can take.
THEOREM SlotsCounted == Spec => []SlotsExact
<1>1. PortInv => SlotsExact
  <2>1. \A ip : {c \in Conns : HoldsSlot(c) /\ IPOf[c] = ip} = HoldersOf(ip)
    BY DEF Holders, HoldersOf
  <2>. QED  BY <2>1 DEF PortInv, Counted, SlotsExact, Holders
<1>. QED  BY InitPort, StepPort, <1>1, PTL DEF Spec

\* The limits bound the connections open to the forward address.
THEOREM LimitsProtectBackend == Spec => []BackendWithinLimits
<1>1. PortInv => BackendWithinLimits
  <2>. SUFFICES ASSUME PortInv PROVE BackendWithinLimits  OBVIOUS
  <2>. DEFINE open == {c \in Conns : back[c] = "open"}
  <2>1. open \subseteq Holders
    BY DEF PortInv, SocketsFollow, Holders, HoldsSlot
  <2>2. MaxConnGlobal > 0 => Cardinality(open) <= MaxConnGlobal
    <3>1. /\ Cardinality(open) \in Nat /\ Cardinality(Holders) \in Nat
          /\ Cardinality(open) <= Cardinality(Holders)
      BY <2>1, FS_Subset, FS_CardinalityType DEF PortInv, Counted
    <3>. QED  BY <3>1, ForwardAssumption DEF PortInv, Counted
  <2>3. ASSUME NEW ip \in IPs, MaxConnPerIP > 0
        PROVE  Cardinality({c \in open : IPOf[c] = ip}) <= MaxConnPerIP
    <3>. DEFINE mine == {c \in open : IPOf[c] = ip}
    <3>1. mine \subseteq HoldersOf(ip)  BY <2>1 DEF HoldersOf
    <3>2. IsFiniteSet(HoldersOf(ip)) /\ Cardinality(HoldersOf(ip)) \in Nat
      BY HoldersOfFinite DEF PortInv
    <3>3. Cardinality(mine) \in Nat /\ Cardinality(mine) <= Cardinality(HoldersOf(ip))
      BY <3>1, <3>2, FS_Subset, FS_CardinalityType
    <3>. QED  BY <2>3, <3>2, <3>3, ForwardAssumption DEF PortInv, Counted
  <2>. QED  BY <2>2, <2>3 DEF BackendWithinLimits
<1>. QED  BY InitPort, StepPort, <1>1, PTL DEF Spec

\* A connection's goroutine never returns with a socket left open.
THEOREM SocketsClosed == Spec => []NothingLeaks
<1>1. PortInv => NothingLeaks
  BY DEF PortInv, SocketsFollow, NothingLeaks
<1>. QED  BY InitPort, StepPort, <1>1, PTL DEF Spec

\* No connection is accepted once done is closed.
THEOREM DoneMeansDone == Spec => NothingAcceptedAfterDone
<1>1. PortInv /\ [Next]_vars => [AcceptsNone]_vars
  <2>. SUFFICES ASSUME PortInv, [Next]_vars, done, NEW c \in Conns, task[c] = "away"
                PROVE  task'[c] = "away"
    BY DEF AcceptsNone
  <2>1. \A d \in Conns : ~Accept(d)
    BY DEF PortInv, Stopped, Accept
  <2>2. ASSUME NEW d \in Conns, Serve(d) PROVE task'[c] = "away"
    BY <2>2 DEF Serve, Admit, TurnAway, Drop, GetSlot, NoSlot, DialFails, DialSucceeds,
       EndDown, ReturnDown, ReleaseSlot, Goto, PortInv, TypeOK
  <2>3. CASE UNCHANGED task
    BY <2>3
  <2>. QED
    BY <2>1, <2>2, <2>3, StepsOfOthers DEF Next, PortInv
<1>. QED  BY InitPort, StepPort, <1>1, PTL DEF Spec, NothingAcceptedAfterDone
-----------------------------------------------------------------------------
\* The pool's module has its own copy of Cardinality, which is the same.
LEMMA SamePoolCardinality == \A S : Pool!Cardinality(S) = Cardinality(S)
BY DEF Pool!Cardinality, Cardinality

\* The counters tell whether the pool has room.
LEMMA CountersTellRoom ==
    ASSUME Counted, NEW c \in Conns
    PROVE  CanAcquire(IPOf[c]) <=> Pool!Room(c)
<1>. DEFINE home == IPOf[c]
<1>1. home \in IPs  BY ForwardAssumption
<1>2. {d \in Holders : IPOf[d] = home} = HoldersOf(home)  BY DEF HoldersOf
<1>3. global = Pool!Cardinality(Holders)
  BY SamePoolCardinality DEF Counted
<1>4. Held(home) = Pool!Cardinality(HoldersOf(home))
  BY <1>1, SamePoolCardinality DEF Counted
<1>. QED  BY <1>2, <1>3, <1>4 DEF CanAcquire, Pool!Room

LEMMA StepOfPool ==
    ASSUME PortInv, [Next]_vars
    PROVE  [Pool!Next]_(Pool!vars)
<1>. USE DEF PortInv, Pool!vars
<1>1. ASSUME NEW c \in Conns, Admit(c) PROVE Pool!Ask(c)
  <2>1. Holders' = Holders  BY <1>1, StepsElsewhere
  <2>2. c \notin Asking \cup Holders /\ Asking' = Asking \cup {c}
    BY <1>1 DEF Admit, Goto, Asking, Holders, HoldsSlot, TypeOK
  <2>. QED  BY <2>1, <2>2 DEF Pool!Ask
<1>2. ASSUME NEW c \in Conns, GetSlot(c) PROVE Pool!Take(c)
  <2>1. Holders' = Holders \cup {c}  BY <1>2, GetSlotAdds
  <2>2. c \in Asking /\ Asking' = Asking \ {c}
    BY <1>2 DEF GetSlot, Goto, Asking, TypeOK
  <2>3. Pool!Room(c)  BY <1>2, CountersTellRoom DEF GetSlot
  <2>. QED  BY <2>1, <2>2, <2>3 DEF Pool!Take
<1>3. ASSUME NEW c \in Conns, NoSlot(c) PROVE Pool!Refuse(c)
  <2>1. Holders' = Holders  BY <1>3, StepsElsewhere
  <2>2. c \in Asking /\ Asking' = Asking \ {c}
    BY <1>3 DEF NoSlot, Goto, Asking, TypeOK
  <2>3. ~Pool!Room(c)  BY <1>3, CountersTellRoom DEF NoSlot
  <2>. QED  BY <2>1, <2>2, <2>3 DEF Pool!Refuse
<1>4. ASSUME NEW c \in Conns, ReleaseSlot(c) PROVE Pool!Return(c)
  <2>1. c \in Holders /\ Holders' = Holders \ {c}  BY <1>4, ReleaseSlotRemoves
  <2>2. Asking' = Asking
    BY <1>4 DEF ReleaseSlot, Goto, Asking, TypeOK
  <2>. QED  BY <2>1, <2>2 DEF Pool!Return
<1>5. ASSUME NEW c \in Conns,
             \/ Accept(c) \/ TurnAway(c) \/ Drop(c)
             \/ DialFails(c) \/ DialSucceeds(c) \/ EndDown(c) \/ ReturnDown(c)
      PROVE  UNCHANGED Pool!vars
  <2>1. Holders' = Holders  BY <1>5, StepsElsewhere
  <2>2. Asking' = Asking
    BY <1>5 DEF Accept, TurnAway, Drop, DialFails, DialSucceeds, EndDown, ReturnDown,
       Goto, Asking, TypeOK
  <2>. QED  BY <2>1, <2>2
<1>6. CASE \/ \E c \in Conns : ServeUp(c) \/ Transfer(c) \/ ClientLeaves(c) \/ BackendLeaves(c)
           \/ Tick \/ CloseStop \/ Shutdown \/ UNCHANGED vars
  <2>1. UNCHANGED task /\ Holders' = Holders  BY <1>6, StepsOfOthers
  <2>. QED  BY <2>1 DEF Asking
<1>. QED
  BY <1>1, <1>2, <1>3, <1>4, <1>5, <1>6 DEF Next, Serve, Pool!Next

\* The limiter implements the pool: no connection is refused while there is a
\* slot for it, none is admitted when there is not.
THEOREM PortImplementsPool == Spec => ImplementsSlotPool
<1>1. Init => Pool!Init
  BY DEF Init, Pool!Init, Asking, Holders, HoldsSlot
<1>. QED
  BY <1>1, InitPort, StepPort, StepOfPool, PTL DEF Spec, ImplementsSlotPool, Pool!Spec

-----------------------------------------------------------------------------
\* The composition: every step of a gateway is one of its port or leaves the
\* port alone, and one of its grants or leaves the grants alone.
LEMMA GatewayStepOfPort ==
    ASSUME [GatewayNext]_gatewayVars
    PROVE  [Next]_vars
BY DEF GatewayNext, gatewayVars, Authorize, Decide, ServePort, GatewayTick, Next,
       Serve, ServeUp

LEMMA GatewayStepOfGrants ==
    ASSUME [GatewayNext]_gatewayVars
    PROVE  [AW!Next]_(AW!vars)
<1>. USE DEF grantVars, AW!vars, AW!Next
<1>1. ASSUME NEW c \in Clients, Authorize(c) PROVE AW!Next
  BY <1>1 DEF Authorize, AW!Requests
<1>2. ASSUME NEW c \in Conns, Decide(c) PROVE AW!Next
  <2>1. IPOf[c] \in IPs  BY ForwardAssumption
  <2>. QED  BY <1>2, <2>1 DEF Decide
<1>3. ASSUME NEW c \in Conns, ServePort(c) PROVE UNCHANGED AW!vars
  BY <1>3 DEF ServePort
<1>4. CASE GatewayTick
  BY <1>4 DEF GatewayTick
<1>5. CASE UNCHANGED gatewayVars
  BY <1>5 DEF gatewayVars
<1>. QED  BY <1>1, <1>2, <1>3, <1>4, <1>5 DEF GatewayNext

\* The port behind the grants is the port: what is proved of Forward holds
\* in it.
THEOREM GatewayImplementsPort == GatewaySpec => Init /\ [][Next]_vars
<1>1. GatewayInit => Init  BY DEF GatewayInit
<1>. QED  BY <1>1, GatewayStepOfPort, PTL DEF GatewaySpec

\* Its grants are given and run as AccessWindow promises, whatever the
\* port does with them.
THEOREM GatewayImplementsGrants == GatewaySpec => AW!Spec
<1>1. GatewayInit => AW!Init  BY DEF GatewayInit
<1>. QED  BY <1>1, GatewayStepOfGrants, PTL DEF GatewaySpec, AW!Spec

THEOREM GatewayPort == GatewaySpec => []PortInv
<1>1. GatewayInit => PortInv  BY InitPort DEF GatewayInit
<1>2. PortInv /\ [GatewayNext]_gatewayVars => PortInv'
  BY GatewayStepOfPort, StepPort
<1>. QED  BY <1>1, <1>2, PTL DEF GatewaySpec

-----------------------------------------------------------------------------
\* How long an address can have been without access, by where a connection
\* of it is: it had access when the connection was admitted, and since then
\* only a dial and a copy have taken time.
Lasting(c) ==
    /\ task[c] = "dialing" => gone[IPOf[c]] <= dialed[c] /\ dialed[c] <= DialTimeout
    /\ task[c] = "copying" => gone[IPOf[c]] <= DialTimeout + age[c]
    /\ task[c] \in {"closing", "releasing"} => gone[IPOf[c]] <= Lapse

ElapsedTypes ==
    /\ dialed \in [Conns -> Nat]
    /\ gone \in [IPs -> Nat]

AccessIsNow == \A ip \in IPs : HasAccess(ip) => gone[ip] = 0

Admitted ==
    \A c \in Conns :
        /\ task[c] \in {"away", "accepted", "spawned"} => dialed[c] = 0
        /\ task[c] = "spawned" => gone[IPOf[c]] = 0

Elapsed ==
    /\ ElapsedTypes
    /\ AccessIsNow
    /\ Admitted
    /\ IdleTimeout > 0 /\ DialTimeout > 0 => \A c \in Conns : Lasting(c)

LEMMA LapseType == Lapse \in Nat
BY ForwardAssumption, GatewayAssumption DEF Lapse

LEMMA InitElapsed == GatewayInit => Elapsed
<1>. SUFFICES ASSUME GatewayInit PROVE Elapsed  OBVIOUS
<1>. USE LapseType
<1>1. \A c \in Conns : task[c] = "away" /\ dialed[c] = 0
  BY DEF GatewayInit, Init
<1>2. ElapsedTypes /\ AccessIsNow
  BY DEF GatewayInit, ElapsedTypes, AccessIsNow
<1>. QED  BY <1>1, <1>2 DEF Elapsed, Admitted, Lasting

\* An answer to a client takes no time and leaves nobody longer without
\* access.
LEMMA GrantElapsed ==
    ASSUME TypeOK, Elapsed, NEW c \in Clients, Authorize(c)
    PROVE  Elapsed'
<1>1. UNCHANGED <<task, age, dialed>>  BY DEF Authorize, vars
<1>2. ElapsedTypes' /\ AccessIsNow'
  BY <1>1 DEF Authorize, Elapsed, ElapsedTypes, AccessIsNow
<1>3. \A ip \in IPs : gone'[ip] <= gone[ip] /\ (gone[ip] = 0 => gone'[ip] = 0)
  BY DEF Authorize, Elapsed, ElapsedTypes
<1>4. \A d \in Conns :
          IPOf[d] \in IPs /\ gone[IPOf[d]] \in Nat /\ gone'[IPOf[d]] \in Nat
  BY <1>2, ForwardAssumption DEF Elapsed, ElapsedTypes
<1>5. Admitted'  BY <1>1, <1>3, <1>4 DEF Elapsed, Admitted
<1>6. ASSUME IdleTimeout > 0 /\ DialTimeout > 0, NEW d \in Conns PROVE Lasting(d)'
  BY <1>1, <1>3, <1>4, <1>6, LapseType, ForwardAssumption, GatewayAssumption
     DEF Elapsed, ElapsedTypes, Lasting, Lapse, TypeOK
<1>. QED  BY <1>2, <1>5, <1>6 DEF Elapsed
\* The acceptor admits a connection only from an address that has access.
LEMMA DecideElapsed ==
    ASSUME TypeOK, Elapsed, NEW c \in Conns, Decide(c)
    PROVE  Elapsed'
<1>. IPOf[c] \in IPs  BY ForwardAssumption
<1>1. UNCHANGED <<age, window, dialed, gone>>
  BY DEF Decide, AW!Dial, Admit, TurnAway, clocks
<1>2. ElapsedTypes' /\ AccessIsNow'
  BY <1>1 DEF Elapsed, ElapsedTypes, AccessIsNow, HasAccess
<1>3. CASE Admit(c) /\ HasAccess(IPOf[c])
  <2>1. task' = [task EXCEPT ![c] = "spawned"] /\ task[c] = "accepted"
    BY <1>3 DEF Admit, Goto
  <2>2. gone[IPOf[c]] = 0  BY <1>3 DEF Elapsed, AccessIsNow
  <2>. QED  BY <1>1, <1>2, <2>1, <2>2 DEF Elapsed, Admitted, Lasting, TypeOK
<1>4. CASE TurnAway(c)
  <2>1. \E label \in {"dropping", "done"} : task' = [task EXCEPT ![c] = label]
    BY <1>4 DEF TurnAway, Goto
  <2>. QED  BY <1>1, <1>2, <2>1 DEF Elapsed, Admitted, Lasting, TypeOK
<1>5. reply'.ok => HasAccess(IPOf[c])
  BY DEF Decide, AW!Dial, AW!Dialed, HasAccess
<1>. QED  BY <1>3, <1>4, <1>5 DEF Decide

\* The other steps of a connection take no time either: each hands what it
\* has lasted so far to the next.
LEMMA ServeElapsed ==
    ASSUME TypeOK, Elapsed, NEW c \in Conns, ServePort(c)
    PROVE  Elapsed'
<1>. IPOf[c] \in IPs  BY ForwardAssumption
<1>. USE ForwardAssumption, GatewayAssumption
<1>1. UNCHANGED <<window, dialed, gone>>
  BY DEF ServePort, grantVars
<1>2. ElapsedTypes' /\ AccessIsNow'
  BY <1>1 DEF Elapsed, ElapsedTypes, AccessIsNow, HasAccess
<1>3. CASE UNCHANGED <<task, age>>
  BY <1>1, <1>2, <1>3 DEF Elapsed, Admitted, Lasting
<1>4. CASE Accept(c)
  <2>1. task' = [task EXCEPT ![c] = "accepted"] /\ task[c] = "away" /\ UNCHANGED age
    BY <1>4 DEF Accept, Goto, clocks
  <2>. QED  BY <1>1, <1>2, <2>1 DEF Elapsed, Admitted, Lasting, TypeOK
<1>5. CASE GetSlot(c)
  <2>1. task' = [task EXCEPT ![c] = "dialing"] /\ task[c] = "spawned" /\ UNCHANGED age
    BY <1>5 DEF GetSlot, Goto, clocks
  <2>2. gone[IPOf[c]] = 0 /\ dialed[c] = 0  BY <2>1 DEF Elapsed, Admitted
  <2>. QED  BY <1>1, <1>2, <2>1, <2>2 DEF Elapsed, Admitted, Lasting, TypeOK
<1>6. CASE DialSucceeds(c)
  <2>1. /\ task' = [task EXCEPT ![c] = "copying"] /\ task[c] = "dialing"
        /\ age' = [age EXCEPT ![c] = 0]
    BY <1>6 DEF DialSucceeds, Goto
  <2>2. Admitted'  BY <1>1, <2>1 DEF Elapsed, Admitted, TypeOK
  <2>3. ASSUME IdleTimeout > 0 /\ DialTimeout > 0, NEW d \in Conns PROVE Lasting(d)'
    <3>1. gone[IPOf[d]] \in Nat /\ dialed[d] \in Nat  BY DEF Elapsed, ElapsedTypes
    <3>2. Lasting(c) /\ Lasting(d)  BY <2>3 DEF Elapsed
    <3>. QED  BY <1>1, <2>1, <3>1, <3>2 DEF Lasting, TypeOK
  <2>. QED  BY <1>2, <2>2, <2>3 DEF Elapsed
<1>7. CASE DialFails(c) \/ EndDown(c) \/ ReturnDown(c)
  <2>1. PICK label \in {"closing", "releasing"} :
            /\ task' = [task EXCEPT ![c] = label]
            /\ task[c] \in {"dialing", "copying", "closing"}
            /\ UNCHANGED age
    BY <1>7 DEF DialFails, EndDown, ReturnDown, Goto, clocks
  <2>2. Admitted'  BY <1>1, <2>1 DEF Elapsed, Admitted, TypeOK
  <2>3. ASSUME IdleTimeout > 0 /\ DialTimeout > 0, NEW d \in Conns PROVE Lasting(d)'
    <3>1. Lasting(c) /\ Lasting(d)  BY <2>3 DEF Elapsed
    <3>2. gone[IPOf[c]] \in Nat /\ dialed[c] \in Nat /\ age[c] \in 0 .. IdleTimeout
      BY DEF Elapsed, ElapsedTypes, TypeOK
    <3>3. gone[IPOf[c]] <= Lapse
      BY <2>1, <3>1, <3>2 DEF Lasting, Lapse
    <3>. QED  BY <1>1, <2>1, <3>1, <3>3 DEF Lasting, TypeOK
  <2>. QED  BY <1>2, <2>2, <2>3 DEF Elapsed
<1>8. CASE Drop(c) \/ NoSlot(c) \/ ReleaseSlot(c)
  <2>1. task' = [task EXCEPT ![c] = "done"] /\ UNCHANGED age
    BY <1>8 DEF Drop, NoSlot, ReleaseSlot, Goto, clocks
  <2>. QED  BY <1>1, <1>2, <2>1 DEF Elapsed, Admitted, Lasting, TypeOK
<1>9. EndUp(c) \/ ReturnUp(c) \/ Transfer(c) \/ ClientLeaves(c) \/ BackendLeaves(c)
          => UNCHANGED <<task, age>>
  BY DEF EndUp, ReturnUp, Transfer, ClientLeaves, BackendLeaves, clocks
<1>. QED  BY <1>3, <1>4, <1>5, <1>6, <1>7, <1>8, <1>9 DEF ServePort

\* Time ages an absence, but with it the dial or the copy it is bounded by;
\* what has neither does not let time pass.
LEMMA TickElapsed ==
    ASSUME TypeOK, Elapsed, GatewayTick
    PROVE  Elapsed'
<1>. USE ForwardAssumption, GatewayAssumption, LapseType
<1>1. task' = task  BY DEF GatewayTick, Tick
<1>2. ElapsedTypes' /\ AccessIsNow'
  BY DEF GatewayTick, Elapsed, ElapsedTypes, AccessIsNow
<1>3. \A ip \in IPs : gone'[ip] <= gone[ip] + 1
  BY DEF GatewayTick, Elapsed, ElapsedTypes
<1>4. ASSUME NEW c \in Conns
      PROVE  /\ task[c] \in {"away", "dropping", "dialing", "copying", "done", "accepted",
                             "spawned", "closing", "releasing"}
             /\ task[c] \notin {"accepted", "spawned", "closing", "releasing"}
             /\ task[c] = "away" => dialed'[c] = dialed[c]
  BY DEF GatewayTick, Settled, Elapsed, ElapsedTypes
<1>5. Admitted'  BY <1>1, <1>4 DEF Elapsed, Admitted
<1>6. ASSUME IdleTimeout > 0 /\ DialTimeout > 0, NEW c \in Conns PROVE Lasting(c)'
  <2>. IPOf[c] \in IPs  OBVIOUS
  <2>1. Lasting(c)  BY <1>6 DEF Elapsed
  <2>2. /\ gone[IPOf[c]] \in Nat /\ gone'[IPOf[c]] \in Nat
        /\ gone'[IPOf[c]] <= gone[IPOf[c]] + 1
        /\ dialed[c] \in Nat
        /\ age[c] \in 0 .. IdleTimeout
    BY <1>2, <1>3 DEF Elapsed, ElapsedTypes, TypeOK
  <2>3. CASE task[c] = "dialing"
    <3>1. dialed[c] < DialTimeout
      BY <1>6, <2>3 DEF GatewayTick, Settled, DialMayLast
    <3>2. dialed'[c] = dialed[c] + 1
      BY <2>3, <3>1 DEF GatewayTick
    <3>. QED  BY <1>1, <2>1, <2>2, <2>3, <3>1, <3>2 DEF Lasting
  <2>4. CASE task[c] = "copying"
    <3>1. age[c] # IdleTimeout
      BY <1>6, <2>4 DEF GatewayTick, Settled, CopyEnds, Expired
    <3>2. age'[c] = age[c] + 1
      BY <2>2, <2>4, <3>1 DEF GatewayTick, Tick
    <3>. QED  BY <1>1, <2>1, <2>2, <2>4, <3>2 DEF Lasting
  <2>5. CASE task[c] \notin {"dialing", "copying"}
    BY <1>1, <1>4, <2>5 DEF Lasting
  <2>. QED  BY <2>3, <2>4, <2>5
<1>. QED  BY <1>2, <1>5, <1>6 DEF Elapsed

LEMMA StepElapsed ==
    ASSUME TypeOK, Elapsed, [GatewayNext]_gatewayVars
    PROVE  Elapsed'
<1>1. ASSUME UNCHANGED gatewayVars PROVE Elapsed'
  BY <1>1 DEF gatewayVars, grantVars, vars, Elapsed, ElapsedTypes, AccessIsNow, HasAccess,
     Admitted, Lasting
<1>. QED  BY <1>1, GrantElapsed, DecideElapsed, ServeElapsed, TickElapsed DEF GatewayNext

\* A connection to the backend, and its slot, outlive the access of the
\* address by no more than a dial and a deadline.
THEOREM AccessBounded == GatewaySpec => []AccessEnds
<1>1. PortInv /\ Elapsed => AccessEnds
  <2>. SUFFICES ASSUME PortInv, Elapsed, IdleTimeout > 0 /\ DialTimeout > 0,
                       NEW c \in Conns, back[c] = "open" \/ HoldsSlot(c)
                PROVE  gone[IPOf[c]] <= Lapse
    BY DEF AccessEnds
  <2>1. HoldsSlot(c)  BY DEF PortInv, SocketsFollow, HoldsSlot
  <2>2. Lasting(c)  BY DEF Elapsed
  <2>3. gone[IPOf[c]] \in Nat /\ dialed[c] \in Nat /\ age[c] \in 0 .. IdleTimeout
    BY ForwardAssumption DEF Elapsed, ElapsedTypes, PortInv, TypeOK
  <2>. QED
    BY <2>1, <2>2, <2>3, ForwardAssumption, GatewayAssumption DEF HoldsSlot, Lasting, Lapse
<1>2. PortInv => TypeOK  BY DEF PortInv
<1>3. GatewayInit => Elapsed  BY InitElapsed
<1>4. PortInv /\ Elapsed /\ [GatewayNext]_gatewayVars => Elapsed'
  BY <1>2, StepElapsed
<1>. QED  BY <1>1, <1>3, <1>4, GatewayPort, PTL DEF GatewaySpec
=============================================================================
