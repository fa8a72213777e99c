-------------------------- MODULE LifecycleProofs --------------------------
(***************************************************************************)
(* The safety of the server's start for every number of forwards.          *)
(***************************************************************************)
EXTENDS Lifecycle, TLAPS

\* The starter makes the list before it opens the socket, and what reads the
\* socket is started with it.
ListFirst ==
    /\ starter # AtList => listReady
    /\ udp # "none" \/ running # {} => starter # AtList

LifecycleInv == TypeOK /\ ListFirst /\ NeverPanics

LEMMA LifecycleInit == Init => LifecycleInv
  <1> SUFFICES ASSUME Init PROVE LifecycleInv
    OBVIOUS
  <1>1. starter \in AtList .. Started
    BY LifecycleAssumption DEF Init, AtList, Started
  <1>2. TypeOK
    BY <1>1 DEF Init, TypeOK
  <1>3. ListFirst /\ NeverPanics
    BY DEF Init, ListFirst, NeverPanics
  <1>4. QED
    BY <1>2, <1>3 DEF LifecycleInv

LEMMA StarterStep ==
    ASSUME LifecycleInv, InitClientList \/ WaitForAuth \/ \E i \in Forwards : StartForward(i)
    PROVE  LifecycleInv'
  <1> USE LifecycleAssumption
      DEF LifecycleInv, ListFirst, NeverPanics, AtList, AtAuth, AtForward, Started,
          Forwards, world, channels, startup, auth
  <1>1. CASE InitClientList
    <2>1. starter' \in AtList .. Started
      BY <1>1 DEF InitClientList
    <2>2. QED
      BY <1>1, <2>1 DEF InitClientList, TypeOK
  <1>2. CASE WaitForAuth
    <2>1. starter' \in AtList .. Started /\ starter' # AtList
      BY <1>2 DEF WaitForAuth
    <2>2. TypeOK'
      BY <1>2, <2>1 DEF WaitForAuth, StartListener, TypeOK
    <2>3. ListFirst' /\ NeverPanics'
      BY <1>2, <2>1 DEF WaitForAuth, StartListener
    <2>4. QED
      BY <2>2, <2>3
  <1>3. CASE \E i \in Forwards : StartForward(i)
    <2>1. PICK i \in Forwards : StartForward(i)
      BY <1>3
    <2>2. TypeOK'
      <3>1. starter' \in AtList .. Started
        BY <2>1 DEF StartForward
      <3>2. bound' \in [Forwards -> {"untried", "listening", "failed"}]
        BY <2>1 DEF StartForward, TypeOK
      <3>3. QED
        BY <2>1, <3>1, <3>2 DEF StartForward, TypeOK
    <2>3. ListFirst' /\ NeverPanics'
      BY <2>1 DEF StartForward, TypeOK
    <2>4. QED
      BY <2>2, <2>3
  <1>4. QED
    BY <1>1, <1>2, <1>3

\* The reader finds the list when it needs it.
LEMMA ReaderStep ==
    ASSUME LifecycleInv, HandlePacket \/ SkipEmpty \/ ReadFails \/ Arrive,
           process = "up"
    PROVE  LifecycleInv'
  <1> USE DEF LifecycleInv, ListFirst, NeverPanics, Receives, Reading,
              world, channels, startup, auth
  <1>1. CASE HandlePacket
    <2>1. listReady
      BY <1>1 DEF HandlePacket
    <2>2. QED
      BY <1>1, <2>1 DEF HandlePacket, TypeOK
  <1>2. CASE SkipEmpty \/ ReadFails \/ Arrive
    BY <1>2 DEF SkipEmpty, ReadFails, Arrive, TypeOK
  <1>3. QED
    BY <1>1, <1>2

LEMMA StopStep ==
    ASSUME LifecycleInv,
           \/ Interrupt \/ StopService \/ RunReturns \/ CloseStop
           \/ CloseSocket \/ CleanerReturns \/ CloseDone
    PROVE  LifecycleInv'
  <1> USE DEF LifecycleInv, ListFirst, NeverPanics, world, channels, startup, auth
  <1>1. CASE Interrupt \/ StopService \/ RunReturns \/ CloseStop
    BY <1>1 DEF Interrupt, StopService, RunReturns, CloseStop, TypeOK
  <1>2. CASE CloseSocket \/ CleanerReturns \/ CloseDone
    BY <1>2 DEF CloseSocket, CleanerReturns, CloseDone, TypeOK
  <1>3. QED
    BY <1>1, <1>2

LEMMA LifecycleStep == LifecycleInv /\ [Next]_vars => LifecycleInv'
  <1> SUFFICES ASSUME LifecycleInv, [Next]_vars PROVE LifecycleInv'
    OBVIOUS
  <1>1. CASE UNCHANGED vars
    BY <1>1 DEF vars, LifecycleInv, TypeOK, ListFirst, NeverPanics
  <1>2. CASE Next
    BY <1>2, StarterStep, ReaderStep, StopStep DEF Next, Up
  <1>3. QED
    BY <1>1, <1>2

LEMMA LifecycleInvariant == Spec => []LifecycleInv
  BY LifecycleInit, LifecycleStep, PTL DEF Spec

-----------------------------------------------------------------------------
\* The state of the server's start and end is well typed.
THEOREM LifecycleTypeCorrect == Spec => []TypeOK
  <1>1. LifecycleInv => TypeOK
    BY DEF LifecycleInv
  <1>2. QED
    BY <1>1, LifecycleInvariant, PTL

\* No packet is handled before the list exists, however early it arrives and
\* whatever fails (main.go:36-37).
THEOREM ReaderNeverPanics == Spec => []NeverPanics
  <1>1. LifecycleInv => NeverPanics
    BY DEF LifecycleInv
  <1>2. QED
    BY <1>1, LifecycleInvariant, PTL

-----------------------------------------------------------------------------
\* What the starter has behind it: no forward before its turn, none on a port
\* another program holds, no two on one port; and a port that was free is
\* served, by the entry that could not bind or by an earlier one.
Tried(i) == AtForward(i) < starter

Outcomes ==
    \A i \in Forwards :
        /\ bound[i] = "listening" => Tried(i) /\ PortOf[i] \notin taken
        /\ \A j \in Forwards :
               bound[i] = "listening" /\ bound[j] = "listening" /\ PortOf[i] = PortOf[j]
                   => i = j
        /\ Tried(i) /\ PortOf[i] \notin taken
               => \E j \in 1 .. i : PortOf[j] = PortOf[i] /\ bound[j] = "listening"

LEMMA InitOutcomes == Init => Outcomes
BY LifecycleAssumption DEF Init, Outcomes, Tried, AtForward, AtList, Forwards

LEMMA StartForwardOutcomes ==
    ASSUME TypeOK, Outcomes, NEW i \in Forwards, StartForward(i)
    PROVE  Outcomes'
  <1> DEFINE Listens(j) == bound[j] = "listening"
  <1> USE LifecycleAssumption DEF Forwards
  <1>1. /\ bound' = [bound EXCEPT ![i] = IF CanBind(i) THEN "listening" ELSE "failed"]
        /\ taken' = taken
        /\ \A j \in Forwards : Tried(j)' <=> Tried(j) \/ j = i
        /\ ~Tried(i)
    BY DEF StartForward, Tried, AtForward, world
  <1>2. ~Listens(i)
    BY <1>1 DEF Outcomes
  <1>3. \A j \in Forwards \ {i} : bound'[j] = bound[j]
    BY <1>1 DEF TypeOK
  <1>4. Listens(i)' <=> CanBind(i)
    BY <1>1 DEF TypeOK
  <1>5. ASSUME NEW j \in Forwards, Listens(j)'
        PROVE  Tried(j)' /\ PortOf[j] \notin taken'
    BY <1>1, <1>3, <1>4, <1>5 DEF Outcomes, CanBind
  <1>6. ASSUME NEW j \in Forwards, NEW k \in Forwards,
               Listens(j)', Listens(k)', PortOf[j] = PortOf[k]
        PROVE  j = k
    BY <1>3, <1>4, <1>6 DEF Outcomes, CanBind
  <1>7. ASSUME NEW j \in Forwards, Tried(j)', PortOf[j] \notin taken'
        PROVE  \E k \in 1 .. j : PortOf[k] = PortOf[j] /\ Listens(k)'
    <2>1. CASE j # i
      <3>1. PICK k \in 1 .. j : PortOf[k] = PortOf[j] /\ Listens(k)
        BY <1>1, <1>7, <2>1 DEF Outcomes
      <3>2. k \in Forwards /\ k # i
        BY <1>2, <3>1
      <3>3. QED
        BY <1>3, <3>1, <3>2
    <2>2. CASE j = i /\ ~CanBind(i)
      <3>1. PICK k \in Forwards : Listens(k) /\ PortOf[k] = PortOf[i]
        BY <1>1, <1>7, <2>2 DEF CanBind
      <3>2. k \in 1 .. i /\ k # i
        BY <1>1, <1>2, <3>1 DEF Outcomes, Tried, AtForward, StartForward
      <3>3. QED
        BY <1>3, <2>2, <3>1, <3>2
    <2>3. CASE j = i /\ CanBind(i)
      BY <1>4, <2>3
    <2>4. QED
      BY <2>1, <2>2, <2>3
  <1>8. QED
    BY <1>5, <1>6, <1>7 DEF Outcomes

LEMMA StepOutcomes == TypeOK /\ Outcomes /\ [Next]_vars => Outcomes'
  <1> SUFFICES ASSUME TypeOK, Outcomes, [Next]_vars PROVE Outcomes'
    OBVIOUS
  <1>1. ASSUME UNCHANGED <<taken, starter, bound>> PROVE Outcomes'
    BY <1>1 DEF Outcomes, Tried
  <1>2. ASSUME InitClientList \/ WaitForAuth PROVE Outcomes'
    <2>1. UNCHANGED <<taken, bound>> /\ starter <= 1 /\ starter' <= 2 /\ starter' \in Nat
      BY <1>2 DEF InitClientList, WaitForAuth, world, AtList, AtAuth, AtForward
    <2>2. \A i \in Forwards : ~Tried(i) /\ ~Tried(i)'
      BY <2>1, LifecycleAssumption DEF Tried, AtForward, Forwards, TypeOK, AtList, Started
    <2>3. QED
      BY <2>1, <2>2 DEF Outcomes
  <1>3. HandlePacket \/ SkipEmpty \/ ReadFails \/ Arrive \/ Interrupt \/ StopService
        \/ RunReturns \/ CloseStop \/ CloseSocket \/ CleanerReturns \/ CloseDone
        \/ UNCHANGED vars
            => UNCHANGED <<taken, starter, bound>>
    BY DEF HandlePacket, SkipEmpty, ReadFails, Arrive, Interrupt, StopService, RunReturns,
       CloseStop, CloseSocket, CleanerReturns, CloseDone, world, startup, vars
  <1>4. QED
    BY <1>1, <1>2, <1>3, StartForwardOutcomes DEF Next, Up

\* When the starter is through, every port that was free belongs to the first
\* entry that names it, whatever failed on the way (main.go:37-46).
THEOREM FreePortsServed == Spec => []PortsGoToFirst
  <1>1. TypeOK /\ Outcomes => PortsGoToFirst
    <2> SUFFICES ASSUME Outcomes, starter = Started, NEW i \in Forwards
                 PROVE  bound[i] = "listening" <=> Claims(i)
      BY DEF PortsGoToFirst
    <2> USE LifecycleAssumption DEF Forwards
    <2>1. \A j \in Forwards : Tried(j)
      BY DEF Tried, AtForward, Started
    <2>2. ASSUME bound[i] = "listening" PROVE Claims(i)
      <3>1. PortOf[i] \notin taken
        BY <2>2 DEF Outcomes
      <3>2. ASSUME NEW j \in 1 .. i - 1, PortOf[j] = PortOf[i] PROVE FALSE
        <4>1. j \in Forwards
          OBVIOUS
        <4>2. PICK k \in 1 .. j : PortOf[k] = PortOf[j] /\ bound[k] = "listening"
          BY <2>1, <3>1, <3>2, <4>1 DEF Outcomes
        <4>3. k \in Forwards /\ k # i
          BY <4>2
        <4>4. QED
          BY <2>2, <3>2, <4>2, <4>3 DEF Outcomes
      <3>3. QED
        BY <3>1, <3>2 DEF Claims
    <2>3. ASSUME Claims(i) PROVE bound[i] = "listening"
      <3>1. PICK k \in 1 .. i : PortOf[k] = PortOf[i] /\ bound[k] = "listening"
        BY <2>1, <2>3 DEF Outcomes, Claims
      <3>2. k = i
        BY <2>3, <3>1 DEF Claims
      <3>3. QED
        BY <3>1, <3>2
    <2>4. QED
      BY <2>2, <2>3
  <1>2. LifecycleInv => TypeOK
    BY DEF LifecycleInv
  <1>3. QED
    BY <1>1, <1>2, InitOutcomes, StepOutcomes, LifecycleInvariant, PTL DEF Spec
=============================================================================
