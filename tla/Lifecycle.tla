----------------------------- MODULE Lifecycle -----------------------------
(***************************************************************************)
(* Start and end of the server: Main's starter goroutine, whose steps may  *)
(* fail one by one, the goroutines of waitForAuth with errors on the UDP   *)
(* socket, and the stop that comes from a signal or the service manager    *)
(* at any moment.  What a packet does is left to Handshake and ClientList: *)
(* here it may end in a grant for any forward.                             *)
(***************************************************************************)
EXTENDS Naturals

CONSTANTS
    NForwards,  \* the number of forwardconfigs
    Ports,      \* TCP ports
    PortOf      \* bindport of each; nothing keeps two from naming the same

ASSUME LifecycleAssumption ==
    /\ NForwards \in Nat
    /\ PortOf \in [1 .. NForwards -> Ports]

VARIABLES
    service,    \* does a service manager run the program?
    taken,      \* ports other programs hold ...
    authTaken,  \* ... and do they hold authaddr?
    process,    \* "up", "gone" or "panicked"
    exit, stop, \* channels: closed by the service wrapper, by Main
    starter,    \* the starter's next step
    listReady,  \* allClientList is made
    bound,      \* the outcome of each startForward
    udp,        \* the socket of waitForAuth
    inbox,      \* what the socket holds for the next read
    running,    \* the goroutines of waitForAuth not yet done
    done,       \* their done channel is closed
    grants      \* forwards for which somebody was authorized

world == <<service, taken, authTaken>>
channels == <<exit, stop>>
startup == <<starter, listReady, bound>>
auth == <<udp, inbox, running, done, grants>>
vars == <<service, taken, authTaken, process, exit, stop, starter, listReady,
          bound, udp, inbox, running, done, grants>>

Forwards == 1 .. NForwards

\* The starter's steps: the list, the UDP listener, the forwards in order.
AtList == 0
AtAuth == 1
AtForward(i) == 1 + i
Started == NForwards + 2

Init ==
    /\ service \in BOOLEAN
    /\ taken \in SUBSET Ports
    /\ authTaken \in BOOLEAN
    /\ process = "up"
    /\ exit = FALSE /\ stop = FALSE
    /\ starter = AtList
    /\ listReady = FALSE
    /\ bound = [i \in Forwards |-> "untried"]
    /\ udp = "none" /\ inbox = "none"
    /\ running = {} /\ done = FALSE
    /\ grants = {}

-----------------------------------------------------------------------------
\* The starter goroutine.
InitForgotten ==
    /\ starter = AtList
    /\ starter' = AtAuth
    /\ UNCHANGED <<world, process, channels, listReady, bound, auth>>

InitClientList ==
    /\ starter = AtList
    /\ listReady' = TRUE
    /\ starter' = AtAuth
    /\ UNCHANGED <<world, process, channels, bound, auth>>

StartListener ==
    /\ udp' = "open"
    /\ running' = {"closer", "reader", "cleaner"}
    /\ UNCHANGED <<inbox, done, grants>>

\* An error is logged, and the forwards are started all the same.
WaitForAuthOrQuit ==
    /\ starter = AtAuth
    /\ IF authTaken THEN UNCHANGED auth ELSE StartListener
    /\ starter' = IF authTaken THEN Started ELSE AtForward(1)
    /\ UNCHANGED <<world, process, channels, listReady, bound>>

WaitForAuth ==
    /\ starter = AtAuth
    /\ IF authTaken THEN UNCHANGED auth ELSE StartListener
    /\ starter' = AtForward(1)
    /\ UNCHANGED <<world, process, channels, listReady, bound>>

CanBind(i) ==
    /\ PortOf[i] \notin taken
    /\ \A j \in Forwards : bound[j] = "listening" => PortOf[j] # PortOf[i]

StartForwardOrQuit(i) ==
    /\ starter = AtForward(i)
    /\ bound' = [bound EXCEPT ![i] = IF CanBind(i) THEN "listening" ELSE "failed"]
    /\ starter' = IF CanBind(i) THEN AtForward(i + 1) ELSE Started
    /\ UNCHANGED <<world, process, channels, listReady, auth>>

StartForward(i) ==
    /\ starter = AtForward(i)
    /\ bound' = [bound EXCEPT ![i] = IF CanBind(i) THEN "listening" ELSE "failed"]
    /\ starter' = AtForward(i + 1)
    /\ UNCHANGED <<world, process, channels, listReady, auth>>

Starter == InitClientList \/ WaitForAuth \/ \E i \in Forwards : StartForward(i)

-----------------------------------------------------------------------------
\* The reader.  Any error but one after stop is taken for a passing one, such
\* as the report that a datagram of ours was not received.
Reading == "reader" \in running

Receives(kind) == Reading /\ udp = "open" /\ inbox = kind

\* The handlers run in the reader's goroutine; a grant writes to a map that
\* initClientList makes.
HandlePacket ==
    /\ Receives("packet")
    /\ inbox' = "none"
    /\ \/ UNCHANGED <<process, grants>>
       \/ \E i \in Forwards :
              /\ process' = IF listReady THEN "up" ELSE "panicked"
              /\ grants' = grants \cup {i}
    /\ UNCHANGED <<world, channels, startup, udp, running, done>>

SkipEmpty ==
    /\ Receives("empty")
    /\ inbox' = "none"
    /\ UNCHANGED <<world, process, channels, startup, udp, running, done, grants>>

ReadFailsForGood ==
    /\ Receives("error") \/ (Reading /\ udp = "closed")
    /\ running' = running \ {"reader"}
    /\ inbox' = "none"
    /\ UNCHANGED <<world, process, channels, startup, udp, done, grants>>

ReadFailsForever ==
    /\ Receives("error") \/ (Reading /\ udp = "closed")
    /\ inbox' = "none"
    /\ UNCHANGED <<world, process, channels, startup, udp, running, done, grants>>

ReadFails ==
    /\ Receives("error") \/ (Reading /\ udp = "closed")
    /\ running' = IF stop THEN running \ {"reader"} ELSE running
    /\ inbox' = "none"
    /\ UNCHANGED <<world, process, channels, startup, udp, done, grants>>

Reader == HandlePacket \/ SkipEmpty \/ ReadFails

\* Something reaches the socket.
Arrive ==
    /\ udp = "open" /\ inbox = "none"
    /\ inbox' \in {"packet", "empty", "error"}
    /\ UNCHANGED <<world, process, channels, startup, udp, running, done, grants>>

-----------------------------------------------------------------------------
\* The end.  A signal or the service manager closes exit, at which Main
\* closes stop.  The process may be gone before that, or before anything else
\* has ended: Run waits for nobody.
Interrupt ==
    /\ ~service /\ ~exit
    /\ exit' = TRUE
    /\ UNCHANGED <<world, process, stop, startup, auth>>

StopService ==
    /\ service /\ ~exit
    /\ exit' = TRUE
    /\ UNCHANGED <<world, process, stop, startup, auth>>

RunReturns ==
    /\ exit
    /\ process' = "gone"
    /\ UNCHANGED <<world, channels, startup, auth>>

CloseStop ==
    /\ exit /\ ~stop
    /\ stop' = TRUE
    /\ UNCHANGED <<world, process, exit, startup, auth>>

CloseSocket ==
    /\ stop /\ "closer" \in running
    /\ udp' = "closed"
    /\ running' = running \ {"closer"}
    /\ UNCHANGED <<world, process, channels, startup, inbox, done, grants>>

CleanerReturns ==
    /\ stop /\ "cleaner" \in running
    /\ running' = running \ {"cleaner"}
    /\ UNCHANGED <<world, process, channels, startup, udp, inbox, done, grants>>

CloseDone ==
    /\ udp # "none" /\ running = {} /\ ~done
    /\ done' = TRUE
    /\ UNCHANGED <<world, process, channels, startup, udp, inbox, running, grants>>

-----------------------------------------------------------------------------
Up(A) == process = "up" /\ A

Next ==
    \/ Up(InitClientList) \/ Up(WaitForAuth) \/ \E i \in Forwards : Up(StartForward(i))
    \/ Up(HandlePacket) \/ Up(SkipEmpty) \/ Up(ReadFails) \/ Up(Arrive)
    \/ Up(Interrupt) \/ Up(StopService) \/ Up(RunReturns)
    \/ Up(CloseStop) \/ Up(CloseSocket) \/ Up(CleanerReturns) \/ Up(CloseDone)

\* Every goroutine that can run does.  Nothing need ever arrive, no signal
\* need come, and the process need not go.
Fairness ==
    /\ WF_vars(Up(Starter)) /\ WF_vars(Up(Reader)) /\ WF_vars(Up(CloseStop))
    /\ WF_vars(Up(CloseSocket)) /\ WF_vars(Up(CleanerReturns)) /\ WF_vars(Up(CloseDone))

Spec == Init /\ [][Next]_vars /\ Fairness

-----------------------------------------------------------------------------
TypeOK ==
    /\ service \in BOOLEAN /\ taken \subseteq Ports /\ authTaken \in BOOLEAN
    /\ process \in {"up", "gone", "panicked"}
    /\ exit \in BOOLEAN /\ stop \in BOOLEAN
    /\ starter \in AtList .. Started
    /\ listReady \in BOOLEAN
    /\ bound \in [Forwards -> {"untried", "listening", "failed"}]
    /\ udp \in {"none", "open", "closed"}
    /\ inbox \in {"none", "packet", "empty", "error"}
    /\ running \subseteq {"closer", "reader", "cleaner"}
    /\ done \in BOOLEAN
    /\ grants \subseteq Forwards

\* However early the first packet comes, the list it may have to be entered
\* in exists (main.go:36-37): the reader never panics.
NeverPanics == process # "panicked"

\* What a forward may count on: its port is free, and not that of an earlier
\* entry.
Claims(i) ==
    /\ PortOf[i] \notin taken
    /\ \A j \in 1 .. i - 1 : PortOf[j] # PortOf[i]

\* When the starter is through, the forwards that listen are those that could
\* count on it, whichever others could not bind: an entry that fails costs no
\* later one its port, and of entries that name one port the first has it.
PortsGoToFirst ==
    starter = Started => \A i \in Forwards : bound[i] = "listening" <=> Claims(i)

\* Such a forward comes to listen whatever else has failed before it
\* (main.go:37-46).
EveryFreePortServed ==
    <>(process # "up" \/ \A i \in Forwards : Claims(i) => bound[i] = "listening")

\* Until the server is stopped the reader takes every packet, also after
\* errors of the socket (auth.go:233-241).
PacketsTaken == inbox = "packet" ~> inbox # "packet" \/ stop \/ process # "up"

\* After exit the goroutines of the UDP listener end, if the process lasts so
\* long: the reader wakes when the socket is closed and does not take that
\* for a passing error, even if exit came before the socket was opened.
ListenerStops == exit /\ udp # "none" ~> done \/ process # "up"
=============================================================================
