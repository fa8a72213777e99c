------------------------------ MODULE SlotPool ------------------------------
(***************************************************************************)
(* What the limiter of a forwarded port promises: a pool of slots that     *)
(* knows who holds one.  A connection that asks gets a slot if there is    *)
(* room, in all and for its address, and is turned away only if there is   *)
(* none; a slot comes back from its holder and from nobody else.           *)
(***************************************************************************)
EXTENDS Naturals, FiniteSets

CONSTANTS
    Conns,          \* who may ask
    IPOf,           \* the address of each
    MaxConnGlobal, MaxConnPerIP     \* the limits, 0 for none

VARIABLES asking, holding   \* sets of connections

vars == <<asking, holding>>

Init == asking = {} /\ holding = {}

Room(c) ==
    /\ MaxConnGlobal > 0 => Cardinality(holding) < MaxConnGlobal
    /\ MaxConnPerIP > 0 =>
           Cardinality({d \in holding : IPOf[d] = IPOf[c]}) < MaxConnPerIP

Ask(c) ==
    /\ c \notin asking \cup holding
    /\ asking' = asking \cup {c}
    /\ UNCHANGED holding

Take(c) ==
    /\ c \in asking
    /\ Room(c)
    /\ asking' = asking \ {c}
    /\ holding' = holding \cup {c}

Refuse(c) ==
    /\ c \in asking
    /\ ~Room(c)
    /\ asking' = asking \ {c}
    /\ UNCHANGED holding

Return(c) ==
    /\ c \in holding
    /\ holding' = holding \ {c}
    /\ UNCHANGED asking

Next == \E c \in Conns : Ask(c) \/ Take(c) \/ Refuse(c) \/ Return(c)

Spec == Init /\ [][Next]_vars
=============================================================================
