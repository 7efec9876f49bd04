--------------------------- MODULE CommandService ---------------------------
(***************************************************************************)
(* What a graph core promises to the sessions that share it: a service that *)
(* answers the commands given to it one at a time, completely, in the order *)
(* in which they were given, and that may stop for good at any time, losing *)
(* what it has not answered.  Nothing is said of pipes, reply lines or who  *)
(* is still connected.                                                       *)
(***************************************************************************)
EXTENDS Naturals, Sequences

CONSTANT Commands

VARIABLES
    pending,   \* commands accepted and not yet answered in full
    served,    \* commands answered, in the order of their answers
    stopped

serviceVars == <<pending, served, stopped>>

ServiceInit == pending = <<>> /\ served = <<>> /\ stopped = FALSE

Accept(ce) ==
    /\ ~stopped
    /\ pending' = Append(pending, ce)
    /\ UNCHANGED <<served, stopped>>

Serve ==
    /\ ~stopped
    /\ pending # <<>>
    /\ served' = Append(served, Head(pending))
    /\ pending' = Tail(pending)
    /\ UNCHANGED stopped

Stop ==
    /\ ~stopped
    /\ stopped' = TRUE
    /\ pending' = <<>>
    /\ UNCHANGED served

ServiceNext == (\E ce \in Commands : Accept(ce)) \/ Serve \/ Stop

ServiceSpec == ServiceInit /\ [][ServiceNext]_serviceVars
=============================================================================
