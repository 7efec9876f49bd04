--------------------------- MODULE NonblockWriter ---------------------------
(***************************************************************************)
(* Buffered writes to a non-blocking descriptor (src/src/utils.h): sessions *)
(* and cores both are NonblockWriters.  A byte is known by its place in all  *)
(* that was ever given to write(), a string of the buffer by the places of   *)
(* its first and last byte.  Each write(2) is a step of its own; the peer    *)
(* reads, or goes away, in between.  The select loop asks which descriptors *)
(* are writable; libevent is told once, when one becomes so (EV_ET).        *)
(***************************************************************************)
EXTENDS Naturals, Sequences

CONSTANTS
    MaxBytes,       \* bound: bytes given to write()
    MaxString,      \* bound: bytes of one string
    SocketSpace     \* bytes the kernel buffers for the peer

ASSUME BoundsAssumption ==
    MaxBytes \in Nat /\ MaxString \in Nat /\ SocketSpace \in Nat \ {0}

VARIABLES
    given,      \* how many bytes write() has been given
    buffer,     \* the strings not written yet, the first one perhaps in part
    wire,       \* the bytes the kernel has accepted, in order
    unread,     \* how many of them the peer has not read
    flushing,   \* flush() is in its loop
    broken,     \* the peer has closed the connection altogether
    failed,     \* writeFailed() has been called
    destroyed,  \* the object and its descriptor are gone
    useLibevent,    \* which main loop runs
    edge        \* an edge-triggered event is due

vars == <<given, buffer, wire, unread, flushing, broken, failed, destroyed, useLibevent, edge>>

Init ==
    /\ given = 0 /\ buffer = <<>> /\ wire = <<>> /\ unread = 0
    /\ flushing = FALSE /\ broken = FALSE /\ failed = FALSE /\ destroyed = FALSE
    /\ useLibevent \in BOOLEAN
    /\ edge = useLibevent        \* the first event comes with event_add

Size(string) == string.to + 1 - string.from

Bytes(from, k) == [i \in 1..k |-> from + i - 1]

-----------------------------------------------------------------------------
\* write(s): buffer the string, then flush.  Lines carry their newline; the one
\* empty string written, the status of a successful shutdown, changes nothing:
\* its write of 0 bytes is complete and takes it out of the buffer again.
Write(size) ==
    /\ ~destroyed /\ ~flushing
    /\ given + size <= MaxBytes
    /\ buffer' = Append(buffer, [from |-> given + 1, to |-> given + size])
    /\ given' = given + size
    /\ flushing' = TRUE
    /\ UNCHANGED <<wire, unread, broken, failed, destroyed, useLibevent, edge>>

\* The loop finds the descriptor writable, or an event tells so, and flush() is called.
Writable ==
    /\ ~destroyed /\ ~flushing
    /\ IF useLibevent THEN edge ELSE buffer # <<>> /\ (unread < SocketSpace \/ broken)
    /\ edge' = FALSE
    /\ flushing' = TRUE
    /\ UNCHANGED <<given, buffer, wire, unread, broken, failed, destroyed, useLibevent>>

\* Mutants: what is left of the front string is not cut off; the front string
\* goes whether or not all of it was written.
RemoveAll(k) == IF k = Size(Head(buffer)) THEN Tail(buffer) ELSE buffer
RemoveFront(k) == Tail(buffer)

\* k bytes of the front string have been written.
Remove(k) ==
    IF k = Size(Head(buffer))
    THEN Tail(buffer)
    ELSE [buffer EXCEPT ![1].from = @ + k]

\* One write(2): the kernel takes what fits, perhaps nothing.
WriteSome(k) ==
    /\ k \in 0..Size(Head(buffer)) /\ unread + k <= SocketSpace
    /\ k < Size(Head(buffer)) => unread + k = SocketSpace
    /\ wire' = wire \o Bytes(Head(buffer).from, k)
    /\ unread' = unread + k
    /\ buffer' = Remove(k)

\* Mutant: one string per call, and the rest when the loop calls again.
WriteStringOnce ==
    /\ flushing /\ buffer # <<>> /\ ~broken
    /\ \E k \in 0..MaxString : WriteSome(k)
    /\ flushing' = FALSE
    /\ UNCHANGED <<given, broken, failed, destroyed, useLibevent, edge>>

\* The loop goes on if all of the string went out.
WriteString ==
    /\ flushing /\ buffer # <<>> /\ ~broken
    /\ \E k \in 0..MaxString : WriteSome(k) /\ flushing' = (k = Size(Head(buffer)))
    /\ UNCHANGED <<given, broken, failed, destroyed, useLibevent, edge>>

\* The write fails: what is buffered stays where it is.
WriteStringFails ==
    /\ flushing /\ buffer # <<>> /\ broken
    /\ failed' = TRUE
    /\ flushing' = FALSE
    /\ UNCHANGED <<given, buffer, wire, unread, broken, destroyed, useLibevent, edge>>

FlushReturns ==
    /\ flushing /\ buffer = <<>>
    /\ flushing' = FALSE
    /\ UNCHANGED <<given, buffer, wire, unread, broken, failed, destroyed, useLibevent, edge>>

\* The session is removed: its destructor closes the descriptor.
Destroy ==
    /\ ~destroyed /\ ~flushing
    /\ destroyed' = TRUE
    /\ UNCHANGED <<given, buffer, wire, unread, flushing, broken, failed, useLibevent, edge>>

-----------------------------------------------------------------------------
\* A descriptor that was full becomes writable: that is the edge.
PeerReads ==
    /\ unread > 0 /\ ~broken
    /\ \E k \in 1..unread : unread' = unread - k
    /\ edge' = (edge \/ (useLibevent /\ unread = SocketSpace))
    /\ UNCHANGED <<given, buffer, wire, flushing, broken, failed, destroyed, useLibevent>>

PeerCloses ==
    /\ ~broken
    /\ broken' = TRUE
    /\ edge' = useLibevent
    /\ UNCHANGED <<given, buffer, wire, unread, flushing, failed, destroyed, useLibevent>>

Next ==
    \/ \E size \in 1..MaxString : Write(size)
    \/ Writable \/ WriteString \/ WriteStringFails \/ FlushReturns \/ Destroy
    \/ PeerReads \/ PeerCloses

Spec == Init /\ [][Next]_vars

\* The loop calls flush() in time, flush() runs on, and the peer reads.
FairSpec ==
    /\ Spec
    /\ WF_vars(Writable) /\ WF_vars(WriteString \/ WriteStringFails \/ FlushReturns) /\ WF_vars(PeerReads)

-----------------------------------------------------------------------------
String == [from : Nat \ {0}, to : Nat]

(* Every variable has its type, and the kernel is given no more than fits.  *)
TypeOK ==
    /\ given \in Nat
    /\ buffer \in Seq(String)
    /\ wire \in Seq(Nat)
    /\ unread \in 0..SocketSpace
    /\ flushing \in BOOLEAN /\ broken \in BOOLEAN /\ failed \in BOOLEAN /\ destroyed \in BOOLEAN
    /\ useLibevent \in BOOLEAN /\ edge \in BOOLEAN

(* The peer gets the bytes in the order in which they were given to write(), *)
(* none twice and none skipped, however the writes are cut.                 *)
WireInOrder == \A i \in 1..Len(wire) : wire[i] = i

(* Nothing is dropped: the buffer holds, without gaps, all that the kernel  *)
(* has not taken.  In particular an empty buffer (writeBufferEmpty, on which *)
(* the main loop shuts HTTP sessions down) means that all is written.       *)
NothingDropped ==
    /\ buffer = <<>> => Len(wire) = given
    /\ buffer # <<>> => /\ buffer[1].from = Len(wire) + 1
                        /\ buffer[Len(buffer)].to = given
    /\ \A i \in 1..Len(buffer) : buffer[i].from <= buffer[i].to
    /\ \A i \in 1..Len(buffer) - 1 : buffer[i + 1].from = buffer[i].to + 1

(* What is written arrives if the peer goes on reading and the object lives, *)
(* also if the loop is told only once that there is room (servapp.h:216):   *)
(* flush() goes on until it is refused.                                     *)
AllWritten == \A n \in 1..MaxBytes : given >= n ~> Len(wire) >= n \/ broken \/ destroyed
=============================================================================
