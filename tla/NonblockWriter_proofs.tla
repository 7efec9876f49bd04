----------------------- MODULE NonblockWriter_proofs -----------------------
(***************************************************************************)
(* Proofs about NonblockWriter, for any bounds: the bytes reach the wire in  *)
(* order, and what has not reached it is in the buffer.  The two need one    *)
(* another: a byte put on the wire is the right one because the buffer       *)
(* starts where the wire ends.                                              *)
(***************************************************************************)
EXTENDS NonblockWriter, SequenceTheorems, TLAPS

Inv == TypeOK /\ WireInOrder /\ NothingDropped

-----------------------------------------------------------------------------
(* The bytes of a string are numbered without a gap.                        *)
LEMMA BytesType ==
    ASSUME NEW from \in Nat \ {0}, NEW k \in Nat
    PROVE  /\ Bytes(from, k) \in Seq(Nat)
           /\ Len(Bytes(from, k)) = k
           /\ \A i \in 1..k : Bytes(from, k)[i] = from + i - 1
<1> DEFINE b == Bytes(from, k)
<1>1. b = [i \in 1..k |-> from + i - 1]
  BY DEF Bytes
<1>2. \A i \in 1..k : from + i - 1 \in Nat
  OBVIOUS
<1>3. b \in [1..k -> Nat]
  BY <1>1, <1>2
<1>4. b \in Seq(Nat)
  BY <1>3
<1>5. Len(b) = k
  BY <1>3, <1>4, LenProperties
<1> QED
  BY <1>1, <1>4, <1>5

-----------------------------------------------------------------------------
(* Nothing is given, buffered or written at the start.                      *)
LEMMA InitInv == Init => Inv
<1> SUFFICES ASSUME Init PROVE Inv
  OBVIOUS
<1>1. buffer \in Seq(String) /\ wire \in Seq(Nat) /\ Len(buffer) = 0 /\ Len(wire) = 0
  BY EmptySeq DEF Init
<1>2. TypeOK
  <2>1. given \in Nat /\ unread \in 0..SocketSpace
    BY BoundsAssumption DEF Init
  <2>2. /\ flushing \in BOOLEAN /\ broken \in BOOLEAN /\ failed \in BOOLEAN /\ destroyed \in BOOLEAN
        /\ useLibevent \in BOOLEAN /\ edge \in BOOLEAN
    BY DEF Init
  <2> QED
    BY <1>1, <2>1, <2>2 DEF TypeOK
<1>3. WireInOrder
  BY <1>1 DEF WireInOrder
<1>4. NothingDropped
  BY <1>1 DEF Init, NothingDropped
<1> QED
  BY <1>2, <1>3, <1>4 DEF Inv

-----------------------------------------------------------------------------
(* A string given to write() continues where the last one ended.            *)
LEMMA WriteInv ==
    ASSUME Inv, NEW size \in 1..MaxString, Write(size)
    PROVE  Inv'
<1> USE BoundsAssumption
<1> DEFINE s == [from |-> given + 1, to |-> given + size]
<1>1. given \in Nat /\ size \in Nat \ {0}
  BY DEF Inv, TypeOK
<1>2. s \in String /\ s.from = given + 1 /\ s.to = given + size
  BY <1>1 DEF String
<1>3. buffer \in Seq(String) /\ buffer' = Append(buffer, s)
  BY DEF Inv, TypeOK, Write
<1> HIDE DEF s
<1>4. /\ buffer' \in Seq(String)
      /\ Len(buffer') = Len(buffer) + 1
      /\ \A i \in 1..Len(buffer) : buffer'[i] = buffer[i]
      /\ buffer'[Len(buffer) + 1] = s
  BY <1>2, <1>3, AppendProperties
<1>5. Len(buffer) \in Nat
  BY <1>3, LenProperties
<1>6. buffer = <<>> <=> Len(buffer) = 0
  BY <1>3, EmptySeq
<1>7. TypeOK'
  BY <1>1, <1>4 DEF Inv, TypeOK, Write
<1>8. WireInOrder'
  BY DEF Inv, WireInOrder, Write
<1>9. NothingDropped'
  <2>1. buffer' # <<>> /\ given' = given + size /\ wire' = wire
    BY <1>4, <1>5, EmptySeq DEF Write
  <2>2. buffer'[1].from = Len(wire) + 1
    <3>1. CASE buffer = <<>>
      BY <3>1, <1>2, <1>4, <1>6 DEF Inv, NothingDropped
    <3>2. CASE buffer # <<>>
      BY <3>2, <1>4, <1>5, <1>6 DEF Inv, NothingDropped
    <3> QED
      BY <3>1, <3>2
  <2>3. buffer'[Len(buffer')].to = given'
    BY <1>2, <1>4, <2>1
  <2>4. \A i \in 1..Len(buffer') : buffer'[i].from <= buffer'[i].to
    BY <1>1, <1>2, <1>4, <1>5 DEF Inv, NothingDropped
  <2>5. ASSUME NEW i \in 1..Len(buffer') - 1
        PROVE  buffer'[i + 1].from = buffer'[i].to + 1
    <3>1. CASE i = Len(buffer)
      <4>1. buffer[i].to = given
        BY <3>1, <1>4, <1>5, <1>6 DEF Inv, NothingDropped
      <4> QED
        BY <3>1, <4>1, <1>2, <1>4, <1>5
    <3>2. CASE i # Len(buffer)
      <4>1. i \in 1..Len(buffer) - 1 /\ i + 1 \in 1..Len(buffer) /\ i \in 1..Len(buffer)
        BY <3>2, <1>4, <1>5
      <4> QED
        BY <4>1, <1>4 DEF Inv, NothingDropped
    <3> QED
      BY <3>1, <3>2
  <2> QED
    BY <2>1, <2>2, <2>3, <2>4, <2>5 DEF NothingDropped
<1> QED
  BY <1>7, <1>8, <1>9 DEF Inv

-----------------------------------------------------------------------------
(* The part of the front string that is written is the part cut off.        *)
LEMMA WriteStringInv ==
    ASSUME Inv, WriteString
    PROVE  Inv'
<1> USE BoundsAssumption
<1> DEFINE f == Head(buffer)
<1>1. PICK k \in 0..MaxString :
        /\ k \in 0..Size(f)
        /\ unread + k <= SocketSpace
        /\ wire' = wire \o Bytes(f.from, k)
        /\ unread' = unread + k
        /\ buffer' = Remove(k)
        /\ flushing' = (k = Size(f))
  BY DEF WriteString, WriteSome
<1>2. /\ buffer \in Seq(String) /\ buffer # <<>>
      /\ wire \in Seq(Nat) /\ unread \in Nat
      /\ given' = given
  BY DEF Inv, TypeOK, WriteString
<1>3. /\ f = buffer[1] /\ f \in String
      /\ Len(buffer) \in Nat \ {0}
      /\ Len(wire) \in Nat
  BY <1>2, HeadTailProperties, LenProperties, EmptySeq
<1> HIDE DEF f
<1>4. f.from \in Nat \ {0} /\ f.to \in Nat
  BY <1>3 DEF String
<1>5. f.from = Len(wire) + 1 /\ f.from <= f.to
  BY <1>2, <1>3 DEF Inv, NothingDropped
<1>6. k \in Nat /\ Size(f) = f.to + 1 - f.from /\ Size(f) \in Nat \ {0}
  BY <1>1, <1>4, <1>5 DEF Size
<1>7. /\ Bytes(f.from, k) \in Seq(Nat)
      /\ Len(Bytes(f.from, k)) = k
      /\ \A i \in 1..k : Bytes(f.from, k)[i] = f.from + i - 1
  BY <1>4, <1>6, BytesType
<1>8. /\ wire' \in Seq(Nat)
      /\ Len(wire') = Len(wire) + k
      /\ \A i \in 1..Len(wire) + k :
            wire'[i] = IF i <= Len(wire) THEN wire[i] ELSE Bytes(f.from, k)[i - Len(wire)]
  BY <1>1, <1>2, <1>7, ConcatProperties
<1>9. WireInOrder'
  <2> SUFFICES ASSUME NEW i \in 1..Len(wire) + k PROVE wire'[i] = i
    BY <1>8 DEF WireInOrder
  <2>1. CASE i <= Len(wire)
    BY <2>1, <1>3, <1>8 DEF Inv, WireInOrder
  <2>2. CASE ~(i <= Len(wire))
    <3>1. i - Len(wire) \in 1..k
      BY <2>2, <1>3, <1>6
    <3>2. wire'[i] = f.from + (i - Len(wire)) - 1
      BY <2>2, <3>1, <1>7, <1>8
    <3> QED
      BY <3>2, <1>3, <1>5, <1>6
  <2> QED
    BY <2>1, <2>2
<1>10. buffer' \in Seq(String) /\ NothingDropped'
  <2>1. CASE k = Size(f)
    <3>1. buffer' = Tail(buffer)
      BY <2>1, <1>1 DEF Remove, f
    <3>2. /\ buffer' \in Seq(String)
          /\ Len(buffer') = Len(buffer) - 1
          /\ \A i \in 1..Len(buffer') : buffer'[i] = buffer[i + 1]
      BY <3>1, <1>2, HeadTailProperties
    <3>3. Len(wire') = f.to
      BY <2>1, <1>3, <1>4, <1>5, <1>6, <1>8
    <3>4. buffer' = <<>> <=> Len(buffer') = 0
      BY <3>2, EmptySeq
    <3>5. CASE buffer' = <<>>
      <4>1. Len(buffer) = 1
        BY <3>5, <3>2, <3>4, <1>3
      <4>2. f.to = given
        BY <4>1, <1>2, <1>3 DEF Inv, NothingDropped
      <4>3. Len(buffer') = 0 /\ Len(wire') = given'
        BY <4>2, <3>3, <3>4, <3>5, <1>2
      <4> QED
        BY <4>3, <3>2, <3>5 DEF NothingDropped
    <3>6. CASE buffer' # <<>>
      <4>1. Len(buffer') \in Nat \ {0} /\ Len(buffer) = Len(buffer') + 1
        BY <3>6, <3>2, <3>4, <1>3
      <4>2. buffer'[1].from = Len(wire') + 1
        <5>1. buffer[2].from = buffer[1].to + 1
          BY <4>1, <1>2 DEF Inv, NothingDropped
        <5> QED
          BY <5>1, <4>1, <3>2, <3>3, <1>3
      <4>3. buffer'[Len(buffer')].to = given
        <5>1. buffer'[Len(buffer')] = buffer[Len(buffer)]
          BY <4>1, <3>2
        <5> QED
          BY <5>1, <1>2 DEF Inv, NothingDropped
      <4>4. \A i \in 1..Len(buffer') : buffer'[i].from <= buffer'[i].to
        BY <4>1, <3>2 DEF Inv, NothingDropped
      <4>5. \A i \in 1..Len(buffer') - 1 : buffer'[i + 1].from = buffer'[i].to + 1
        BY <4>1, <3>2 DEF Inv, NothingDropped
      <4> QED
        BY <3>2, <3>6, <4>2, <4>3, <4>4, <4>5, <1>2 DEF NothingDropped
    <3> QED
      BY <3>5, <3>6
  <2>2. CASE k # Size(f)
    <3> DEFINE g == [f EXCEPT !.from = @ + k]
    <3>1. buffer' = [buffer EXCEPT ![1].from = @ + k]
      BY <2>2, <1>1 DEF Remove, f
    <3>2. g \in String /\ g.from = f.from + k /\ g.to = f.to
      BY <1>3, <1>4, <1>6 DEF String
    <3>3. buffer' = [buffer EXCEPT ![1] = g]
      BY <3>1, <1>3
    <3> HIDE DEF g
    <3>4. /\ buffer' \in Seq(String)
          /\ Len(buffer') = Len(buffer)
          /\ \A i \in 1..Len(buffer) : buffer'[i] = IF i = 1 THEN g ELSE buffer[i]
      BY <3>2, <3>3, <1>2, <1>3, ExceptSeq
    <3>5. f.from + k <= f.to /\ f.from + k = Len(wire') + 1
      BY <2>2, <1>1, <1>3, <1>4, <1>5, <1>6, <1>8
    <3>6. buffer' # <<>>
      BY <3>4, <1>3, EmptySeq
    <3>7. buffer'[1].from = Len(wire') + 1
      BY <3>2, <3>4, <3>5, <1>3
    <3>8. buffer'[Len(buffer')].to = given'
      BY <3>2, <3>4, <1>2, <1>3 DEF Inv, NothingDropped
    <3>9. \A i \in 1..Len(buffer') : buffer'[i].from <= buffer'[i].to
      BY <3>2, <3>4, <3>5 DEF Inv, NothingDropped
    <3>10. \A i \in 1..Len(buffer') - 1 : buffer'[i + 1].from = buffer'[i].to + 1
      BY <3>2, <3>4, <1>3 DEF Inv, NothingDropped
    <3> QED
      BY <3>4, <3>6, <3>7, <3>8, <3>9, <3>10 DEF NothingDropped
  <2> QED
    BY <2>1, <2>2
<1>11. unread' \in 0..SocketSpace /\ flushing' \in BOOLEAN
  BY <1>1, <1>2, <1>6
<1>12. TypeOK'
  BY <1>8, <1>10, <1>11 DEF Inv, TypeOK, WriteString
<1> QED
  BY <1>9, <1>10, <1>12 DEF Inv

-----------------------------------------------------------------------------
(* Every step preserves the invariant.                                      *)
LEMMA NextInv == Inv /\ [Next]_vars => Inv'
<1> SUFFICES ASSUME Inv, [Next]_vars PROVE Inv'
  OBVIOUS
<1>1. ASSUME NEW size \in 1..MaxString, Write(size) PROVE Inv'
  BY <1>1, WriteInv
<1>2. CASE Writable
  BY <1>2 DEF Inv, TypeOK, WireInOrder, NothingDropped, Writable
<1>3. CASE WriteString
  BY <1>3, WriteStringInv
<1>4. CASE WriteStringFails
  BY <1>4 DEF Inv, TypeOK, WireInOrder, NothingDropped, WriteStringFails
<1>5. CASE FlushReturns
  BY <1>5 DEF Inv, TypeOK, WireInOrder, NothingDropped, FlushReturns
<1>6. CASE Destroy
  BY <1>6 DEF Inv, TypeOK, WireInOrder, NothingDropped, Destroy
<1>7. CASE PeerReads
  <2>1. unread' \in 0..SocketSpace
    BY <1>7, BoundsAssumption DEF Inv, TypeOK, PeerReads
  <2> QED
    BY <1>7, <2>1 DEF Inv, TypeOK, WireInOrder, NothingDropped, PeerReads
<1>8. CASE PeerCloses
  BY <1>8 DEF Inv, TypeOK, WireInOrder, NothingDropped, PeerCloses
<1>9. CASE UNCHANGED vars
  BY <1>9 DEF Inv, TypeOK, WireInOrder, NothingDropped, vars
<1> QED
  BY <1>1, <1>2, <1>3, <1>4, <1>5, <1>6, <1>7, <1>8, <1>9 DEF Next

(* The invariant holds throughout.                                          *)
THEOREM Invariance == Spec => []Inv
<1> QED
  BY InitInv, NextInv, PTL DEF Spec

(* Every variable has its type, and the socket is never overfilled.         *)
THEOREM TypeCorrect == Spec => []TypeOK
<1>1. Inv => TypeOK
  BY DEF Inv
<1> QED
  BY <1>1, Invariance, PTL

(* NonblockWriter::flush() (utils.h) puts the bytes on the wire in the order *)
(* in which write() got them, none twice and none left out, whatever the     *)
(* kernel accepts of each string.                                           *)
THEOREM InOrder == Spec => []WireInOrder
<1>1. Inv => WireInOrder
  BY DEF Inv
<1> QED
  BY <1>1, Invariance, PTL

(* What write() was given is on the wire or in the buffer, so that an empty  *)
(* buffer (writeBufferEmpty()) means that all of it is written.             *)
THEOREM AllKept == Spec => []NothingDropped
<1>1. Inv => NothingDropped
  BY DEF Inv
<1> QED
  BY <1>1, Invariance, PTL
=============================================================================
