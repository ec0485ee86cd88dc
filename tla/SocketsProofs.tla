---------------------------- MODULE SocketsProofs ----------------------------
(***************************************************************************)
(* From the kernel's bytes to the page: what the walks over the dumps do  *)
(* whatever the kernel writes, for every length of a buffer, a block, a    *)
(* record or an address (Walks), and what `listen` says of the sockets,    *)
(* for every machine and every answer of a container runtime (Listen).     *)
(***************************************************************************)
EXTENDS Walks, Listen, FiniteSetTheorems, SequenceTheorems, TLAPS

-----------------------------------------------------------------------------
(* I.  The walks.                                                          *)

\* WalkTypeOK is inductive once it is known where each phase can be: the addresses
\* are walked inside their record, and only a routing message has any.
WInv ==
  /\ WalkTypeOK
  /\ status = "header" => offset = 0
  /\ status = "addresses" => format = "rt_msg" /\ offset <= end

\* Rounding up to eight gives a multiple of eight that is large enough.
LEMMA AdvanceRounds ==
  ASSUME NEW n \in Nat
  PROVE  Advance(n) \in Nat /\ Advance(n) >= n /\ Advance(n) % ALIGNMENT = 0
  BY DEF Advance, ALIGNMENT

\* What a socket address takes up is a positive number of bytes, and at least
\* as many as it says.
LEMMA ConsumedCovers ==
  ASSUME NEW n \in Nat
  PROVE  Consumed(n) \in Nat /\ Consumed(n) >= 4 /\ Consumed(n) >= n
  BY DEF Consumed

\* The fields read of an address are within its length.
LEMMA ReadInside ==
  ASSUME NEW n \in Nat, n > 1, NEW family \in Families
  PROVE  Read(family, n) \in Nat /\ Read(family, n) <= n
  BY DEF Read, Families

\* The fields read of a control block are within the block.
LEMMA TouchedInside ==
  ASSUME NEW claimed \in Nat, claimed >= 8, NEW kind \in Kinds
  PROVE  Touched(kind, claimed) \in Nat /\ Touched(kind, claimed) <= claimed
  BY DEF Touched, Kinds, Minimum

LEMMA InvInit == WalkInit => WInv /\ InsideItsBlock
  BY WalksAssumption DEF WalkInit, WInv, WalkTypeOK, InsideItsBlock

LEMMA InvNext == WInv /\ InsideItsBlock /\ [WalkNext]_walkVars => WInv' /\ InsideItsBlock'
<1> SUFFICES ASSUME WInv, InsideItsBlock, [WalkNext]_walkVars PROVE WInv' /\ InsideItsBlock'
  OBVIOUS
<1> USE WalksAssumption DEF WInv, WalkTypeOK, InsideItsBlock
<1>1. CASE PcbHeader
  <2>1. length \in Nat
    OBVIOUS
  <2>2. CASE Stop("ok") /\ Unread
    BY <2>2 DEF Stop, Unread, pcb, rt
  <2>3. CASE Stop("error") /\ Unread
    BY <2>3 DEF Stop, Unread, pcb, rt
  <2>4. CASE Stop("error") /\ length >= 24 /\ Look(4, length)
    BY <2>1, <2>4 DEF Stop, Look, pcb, rt
  <2>5. CASE /\ length >= 24 /\ status' = "walking" /\ offset' = 24 /\ Look(4, length)
             /\ UNCHANGED <<format, length, pcb, rt>>
    BY <2>1, <2>5 DEF Look, pcb, rt
  <2> QED
    BY <1>1, <2>2, <2>3, <2>4, <2>5 DEF PcbHeader, XINPGEN_LEN
<1>2. CASE PcbRefuses
  BY <1>2 DEF PcbRefuses, Walking, Remaining, Stop, Unread, Look, pcb, rt
<1>3. CASE PcbBlock
  <2> PICK claimed \in BlockLengths, kind \in Kinds, readable \in BOOLEAN :
        /\ claimed \in 8..Remaining
        /\ StepOver(claimed)
        /\ Look(offset + Touched(kind, claimed), offset + claimed)
    BY <1>3 DEF PcbBlock
  <2>1. claimed \in Nat /\ claimed >= 8 /\ offset + claimed <= length
    BY DEF Remaining
  <2>2. /\ reach' \in Nat /\ reach' <= fence'
        /\ fence' \in 0..length
    BY <2>1, TouchedInside DEF Look
  <2>3. /\ UNCHANGED <<format, length, end, bits>>
        /\ status = "walking" /\ status' \in {"walking", "flush"}
        /\ offset' \in 0..length
    BY <1>3, <2>1, AdvanceRounds DEF PcbBlock, StepOver, rt, Walking
  <2> QED BY <2>2, <2>3
<1>4. CASE PcbDone
  BY <1>4 DEF PcbDone, rt
<1>5. CASE RtRefuses
  BY <1>5 DEF RtRefuses, Walking, Remaining, Stop, Unread, Look, pcb, rt
<1>6. CASE RtSkip
  BY <1>6 DEF RtSkip, Walking, Remaining, Look, pcb, rt
<1>7. CASE RtRecord
  BY <1>7 DEF RtRecord, Walking, Remaining, Look, pcb, HEADER_LEN
<1>8. CASE RtAddress
  <2> PICK n \in AddressLengths, family \in Families :
        /\ Consumed(n) <= end - offset
        /\ Look(offset + IF n <= 1 THEN 1 ELSE Read(family, n),
                offset + IF n = 0 THEN 1 ELSE n)
        /\ offset' = offset + Consumed(n)
    BY <1>8 DEF RtAddress
  <2>1. n \in Nat /\ n <= 255
    OBVIOUS
  <2>2. offset' \in 0..length /\ offset' <= end
    BY <2>1, ConsumedCovers
  <2>3. reach' \in Nat /\ reach' <= fence' /\ fence' \in 0..length
    BY <2>1, ConsumedCovers, ReadInside DEF Look
  <2>4. /\ UNCHANGED <<format, length, status, end>> /\ bits' \subseteq 1..8
        /\ status = "addresses"
    BY <1>8 DEF RtAddress
  <2> QED BY <2>2, <2>3, <2>4
<1>9. CASE RtAddressRefuses
  BY <1>9 DEF RtAddressRefuses, Stop, Unread, pcb, rt
<1>10. CASE RtRecordDone
  BY <1>10 DEF RtRecordDone, pcb
<1>11. CASE RtDone
  BY <1>11 DEF RtDone, Walking, Stop, Unread, pcb, rt
<1>12. CASE UNCHANGED walkVars
  BY <1>12 DEF walkVars, pcb, rt
<1> QED
  BY <1>1, <1>2, <1>3, <1>4, <1>5, <1>6, <1>7, <1>8, <1>9, <1>10, <1>11, <1>12 DEF WalkNext

\* The offsets, lengths and phases of both walks keep their types: the offset
\* never leaves the buffer (parse/pcb.rs `walk`, parse/rt_msg.rs `walk`).
THEOREM WalksTypeCorrect == WalkSpec => []WalkTypeOK
<1>1. WInv => WalkTypeOK
  BY DEF WInv
<1> QED
  BY InvInit, InvNext, <1>1, PTL DEF WalkSpec

\* No byte beyond the block, record or address at hand is looked at, so that no
\* index of the walks can panic, for any lengths and kinds the kernel writes.
THEOREM WalksStayInside == WalkSpec => []InsideItsBlock
<1> QED
  BY InvInit, InvNext, PTL DEF WalkSpec

\* Each step of either walk gets further or changes its phase: no block, record
\* or address, a length of zero included, can hold a walk up.
THEOREM WalksAdvance == WalkSpec => EveryStepAdvances
<1>1. ASSUME WInv, [WalkNext]_walkVars
      PROVE  [offset' > offset \/ (offset' = offset /\ status' # status)]_walkVars
  <2> SUFFICES ASSUME WalkNext
               PROVE  offset' > offset \/ (offset' = offset /\ status' # status)
    BY <1>1
  <2> USE <1>1, WalksAssumption DEF WInv, WalkTypeOK
  <2>1. CASE PcbHeader
    BY <2>1 DEF PcbHeader, Stop, XINPGEN_LEN
  <2>2. CASE PcbRefuses
    BY <2>2 DEF PcbRefuses, Walking, Stop
  <2>3. CASE PcbBlock
    <3> PICK claimed \in BlockLengths : claimed \in 8..Remaining /\ StepOver(claimed)
      BY <2>3 DEF PcbBlock
    <3> QED
      BY <2>3, AdvanceRounds DEF PcbBlock, StepOver, Walking, Remaining
  <2>4. CASE PcbDone
    BY <2>4 DEF PcbDone
  <2>5. CASE RtRefuses
    BY <2>5 DEF RtRefuses, Walking, Stop
  <2>6. CASE RtSkip
    BY <2>6 DEF RtSkip, Remaining
  <2>7. CASE RtRecord
    BY <2>7 DEF RtRecord, HEADER_LEN
  <2>8. CASE RtAddress
    <3> PICK n \in AddressLengths : offset' = offset + Consumed(n)
      BY <2>8 DEF RtAddress
    <3> QED BY ConsumedCovers
  <2>9. CASE RtAddressRefuses
    BY <2>9 DEF RtAddressRefuses, Stop
  <2>10. CASE RtRecordDone
    BY <2>10 DEF RtRecordDone
  <2>11. CASE RtDone
    BY <2>11 DEF RtDone, Walking, Stop
  <2> QED
    BY <2>1, <2>2, <2>3, <2>4, <2>5, <2>6, <2>7, <2>8, <2>9, <2>10, <2>11 DEF WalkNext
<1> QED
  BY InvInit, InvNext, <1>1, PTL DEF WalkSpec, EveryStepAdvances

\* The two ways of rounding a socket address up agree: the one of the code, by
\* bits, and the one of the kernel, to the next multiple of four and never to
\* nothing.
LEMMA ConsumedIsOccupied ==
  ASSUME NEW n \in 0..255
  PROVE  Consumed(n) = Occupied(n)
<1> DEFINE Multiples == {4 * i : i \in 1..64}
           Holds(k) == k >= n /\ k - 4 < IF n = 0 THEN 1 ELSE n
<1>1. Consumed(n) \in Multiples /\ Holds(Consumed(n))
  <2>1. CASE n = 0
    <3>1. Consumed(n) = 4 * 1
      BY <2>1 DEF Consumed
    <3> QED BY <2>1, <3>1
  <2>2. CASE n # 0
    <3>1. PICK i \in 1..64 : i = (n - 1) \div 4 + 1
      BY <2>2
    <3>2. Consumed(n) = 4 * i
      BY <2>2, <3>1 DEF Consumed
    <3>3. Holds(4 * i)
      BY <2>2, <3>1
    <3> QED BY <3>2, <3>3
  <2> QED BY <2>1, <2>2
<1>2. \A k \in Multiples : Holds(k) => k = Consumed(n)
  <2> SUFFICES ASSUME NEW i \in 1..64, Holds(4 * i)
               PROVE  4 * i = Consumed(n)
    OBVIOUS
  <2> QED BY DEF Consumed
<1> QED
  BY <1>1, <1>2 DEF Occupied

\* The walks stay in step with the kernel, for every length it may write:
\* control blocks are read at multiples of eight, and each address of a routing
\* message where the kernel put it.
THEOREM WalksStayInStep == WalkSpec => []InStep
<1>1. WalkInit => InStep
  BY DEF WalkInit, InStep, ALIGNMENT
<1>2. ASSUME WInv, InStep, [WalkNext]_walkVars
      PROVE  InStep'
  <2> USE <1>2, WalksAssumption DEF WInv, WalkTypeOK, InStep
  <2>1. CASE PcbHeader
    BY <2>1 DEF PcbHeader, Stop, pcb, rt, XINPGEN_LEN, ALIGNMENT
  <2>2. CASE PcbRefuses
    BY <2>2 DEF PcbRefuses, Stop, pcb, rt
  <2>3. CASE PcbBlock
    <3> PICK claimed \in BlockLengths : claimed \in 8..Remaining /\ StepOver(claimed)
      BY <2>3 DEF PcbBlock
    <3>1. format' = format /\ status' \in {"walking", "flush"} /\ format = "pcb"
      BY <2>3 DEF PcbBlock, StepOver, Walking
    <3>2. offset % 8 = 0 /\ Advance(claimed) % 8 = 0 /\ Advance(claimed) \in Nat
      BY <3>1, AdvanceRounds DEF ALIGNMENT
    <3>3. offset' = offset \/ offset' = offset + Advance(claimed)
      BY DEF StepOver
    <3>4. offset' % 8 = 0
      BY <3>2, <3>3
    <3> QED BY <3>1, <3>4 DEF ALIGNMENT
  <2>4. CASE PcbDone
    BY <2>4 DEF PcbDone, rt
  <2>5. CASE RtRefuses
    BY <2>5 DEF RtRefuses, Walking, Stop, rt
  <2>6. CASE RtSkip
    BY <2>6 DEF RtSkip, Walking, rt
  <2>7. CASE RtRecord
    BY <2>7 DEF RtRecord, Walking
  <2>8. CASE RtAddress
    <3> PICK n \in AddressLengths :
          offset' = offset + Consumed(n) /\ written' = written + Occupied(n)
      BY <2>8 DEF RtAddress
    <3>1. Consumed(n) = Occupied(n)
      BY ConsumedIsOccupied
    <3>2. format' = format /\ status' = status /\ format = "rt_msg" /\ status = "addresses"
      BY <2>8 DEF RtAddress
    <3> QED BY <3>1, <3>2
  <2>9. CASE RtAddressRefuses
    BY <2>9 DEF RtAddressRefuses, Stop, pcb, rt
  <2>10. CASE RtRecordDone
    BY <2>10 DEF RtRecordDone
  <2>11. CASE RtDone
    BY <2>11 DEF RtDone, Walking, Stop, rt
  <2>12. CASE UNCHANGED walkVars
    BY <2>12 DEF walkVars, rt
  <2> QED
    BY <2>1, <2>2, <2>3, <2>4, <2>5, <2>6, <2>7, <2>8, <2>9, <2>10, <2>11, <2>12 DEF WalkNext
<1> QED
  BY InvInit, InvNext, <1>1, <1>2, PTL DEF WalkSpec

-----------------------------------------------------------------------------
(* What is assembled of the control blocks.                                *)

ControlBlocks == [pcb : Nat, ok : BOOLEAN, uid : Nat, state : Nat]
Assemblies == [pcb : Nat, uid : Nat, state : Nat]

\* The sockets in s are those of the first m blocks of b, in order.
Made(b, s, m) ==
  /\ s \in Seq(Assemblies)
  /\ \A i \in 1..Len(s) : \E n \in 1..m : b[n].ok /\ s[i] = Socket(b[n])
  /\ \A n \in 1..m : b[n].ok => \E i \in 1..Len(s) : s[i] = Socket(b[n])
  /\ \A i, k \in 1..Len(s) : i < k => s[i].pcb < s[k].pcb

Rising(b) ==
  b \in Seq(ControlBlocks) /\ \A i, k \in 1..Len(b) : i < k => b[i].pcb < b[k].pcb

\* What is pending is the socket of the last block.
PendingOf(b) == IF Len(b) > 0 /\ b[Len(b)].ok THEN Socket(b[Len(b)]) ELSE None

\* Up to the last block, whose socket is still pending, everything is done; the
\* blocks lie one behind the other, and before the next header.
Progress ==
  /\ Rising(blocks)
  /\ status = "walking" => \A k \in 1..Len(blocks) : blocks[k].pcb < offset
  /\ format = "rt_msg" \/ status = "header" => blocks = <<>>
  /\ IF status = "ok"
       THEN Made(blocks, sockets, Len(blocks)) /\ pending = None
       ELSE Made(blocks, sockets, Len(blocks) - 1) /\ pending = PendingOf(blocks)

LEMMA SocketOfBlock ==
  ASSUME NEW b \in ControlBlocks
  PROVE  Socket(b) \in Assemblies /\ Socket(b) # None /\ Socket(b).pcb = b.pcb
<1>1. Socket(b) \in Assemblies /\ Socket(b).pcb = b.pcb
  BY DEF Socket, ControlBlocks, Assemblies
<1>2. "uid" \in DOMAIN Socket(b) /\ "uid" \notin DOMAIN None
  BY DEF Socket, None
<1> QED
  BY <1>1, <1>2

\* Blocks further on make no difference.
LEMMA MadeOfPrefix ==
  ASSUME NEW b, NEW c, NEW s, NEW m \in Int, Made(b, s, m), \A n \in 1..m : c[n] = b[n]
  PROVE  Made(c, s, m)
BY DEF Made

\* With the pending socket, the last block is done as well.
LEMMA MadeWithPending ==
  ASSUME NEW b, Rising(b), NEW s, Made(b, s, Len(b) - 1)
  PROVE  Made(b, IF PendingOf(b) = None THEN s ELSE Append(s, PendingOf(b)), Len(b))
<1> DEFINE n == Len(b)
<1>0. n \in Nat /\ s \in Seq(Assemblies) /\ Len(s) \in Nat
  BY LenProperties DEF Rising, Made
<1>1. CASE n = 0
  <2>1. PendingOf(b) = None /\ 1..(n - 1) = {} /\ 1..n = {}
    BY <1>1 DEF PendingOf
  <2> QED
    BY <2>1 DEF Made
<1>2. CASE n > 0 /\ ~b[n].ok
  <2>1. PendingOf(b) = None
    BY <1>2 DEF PendingOf
  <2>2. \A k \in 1..n : b[k].ok => k \in 1..(n - 1)
    BY <1>0, <1>2
  <2>3. 1..(n - 1) \subseteq 1..n
    BY <1>0
  <2> HIDE DEF n
  <2>4. Made(b, s, n)
    BY <2>2, <2>3 DEF Made, n
  <2> QED
    BY <2>1, <2>4 DEF n
<1>3. CASE n > 0 /\ b[n].ok
  <2> DEFINE x == Socket(b[n])
             t == Append(s, x)
  <2>1. b[n] \in ControlBlocks /\ n \in 1..n
    BY <1>0, <1>3, ElementOfSeq DEF Rising
  <2>2. PendingOf(b) = x /\ x # None /\ x \in Assemblies /\ x.pcb = b[n].pcb
    BY <1>3, <2>1, SocketOfBlock DEF PendingOf
  <2>3. /\ t \in Seq(Assemblies) /\ Len(t) = Len(s) + 1 /\ t[Len(s) + 1] = x
        /\ \A i \in 1..Len(s) : t[i] = s[i]
    BY <1>0, <2>2, AppendProperties
  <2> HIDE DEF t, x
  <2>4. \A i \in 1..Len(t) : \E k \in 1..n : b[k].ok /\ t[i] = Socket(b[k])
    <3> TAKE i \in 1..Len(t)
    <3>1. CASE i = Len(s) + 1
      BY <1>3, <2>1, <2>3, <3>1 DEF x
    <3>2. CASE i # Len(s) + 1
      <4>1. i \in 1..Len(s)
        BY <1>0, <2>3, <3>2
      <4>2. PICK k \in 1..(n - 1) : b[k].ok /\ s[i] = Socket(b[k])
        BY <4>1 DEF Made
      <4> QED
        BY <1>0, <2>3, <4>1, <4>2
    <3> QED
      BY <3>1, <3>2
  <2>5. \A k \in 1..n : b[k].ok => \E i \in 1..Len(t) : t[i] = Socket(b[k])
    <3> SUFFICES ASSUME NEW k \in 1..n, b[k].ok
                 PROVE  \E i \in 1..Len(t) : t[i] = Socket(b[k])
      OBVIOUS
    <3>1. CASE k = n
      <4>1. Len(s) + 1 \in 1..Len(t)
        BY <1>0, <2>3
      <4> QED
        BY <2>3, <3>1, <4>1 DEF x
    <3>2. CASE k # n
      <4>1. k \in 1..(n - 1)
        BY <1>0, <3>2
      <4>2. PICK i \in 1..Len(s) : s[i] = Socket(b[k])
        BY <4>1 DEF Made
      <4>3. i \in 1..Len(t)
        BY <1>0, <2>3
      <4> QED
        BY <2>3, <4>2, <4>3
    <3> QED
      BY <3>1, <3>2
  <2>6. \A i \in 1..Len(s) : s[i].pcb < x.pcb
    <3> TAKE i \in 1..Len(s)
    <3>1. PICK k \in 1..(n - 1) : s[i] = Socket(b[k])
      BY DEF Made
    <3>2. k \in 1..n /\ k < n /\ b[k] \in ControlBlocks
      BY <1>0, ElementOfSeq DEF Rising
    <3>3. b[k].pcb < b[n].pcb
      BY <2>1, <3>2 DEF Rising
    <3> QED
      BY <2>2, <3>1, <3>2, <3>3, SocketOfBlock
  <2>7. \A i, k \in 1..Len(t) : i < k => t[i].pcb < t[k].pcb
    <3> TAKE i, k \in 1..Len(t)
    <3>1. i < k => i \in 1..Len(s) /\ (k \in 1..Len(s) \/ k = Len(s) + 1)
      BY <1>0, <2>3
    <3> QED
      BY <2>3, <2>6, <3>1 DEF Made
  <2>8. Made(b, t, n)
    BY <2>3, <2>4, <2>5, <2>7 DEF Made
  <2> QED
    BY <2>2, <2>8 DEF t
<1> QED
  BY <1>0, <1>1, <1>2, <1>3

\* All that is left is that nothing else sticks to a block's socket.
LEMMA ProgressSuffices == Progress => EverySocketComesOut
<1> SUFFICES ASSUME Progress PROVE EverySocketComesOut
  OBVIOUS
<1>1. Made(blocks, Assembled, Len(blocks))
  BY MadeWithPending DEF Progress, Assembled
<1>2. /\ DOMAIN Assembled = 1..Len(Assembled)
      /\ DOMAIN blocks = 1..Len(blocks)
  BY <1>1, LenProperties DEF Made, Progress, Rising
<1> HIDE DEF Assembled
<1>3. \A i \in DOMAIN Assembled : \E n \in {k \in DOMAIN blocks : blocks[k].ok} :
        Assembled[i] = Socket(blocks[n])
  BY <1>1, <1>2 DEF Made
<1>4. \A n \in {k \in DOMAIN blocks : blocks[k].ok} : \E i \in DOMAIN Assembled :
        Assembled[i] = Socket(blocks[n])
  BY <1>1, <1>2 DEF Made
<1>5. {Assembled[i] : i \in DOMAIN Assembled} =
        {Socket(blocks[n]) : n \in {k \in DOMAIN blocks : blocks[k].ok}}
  <2> DEFINE out == {Assembled[i] : i \in DOMAIN Assembled}
             in == {Socket(blocks[n]) : n \in {k \in DOMAIN blocks : blocks[k].ok}}
  <2>1. \A x \in out : x \in in
    BY <1>3
  <2>2. \A x \in in : x \in out
    BY <1>4
  <2> HIDE DEF out, in
  <2>3. out = in
    BY <2>1, <2>2
  <2> QED
    BY <2>3 DEF out, in
<1>6. \A i, k \in DOMAIN Assembled : i < k => Assembled[i].pcb < Assembled[k].pcb
  BY <1>1, <1>2 DEF Made
<1> QED
  BY <1>5, <1>6 DEF EverySocketComesOut

LEMMA ProgressInit == WalkInit => Progress
<1> SUFFICES ASSUME WalkInit PROVE Progress
  OBVIOUS
<1>1. /\ blocks = <<>> /\ sockets = <<>> /\ pending = None /\ offset = 0
      /\ status = IF format = "pcb" THEN "header" ELSE "walking"
  BY DEF WalkInit
<1>2. Len(<<>>) = 0 /\ <<>> \in Seq(ControlBlocks) /\ <<>> \in Seq(Assemblies)
  BY EmptySeq
<1> QED
  BY <1>1, <1>2 DEF Progress, Rising, Made, PendingOf

\* What is written about the last block is what is said of the pending socket.
LEMMA BlockStep ==
  ASSUME WInv, Progress, NEW claimed \in BlockLengths, NEW kind \in Kinds,
         NEW readable \in BOOLEAN, Walking("pcb"), claimed \in 8..Remaining,
         Block(kind, claimed, readable), blocks' = Described(kind, claimed, readable)
  PROVE  /\ Rising(blocks') /\ Made(blocks', sockets', Len(blocks') - 1)
         /\ pending' = PendingOf(blocks')
         /\ \A k \in 1..Len(blocks') : blocks'[k].pcb <= offset
<1> DEFINE n == Len(blocks)
           long == claimed >= Minimum[kind]
<1>0. /\ Rising(blocks) /\ blocks \in Seq(ControlBlocks) /\ n \in Nat /\ offset \in Nat
      /\ \A k \in 1..n : blocks[k] \in ControlBlocks /\ blocks[k].pcb < offset
      /\ Made(blocks, sockets, n - 1) /\ pending = PendingOf(blocks)
  BY WalksAssumption, LenProperties, ElementOfSeq DEF Progress, Rising, Walking, WInv, WalkTypeOK
<1>5. claimed \in Nat /\ (kind # "other" => Minimum[kind] \in Nat)
  BY WalksAssumption DEF Kinds, Minimum
<1>1. CASE kind = "inpcb"
  <2> DEFINE new == [pcb |-> offset, ok |-> long /\ readable, uid |-> 0, state |-> 0]
  <2>1. blocks' = Append(blocks, new)
    BY <1>1 DEF Described
  <2>2. new \in ControlBlocks
    BY <1>0 DEF ControlBlocks
  <2>3. /\ blocks' \in Seq(ControlBlocks) /\ Len(blocks') = n + 1 /\ blocks'[n + 1] = new
        /\ \A k \in 1..n : blocks'[k] = blocks[k]
    BY <1>0, <2>1, <2>2, AppendProperties
  <2>4. /\ sockets' = IF PendingOf(blocks) = None THEN sockets
                      ELSE Append(sockets, PendingOf(blocks))
        /\ pending' = IF long /\ readable THEN [pcb |-> offset, uid |-> 0, state |-> 0]
                      ELSE None
    BY <1>0, <1>1 DEF Block, Start
  <2>5. Made(blocks, sockets', n)
    BY <1>0, <2>4, MadeWithPending
  <2>6. new.pcb = offset /\ new.ok = (long /\ readable)
        /\ Socket(new) = [pcb |-> offset, uid |-> 0, state |-> 0]
    BY DEF Socket
  <2> HIDE DEF new, long
  <2>7. Made(blocks', sockets', Len(blocks') - 1)
    <3>1. Made(blocks', sockets', n)
      BY <1>0, <2>3, <2>5, MadeOfPrefix
    <3>2. Len(blocks') - 1 = n
      BY <1>0, <2>3
    <3> QED
      BY <3>1, <3>2
  <2>8. \A k \in 1..(n + 1) : k = n + 1 \/ k \in 1..n
    BY <1>0
  <2>9. Rising(blocks')
    <3>1. \A i, k \in 1..(n + 1) : i < k => i \in 1..n
      BY <1>0
    <3> QED
      BY <1>0, <2>3, <2>6, <2>8, <3>1 DEF Rising
  <2>10. \A k \in 1..Len(blocks') : blocks'[k].pcb <= offset
    <3>1. \A k \in 1..n : blocks[k].pcb \in Nat
      BY <1>0 DEF ControlBlocks
    <3> QED
      BY <1>0, <2>3, <2>6, <2>8, <3>1
  <2>11. pending' = PendingOf(blocks')
    <3>1. Len(blocks') > 0 /\ blocks'[Len(blocks')] = new
      BY <1>0, <2>3
    <3>2. PendingOf(blocks') = IF new.ok THEN Socket(new) ELSE None
      BY <3>1 DEF PendingOf
    <3>3. CASE long /\ readable
      BY <2>4, <2>6, <3>2, <3>3
    <3>4. CASE ~(long /\ readable)
      BY <2>4, <2>6, <3>2, <3>4
    <3> QED
      BY <3>3, <3>4
  <2> QED
    BY <2>7, <2>9, <2>10, <2>11
<1>2. CASE blocks' = blocks /\ pending' = pending /\ sockets' = sockets
  <2> HIDE DEF n
  <2>1. \A k \in 1..n : blocks[k].pcb <= offset
    BY <1>0 DEF ControlBlocks
  <2>2. Rising(blocks') /\ pending' = PendingOf(blocks')
    BY <1>0, <1>2
  <2>3. Made(blocks', sockets', Len(blocks') - 1)
    BY <1>0, <1>2 DEF n
  <2>4. Len(blocks') = n
    BY <1>2 DEF n
  <2> QED
    BY <1>2, <2>1, <2>2, <2>3, <2>4
<1>3. CASE kind \in {"socket", "tcpcb"} /\ n > 0 /\ long
  <2> DEFINE last == blocks[n]
             said == IF kind = "socket" THEN [last EXCEPT !.uid = offset]
                     ELSE [last EXCEPT !.state = offset]
  <2>1. n \in 1..n /\ last \in ControlBlocks
    BY <1>0, <1>3
  <2>2. /\ said \in ControlBlocks /\ said.pcb = last.pcb /\ said.ok = last.ok
    BY <1>0, <2>1 DEF ControlBlocks
  <2>3. blocks' = [blocks EXCEPT ![n] = said]
    BY <1>3, <1>0 DEF Described
  <2>4. /\ blocks' \in Seq(ControlBlocks) /\ Len(blocks') = n
        /\ \A k \in 1..n : blocks'[k] = IF k = n THEN said ELSE blocks[k]
    <3>1. blocks \in Seq(ControlBlocks) /\ n \in 1..Len(blocks) /\ said \in ControlBlocks
      BY <1>0, <2>1, <2>2
    <3> HIDE DEF n, said, last
    <3>2. /\ [blocks EXCEPT ![n] = said] \in Seq(ControlBlocks)
          /\ Len([blocks EXCEPT ![n] = said]) = Len(blocks)
          /\ \A k \in 1..Len(blocks) :
               [blocks EXCEPT ![n] = said][k] = IF k = n THEN said ELSE blocks[k]
      BY <3>1, ExceptSeq
    <3>3. Len(blocks) = n
      BY DEF n
    <3> QED
      BY <2>3, <3>2, <3>3
  <2>5. /\ sockets' = sockets
        /\ pending' = IF pending = None THEN pending
                      ELSE IF kind = "socket" THEN [pending EXCEPT !.uid = offset]
                      ELSE [pending EXCEPT !.state = offset]
    BY <1>3, <1>5 DEF Block
  <2>6. last.ok => /\ Socket(last) # None
                   /\ Socket(said) = IF kind = "socket"
                                       THEN [Socket(last) EXCEPT !.uid = offset]
                                       ELSE [Socket(last) EXCEPT !.state = offset]
    BY <1>3, <2>1, SocketOfBlock DEF Socket, ControlBlocks
  <2>7. PendingOf(blocks) = IF last.ok THEN Socket(last) ELSE None
    BY <1>3 DEF PendingOf
  <2> HIDE DEF said, last
  <2>8. pending' = IF last.ok THEN Socket(said) ELSE None
    BY <1>0, <2>5, <2>6, <2>7
  <2>9. PendingOf(blocks') = IF said.ok THEN Socket(said) ELSE None
    BY <1>0, <1>3, <2>1, <2>4 DEF PendingOf
  <2>10. Made(blocks', sockets', Len(blocks') - 1)
    <3>1. \A k \in 1..(n - 1) : k \in 1..n /\ k # n
      BY <1>0
    <3> QED
      BY <1>0, <2>4, <2>5, <3>1, MadeOfPrefix
  <2>11. \A k \in 1..n : blocks'[k].pcb = blocks[k].pcb
    BY <2>2, <2>4 DEF last
  <2>12. Rising(blocks')
    BY <1>0, <2>4, <2>11 DEF Rising
  <2>13. \A k \in 1..n : blocks'[k].pcb <= offset
    <3>1. \A k \in 1..n : blocks[k].pcb \in Nat
      BY <1>0 DEF ControlBlocks
    <3> QED
      BY <1>0, <2>11, <3>1
  <2> QED
    BY <2>2, <2>4, <2>8, <2>9, <2>10, <2>12, <2>13
<1>4. CASE kind = "other" \/ (kind \in {"socket", "tcpcb"} /\ (n = 0 \/ ~long))
  <2>1. blocks' = blocks
    <3>1. CASE kind = "other"
      BY <3>1 DEF Described
    <3>2. CASE kind \in {"socket", "tcpcb"} /\ n = 0
      BY <3>2 DEF Described
    <3>3. CASE kind = "socket" /\ n > 0 /\ ~long
      BY <3>3 DEF Described
    <3>4. CASE kind = "tcpcb" /\ n > 0 /\ ~long
      BY <3>4 DEF Described
    <3> QED
      BY <1>0, <1>4, <3>1, <3>2, <3>3, <3>4
  <2>2. n = 0 => pending = None
    BY <1>0 DEF PendingOf
  <2>3. pending' = pending /\ sockets' = sockets
    <3>1. CASE kind = "other"
      BY <3>1 DEF Block
    <3>2. CASE kind \in {"socket", "tcpcb"} /\ pending = None
      BY <3>2 DEF Block
    <3>3. CASE kind \in {"socket", "tcpcb"} /\ ~long
      BY <1>5, <3>3 DEF Block
    <3> QED
      BY <1>4, <2>2, <3>1, <3>2, <3>3
  <2> QED
    BY <1>2, <2>1, <2>3
<1> QED
  BY <1>0, <1>1, <1>3, <1>4 DEF Kinds

LEMMA ProgressNext == WInv /\ Progress /\ [WalkNext]_walkVars => Progress'
<1> SUFFICES ASSUME WInv, Progress, [WalkNext]_walkVars PROVE Progress'
  OBVIOUS
<1>1. CASE PcbBlock
  <2> PICK claimed \in BlockLengths, kind \in Kinds, readable \in BOOLEAN :
        /\ claimed \in 8..Remaining
        /\ Block(kind, claimed, readable)
        /\ blocks' = Described(kind, claimed, readable)
        /\ StepOver(claimed)
    BY <1>1 DEF PcbBlock
  <2>1. /\ Rising(blocks') /\ Made(blocks', sockets', Len(blocks') - 1)
        /\ pending' = PendingOf(blocks')
        /\ \A k \in 1..Len(blocks') : blocks'[k].pcb <= offset
    BY <1>1, BlockStep DEF PcbBlock
  <2>2. /\ status' \in {"walking", "flush"} /\ format' = "pcb"
        /\ status' = "walking" => offset' = offset + Advance(claimed)
    BY <1>1 DEF PcbBlock, StepOver, Walking
  <2>3. Advance(claimed) \in Nat /\ Advance(claimed) >= 8 /\ offset \in Nat
    BY WalksAssumption, AdvanceRounds DEF WInv, WalkTypeOK
  <2>4. \A k \in 1..Len(blocks') : blocks'[k].pcb \in Nat
    <3>1. \A b : Rising(b) => \A k \in 1..Len(b) : b[k] \in ControlBlocks
      BY ElementOfSeq DEF Rising
    <3>2. \A k \in 1..Len(blocks') : blocks'[k] \in ControlBlocks
      BY <2>1, <3>1
    <3> QED
      BY <3>2 DEF ControlBlocks
  <2>5. status' = "walking" => \A k \in 1..Len(blocks') : blocks'[k].pcb < offset'
    BY <2>1, <2>2, <2>3, <2>4
  <2> QED
    BY <2>1, <2>2, <2>5 DEF Progress
<1>2. CASE PcbDone
  <2>1. /\ blocks' = blocks /\ status' = "ok" /\ format' = "pcb" /\ pending' = None
        /\ sockets' = Assembled /\ status # "ok"
    BY <1>2 DEF PcbDone, Assembled
  <2>2. Made(blocks, Assembled, Len(blocks))
    BY <2>1, MadeWithPending DEF Progress, Assembled
  <2> QED
    BY <2>1, <2>2 DEF Progress
<1>3. CASE \/ PcbHeader \/ PcbRefuses \/ RtRefuses \/ RtSkip \/ RtRecord \/ RtAddress
           \/ RtAddressRefuses \/ RtRecordDone \/ RtDone \/ UNCHANGED walkVars
  <2>1. UNCHANGED <<blocks, sockets, pending, format>>
    BY <1>3 DEF PcbHeader, PcbRefuses, RtRefuses, RtSkip, RtRecord, RtAddress,
       RtAddressRefuses, RtRecordDone, RtDone, Stop, walkVars, pcb
  <2>2. \/ status' = status /\ offset' = offset
        \/ status' # "header" /\ blocks = <<>> /\ status # "ok"
        \/ status' = "error" /\ status # "ok"
    BY <1>3 DEF PcbHeader, PcbRefuses, RtRefuses, RtSkip, RtRecord, RtAddress,
       RtAddressRefuses, RtRecordDone, RtDone, Stop, walkVars, pcb, Walking, WInv, Progress
  <2>3. CASE status' = status /\ offset' = offset
    BY <2>1, <2>3 DEF Progress
  <2>4. CASE status' # "header" /\ blocks = <<>> /\ status # "ok"
    <3>1. Len(blocks) = 0 /\ PendingOf(blocks) = None
      BY <2>4, EmptySeq DEF PendingOf
    <3>2. Made(blocks, sockets, 0 - 1) => Made(blocks, sockets, 0)
      BY DEF Made
    <3>3. Made(blocks, sockets, 0) /\ Made(blocks, sockets, 0 - 1) /\ pending = None
      BY <2>4, <3>1, <3>2 DEF Progress
    <3> QED
      BY <2>1, <2>4, <3>1, <3>3 DEF Progress
  <2>5. CASE status' = "error" /\ status # "ok"
    BY <2>1, <2>5 DEF Progress
  <2> QED
    BY <2>2, <2>3, <2>4, <2>5
<1> QED
  BY <1>1, <1>2, <1>3 DEF WalkNext

\* Every control block that can be read comes out as a socket, once and in order,
\* with what its own blocks say of it (parse/pcb.rs `parse`): whatever lengths and
\* kinds the kernel writes, nothing sticks to a neighbour.
THEOREM WalksLoseNothing == WalkSpec => []EverySocketComesOut
<1>1. WalkSpec => []WInv
  BY InvInit, InvNext, PTL DEF WalkSpec
<1> QED
  BY <1>1, ProgressInit, ProgressNext, ProgressSuffices, PTL DEF WalkSpec

-----------------------------------------------------------------------------
(* II.  The table of `listen`.                                             *)
(* Arranging a finite set: nothing is lost, nothing comes twice.           *)

StrictTotal(S, order) ==
  /\ \A x \in S : <<x, x>> \notin order
  /\ \A x, y \in S : x # y => <<x, y>> \in order \/ <<y, x>> \in order
  /\ \A x, y, z \in S : <<x, y>> \in order /\ <<y, z>> \in order => <<x, z>> \in order

LEMMA ArrangedIsBijection ==
  ASSUME NEW S, IsFiniteSet(S), NEW order, StrictTotal(S, order)
  PROVE  /\ Cardinality(S) \in Nat
         /\ Arranged(S, order) \in [1..Cardinality(S) -> S]
         /\ \A x \in S : \E n \in 1..Cardinality(S) : Arranged(S, order)[n] = x
         /\ \A m, n \in 1..Cardinality(S) :
              m < n => <<Arranged(S, order)[m], Arranged(S, order)[n]>> \in order
<1> DEFINE size == Cardinality(S)
           Below(x) == {y \in S : <<y, x>> \in order}
           rank == [x \in S |-> Cardinality(Below(x)) + 1]
           places == 1..size
<1>1. /\ size \in Nat
      /\ IsFiniteSet(places) /\ Cardinality(places) = size
  BY FS_CardinalityType, FS_Interval
<1>2. \A x \in S : /\ IsFiniteSet(Below(x)) /\ Cardinality(Below(x)) \in Nat
                   /\ Cardinality(Below(x)) < size
  <2> TAKE x \in S
  <2> DEFINE rest == S \ {x}
  <2>1. Below(x) \subseteq rest
    BY DEF StrictTotal
  <2> HIDE DEF Below, rank, places
  <2>2. IsFiniteSet(rest) /\ Cardinality(rest) = size - 1
    BY FS_RemoveElement
  <2> HIDE DEF rest, size
  <2>3. IsFiniteSet(Below(x)) /\ Cardinality(Below(x)) <= Cardinality(rest)
    BY <2>1, <2>2, FS_Subset
  <2>4. Cardinality(Below(x)) \in Nat
    BY <2>3, FS_CardinalityType
  <2> QED
    BY <1>1, <2>2, <2>3, <2>4
<1>3. \A x \in S : rank[x] = Cardinality(Below(x)) + 1
  OBVIOUS
<1>4. \A x, y \in S : <<x, y>> \in order => rank[x] < rank[y]
  <2> SUFFICES ASSUME NEW x \in S, NEW y \in S, <<x, y>> \in order
               PROVE  rank[x] < rank[y]
    OBVIOUS
  <2>1. Below(x) \subseteq Below(y) \ {x} /\ x \in Below(y)
    BY DEF StrictTotal
  <2> HIDE DEF Below, rank
  <2>2. /\ IsFiniteSet(Below(y) \ {x})
        /\ Cardinality(Below(y) \ {x}) = Cardinality(Below(y)) - 1
    BY <1>2, <2>1, FS_RemoveElement
  <2>3. Cardinality(Below(x)) <= Cardinality(Below(y) \ {x})
    BY <2>1, <2>2, FS_Subset
  <2> QED
    BY <1>2, <1>3, <2>2, <2>3
<1>5. rank \in [S -> places]
  <2>1. \A x \in S : Cardinality(Below(x)) + 1 \in places
    <3> HIDE DEF Below
    <3> QED
      BY <1>1, <1>2
  <2> HIDE DEF Below
  <2> QED
    BY <2>1
<1> HIDE DEF Below, rank
<1>6. \A x, y \in S : rank[x] = rank[y] => x = y
  <2> SUFFICES ASSUME NEW x \in S, NEW y \in S, rank[x] = rank[y], x # y PROVE FALSE
    OBVIOUS
  <2>1. rank[x] \in Nat /\ rank[y] \in Nat
    BY <1>1, <1>5
  <2>2. <<x, y>> \in order \/ <<y, x>> \in order
    BY DEF StrictTotal
  <2> QED
    BY <1>4, <2>1, <2>2
<1>7. \A n \in places : \E x \in S : rank[x] = n
  <2>1. rank \in Injection(S, places)
    BY <1>5, <1>6 DEF Injection, IsInjective
  <2>2. rank \in Surjection(S, places)
    BY <1>1, <2>1, FS_Injection
  <2> QED
    BY <2>2 DEF Surjection
<1>8. \A n \in places : /\ Arranged(S, order)[n] \in S
                        /\ rank[Arranged(S, order)[n]] = n
  <2> TAKE n \in places
  <2>1. Arranged(S, order)[n] = CHOOSE x \in S : Cardinality(Below(x)) = n - 1
    BY DEF Arranged, Below
  <2>2. \E x \in S : Cardinality(Below(x)) = n - 1
    BY <1>1, <1>2, <1>3, <1>7
  <2>3. /\ Arranged(S, order)[n] \in S
        /\ Cardinality(Below(Arranged(S, order)[n])) = n - 1
    BY <2>1, <2>2
  <2> QED
    BY <1>1, <1>3, <2>3
<1>9. Arranged(S, order) \in [places -> S]
  BY <1>8 DEF Arranged
<1>10. \A x \in S : \E n \in places : Arranged(S, order)[n] = x
  BY <1>5, <1>6, <1>8
<1>11. ASSUME NEW m \in places, NEW n \in places, m < n
       PROVE  <<Arranged(S, order)[m], Arranged(S, order)[n]>> \in order
  <2> DEFINE x == Arranged(S, order)[m]
             y == Arranged(S, order)[n]
  <2>1. x \in S /\ y \in S /\ rank[x] = m /\ rank[y] = n
    BY <1>8
  <2> HIDE DEF x, y
  <2>2. x # y /\ <<y, x>> \notin order
    BY <1>1, <1>4, <1>11, <2>1
  <2> QED
    BY <2>1, <2>2 DEF StrictTotal, x, y
<1> QED
  BY <1>1, <1>9, <1>10, <1>11

Smaller(K) == {p \in K \X K : p[1] < p[2]}

LEMMA SmallerIsTotal ==
  ASSUME NEW K, K \subseteq Nat
  PROVE  /\ StrictTotal(K, Smaller(K))
         /\ \A j, k \in K : <<j, k>> \in Smaller(K) <=> j < k
<1>1. \A j, k \in K : <<j, k>> \in Smaller(K) <=> j < k
  BY DEF Smaller
<1> HIDE DEF Smaller
<1> QED
  BY <1>1 DEF StrictTotal

LEMMA LeastExists ==
  ASSUME NEW n \in Nat, NEW K, K \subseteq 1..n, K # {}
  PROVE  \E k \in K : \A j \in K : k <= j
<1>1. IsFiniteSet(K) /\ K \subseteq Nat
  <2>1. IsFiniteSet(1..n) /\ K \in SUBSET (1..n)
    BY FS_Interval
  <2>2. IsFiniteSet(K)
    BY <2>1, FS_Subset, Zenon
  <2> QED
    BY <2>2
<1>2. StrictTotal(K, Smaller(K)) /\ \A j, k \in K : <<j, k>> \in Smaller(K) <=> j < k
  BY <1>1, SmallerIsTotal
<1> DEFINE at == Arranged(K, Smaller(K))
<1>3. /\ Cardinality(K) \in Nat /\ at \in [1..Cardinality(K) -> K]
      /\ \A k \in K : \E m \in 1..Cardinality(K) : at[m] = k
      /\ \A i, m \in 1..Cardinality(K) : i < m => <<at[i], at[m]>> \in Smaller(K)
  BY <1>1, <1>2, ArrangedIsBijection
<1> HIDE DEF at
<1>4. 1 \in 1..Cardinality(K) /\ at[1] \in K
  <2>1. PICK k \in K : TRUE
    OBVIOUS
  <2>2. PICK m \in 1..Cardinality(K) : at[m] = k
    BY <1>3, <2>1
  <2> QED
    BY <1>3, <2>2
<1>5. ASSUME NEW j \in K PROVE at[1] <= j
  <2>1. PICK m \in 1..Cardinality(K) : at[m] = j
    BY <1>3
  <2>2. CASE m = 1
    BY <1>1, <2>1, <2>2
  <2>3. CASE 1 < m
    <3>1. <<at[1], at[m]>> \in Smaller(K)
      BY <1>3, <1>4, <2>3
    <3>2. at[1] < at[m]
      BY <1>2, <1>4, <2>1, <3>1
    <3>3. at[1] \in Nat /\ j \in Nat
      BY <1>1, <1>4
    <3> QED
      BY <2>1, <3>2, <3>3
  <2> QED
    BY <1>3, <2>2, <2>3
<1> QED
  BY <1>3, <1>4, <1>5

\* Filtering keeps what it is told to keep, each once and in its order.
LEMMA PickedKeeps ==
  ASSUME NEW seq, NEW K \in SUBSET Nat, IsFiniteSet(K)
  PROVE  /\ Cardinality(K) \in Nat
         /\ \E at \in [1..Cardinality(K) -> K] :
              /\ Picked(seq, K) = [n \in 1..Cardinality(K) |-> seq[at[n]]]
              /\ \A k \in K : \E n \in 1..Cardinality(K) : at[n] = k
              /\ \A m, n \in 1..Cardinality(K) : at[m] = at[n] => m = n
              /\ \A m, n \in 1..Cardinality(K) : m < n => at[m] < at[n]
<1> DEFINE at == Arranged(K, Smaller(K))
<1>1. /\ Cardinality(K) \in Nat /\ at \in [1..Cardinality(K) -> K]
      /\ \A k \in K : \E m \in 1..Cardinality(K) : at[m] = k
      /\ \A i, m \in 1..Cardinality(K) : i < m => <<at[i], at[m]>> \in Smaller(K)
  BY SmallerIsTotal, ArrangedIsBijection
<1>2. Picked(seq, K) = [n \in 1..Cardinality(K) |-> seq[at[n]]]
  BY DEF Picked, Smaller
<1> HIDE DEF at
<1>3. \A i, m \in 1..Cardinality(K) : i < m => at[i] < at[m]
  BY <1>1, SmallerIsTotal
<1>4. \A i, m \in 1..Cardinality(K) : at[i] = at[m] => i = m
  <2> SUFFICES ASSUME NEW i \in 1..Cardinality(K), NEW m \in 1..Cardinality(K),
                      at[i] = at[m], i < m
               PROVE  FALSE
    BY <1>1
  <2>1. at[i] \in Nat /\ at[m] \in Nat
    BY <1>1
  <2> QED
    BY <1>3, <2>1
<1> QED
  BY <1>1, <1>2, <1>3, <1>4

-----------------------------------------------------------------------------
(* The order of the table.                                                 *)

Labels == {Unclaimed, SomeContainer} \cup
            {c.name : c \in UNION {ToSet(a) : a \in Answers}}

Row == [slot : Slots, socket : Sockets, pid : Inspectable \cup {0}, container : Labels]

LEMMA KeyIsFive ==
  ASSUME NEW r \in Row
  PROVE  \A i \in 1..5 : Key(r)[i] \in Int
<1>1. /\ r.slot \in Nat /\ r.socket.port \in Nat /\ r.socket.address \in ToSet(Addresses)
  BY ListenAssumption DEF ListenAssumption, Row
<1>2. \E i \in DOMAIN Addresses : Addresses[i] = r.socket.address
  BY <1>1 DEF ToSet
<1>3. IndexIn(Addresses, r.socket.address) \in DOMAIN Addresses
  BY <1>2 DEF IndexIn
<1>4. IndexIn(Addresses, r.socket.address) \in Int
  BY <1>3 DEF Addresses
<1>5. \E i \in DOMAIN Groups : Groups[i] = Exposure(r.socket.address)
  BY SMT DEF Groups, Exposure
<1>6. Rank(r.socket) \in DOMAIN Groups
  BY <1>5 DEF Rank, IndexIn
<1>7. Rank(r.socket) \in Int
  BY <1>6 DEF Groups
<1> QED
  BY <1>1, <1>4, <1>7 DEF Key

LEMMA BeforeIsOrder ==
  ASSUME NEW a \in Row, NEW b \in Row, NEW c \in Row
  PROVE  /\ ~Before(a, a)
         /\ Before(a, b) /\ Before(b, c) => Before(a, c)
         /\ (\E i \in 1..5 : Key(a)[i] # Key(b)[i]) => Before(a, b) \/ Before(b, a)
<1>1. \A i \in 1..5 : Key(a)[i] \in Int /\ Key(b)[i] \in Int /\ Key(c)[i] \in Int
  BY KeyIsFive
<1>2. ~Before(a, a)
  BY <1>1 DEF Before
<1>3. ASSUME Before(a, b), Before(b, c) PROVE Before(a, c)
  <2>1. PICK i \in 1..5 : Key(a)[i] < Key(b)[i] /\ \A k \in 1..i - 1 : Key(a)[k] = Key(b)[k]
    BY <1>3 DEF Before
  <2>2. PICK j \in 1..5 : Key(b)[j] < Key(c)[j] /\ \A k \in 1..j - 1 : Key(b)[k] = Key(c)[k]
    BY <1>3 DEF Before
  <2>3. CASE i <= j
    <3>1. Key(a)[i] < Key(c)[i]
      BY <1>1, <2>1, <2>2, <2>3
    <3>2. \A k \in 1..i - 1 : Key(a)[k] = Key(c)[k]
      BY <2>1, <2>2, <2>3
    <3> QED
      BY <3>1, <3>2 DEF Before
  <2>4. CASE j < i
    <3>1. Key(a)[j] < Key(c)[j]
      BY <1>1, <2>1, <2>2, <2>4
    <3>2. \A k \in 1..j - 1 : Key(a)[k] = Key(c)[k]
      BY <2>1, <2>2, <2>4
    <3> QED
      BY <3>1, <3>2 DEF Before
  <2> QED
    BY <2>3, <2>4
<1>4. ASSUME NEW i \in 1..5, Key(a)[i] # Key(b)[i] PROVE Before(a, b) \/ Before(b, a)
  <2> DEFINE D == {k \in 1..5 : Key(a)[k] # Key(b)[k]}
  <2>1. PICK f \in D : \A k \in D : f <= k
    BY <1>4, LeastExists
  <2>2. \A k \in 1..f - 1 : Key(a)[k] = Key(b)[k]
    BY <2>1
  <2>3. Key(a)[f] < Key(b)[f] \/ Key(b)[f] < Key(a)[f]
    BY <1>1, <2>1
  <2> QED
    BY <2>2, <2>3 DEF Before
<1> QED
  BY <1>2, <1>3, <1>4

Distinct(rows) ==
  \A i, j \in DOMAIN rows : rows[i].socket = rows[j].socket => i = j

\* `join` lists every entry once; the port is the entry's, the owner the block's.
LEMMA JoinLists ==
  ASSUME NEW entries, entries \subseteq [slot : Slots, socket : Sockets],
         NEW byBlock \in [Slots -> Inspectable \cup {0}],
         \A e, f \in entries : \/ e.socket = f.socket
                               \/ e.slot = f.slot /\ e.socket.protocol = f.socket.protocol
                               => e = f
  PROVE  /\ Join(entries, byBlock) \in Seq(Row)
         /\ Distinct(Join(entries, byBlock))
         /\ \A e \in entries : \E i \in DOMAIN Join(entries, byBlock) :
              Join(entries, byBlock)[i] = Named(e, byBlock)
         /\ \A i \in DOMAIN Join(entries, byBlock) : \E e \in entries :
              Join(entries, byBlock)[i] = Named(e, byBlock)
<1> DEFINE rows == {Named(e, byBlock) : e \in entries}
           order == {p \in rows \X rows : Before(p[1], p[2])}
           joined == Arranged(rows, order)
<1>1. joined = Join(entries, byBlock)
  BY DEF Join, InOrder
<1>2. \A e \in entries :
        /\ Named(e, byBlock) \in Row
        /\ Named(e, byBlock).slot = e.slot /\ Named(e, byBlock).socket = e.socket
  BY DEF Named, Row, Labels
<1>3. rows \subseteq Row
  BY <1>2
<1>4. \A x, y \in rows : x.socket = y.socket => x = y
  BY <1>2
<1>5. IsFiniteSet(rows)
  <2> DEFINE f == [r \in rows |-> r.socket]
  <2>1. f \in Injection(rows, Sockets)
    BY <1>3, <1>4 DEF Injection, IsInjective, Row
  <2>2. IsFiniteSet(Sockets)
    BY ListenAssumption DEF ListenAssumption
  <2> QED
    BY <2>1, <2>2, FS_Injection
<1>6. ASSUME NEW x \in rows, NEW y \in rows, x # y PROVE Before(x, y) \/ Before(y, x)
  <2>1. x.slot # y.slot \/ x.socket.protocol # y.socket.protocol
    BY <1>2, <1>6
  <2>2. x.socket.protocol \in {"tcp", "udp"} /\ y.socket.protocol \in {"tcp", "udp"}
    BY <1>3, ListenAssumption DEF ListenAssumption, Row, Protocols
  <2>3. Key(x)[5] # Key(y)[5] \/ Key(x)[4] # Key(y)[4]
    BY <2>1, <2>2 DEF Key
  <2> QED
    BY <1>3, <2>3, BeforeIsOrder
<1>7. \A x, y \in rows : <<x, y>> \in order <=> Before(x, y)
  OBVIOUS
<1>8. StrictTotal(rows, order)
  <2> HIDE DEF rows, order
  <2> QED
    BY <1>3, <1>6, <1>7, BeforeIsOrder DEF StrictTotal
<1> HIDE DEF order
<1>9. /\ Cardinality(rows) \in Nat /\ joined \in [1..Cardinality(rows) -> rows]
      /\ \A x \in rows : \E n \in 1..Cardinality(rows) : joined[n] = x
      /\ \A m, n \in 1..Cardinality(rows) : m < n => <<joined[m], joined[n]>> \in order
  <2> HIDE DEF rows
  <2> QED
    BY <1>5, <1>8, ArrangedIsBijection
<1> HIDE DEF joined
<1>10. \A m, n \in 1..Cardinality(rows) : joined[m].socket = joined[n].socket => m = n
  <2> HIDE DEF rows
  <2>1. ASSUME NEW m \in 1..Cardinality(rows), NEW n \in 1..Cardinality(rows),
               joined[m].socket = joined[n].socket, m < n
        PROVE  FALSE
    <3>1. joined[m] \in rows /\ joined[m] = joined[n]
      BY <1>4, <1>9, <2>1
    <3> QED
      BY <1>8, <1>9, <2>1, <3>1 DEF StrictTotal
  <2> QED
    BY <1>9, <2>1
<1>11. joined \in Seq(Row) /\ DOMAIN joined = 1..Cardinality(rows)
  <2> HIDE DEF rows
  <2> QED
    BY <1>3, <1>9
<1>12. \A i \in DOMAIN joined : joined[i] \in rows
  BY <1>9, <1>11
<1>13. \A e \in entries : \E i \in DOMAIN joined : joined[i] = Named(e, byBlock)
  BY <1>9, <1>11
<1> QED
  BY <1>1, <1>10, <1>11, <1>12, <1>13 DEF Distinct

\* `retain` drops what does not pass, and nothing else.
LEMMA RetainKeeps ==
  ASSUME NEW rows \in Seq(Row), Distinct(rows), NEW o
  PROVE  /\ Retain(rows, o) \in Seq(Row)
         /\ Distinct(Retain(rows, o))
         /\ \A i \in DOMAIN rows : Passes(rows[i], o) =>
              \E n \in DOMAIN Retain(rows, o) : Retain(rows, o)[n] = rows[i]
         /\ \A n \in DOMAIN Retain(rows, o) : \E i \in DOMAIN rows : Retain(rows, o)[n] = rows[i]
<1> DEFINE K == {i \in DOMAIN rows : Passes(rows[i], o)}
           kept == Picked(rows, K)
<1>1. kept = Retain(rows, o)
  BY DEF Retain
<1>2. DOMAIN rows = 1..Len(rows) /\ Len(rows) \in Nat
  OBVIOUS
<1>3. K \subseteq Nat /\ IsFiniteSet(K)
  <2>1. IsFiniteSet(1..Len(rows)) /\ K \in SUBSET (1..Len(rows))
    BY <1>2, FS_Interval
  <2>2. IsFiniteSet(K)
    BY <2>1, FS_Subset, Zenon
  <2> QED
    BY <1>2, <2>2
<1>4. /\ \A k \in K : k \in DOMAIN rows
      /\ \A k \in K : rows[k] \in Row
  OBVIOUS
<1>5. \A i \in DOMAIN rows : Passes(rows[i], o) => i \in K
  OBVIOUS
<1> HIDE DEF K
<1>6. Cardinality(K) \in Nat
  BY <1>3, PickedKeeps
<1>7. PICK at \in [1..Cardinality(K) -> K] :
        /\ kept = [n \in 1..Cardinality(K) |-> rows[at[n]]]
        /\ \A k \in K : \E n \in 1..Cardinality(K) : at[n] = k
        /\ \A m, n \in 1..Cardinality(K) : at[m] = at[n] => m = n
        /\ \A m, n \in 1..Cardinality(K) : m < n => at[m] < at[n]
  BY <1>3, PickedKeeps, Zenon
<1> HIDE DEF kept
<1>8. kept \in Seq(Row) /\ DOMAIN kept = 1..Cardinality(K)
  <2>1. kept \in [1..Cardinality(K) -> Row]
    BY <1>4, <1>7
  <2> QED
    BY <1>6, <2>1
<1>9. Distinct(kept)
  <2> SUFFICES ASSUME NEW m \in 1..Cardinality(K), NEW n \in 1..Cardinality(K),
                      kept[m].socket = kept[n].socket
               PROVE  m = n
    BY <1>8 DEF Distinct
  <2>1. at[m] \in DOMAIN rows /\ at[n] \in DOMAIN rows
    BY <1>4
  <2>2. at[m] = at[n]
    BY <1>7, <2>1 DEF Distinct
  <2> QED
    BY <1>7, <2>2
<1>10. \A n \in DOMAIN kept : \E i \in DOMAIN rows : kept[n] = rows[i]
  BY <1>4, <1>7, <1>8
<1>11. \A k \in K : \E n \in DOMAIN kept : kept[n] = rows[k]
  BY <1>7, <1>8
<1> QED
  BY <1>1, <1>5, <1>8, <1>9, <1>10, <1>11

-----------------------------------------------------------------------------
(* What the runtime's answer does to the rows.                             *)

LEMMA AnswersAreLists ==
  ASSUME NEW containers \in Answers
  PROVE  /\ Len(containers) \in Nat /\ DOMAIN containers = 1..Len(containers)
         /\ \A k \in DOMAIN containers :
              /\ containers[k] \in ToSet(containers)
              /\ containers[k].name \in Labels \ {Unclaimed, SomeContainer}
<1>1. /\ containers \in Seq(ToSet(containers))
      /\ \A c \in ToSet(containers) : c.name \notin {Unclaimed, SomeContainer}
  BY ListenAssumption DEF ListenAssumption
<1>2. Len(containers) \in Nat /\ DOMAIN containers = 1..Len(containers)
  BY <1>1
<1>3. \A k \in DOMAIN containers : containers[k] \in ToSet(containers)
  BY DEF ToSet
<1>4. \A c \in ToSet(containers) : c.name \in Labels
  BY DEF Labels
<1> QED
  BY <1>1, <1>2, <1>3, <1>4

SameRow(r, q) == r.slot = q.slot /\ r.socket = q.socket /\ r.pid = q.pid

\* `apply`: a row is given the name of a container that claims its socket.
LEMMA ApplyClaims ==
  ASSUME NEW rows \in Seq(Row), NEW containers \in Answers,
         \A i \in DOMAIN rows : rows[i].container = Unclaimed
  PROVE  /\ Apply(rows, containers) \in Seq(Row)
         /\ DOMAIN Apply(rows, containers) = DOMAIN rows
         /\ \A i \in DOMAIN rows :
              /\ SameRow(Apply(rows, containers)[i], rows[i])
              /\ Apply(rows, containers)[i].container # Unclaimed =>
                   \E k \in DOMAIN containers :
                     /\ Claims(containers[k], rows[i].socket)
                     /\ Apply(rows, containers)[i].container = containers[k].name
<1> DEFINE claiming(i) == {k \in DOMAIN containers : Claims(containers[k], rows[i].socket)}
           first(i) == CHOOSE k \in claiming(i) : \A j \in claiming(i) : k <= j
           applied == Apply(rows, containers)
<1>1. ASSUME NEW i \in DOMAIN rows
      PROVE  /\ applied[i] \in Row
             /\ SameRow(applied[i], rows[i])
             /\ applied[i].container # Unclaimed =>
                  \E k \in DOMAIN containers :
                    /\ Claims(containers[k], rows[i].socket)
                    /\ applied[i].container = containers[k].name
  <2>1. rows[i] \in Row /\ rows[i].container = Unclaimed
    OBVIOUS
  <2>2. applied[i] = IF claiming(i) = {} THEN rows[i]
                     ELSE [rows[i] EXCEPT !.container = containers[first(i)].name]
    BY DEF Apply
  <2> HIDE DEF applied
  <2>3. CASE claiming(i) = {}
    BY <2>1, <2>2, <2>3 DEF SameRow
  <2>4. CASE claiming(i) # {}
    <3>1. first(i) \in claiming(i)
      <4>1. claiming(i) \subseteq 1..Len(containers) /\ Len(containers) \in Nat
        BY AnswersAreLists
      <4> HIDE DEF claiming
      <4> QED
        BY <2>4, <4>1, LeastExists
    <3>2. /\ first(i) \in DOMAIN containers
          /\ Claims(containers[first(i)], rows[i].socket)
      BY <3>1
    <3> HIDE DEF first, claiming
    <3>3. containers[first(i)].name \in Labels
      BY <3>2, AnswersAreLists
    <3> QED
      BY <2>1, <2>2, <2>4, <3>2, <3>3 DEF SameRow, Row
  <2> QED
    BY <2>3, <2>4
<1>2. DOMAIN applied = DOMAIN rows
  BY DEF Apply
<1>3. applied \in Seq(Row)
  <2>1. applied = [i \in 1..Len(rows) |-> applied[i]] /\ DOMAIN rows = 1..Len(rows)
    BY DEF Apply
  <2> HIDE DEF applied
  <2> QED
    BY <1>1, <2>1
<1> QED
  BY <1>1, <1>2, <1>3

LEMMA OnePublishIsEquivalence ==
  ASSUME NEW r, NEW q, NEW s
  PROVE  /\ OnePublish(r, q) => OnePublish(q, r)
         /\ OnePublish(r, q) /\ OnePublish(q, s) => OnePublish(r, s)
  BY DEF OnePublish

\* `same_publish`: a row that has none takes the container of a row of its publish.
LEMMA SamePublishSpreads ==
  ASSUME NEW rows \in Seq(Row)
  PROVE  /\ SamePublish(rows) \in Seq(Row)
         /\ DOMAIN SamePublish(rows) = DOMAIN rows
         /\ \A i \in DOMAIN rows :
              /\ SameRow(SamePublish(rows)[i], rows[i])
              /\ rows[i].container # Unclaimed =>
                   SamePublish(rows)[i].container = rows[i].container
              /\ \A j \in DOMAIN rows :
                   rows[j].container # Unclaimed /\ OnePublish(rows[j], rows[i]) =>
                     SamePublish(rows)[i].container # Unclaimed
              /\ SamePublish(rows)[i].container # Unclaimed =>
                   \E j \in DOMAIN rows :
                     /\ rows[j].container # Unclaimed
                     /\ j = i \/ OnePublish(rows[j], rows[i])
                     /\ SamePublish(rows)[i].container = rows[j].container
<1> DEFINE known(i) == {j \in DOMAIN rows : /\ rows[j].container # Unclaimed
                                            /\ OnePublish(rows[j], rows[i])}
           first(i) == CHOOSE j \in known(i) : \A k \in known(i) : j <= k
           spread == SamePublish(rows)
<1>1. ASSUME NEW i \in DOMAIN rows
      PROVE  /\ spread[i] \in Row
             /\ SameRow(spread[i], rows[i])
             /\ rows[i].container # Unclaimed => spread[i].container = rows[i].container
             /\ known(i) # {} => spread[i].container # Unclaimed
             /\ spread[i].container # Unclaimed =>
                  \E j \in DOMAIN rows :
                    /\ rows[j].container # Unclaimed
                    /\ j = i \/ OnePublish(rows[j], rows[i])
                    /\ spread[i].container = rows[j].container
  <2>1. rows[i] \in Row
    OBVIOUS
  <2>2. spread[i] = IF rows[i].container # Unclaimed \/ known(i) = {} THEN rows[i]
                    ELSE [rows[i] EXCEPT !.container = rows[first(i)].container]
    BY DEF SamePublish
  <2> HIDE DEF spread
  <2>3. CASE rows[i].container # Unclaimed \/ known(i) = {}
    <3>1. spread[i] = rows[i]
      BY <2>2, <2>3
    <3> HIDE DEF known
    <3> QED
      BY <2>1, <2>3, <3>1 DEF SameRow
  <2>4. CASE rows[i].container = Unclaimed /\ known(i) # {}
    <3>1. first(i) \in known(i)
      <4>1. known(i) \subseteq 1..Len(rows) /\ Len(rows) \in Nat
        OBVIOUS
      <4> HIDE DEF known
      <4> QED
        BY <2>4, <4>1, LeastExists
    <3>2. /\ first(i) \in DOMAIN rows /\ rows[first(i)].container # Unclaimed
          /\ OnePublish(rows[first(i)], rows[i])
      BY <3>1
    <3> HIDE DEF first, known
    <3>3. rows[first(i)].container \in Labels
      <4>1. rows[first(i)] \in Row
        BY <3>2
      <4> QED
        BY <4>1 DEF Row
    <3>4. spread[i] = [rows[i] EXCEPT !.container = rows[first(i)].container]
      BY <2>2, <2>4
    <3> QED
      BY <2>1, <2>4, <3>2, <3>3, <3>4 DEF SameRow, Row
  <2> QED
    BY <2>3, <2>4
<1>2. DOMAIN spread = DOMAIN rows
  BY DEF SamePublish
<1>3. spread \in Seq(Row)
  <2>1. spread = [i \in 1..Len(rows) |-> spread[i]] /\ DOMAIN rows = 1..Len(rows)
    BY DEF SamePublish
  <2> HIDE DEF spread
  <2> QED
    BY <1>1, <2>1
<1>4. \A i, j \in DOMAIN rows :
        rows[j].container # Unclaimed /\ OnePublish(rows[j], rows[i]) => known(i) # {}
  OBVIOUS
<1> HIDE DEF known, spread
<1> QED
  BY <1>1, <1>2, <1>3, <1>4 DEF spread

LEMMA ForwardersMark ==
  ASSUME NEW rows \in Seq(Row), \A i \in DOMAIN rows : rows[i].container = Unclaimed
  PROVE  /\ ApplyForwarders(rows) \in Seq(Row)
         /\ DOMAIN ApplyForwarders(rows) = DOMAIN rows
         /\ \A i \in DOMAIN rows :
              /\ SameRow(ApplyForwarders(rows)[i], rows[i])
              /\ ApplyForwarders(rows)[i].container # Unclaimed <=> rows[i].pid \in Helpers
<1> DEFINE marked == ApplyForwarders(rows)
<1>1. ASSUME NEW i \in DOMAIN rows
      PROVE  /\ marked[i] \in Row /\ SameRow(marked[i], rows[i])
             /\ marked[i].container # Unclaimed <=> rows[i].pid \in Helpers
  <2>1. rows[i] \in Row /\ rows[i].container = Unclaimed
    OBVIOUS
  <2>2. marked[i] = IF rows[i].pid \in Helpers THEN [rows[i] EXCEPT !.container = SomeContainer]
                    ELSE rows[i]
    BY <2>1 DEF ApplyForwarders
  <2>3. SomeContainer \in Labels /\ SomeContainer # Unclaimed
    BY DEF Labels, SomeContainer, Unclaimed
  <2> HIDE DEF marked
  <2>4. CASE rows[i].pid \in Helpers
    BY <2>1, <2>2, <2>3, <2>4 DEF SameRow, Row
  <2>5. CASE rows[i].pid \notin Helpers
    BY <2>1, <2>2, <2>5 DEF SameRow
  <2> QED
    BY <2>4, <2>5
<1>2. DOMAIN marked = DOMAIN rows
  BY DEF ApplyForwarders
<1>3. marked \in Seq(Row)
  <2>1. marked = [i \in 1..Len(rows) |-> marked[i]] /\ DOMAIN rows = 1..Len(rows)
    BY DEF ApplyForwarders
  <2> HIDE DEF marked
  <2> QED
    BY <1>1, <2>1
<1> QED
  BY <1>1, <1>2, <1>3

\* Whatever the runtime answers, the rows stay what they are but for their
\* containers, and a publish shows its container on all its rows or on none.
LEMMA ResolveKeeps ==
  ASSUME NEW rows \in Seq(Row), \A i \in DOMAIN rows : rows[i].container = Unclaimed,
         NEW containers \in Answers \cup {Silent}
  PROVE  LET resolved == Resolve(rows, containers)
         IN /\ resolved \in Seq(Row) /\ DOMAIN resolved = DOMAIN rows
            /\ \A i \in DOMAIN rows : SameRow(resolved[i], rows[i])
            /\ \A i, j \in DOMAIN rows :
                 OnePublish(resolved[i], resolved[j]) /\ resolved[i].container # Unclaimed =>
                   resolved[j].container # Unclaimed
<1> DEFINE resolved == Resolve(rows, containers)
<1>1. CASE containers = Silent
  <2>1. resolved = ApplyForwarders(rows)
    BY <1>1 DEF Resolve
  <2>2. ASSUME NEW i \in DOMAIN rows, NEW j \in DOMAIN rows,
               OnePublish(resolved[i], resolved[j]), resolved[i].container # Unclaimed
        PROVE  resolved[j].container # Unclaimed
    <3>1. rows[i].pid \in Helpers /\ rows[i].pid = rows[j].pid
      BY <2>1, <2>2, ForwardersMark DEF OnePublish, SameRow
    <3> QED
      BY <2>1, <3>1, ForwardersMark
  <2>3. /\ resolved \in Seq(Row) /\ DOMAIN resolved = DOMAIN rows
        /\ \A i \in DOMAIN rows : SameRow(resolved[i], rows[i])
    BY <2>1, ForwardersMark
  <2> QED
    BY <2>2, <2>3
<1>2. CASE containers # Silent
  <2> DEFINE applied == Apply(rows, containers)
  <2>1. containers \in Answers /\ resolved = SamePublish(applied)
    BY <1>2 DEF Resolve
  <2>2. /\ applied \in Seq(Row) /\ DOMAIN applied = DOMAIN rows
        /\ \A i \in DOMAIN rows : SameRow(applied[i], rows[i])
    BY <2>1, ApplyClaims
  <2> HIDE DEF applied, resolved
  <2>3. /\ resolved \in Seq(Row) /\ DOMAIN resolved = DOMAIN rows
        /\ \A i \in DOMAIN rows : SameRow(resolved[i], applied[i])
    BY <2>1, <2>2, SamePublishSpreads
  <2>4. \A i, j \in DOMAIN rows :
          OnePublish(resolved[i], resolved[j]) <=> OnePublish(applied[i], applied[j])
    BY <2>3 DEF OnePublish, SameRow
  <2>5. ASSUME NEW i \in DOMAIN rows, NEW j \in DOMAIN rows,
               OnePublish(resolved[i], resolved[j]), resolved[i].container # Unclaimed
        PROVE  resolved[j].container # Unclaimed
    <3>1. PICK k \in DOMAIN rows : /\ applied[k].container # Unclaimed
                                   /\ k = i \/ OnePublish(applied[k], applied[i])
      BY <2>1, <2>2, <2>5, SamePublishSpreads
    <3>2. OnePublish(applied[k], applied[j])
      BY <2>4, <2>5, <3>1, OnePublishIsEquivalence
    <3> QED
      BY <2>1, <2>2, <3>1, <3>2, SamePublishSpreads
  <2>6. \A i \in DOMAIN rows : SameRow(resolved[i], rows[i])
    BY <2>2, <2>3 DEF SameRow
  <2> QED
    BY <2>3, <2>5, <2>6 DEF resolved
<1> QED
  BY <1>1, <1>2

\* When a runtime answered, every label goes back to a container that claims the
\* row or one of its publish, and is that container's name.
LEMMA ResolveIsFounded ==
  ASSUME NEW rows \in Seq(Row), \A i \in DOMAIN rows : rows[i].container = Unclaimed,
         NEW containers \in Answers, containers # Silent
  PROVE  LET resolved == Resolve(rows, containers)
         IN \A i \in DOMAIN rows : resolved[i].container # Unclaimed =>
              /\ resolved[i].container # SomeContainer
              /\ \E j \in DOMAIN rows, k \in DOMAIN containers :
                   /\ i = j \/ OnePublish(resolved[i], resolved[j])
                   /\ resolved[j].container = resolved[i].container
                   /\ containers[k].name = resolved[i].container
                   /\ Claims(containers[k], resolved[j].socket)
<1> DEFINE resolved == Resolve(rows, containers)
           applied == Apply(rows, containers)
<1>1. resolved = SamePublish(applied)
  BY DEF Resolve
<1>2. /\ applied \in Seq(Row) /\ DOMAIN applied = DOMAIN rows
      /\ \A i \in DOMAIN rows : SameRow(applied[i], rows[i])
      /\ \A i \in DOMAIN rows : applied[i].container # Unclaimed =>
           \E k \in DOMAIN containers : /\ Claims(containers[k], rows[i].socket)
                                        /\ applied[i].container = containers[k].name
  BY ApplyClaims
<1> HIDE DEF applied, resolved
<1>3. /\ \A i \in DOMAIN rows : SameRow(resolved[i], applied[i])
      /\ \A i \in DOMAIN rows : applied[i].container # Unclaimed =>
           resolved[i].container = applied[i].container
      /\ \A i \in DOMAIN rows : resolved[i].container # Unclaimed =>
           \E j \in DOMAIN rows : /\ applied[j].container # Unclaimed
                                  /\ j = i \/ OnePublish(applied[j], applied[i])
                                  /\ resolved[i].container = applied[j].container
  BY <1>1, <1>2, SamePublishSpreads
<1>4. ASSUME NEW i \in DOMAIN rows, resolved[i].container # Unclaimed
      PROVE  /\ resolved[i].container # SomeContainer
             /\ \E j \in DOMAIN rows, k \in DOMAIN containers :
                  /\ i = j \/ OnePublish(resolved[i], resolved[j])
                  /\ resolved[j].container = resolved[i].container
                  /\ containers[k].name = resolved[i].container
                  /\ Claims(containers[k], resolved[j].socket)
  <2>1. PICK j \in DOMAIN rows : /\ applied[j].container # Unclaimed
                                 /\ j = i \/ OnePublish(applied[j], applied[i])
                                 /\ resolved[i].container = applied[j].container
    BY <1>3, <1>4
  <2>2. PICK k \in DOMAIN containers : /\ Claims(containers[k], rows[j].socket)
                                       /\ applied[j].container = containers[k].name
    BY <1>2, <2>1
  <2>3. /\ SameRow(resolved[i], applied[i]) /\ SameRow(resolved[j], applied[j])
        /\ SameRow(applied[j], rows[j])
    BY <1>2, <1>3
  <2>4. i = j \/ OnePublish(resolved[i], resolved[j])
    BY <2>1, <2>3 DEF OnePublish, SameRow
  <2>5. resolved[j].container = resolved[i].container
    BY <1>3, <2>1
  <2>6. Claims(containers[k], resolved[j].socket)
    BY <2>2, <2>3 DEF SameRow
  <2>7. containers[k].name # SomeContainer
    BY AnswersAreLists
  <2> QED
    BY <2>1, <2>2, <2>4, <2>5, <2>6, <2>7
<1> QED
  BY <1>4 DEF resolved

-----------------------------------------------------------------------------
(* The page.                                                               *)

ReachOf(row) == Exposure(row.socket.address)

PrintedOn(groups) == UNION {ToSet(groups[i].lines) : i \in DOMAIN groups}

\* Every row is a line of the group of its exposure, every line is a row, and no
\* group is empty.
LEMMA SectionsShowAll ==
  ASSUME NEW rows \in Seq(Row)
  PROVE  /\ \A g \in DOMAIN Sections(rows) : Sections(rows)[g].lines # <<>>
         /\ \A i \in DOMAIN rows : \E g \in DOMAIN Sections(rows) :
              /\ Sections(rows)[g].reach = ReachOf(rows[i])
              /\ Line(rows[i]) \in ToSet(Sections(rows)[g].lines)
         /\ \A g \in DOMAIN Sections(rows) : \A l \in ToSet(Sections(rows)[g].lines) :
              \E i \in DOMAIN rows : l = Line(rows[i])
<1> DEFINE Of(group) == {i \in DOMAIN rows : Exposure(rows[i].socket.address) = group}
           S == {n \in DOMAIN Groups : Of(Groups[n]) # {}}
           shown == Picked(Groups, S)
           Lines(group) == [i \in 1..Cardinality(Of(group)) |-> Line(Picked(rows, Of(group))[i])]
<1>1. Sections(rows) = [i \in DOMAIN shown |-> [reach |-> shown[i], lines |-> Lines(shown[i])]]
  BY DEF Sections
<1>2. ASSUME NEW group
      PROVE  /\ Of(group) \in SUBSET Nat /\ IsFiniteSet(Of(group))
             /\ \A k \in Of(group) : k \in DOMAIN rows
  <2>1. IsFiniteSet(1..Len(rows)) /\ Of(group) \in SUBSET (1..Len(rows))
    BY FS_Interval
  <2>2. IsFiniteSet(Of(group))
    BY <2>1, FS_Subset, Zenon
  <2> QED
    BY <2>1, <2>2
<1>3. \A i \in DOMAIN rows : i \in Of(ReachOf(rows[i]))
  BY DEF ReachOf
<1>4. ASSUME NEW group
      PROVE  /\ \A i \in Of(group) : Line(rows[i]) \in ToSet(Lines(group))
             /\ \A l \in ToSet(Lines(group)) : \E i \in DOMAIN rows : l = Line(rows[i])
             /\ Of(group) # {} => Lines(group) # <<>>
  <2> DEFINE O == Of(group)
             lines == Lines(group)
  <2>1. /\ O \in SUBSET Nat /\ IsFiniteSet(O)
        /\ \A k \in O : k \in DOMAIN rows
    BY <1>2
  <2>2. lines = [i \in 1..Cardinality(O) |-> Line(Picked(rows, O)[i])]
    OBVIOUS
  <2> HIDE DEF O, lines
  <2>3. PICK at \in [1..Cardinality(O) -> O] :
          /\ Picked(rows, O) = [n \in 1..Cardinality(O) |-> rows[at[n]]]
          /\ \A k \in O : \E n \in 1..Cardinality(O) : at[n] = k
          /\ \A m, n \in 1..Cardinality(O) : at[m] = at[n] => m = n
          /\ \A m, n \in 1..Cardinality(O) : m < n => at[m] < at[n]
    BY <2>1, PickedKeeps, Zenon
  <2>4. lines = [n \in 1..Cardinality(O) |-> Line(rows[at[n]])]
    BY <2>2, <2>3
  <2>5. ASSUME NEW i \in O PROVE Line(rows[i]) \in ToSet(lines)
    <3>1. PICK n \in 1..Cardinality(O) : at[n] = i
      BY <2>3
    <3>2. n \in DOMAIN lines /\ lines[n] = Line(rows[i])
      BY <2>4, <3>1
    <3> QED
      BY <3>2 DEF ToSet
  <2>6. ASSUME NEW l \in ToSet(lines) PROVE \E i \in DOMAIN rows : l = Line(rows[i])
    <3>1. PICK n \in DOMAIN lines : lines[n] = l
      BY DEF ToSet
    <3> QED
      BY <2>1, <2>4, <3>1
  <2>7. ASSUME O # {} PROVE lines # <<>>
    <3>1. PICK i \in O : TRUE
      BY <2>7
    <3>2. PICK n \in 1..Cardinality(O) : at[n] = i
      BY <2>3, <3>1
    <3>3. n \in DOMAIN lines
      BY <2>4, <3>2
    <3> QED
      BY <3>3
  <2> QED
    BY <2>5, <2>6, <2>7 DEF O, lines
<1>5. S \in SUBSET Nat /\ IsFiniteSet(S)
  <2>1. S \in SUBSET Nat /\ \A n \in S : n <= 3
    BY DEF Groups
  <2> HIDE DEF S
  <2> QED
    BY <2>1, FS_BoundedSetOfNaturals
<1>6. PICK at \in [1..Cardinality(S) -> S] :
        /\ shown = [n \in 1..Cardinality(S) |-> Groups[at[n]]]
        /\ \A k \in S : \E n \in 1..Cardinality(S) : at[n] = k
        /\ \A m, n \in 1..Cardinality(S) : at[m] = at[n] => m = n
        /\ \A m, n \in 1..Cardinality(S) : m < n => at[m] < at[n]
  <2> HIDE DEF S
  <2> QED
    BY <1>5, PickedKeeps, Zenon
<1> HIDE DEF shown, Lines
<1>7. \A n \in DOMAIN shown : Of(shown[n]) # {}
  BY <1>6
<1>8. ASSUME NEW i \in DOMAIN rows PROVE \E n \in DOMAIN shown : shown[n] = ReachOf(rows[i])
  <2>1. PICK k \in DOMAIN Groups : Groups[k] = ReachOf(rows[i])
    BY SMT DEF Groups, Exposure, ReachOf
  <2>2. k \in S
    BY <1>3, <2>1
  <2> HIDE DEF S
  <2> QED
    BY <1>6, <2>1, <2>2
<1> HIDE DEF Of, S
<1>9. /\ DOMAIN Sections(rows) = DOMAIN shown
      /\ \A g \in DOMAIN shown : /\ Sections(rows)[g].reach = shown[g]
                                 /\ Sections(rows)[g].lines = Lines(shown[g])
  BY <1>1
<1>10. \A g \in DOMAIN shown : Sections(rows)[g].lines # <<>>
  BY <1>4, <1>7, <1>9
<1>11. ASSUME NEW i \in DOMAIN rows
       PROVE  \E g \in DOMAIN shown : /\ Sections(rows)[g].reach = ReachOf(rows[i])
                                      /\ Line(rows[i]) \in ToSet(Sections(rows)[g].lines)
  <2>1. PICK g \in DOMAIN shown : shown[g] = ReachOf(rows[i])
    BY <1>8
  <2> QED
    BY <1>3, <1>4, <1>9, <2>1
<1>12. \A g \in DOMAIN shown : \A l \in ToSet(Sections(rows)[g].lines) :
         \E i \in DOMAIN rows : l = Line(rows[i])
  BY <1>4, <1>9
<1> QED
  BY <1>9, <1>10, <1>11, <1>12

LEMMA PrintedAreRows ==
  ASSUME NEW rows \in Seq(Row)
  PROVE  PrintedOn(Sections(rows)) = {Line(rows[i]) : i \in DOMAIN rows}
<1> DEFINE made == Sections(rows)
           lines(g) == ToSet(made[g].lines)
<1>1. \A i \in DOMAIN rows : \E g \in DOMAIN made : Line(rows[i]) \in lines(g)
  BY SectionsShowAll
<1>2. \A g \in DOMAIN made : \A l \in lines(g) : \E i \in DOMAIN rows : l = Line(rows[i])
  BY SectionsShowAll
<1>3. PrintedOn(made) = UNION {lines(g) : g \in DOMAIN made}
  BY Zenon DEF PrintedOn
<1> HIDE DEF made, lines
<1>4. ASSUME NEW i \in DOMAIN rows PROVE Line(rows[i]) \in PrintedOn(made)
  BY <1>1, <1>3
<1>5. ASSUME NEW l \in PrintedOn(made) PROVE \E i \in DOMAIN rows : l = Line(rows[i])
  BY <1>2, <1>3
<1>6. PrintedOn(made) = {Line(rows[i]) : i \in DOMAIN rows}
  BY <1>4, <1>5
<1> QED
  BY <1>6 DEF made

\* The footer's numbers are those of the lines above it.
LEMMA FooterCounts ==
  ASSUME NEW rows \in Seq(Row), Distinct(rows)
  PROVE  LET printed == PrintedOn(Sections(rows))
         IN /\ Summarise(rows).unattributed = Cardinality({l \in printed : l.pid = 0})
            /\ Summarise(rows).wildcard =
                 Cardinality({l \in printed : Exposure(l.socket.address) = "wildcard"})
<1> DEFINE lines == {Line(rows[i]) : i \in DOMAIN rows}
           f == [i \in DOMAIN rows |-> Line(rows[i])]
<1>1. PrintedOn(Sections(rows)) = lines
  BY PrintedAreRows
<1>2. \A i \in DOMAIN rows : f[i].socket = rows[i].socket /\ f[i].pid = rows[i].pid
  BY DEF Line
<1>3. \A i, j \in DOMAIN rows : f[i] = f[j] => i = j
  <2> HIDE DEF f
  <2> QED
    BY <1>2 DEF Distinct
<1>4. \A l \in lines : \E i \in DOMAIN rows : l = f[i]
  OBVIOUS
<1>5. \A i \in DOMAIN rows : f[i] \in lines
  OBVIOUS
<1> HIDE DEF f, lines
<1>6. ASSUME NEW K, K \subseteq DOMAIN rows, NEW L, L \subseteq lines,
             \A i \in DOMAIN rows : i \in K <=> f[i] \in L
      PROVE  Cardinality(K) = Cardinality(L)
  <2> DEFINE b == [i \in K |-> f[i]]
  <2>1. b \in Injection(K, L)
    BY <1>3, <1>6 DEF Injection, IsInjective
  <2>2. \A l \in L : \E i \in K : b[i] = l
    BY <1>4, <1>6
  <2>3. b \in Bijection(K, L)
    BY <2>1, <2>2 DEF Bijection, Surjection, Injection
  <2>4. ExistsBijection(K, L)
    BY <2>3 DEF ExistsBijection
  <2>5. IsFiniteSet(K)
    <3>1. IsFiniteSet(1..Len(rows)) /\ K \in SUBSET (1..Len(rows))
      BY <1>6, FS_Interval
    <3> QED
      BY <3>1, FS_Subset, Zenon
  <2> QED
    BY <2>4, <2>5, FS_Bijection
<1>7. Cardinality({i \in DOMAIN rows : rows[i].pid = 0}) = Cardinality({l \in lines : l.pid = 0})
  BY <1>2, <1>5, <1>6
<1>8. Cardinality({i \in DOMAIN rows : Exposure(rows[i].socket.address) = "wildcard"})
        = Cardinality({l \in lines : Exposure(l.socket.address) = "wildcard"})
  BY <1>2, <1>5, <1>6
<1> QED
  BY <1>1, <1>7, <1>8 DEF Summarise

-----------------------------------------------------------------------------
(* The inductive invariant.                                                *)

Scanning == {"tcp", "udp", "retain"}
Untabled == Scanning \cup {"owners", "join", "failed"}

OpenedBy(p) == {s \in Sockets \ unopened : p \in s.holders}

\* A socket has one control block, and one that was open all along still has it.
Kernel ==
  /\ live \in [Slots -> Sockets \cup {Free}] /\ unopened \subseteq Sockets
  /\ changes \in 0..MaxChanges /\ options \in OptionSets
  /\ lasting \subseteq Sockets /\ taken \subseteq Slots
  /\ \A h, k \in Slots : h # k /\ live[h] = live[k] => live[h] = Free
  /\ \A h \in Slots : live[h] \notin unopened
  /\ \A s \in lasting : \E h \in Slots : live[h] = s

\* What was dumped of a block is what it is of now, unless it was closed or the
\* block was taken for another socket.
Dumped ==
  /\ raw \subseteq [slot : Slots, socket : Sockets]
  /\ pc = "tcp" => raw = {}
  /\ \A e \in raw :
       /\ e.socket \notin unopened
       /\ pc = "udp" => e.socket.protocol = "tcp"
       /\ \A h \in Slots : live[h] = e.socket => h = e.slot
       /\ e.slot \notin taken => live[e.slot] \in {e.socket, Free}
  /\ \A e, f \in raw :
       \/ e.socket = f.socket
       \/ e.slot = f.slot /\ e.socket.protocol = f.socket.protocol
       => e = f

\* The sockets open all along are in what was dumped so far.
Whole ==
  \A s \in lasting :
    /\ s.protocol \in options.protocols
    /\ pc \in {"retain", "owners", "join"} \/ (pc = "udp" /\ s.protocol = "tcp")
    /\ pc \in {"owners", "join"} => options.all \/ IsListening(s)
    => \E e \in raw : e.socket = s

\* Who was found holds it, and who was inspected and not found has too many.
Attributed(s, slot, pid) ==
  /\ pid # 0 /\ slot \notin taken => pid \in s.holders
  /\ pid = 0 /\ s \in lasting =>
       \A p \in (s.holders \cap Inspectable) \ todo : Cardinality(OpenedBy(p)) > LIMIT

Owned ==
  /\ owners \in [Slots -> Inspectable \cup {0}] /\ todo \subseteq Inspectable
  /\ pc \in Scanning => todo = Inspectable /\ owners = [h \in Slots |-> 0]
  /\ \A e \in raw : Attributed(e.socket, e.slot, owners[e.slot])

Tabled ==
  /\ table \in Seq(Row) /\ Distinct(table)
  /\ pc \in Untabled => table = <<>>
  /\ \A r \in Rows : Attributed(r.socket, r.slot, r.pid)
  /\ summary = Summarise(table)
  /\ pc \in {"containers", "print", "done"} =>
       \A s \in lasting : Wanted(s) => \E r \in Rows : r.socket = s

Matched ==
  /\ answer \in Answers \cup {Silent}
  /\ pc \notin {"print", "done"} => answer = Silent /\ \A r \in Rows : r.container = Unclaimed
  /\ PublishHalvesAgree /\ ClaimsAreFounded

Shown ==
  IF pc = "done" THEN \E firewall \in {"off", "other"} : page = Render(table, summary, firewall)
  ELSE page = NoPage

Stage ==
  pc \in {"tcp", "udp", "retain", "owners", "join", "containers", "print", "done", "failed"}

IInv == Stage /\ Kernel /\ Dumped /\ Whole /\ Owned /\ Tabled /\ Matched /\ Shown

-----------------------------------------------------------------------------
LEMMA FreeIsNoSocket == Free \notin Sockets /\ \A s \in Sockets : s.protocol \in Protocols
<1>1. \A s \in Sockets : s.protocol \in {"tcp", "udp"}
  BY ListenAssumption DEF ListenAssumption, Protocols
<1>2. Free.protocol = "none"
  BY DEF Free
<1> QED
  BY <1>1, <1>2 DEF Protocols

LEMMA IInvInit == Init => IInv
<1> SUFFICES ASSUME Init PROVE IInv
  OBVIOUS
<1> USE DEF Init
<1>1. Stage /\ Kernel
  BY ListenAssumption DEF Stage, Kernel, ListenAssumption
<1>2. Dumped /\ Whole
  BY DEF Dumped, Whole
<1>3. Owned
  BY DEF Owned, Scanning
<1>4. table \in Seq(Row) /\ Rows = {} /\ DOMAIN table = {}
  BY DEF Rows, ToSet
<1>5. Tabled
  BY <1>4 DEF Tabled, Distinct, Untabled, Scanning
<1>6. Matched
  BY <1>4 DEF Matched, PublishHalvesAgree, ClaimsAreFounded, NoGuessBesideAnswer,
              WildcardClaimsArePublished
<1>7. Shown
  BY DEF Shown
<1> QED
  BY <1>1, <1>2, <1>3, <1>5, <1>6, <1>7 DEF IInv

\* Until the table is made there is nothing to say of it.
LEMMA NoTableYet ==
  ASSUME IInv, pc \in Untabled, pc' \in Untabled, UNCHANGED <<table, summary, answer, page>>
  PROVE  Tabled' /\ Matched' /\ Shown'
<1>1. /\ pc \notin {"containers", "print", "done"} /\ pc' \notin {"containers", "print", "done"}
  BY DEF Untabled, Scanning
<1>2. table' = <<>> /\ Rows' = {} /\ table' \in Seq(Row) /\ Distinct(table')
      /\ summary' = Summarise(table')
  BY DEF IInv, Tabled, Rows, ToSet, Distinct
<1>3. Tabled'
  BY <1>1, <1>2 DEF Tabled
<1>4. Matched'
  BY <1>1, <1>2 DEF IInv, Matched, PublishHalvesAgree, ClaimsAreFounded, NoGuessBesideAnswer,
                   WildcardClaimsArePublished
<1>5. Shown'
  BY <1>1 DEF IInv, Shown
<1> QED
  BY <1>3, <1>4, <1>5

LEMMA OpenedGrows ==
  ASSUME NEW p, unopened' \subseteq unopened, Cardinality(OpenedBy(p)) > LIMIT
  PROVE  Cardinality(OpenedBy(p)') > LIMIT
<1>1. IsFiniteSet(Sockets) /\ LIMIT \in Nat
  BY ListenAssumption DEF ListenAssumption
<1>2. /\ OpenedBy(p) \in SUBSET OpenedBy(p)'
      /\ OpenedBy(p)' \in SUBSET Sockets /\ OpenedBy(p) \in SUBSET Sockets
  BY DEF OpenedBy
<1>3. IsFiniteSet(OpenedBy(p)') /\ IsFiniteSet(OpenedBy(p))
  BY <1>1, <1>2, FS_Subset, Zenon
<1>4. Cardinality(OpenedBy(p)) <= Cardinality(OpenedBy(p)')
  BY <1>2, <1>3, FS_Subset
<1>5. Cardinality(OpenedBy(p)) \in Nat /\ Cardinality(OpenedBy(p)') \in Nat
  BY <1>3, FS_CardinalityType
<1> QED
  BY <1>1, <1>4, <1>5

LEMMA OpenStep ==
  ASSUME IInv, NEW h \in Slots, NEW s \in Sockets, Open(h, s)
  PROVE  IInv'
<1> USE DEF Open
<1>1. pc \in {"tcp", "udp", "retain", "owners"} /\ pc' = pc
  BY DEF Looking
<1>2. Tabled' /\ Matched' /\ Shown'
  BY <1>1, NoTableYet DEF Untabled, Scanning
<1>3. Kernel'
  <2>1. /\ live \in [Slots -> Sockets \cup {Free}] /\ unopened \subseteq Sockets
        /\ s \in unopened /\ live[h] = Free
        /\ live' = [live EXCEPT ![h] = s] /\ unopened' = unopened \ {s}
    BY DEF IInv, Kernel
  <2>2. changes' \in 0..MaxChanges /\ options' \in OptionSets
    BY ListenAssumption DEF IInv, Kernel, ListenAssumption
  <2>3. lasting' \subseteq Sockets /\ taken' \subseteq Slots
    BY DEF IInv, Kernel
  <2>4. \A k \in Slots : live'[k] \notin unopened'
    BY <2>1 DEF IInv, Kernel
  <2>5. \A j, k \in Slots : j # k /\ live'[j] = live'[k] => live'[j] = Free
    BY <2>1, FreeIsNoSocket DEF IInv, Kernel
  <2>6. \A t \in lasting' : \E k \in Slots : live'[k] = t
    BY <2>1, FreeIsNoSocket DEF IInv, Kernel
  <2> QED
    BY <2>1, <2>2, <2>3, <2>4, <2>5, <2>6 DEF Kernel
<1>4. Dumped'
  <2>1. /\ live \in [Slots -> Sockets \cup {Free}] /\ s \in unopened
        /\ live' = [live EXCEPT ![h] = s] /\ unopened' = unopened \ {s}
        /\ raw' = raw /\ pc' = pc
        /\ taken' = taken \cup ({h} \cap {e.slot : e \in raw})
    BY DEF IInv, Kernel
  <2>2. \A e \in raw :
          /\ e.slot \in Slots /\ e.socket # s /\ e.socket \notin unopened
          /\ \A k \in Slots : live[k] = e.socket => k = e.slot
          /\ e.slot \notin taken => live[e.slot] \in {e.socket, Free}
    BY <2>1 DEF IInv, Dumped
  <2>3. \A e \in raw : /\ \A k \in Slots : live'[k] = e.socket => k = e.slot
                       /\ e.slot \notin taken' => live'[e.slot] \in {e.socket, Free}
    BY <2>1, <2>2
  <2> QED
    BY <2>1, <2>2, <2>3 DEF IInv, Dumped
<1>5. Whole'
  BY DEF IInv, Whole, Scanning
<1>6. Owned'
  <2>1. ASSUME NEW e \in raw PROVE Attributed(e.socket, e.slot, owners[e.slot])'
    <3>1. Attributed(e.socket, e.slot, owners[e.slot])
      BY DEF IInv, Owned
    <3>2. /\ taken \subseteq taken' /\ lasting' = lasting /\ todo' = todo /\ owners' = owners
          /\ unopened' \subseteq unopened
      OBVIOUS
    <3> QED
      BY <3>1, <3>2, OpenedGrows DEF Attributed
  <2> QED
    BY <2>1 DEF IInv, Owned
<1> QED
  BY <1>1, <1>2, <1>3, <1>4, <1>5, <1>6 DEF IInv, Stage

LEMMA CloseStep ==
  ASSUME IInv, NEW h \in Slots, Close(h)
  PROVE  IInv'
<1> USE DEF Close
<1>1. pc \in {"tcp", "udp", "retain", "owners"} /\ pc' = pc
  BY DEF Looking
<1>2. Tabled' /\ Matched' /\ Shown'
  BY <1>1, NoTableYet DEF Untabled, Scanning
<1>3. /\ live \in [Slots -> Sockets \cup {Free}] /\ live[h] \in Sockets
      /\ live' = [live EXCEPT ![h] = Free] /\ lasting' = lasting \ {live[h]}
      /\ unopened' = unopened /\ taken' = taken /\ raw' = raw
  BY DEF IInv, Kernel
<1>4. Kernel'
  <2>1. changes' \in 0..MaxChanges /\ options' \in OptionSets
    BY ListenAssumption DEF IInv, Kernel, ListenAssumption
  <2>2. \A k \in Slots : live'[k] \notin unopened'
    BY <1>3, FreeIsNoSocket DEF IInv, Kernel
  <2>3. \A j, k \in Slots : j # k /\ live'[j] = live'[k] => live'[j] = Free
    BY <1>3 DEF IInv, Kernel
  <2>4. \A t \in lasting' : \E k \in Slots : live'[k] = t
    BY <1>3 DEF IInv, Kernel
  <2> QED
    BY <1>3, <2>1, <2>2, <2>3, <2>4 DEF IInv, Kernel
<1>5. Dumped'
  <2>1. \A e \in raw : /\ e.slot \in Slots /\ e.socket \in Sockets
                       /\ \A k \in Slots : live'[k] = e.socket => k = e.slot
                       /\ e.slot \notin taken' => live'[e.slot] \in {e.socket, Free}
    BY <1>3, FreeIsNoSocket DEF IInv, Dumped
  <2> QED
    BY <1>1, <1>3, <2>1 DEF IInv, Dumped
<1>6. Whole'
  BY <1>1, <1>3 DEF IInv, Whole
<1>7. Owned'
  <2>1. ASSUME NEW e \in raw PROVE Attributed(e.socket, e.slot, owners[e.slot])'
    <3>1. Attributed(e.socket, e.slot, owners[e.slot])
      BY DEF IInv, Owned
    <3>2. /\ taken' = taken /\ lasting' \subseteq lasting /\ todo' = todo /\ owners' = owners
          /\ unopened' \subseteq unopened
      OBVIOUS
    <3> QED
      BY <3>1, <3>2, OpenedGrows DEF Attributed
  <2> QED
    BY <2>1 DEF IInv, Owned
<1> QED
  BY <1>1, <1>2, <1>4, <1>5, <1>6, <1>7 DEF IInv, Stage

LEMMA DumpStep ==
  ASSUME IInv, NEW protocol \in Protocols, NEW to,
         <<protocol, to>> \in {<<"tcp", "udp">>, <<"udp", "retain">>}, Dump(protocol, to)
  PROVE  IInv'
<1> USE DEF Dump
<1>1. /\ pc = protocol /\ pc' = to
      /\ \/ protocol = "tcp" /\ to = "udp"
         \/ protocol = "udp" /\ to = "retain"
  BY DEF Goto
<1>2. /\ UNCHANGED <<live, unopened, changes, lasting, taken, options>>
      /\ UNCHANGED <<todo, owners, table, summary, answer, page>>
  BY DEF world
<1>3. Tabled' /\ Matched' /\ Shown'
  BY <1>1, <1>2, NoTableYet DEF Untabled, Scanning
<1>4. Kernel' /\ Stage'
  BY <1>1, <1>2 DEF IInv, Kernel, Stage
<1> DEFINE found == {[slot |-> h, socket |-> live[h]] :
                       h \in {k \in Slots : live[k].protocol = protocol}}
<1>5. \A e \in found : /\ e \in [slot : Slots, socket : Sockets]
                       /\ live[e.slot] = e.socket /\ e.socket.protocol = protocol
  <2>1. protocol # "none"
    BY DEF Protocols
  <2>2. \A k \in Slots : live[k].protocol = protocol => live[k] \in Sockets
    BY <2>1 DEF IInv, Kernel, Free
  <2> QED
    BY <2>2
<1>6. raw \subseteq raw' /\ raw' \subseteq raw \cup found
  OBVIOUS
<1>7. protocol \in options.protocols => \A h \in Slots :
        live[h].protocol = protocol => \E e \in raw' : e.socket = live[h]
  <2> SUFFICES ASSUME protocol \in options.protocols,
                      NEW h \in Slots, live[h].protocol = protocol
               PROVE  [slot |-> h, socket |-> live[h]] \in raw'
    BY Zenon
  <2> QED
    OBVIOUS
<1> HIDE DEF found, Dump
<1>8. Dumped'
  <2>1. \A e \in raw : e.socket.protocol # protocol
    BY <1>1 DEF IInv, Dumped
  <2>2. \A e, f \in raw' : \/ e.socket = f.socket
                           \/ e.slot = f.slot /\ e.socket.protocol = f.socket.protocol
                           => e = f
    <3> SUFFICES ASSUME NEW e \in raw', NEW f \in raw',
                        \/ e.socket = f.socket
                        \/ e.slot = f.slot /\ e.socket.protocol = f.socket.protocol
                 PROVE  e = f
      OBVIOUS
    <3>1. e.socket.protocol = f.socket.protocol
      OBVIOUS
    <3>2. CASE e \in raw
      <4>1. f \in raw
        BY <1>5, <1>6, <2>1, <3>1, <3>2
      <4> QED
        BY <3>2, <4>1 DEF IInv, Dumped
    <3>3. CASE e \notin raw
      <4>1. e \in found /\ f \in found
        BY <1>5, <1>6, <2>1, <3>1, <3>3
      <4>2. e.slot = f.slot
        BY <1>5, <4>1, FreeIsNoSocket DEF IInv, Kernel
      <4> QED
        BY <1>5, <4>1, <4>2
    <3> QED
      BY <3>2, <3>3
  <2>3. \A e \in raw' :
          /\ e \in [slot : Slots, socket : Sockets]
          /\ e.socket \notin unopened
          /\ \A h \in Slots : live[h] = e.socket => h = e.slot
          /\ e.slot \notin taken => live[e.slot] \in {e.socket, Free}
    BY <1>5, <1>6, FreeIsNoSocket DEF IInv, Kernel, Dumped
  <2>4. pc' = "udp" => \A e \in raw' : e.socket.protocol = "tcp"
    BY <1>1, <1>5, <1>6 DEF IInv, Dumped
  <2> QED
    BY <1>1, <1>2, <2>2, <2>3, <2>4 DEF Dumped
<1>9. Whole'
  <2>1. ASSUME NEW s \in lasting, s.protocol \in options.protocols,
               pc' = "retain" \/ (pc' = "udp" /\ s.protocol = "tcp")
        PROVE  \E e \in raw' : e.socket = s
    <3>1. PICK h \in Slots : live[h] = s
      BY DEF IInv, Kernel
    <3>2. s.protocol = "tcp" \/ s.protocol = "udp"
      BY FreeIsNoSocket DEF IInv, Kernel, Protocols
    <3>3. CASE s.protocol = protocol
      BY <1>7, <2>1, <3>1, <3>3
    <3>4. CASE s.protocol # protocol
      <4>1. pc = "udp" /\ s.protocol = "tcp"
        BY <1>1, <2>1, <3>2, <3>4
      <4>2. \E e \in raw : e.socket = s
        BY <2>1, <4>1 DEF IInv, Whole
      <4> QED
        BY <1>6, <4>2
    <3> QED
      BY <3>3, <3>4
  <2> QED
    BY <1>1, <1>2, <2>1 DEF Whole
<1>10. Owned'
  <2>1. todo = Inspectable /\ owners = [h \in Slots |-> 0]
    BY <1>1 DEF IInv, Owned, Scanning
  <2>2. ASSUME NEW e \in raw' PROVE Attributed(e.socket, e.slot, owners[e.slot])'
    <3>1. owners[e.slot] = 0
      BY <1>5, <1>6, <2>1 DEF IInv, Dumped
    <3> QED
      BY <1>2, <2>1, <3>1 DEF Attributed
  <2> QED
    BY <1>1, <1>2, <2>1, <2>2 DEF IInv, Owned, Scanning
<1> QED
  BY <1>3, <1>4, <1>8, <1>9, <1>10 DEF IInv

LEMMA DumpFailsStep ==
  ASSUME IInv, DumpFails
  PROVE  IInv'
<1>1. /\ pc \in Protocols /\ pc' = "failed"
      /\ UNCHANGED <<live, unopened, changes, lasting, taken, options>>
      /\ UNCHANGED <<raw, todo, owners, table, summary, answer, page>>
  BY ListenAssumption DEF DumpFails, Goto, world, IInv, Kernel, ListenAssumption
<1>2. Tabled' /\ Matched' /\ Shown'
  BY <1>1, NoTableYet DEF Untabled, Scanning, Protocols
<1>3. Kernel' /\ Stage' /\ Whole'
  BY <1>1 DEF IInv, Kernel, Stage, Whole
<1>4. Dumped'
  BY <1>1 DEF IInv, Dumped
<1>5. Owned'
  BY <1>1 DEF IInv, Owned, Scanning, Attributed, OpenedBy
<1> QED
  BY <1>2, <1>3, <1>4, <1>5 DEF IInv

\* `collect` drops what does not listen, whether or not the processes can be listed.
LEMMA ListStep ==
  ASSUME IInv, ListPids \/ ListPidsFails
  PROVE  IInv'
<1>1. /\ pc = "retain" /\ pc' \in {"owners", "join"}
      /\ raw' = IF options.all THEN raw ELSE {e \in raw : IsListening(e.socket)}
      /\ UNCHANGED <<live, unopened, changes, lasting, taken, options>>
      /\ UNCHANGED <<todo, owners, table, summary, answer, page>>
  BY DEF ListPids, ListPidsFails, Goto, world
<1>2. Tabled' /\ Matched' /\ Shown'
  BY <1>1, NoTableYet DEF Untabled, Scanning
<1>3. Kernel' /\ Stage'
  BY <1>1 DEF IInv, Kernel, Stage
<1>4. /\ raw' \subseteq raw
      /\ \A e \in raw : options.all \/ IsListening(e.socket) => e \in raw'
  BY <1>1
<1>5. Dumped'
  BY <1>1, <1>4 DEF IInv, Dumped
<1>6. Whole'
  <2>1. ASSUME NEW s \in lasting, s.protocol \in options.protocols,
               options.all \/ IsListening(s)
        PROVE  \E e \in raw' : e.socket = s
    <3>1. PICK e \in raw : e.socket = s
      BY <1>1, <2>1 DEF IInv, Whole
    <3> QED
      BY <1>4, <2>1, <3>1
  <2> QED
    BY <1>1, <2>1 DEF Whole
<1>7. Owned'
  <2>1. \A e \in raw : Attributed(e.socket, e.slot, owners[e.slot])'
    BY <1>1 DEF IInv, Owned, Attributed, OpenedBy
  <2> QED
    BY <1>1, <1>4, <2>1 DEF IInv, Owned, Scanning
<1> QED
  BY <1>2, <1>3, <1>5, <1>6, <1>7 DEF IInv

\* As many blocks as a process holds, it opened sockets.
LEMMA HeldAreOpened ==
  ASSUME Kernel, NEW p
  PROVE  /\ IsFiniteSet(Held(p)) /\ Cardinality(Held(p)) \in Nat
         /\ Cardinality(OpenedBy(p)) \in Nat
         /\ Cardinality(Held(p)) <= Cardinality(OpenedBy(p))
<1> DEFINE f == [h \in Held(p) |-> live[h]]
<1>1. \A h \in Held(p) : h \in Slots /\ live[h] \in OpenedBy(p) /\ live[h] # Free
  BY DEF Kernel, Held, OpenedBy
<1>2. \A h, k \in Held(p) : live[h] = live[k] => h = k
  BY <1>1 DEF Kernel
<1>3. f \in Injection(Held(p), OpenedBy(p))
  BY <1>1, <1>2 DEF Injection, IsInjective
<1>4. IsFiniteSet(OpenedBy(p))
  <2>1. IsFiniteSet(Sockets) /\ OpenedBy(p) \in SUBSET Sockets
    BY ListenAssumption DEF ListenAssumption, OpenedBy
  <2> QED
    BY <2>1, FS_Subset, Zenon
<1>5. IsFiniteSet(Held(p)) /\ Cardinality(Held(p)) <= Cardinality(OpenedBy(p))
  BY <1>3, <1>4, FS_Injection
<1> QED
  BY <1>4, <1>5, FS_CardinalityType

\* Of a process with LIMIT descriptors at most, every one is seen; a block it
\* holds is its socket's, unless it was taken since the dump.
LEMMA InspectStep ==
  ASSUME IInv, NEW p \in Pids, Inspect(p)
  PROVE  IInv'
<1>1. /\ pc = "owners" /\ pc' = "owners" /\ p \in todo /\ todo' = todo \ {p}
      /\ UNCHANGED <<live, unopened, changes, lasting, taken, options>>
      /\ UNCHANGED <<raw, table, summary, answer, page>>
  BY DEF Inspect, world
<1>2. PICK seen \in SUBSET Held(p) :
        /\ Cardinality(seen) = IF Cardinality(Held(p)) <= LIMIT
                                 THEN Cardinality(Held(p)) ELSE LIMIT
        /\ owners' = [h \in Slots |-> IF owners[h] = 0 /\ h \in seen THEN p ELSE owners[h]]
  BY DEF Inspect
<1>3. Tabled' /\ Matched' /\ Shown'
  BY <1>1, NoTableYet DEF Untabled, Scanning
<1>4. Kernel' /\ Stage' /\ Dumped' /\ Whole'
  BY <1>1 DEF IInv, Kernel, Stage, Dumped, Whole
<1>5. /\ owners \in [Slots -> Inspectable \cup {0}] /\ p \in Inspectable /\ p # 0
      /\ todo \subseteq Inspectable
  BY <1>1, ListenAssumption DEF IInv, Owned, ListenAssumption
<1>6. ASSUME NEW e \in raw PROVE Attributed(e.socket, e.slot, owners[e.slot])'
  <2>0. e.slot \in Slots /\ e.socket \in Sockets
    BY DEF IInv, Dumped
  <2>1. Attributed(e.socket, e.slot, owners[e.slot])
    BY DEF IInv, Owned
  <2>2. OpenedBy(p)' = OpenedBy(p) /\ \A q : OpenedBy(q)' = OpenedBy(q)
    BY <1>1 DEF OpenedBy
  <2>3. CASE owners[e.slot] # 0
    BY <1>1, <1>2, <2>0, <2>1, <2>3 DEF Attributed
  <2>4. CASE owners[e.slot] = 0 /\ e.slot \in seen
    <3>1. owners'[e.slot] = p
      BY <1>2, <2>0, <2>4
    <3>2. live[e.slot] # Free /\ p \in live[e.slot].holders
      BY <2>4 DEF Held
    <3>3. e.slot \notin taken => p \in e.socket.holders
      BY <3>2 DEF IInv, Dumped
    <3> QED
      BY <1>1, <1>5, <3>1, <3>3 DEF Attributed
  <2>5. CASE owners[e.slot] = 0 /\ e.slot \notin seen
    <3>1. owners'[e.slot] = 0
      BY <1>2, <2>0, <2>5
    <3>2. ASSUME e.socket \in lasting, p \in e.socket.holders
          PROVE  Cardinality(OpenedBy(p)) > LIMIT
      <4>1. live[e.slot] = e.socket
        <5>1. PICK h \in Slots : live[h] = e.socket
          BY <3>2 DEF IInv, Kernel
        <5> QED
          BY <5>1 DEF IInv, Dumped
      <4>2. e.slot \in Held(p)
        BY <2>0, <3>2, <4>1, FreeIsNoSocket DEF Held
      <4>3. seen # Held(p)
        BY <2>5, <4>2
      <4>4. /\ IsFiniteSet(Held(p)) /\ Cardinality(Held(p)) \in Nat
            /\ Cardinality(OpenedBy(p)) \in Nat
            /\ Cardinality(Held(p)) <= Cardinality(OpenedBy(p))
        BY HeldAreOpened DEF IInv
      <4>5. Cardinality(Held(p)) # Cardinality(seen)
        BY <4>3, <4>4, FS_Subset
      <4>6. LIMIT \in Nat
        BY ListenAssumption DEF ListenAssumption
      <4> QED
        BY <1>2, <4>4, <4>5, <4>6
    <3>3. \A q \in (e.socket.holders \cap Inspectable) \ todo' :
            q = p \/ q \in (e.socket.holders \cap Inspectable) \ todo
      BY <1>1
    <3> QED
      BY <1>1, <2>1, <2>2, <2>5, <3>1, <3>2, <3>3 DEF Attributed
  <2> QED
    BY <2>3, <2>4, <2>5
<1>7. Owned'
  <2>1. owners' \in [Slots -> Inspectable \cup {0}]
    BY <1>2, <1>5
  <2> QED
    BY <1>1, <1>5, <1>6, <2>1 DEF Owned, Scanning
<1> QED
  BY <1>3, <1>4, <1>7 DEF IInv

LEMMA OwnersListedStep ==
  ASSUME IInv, OwnersListed
  PROVE  IInv'
<1>1. /\ pc = "owners" /\ pc' = "join"
      /\ UNCHANGED <<live, unopened, changes, lasting, taken, options>>
      /\ UNCHANGED <<raw, todo, owners, table, summary, answer, page>>
  BY DEF OwnersListed, Goto, world
<1>2. Tabled' /\ Matched' /\ Shown'
  BY <1>1, NoTableYet DEF Untabled, Scanning
<1>3. Kernel' /\ Stage' /\ Dumped' /\ Whole'
  BY <1>1 DEF IInv, Kernel, Stage, Dumped, Whole
<1>4. Owned'
  BY <1>1 DEF IInv, Owned, Scanning, Attributed, OpenedBy
<1> QED
  BY <1>2, <1>3, <1>4 DEF IInv

LEMMA TabulateStep ==
  ASSUME IInv, Tabulate
  PROVE  IInv'
<1>1. /\ pc = "join" /\ pc' = "containers"
      /\ table' = Retain(Join(raw, owners), options) /\ summary' = Summarise(table')
      /\ raw' = {} /\ owners' = [h \in Slots |-> 0]
      /\ UNCHANGED <<live, unopened, changes, lasting, taken, options, todo, answer, page>>
  BY DEF Tabulate, Goto, world
<1>2. Kernel' /\ Stage' /\ Dumped' /\ Whole'
  BY <1>1 DEF IInv, Kernel, Stage, Dumped, Whole
<1>3. Owned'
  BY <1>1 DEF IInv, Owned, Scanning
<1> DEFINE joined == Join(raw, owners)
<1>4. /\ joined \in Seq(Row) /\ Distinct(joined)
      /\ \A e \in raw : \E i \in DOMAIN joined : joined[i] = Named(e, owners)
      /\ \A i \in DOMAIN joined : \E e \in raw : joined[i] = Named(e, owners)
  <2>1. /\ raw \subseteq [slot : Slots, socket : Sockets]
        /\ owners \in [Slots -> Inspectable \cup {0}]
        /\ \A e, f \in raw : \/ e.socket = f.socket
                             \/ e.slot = f.slot /\ e.socket.protocol = f.socket.protocol
                             => e = f
    BY DEF IInv, Dumped, Owned
  <2> QED
    BY <2>1, JoinLists
<1> HIDE DEF joined
<1>5. /\ table' \in Seq(Row) /\ Distinct(table')
      /\ \A i \in DOMAIN joined : Passes(joined[i], options) =>
           \E n \in DOMAIN table' : table'[n] = joined[i]
      /\ \A n \in DOMAIN table' : \E i \in DOMAIN joined : table'[n] = joined[i]
  BY <1>1, <1>4, RetainKeeps DEF joined
<1>6. ASSUME NEW r \in Rows'
      PROVE  \E e \in raw : r = Named(e, owners)
  BY <1>4, <1>5 DEF Rows, ToSet
<1>7. ASSUME NEW r \in Rows'
      PROVE  r.container = Unclaimed /\ Attributed(r.socket, r.slot, r.pid)'
  <2>1. PICK e \in raw : r = Named(e, owners)
    BY <1>6
  <2>2. /\ r.container = Unclaimed /\ r.socket = e.socket
        /\ r.slot = e.slot /\ r.pid = owners[e.slot]
    BY <2>1 DEF Named
  <2>3. Attributed(e.socket, e.slot, owners[e.slot])
    BY DEF IInv, Owned
  <2> QED
    BY <1>1, <2>2, <2>3 DEF Attributed, OpenedBy
<1>8. ASSUME NEW s \in lasting, Wanted(s) PROVE \E r \in Rows' : r.socket = s
  <2>1. PICK e \in raw : e.socket = s
    BY <1>1, <1>8 DEF IInv, Whole, Wanted
  <2>2. PICK i \in DOMAIN joined : joined[i] = Named(e, owners)
    BY <1>4
  <2>3. joined[i].socket = s
    BY <2>1, <2>2 DEF Named
  <2>4. Passes(joined[i], options)
    BY <1>8, <2>3 DEF Passes, Wanted
  <2>5. PICK n \in DOMAIN table' : table'[n] = joined[i]
    BY <1>5, <2>4
  <2> QED
    BY <2>3, <2>5 DEF Rows, ToSet
<1>9. Tabled'
  <2>1. \A s \in lasting : Wanted(s)' <=> Wanted(s)
    BY <1>1 DEF Wanted
  <2> QED
    BY <1>1, <1>5, <1>7, <1>8, <2>1 DEF Tabled, Untabled, Scanning
<1>10. Matched'
  <2>1. answer' = Silent
    BY <1>1 DEF IInv, Matched
  <2> QED
    BY <1>1, <1>7, <2>1 DEF Matched, PublishHalvesAgree, ClaimsAreFounded,
                            NoGuessBesideAnswer, WildcardClaimsArePublished
<1>11. Shown'
  BY <1>1 DEF IInv, Shown
<1> QED
  BY <1>2, <1>3, <1>9, <1>10, <1>11 DEF IInv

LEMMA AnnotateStep ==
  ASSUME IInv, Annotate
  PROVE  IInv'
<1>1. /\ pc = "containers" /\ pc' = "print"
      /\ answer' \in Answers \cup {Silent} /\ table' = Resolve(table, answer')
      /\ UNCHANGED <<live, unopened, changes, lasting, taken, options>>
      /\ UNCHANGED <<raw, todo, owners, summary, page>>
  BY DEF Annotate, Goto, world
<1>2. Kernel' /\ Stage' /\ Dumped' /\ Whole'
  BY <1>1 DEF IInv, Kernel, Stage, Dumped, Whole
<1>3. Owned'
  BY <1>1 DEF IInv, Owned, Scanning, Attributed, OpenedBy
<1>4. /\ table \in Seq(Row) /\ Distinct(table) /\ summary = Summarise(table)
      /\ \A i \in DOMAIN table : table[i].container = Unclaimed
      /\ \A i \in DOMAIN table : table[i] \in Rows
  BY <1>1 DEF IInv, Tabled, Matched, Rows, ToSet
<1>5. /\ table' \in Seq(Row) /\ DOMAIN table' = DOMAIN table
      /\ \A i \in DOMAIN table : SameRow(table'[i], table[i])
      /\ \A i, j \in DOMAIN table :
           OnePublish(table'[i], table'[j]) /\ table'[i].container # Unclaimed =>
             table'[j].container # Unclaimed
  BY <1>1, <1>4, ResolveKeeps
<1>6. \A i \in DOMAIN table : /\ table'[i].slot = table[i].slot
                              /\ table'[i].socket = table[i].socket
                              /\ table'[i].pid = table[i].pid
  BY <1>5 DEF SameRow
<1>7. \A r \in Rows' : \E i \in DOMAIN table : r = table'[i]
  BY <1>5 DEF Rows, ToSet
<1>8. \A i \in DOMAIN table : table'[i] \in Rows'
  BY <1>5 DEF Rows, ToSet
<1>9. Tabled'
  <2>1. Distinct(table')
    BY <1>4, <1>5, <1>6 DEF Distinct
  <2>2. ASSUME NEW r \in Rows' PROVE Attributed(r.socket, r.slot, r.pid)'
    <3>1. PICK i \in DOMAIN table : r = table'[i]
      BY <1>7
    <3>2. Attributed(table[i].socket, table[i].slot, table[i].pid)
      BY <1>4 DEF IInv, Tabled
    <3> QED
      BY <1>1, <1>6, <3>1, <3>2 DEF Attributed, OpenedBy
  <2>3. summary' = Summarise(table')
    <3>1. /\ {i \in DOMAIN table' : table'[i].pid = 0} = {i \in DOMAIN table : table[i].pid = 0}
          /\ {i \in DOMAIN table' : Exposure(table'[i].socket.address) = "wildcard"}
               = {i \in DOMAIN table : Exposure(table[i].socket.address) = "wildcard"}
      BY <1>5, <1>6
    <3> QED
      BY <1>1, <1>4, <3>1 DEF Summarise
  <2>4. ASSUME NEW s \in lasting', Wanted(s)' PROVE \E r \in Rows' : r.socket = s
    <3>1. s \in lasting /\ Wanted(s)
      BY <1>1, <2>4 DEF Wanted
    <3>2. PICK i \in DOMAIN table : table[i].socket = s
      BY <1>1, <3>1 DEF IInv, Tabled, Rows, ToSet
    <3> QED
      BY <1>6, <1>8, <3>2
  <2> QED
    BY <1>1, <1>5, <2>1, <2>2, <2>3, <2>4 DEF Tabled, Untabled, Scanning
<1>10. PublishHalvesAgree'
  <2> SUFFICES ASSUME NEW r \in Rows', NEW q \in Rows', OnePublish(r, q),
                      r.container # Unclaimed
               PROVE  q.container # Unclaimed
    BY DEF PublishHalvesAgree
  <2>1. PICK i \in DOMAIN table : r = table'[i]
    BY <1>7
  <2>2. PICK j \in DOMAIN table : q = table'[j]
    BY <1>7
  <2> QED
    BY <1>5, <2>1, <2>2
<1>11. ClaimsAreFounded'
  <2> SUFFICES ASSUME answer' # Silent PROVE ClaimsAreFounded'
    BY DEF ClaimsAreFounded, NoGuessBesideAnswer, WildcardClaimsArePublished
  <2>1. answer' \in Answers
    BY <1>1
  <2>2. \A i \in DOMAIN table : table'[i].container # Unclaimed =>
          /\ table'[i].container # SomeContainer
          /\ \E j \in DOMAIN table, k \in DOMAIN answer' :
               /\ i = j \/ OnePublish(table'[i], table'[j])
               /\ table'[j].container = table'[i].container
               /\ answer'[k].name = table'[i].container
               /\ Claims(answer'[k], table'[j].socket)
    BY <1>1, <1>4, <2>1, ResolveIsFounded
  <2>3. NoGuessBesideAnswer'
    <3> SUFFICES ASSUME NEW r \in Rows' PROVE r.container # SomeContainer
      BY DEF NoGuessBesideAnswer
    <3>1. PICK i \in DOMAIN table : r = table'[i]
      BY <1>7
    <3> QED
      BY <2>2, <3>1 DEF SomeContainer, Unclaimed
  <2>4. WildcardClaimsArePublished'
    <3> SUFFICES ASSUME \A c \in ToSet(answer') : \A port \in c.ports :
                          port.ip \in {"", "0.0.0.0", "::"},
                        NEW r \in Rows', r.container # Unclaimed
                 PROVE  \E q \in Rows' : /\ (r = q \/ OnePublish(r, q))
                                         /\ q.container = r.container /\ PublishedThere(q)'
      BY DEF WildcardClaimsArePublished, ClaimIsPublished
    <3>1. PICK i \in DOMAIN table : r = table'[i]
      BY <1>7
    <3>2. PICK j \in DOMAIN table, k \in DOMAIN answer' :
            /\ i = j \/ OnePublish(table'[i], table'[j])
            /\ table'[j].container = table'[i].container
            /\ answer'[k].name = table'[i].container
            /\ Claims(answer'[k], table'[j].socket)
      BY <2>2, <3>1
    <3>3. answer'[k] \in ToSet(answer')
      BY <2>1, AnswersAreLists
    <3>4. PICK port \in answer'[k].ports :
            /\ port.public = table'[j].socket.port /\ port.protocol = table'[j].socket.protocol
            /\ table'[j].socket.address \in Published(port)
      BY <3>2 DEF Claims
    <3>5. port.ip \in {"", table'[j].socket.address}
      <4>1. port.ip \in {"", "0.0.0.0", "::"}
        BY <3>3, <3>4
      <4> QED
        BY <3>4, <4>1 DEF Published
    <3>6. PICK q \in Rows' : q = table'[j]
      BY <1>8
    <3>7. PublishedThere(q)'
      BY <3>2, <3>3, <3>4, <3>5, <3>6 DEF PublishedThere
    <3>8. (r = q \/ OnePublish(r, q)) /\ q.container = r.container
      BY <3>1, <3>2, <3>6
    <3> QED
      BY <3>7, <3>8
  <2> QED
    BY <2>3, <2>4 DEF ClaimsAreFounded
<1>12. Matched'
  BY <1>1, <1>10, <1>11 DEF Matched
<1>13. Shown'
  BY <1>1 DEF IInv, Shown
<1> QED
  BY <1>2, <1>3, <1>9, <1>12, <1>13 DEF IInv

LEMMA SkipStep ==
  ASSUME IInv, SkipContainers
  PROVE  IInv'
<1>1. /\ pc = "containers" /\ pc' = "print"
      /\ UNCHANGED <<live, unopened, changes, lasting, taken, options>>
      /\ UNCHANGED <<raw, todo, owners, table, summary, answer, page>>
  BY DEF SkipContainers, Goto, world
<1>2. Kernel' /\ Stage' /\ Dumped' /\ Whole'
  BY <1>1 DEF IInv, Kernel, Stage, Dumped, Whole
<1>3. Owned'
  BY <1>1 DEF IInv, Owned, Scanning, Attributed, OpenedBy
<1>4. Tabled'
  BY <1>1 DEF IInv, Tabled, Untabled, Scanning, Rows, Attributed, OpenedBy, Wanted
<1>5. Matched' /\ Shown'
  BY <1>1 DEF IInv, Matched, Shown, Rows, PublishHalvesAgree, ClaimsAreFounded,
              NoGuessBesideAnswer, WildcardClaimsArePublished
<1> QED
  BY <1>2, <1>3, <1>4, <1>5 DEF IInv

LEMMA ShowStep ==
  ASSUME IInv, ShowPage
  PROVE  IInv'
<1>1. /\ pc = "print" /\ pc' = "done"
      /\ \E firewall \in {"off", "other"} : page' = Render(table, summary, firewall)
      /\ UNCHANGED <<live, unopened, changes, lasting, taken, options>>
      /\ UNCHANGED <<raw, todo, owners, table, summary, answer>>
  BY DEF ShowPage, Goto, world
<1>2. Kernel' /\ Stage' /\ Dumped' /\ Whole'
  BY <1>1 DEF IInv, Kernel, Stage, Dumped, Whole
<1>3. Owned'
  BY <1>1 DEF IInv, Owned, Scanning, Attributed, OpenedBy
<1>4. Tabled'
  BY <1>1 DEF IInv, Tabled, Untabled, Scanning, Rows, Attributed, OpenedBy, Wanted
<1>5. Matched'
  <2>1. /\ Rows' = Rows /\ answer' = answer
        /\ PublishHalvesAgree /\ ClaimsAreFounded /\ answer \in Answers \cup {Silent}
    BY <1>1 DEF IInv, Matched, Rows
  <2>2. PublishHalvesAgree' /\ ClaimsAreFounded'
    BY <2>1 DEF PublishHalvesAgree, ClaimsAreFounded, NoGuessBesideAnswer,
                WildcardClaimsArePublished, ClaimIsPublished, PublishedThere
  <2> QED
    BY <1>1, <2>1, <2>2 DEF Matched
<1>6. Shown'
  BY <1>1 DEF Shown
<1> QED
  BY <1>2, <1>3, <1>4, <1>5, <1>6 DEF IInv

LEMMA IInvNext ==
  ASSUME IInv, [Next]_vars
  PROVE  IInv'
<1>1. CASE UNCHANGED vars
  <2>1. /\ UNCHANGED <<live, unopened, changes, lasting, taken, options, pc>>
        /\ UNCHANGED <<raw, todo, owners, table, summary, answer, page>>
    BY <1>1 DEF vars, world
  <2>2. Kernel' /\ Stage' /\ Dumped' /\ Whole'
    BY <2>1 DEF IInv, Kernel, Stage, Dumped, Whole
  <2>3. Owned' /\ Tabled'
    BY <2>1 DEF IInv, Owned, Tabled, Rows, Attributed, OpenedBy, Wanted
  <2>4. Matched' /\ Shown'
    BY <2>1 DEF IInv, Matched, Shown, Rows, PublishHalvesAgree, ClaimsAreFounded,
         NoGuessBesideAnswer, WildcardClaimsArePublished, ClaimIsPublished, PublishedThere
  <2> QED
    BY <2>2, <2>3, <2>4 DEF IInv
<1>2. CASE Dump("tcp", "udp") \/ Dump("udp", "retain")
  BY <1>2, DumpStep DEF Protocols
<1>3. CASE DumpFails
  BY <1>3, DumpFailsStep
<1>4. CASE ListPids \/ ListPidsFails
  BY <1>4, ListStep
<1>5. CASE \E p \in Pids : Inspect(p)
  BY <1>5, InspectStep
<1>6. CASE OwnersListed
  BY <1>6, OwnersListedStep
<1>7. CASE Tabulate
  BY <1>7, TabulateStep
<1>8. CASE Annotate
  BY <1>8, AnnotateStep
<1>9. CASE SkipContainers
  BY <1>9, SkipStep
<1>10. CASE ShowPage
  BY <1>10, ShowStep
<1>11. CASE \E h \in Slots : Close(h)
  BY <1>11, CloseStep
<1>12. CASE \E h \in Slots, s \in Sockets : Open(h, s)
  BY <1>12, OpenStep
<1> QED
  BY <1>1, <1>2, <1>3, <1>4, <1>5, <1>6, <1>7, <1>8, <1>9, <1>10, <1>11, <1>12
  DEF Next, Step

LEMMA IInvHolds == Spec => []IInv
<1>1. IInv /\ [Next]_vars => IInv'
  BY IInvNext
<1> QED
  BY IInvInit, <1>1, PTL DEF Spec

-----------------------------------------------------------------------------
(* What the command promises.                                              *)

\* What the table of `listen` says of a socket is true, whatever opens and closes
\* while it looks: every listener open all along and asked for is printed under
\* its exposure, the process named held that socket, and where none is named the
\* processes that held it are out of reach.
THEOREM ListedRowsAreTrue == Spec => []RowsAreTrue
<1> SUFFICES ASSUME IInv PROVE RowsAreTrue
  BY IInvHolds, PTL
<1>1. /\ table \in Seq(Row) /\ Rows = {table[i] : i \in DOMAIN table}
      /\ \A r \in Rows : r \in Row
  BY DEF IInv, Tabled, Rows, ToSet
<1>2. pc = "done" => page.groups = Sections(table)
  BY DEF IInv, Shown, Render
<1>3. pc # "done" => page.groups = <<>>
  BY DEF IInv, Shown, NoPage
<1>4. EveryListenerListed
  <2> SUFFICES ASSUME pc = "done", NEW s \in lasting, Wanted(s)
               PROVE  \E i \in DOMAIN page.groups :
                        /\ page.groups[i].reach = Exposure(s.address)
                        /\ \E line \in ToSet(page.groups[i].lines) : line.socket = s
    BY DEF EveryListenerListed
  <2>1. PICK k \in DOMAIN table : table[k].socket = s
    BY <1>1 DEF IInv, Tabled
  <2>2. PICK g \in DOMAIN Sections(table) :
          /\ Sections(table)[g].reach = ReachOf(table[k])
          /\ Line(table[k]) \in ToSet(Sections(table)[g].lines)
    BY <1>1, SectionsShowAll
  <2>3. Line(table[k]).socket = s /\ ReachOf(table[k]) = Exposure(s.address)
    BY <2>1 DEF Line, ReachOf
  <2> QED
    BY <1>2, <2>2, <2>3
<1>5. NameIsRight
  BY DEF IInv, Tabled, Attributed, NameIsRight
<1>6. NamelessIsOthers
  BY DEF IInv, Tabled, Attributed, OpenedBy, NamelessIsOthers
<1>7. TypeOK
  <2>1. \A i \in DOMAIN page.groups : page.groups[i].lines # <<>>
    BY <1>1, <1>2, <1>3, SectionsShowAll
  <2>2. \A r \in Rows : r.socket \in Sockets /\ r.pid \in Inspectable \cup {0}
    BY <1>1 DEF Row
  <2> QED
    BY <2>1, <2>2 DEF TypeOK, IInv, Stage, Kernel, Dumped, Owned, Matched
<1> QED
  BY <1>4, <1>5, <1>6, <1>7 DEF RowsAreTrue

\* The footer (`footer` of render/listen.rs) counts the lines above it, although its
\* numbers are from before the containers were asked for.
THEOREM FooterIsOfItsPage == Spec => []FooterDescribesPage
<1> SUFFICES ASSUME IInv PROVE FooterDescribesPage
  BY IInvHolds, PTL
<1> SUFFICES ASSUME pc = "done" PROVE FooterDescribesPage
  BY DEF FooterDescribesPage
<1>1. table \in Seq(Row) /\ Distinct(table) /\ summary = Summarise(table)
  BY DEF IInv, Tabled
<1>2. /\ page.groups = Sections(table)
      /\ page.unattributed = summary.unattributed /\ page.exposed \in {0, summary.wildcard}
  BY DEF IInv, Shown, Render
<1>3. Printed = PrintedOn(Sections(table))
  BY <1>2 DEF Printed, PrintedOn
<1> QED
  BY <1>1, <1>2, <1>3, FooterCounts DEF FooterDescribesPage

\* The rows of one publish all show a container or none does (`same_publish`,
\* `apply_forwarders`), in whatever order they stand.
THEOREM HalvesAgree == Spec => []PublishHalvesAgree
<1>1. IInv => PublishHalvesAgree
  BY DEF IInv, Matched
<1> QED
  BY IInvHolds, <1>1, PTL

\* A label is never founded on less than the runtime's answer when there is one, as
\* long as containers publish on all addresses of a family (`annotate`).
THEOREM ClaimsHold == Spec => []ClaimsAreFounded
<1>1. IInv => ClaimsAreFounded
  BY DEF IInv, Matched
<1> QED
  BY IInvHolds, <1>1, PTL

=============================================================================
