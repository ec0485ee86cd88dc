------------------------------- MODULE Walks --------------------------------
(***************************************************************************)
(* The walks over the kernel's variable-length dumps: the protocol control *)
(* blocks of parse/pcb.rs and the routing messages of parse/rt_msg.rs, one *)
(* block, record or address at a time.  What a header says is chosen when  *)
(* the walk gets to it: any length and kind, fitting or not.  All lengths  *)
(* and offsets are bytes, as in the code.                                  *)
(***************************************************************************)
EXTENDS Integers, Sequences

CONSTANTS
  Lengths,       \* of the buffers
  BlockLengths,  \* what a block may claim
  RecordLengths, \* what a routing message may claim
  AddressLengths,\* what a socket address may claim, one byte
  Masks          \* the sets of addresses a message may carry, as bits 1..8

XINPGEN_LEN == 24
ALIGNMENT == 8
HEADER_LEN == 92
Minimum == [inpcb |-> 80, socket |-> 68, tcpcb |-> 40]
Kinds == {"inpcb", "socket", "tcpcb", "other"}

ASSUME WalksAssumption ==
  /\ Lengths \subseteq Nat /\ BlockLengths \subseteq Nat /\ RecordLengths \subseteq Nat
  /\ AddressLengths \subseteq 0..255
  /\ \A m \in Masks : m \subseteq 1..8

VARIABLES
  format,   \* which of the two
  length,   \* of the buffer
  offset,   \* of the next header
  status,   \* "header", "walking", "addresses", "flush", "ok" or "error"
  pending,  \* pcb: the socket being assembled; None between sockets
  sockets,  \* pcb: the sockets done
  end,      \* rt_msg: where the current record ends
  bits,     \* rt_msg: the slots of it still to be read
  reach,    \* history: the end of the bytes looked at
  fence,    \* history: the end of what may be looked at
  blocks,   \* history, pcb: every control block, with what came after it
  written   \* history, rt_msg: where the kernel put the next address

pcb == <<pending, sockets, blocks>>
rt == <<end, bits, written>>
walkVars == <<format, length, offset, status, pcb, rt, reach, fence>>

None == [pcb |-> 0]

-----------------------------------------------------------------------------
Advance_Unpadded(n) == n

Advance(n) == ((n + ALIGNMENT - 1) \div ALIGNMENT) * ALIGNMENT

\* 1 + ((length - 1) | 3)
Consumed(n) == IF n = 0 THEN 4 ELSE 4 * ((n - 1) \div 4) + 4

\* What the kernel's ROUNDUP makes of a socket address.
Occupied(n) == CHOOSE k \in {4 * i : i \in 1..64} : k >= n /\ k - 4 < IF n = 0 THEN 1 ELSE n

Remaining == length - offset

-----------------------------------------------------------------------------
WalkInit ==
  /\ format \in {"pcb", "rt_msg"}
  /\ length \in Lengths
  /\ offset = 0
  /\ status = IF format = "pcb" THEN "header" ELSE "walking"
  /\ pending = None /\ sockets = <<>> /\ blocks = <<>>
  /\ end = 0 /\ bits = {} /\ written = 0
  /\ reach = 0 /\ fence = length

Stop(result) ==
  /\ status' = result
  /\ UNCHANGED <<format, length, offset, pcb, rt>>

Unread == UNCHANGED <<reach, fence>>

Look(at, most) == reach' = at /\ fence' = most

\* header_length: nothing at all is an empty table, less than a header or
\* another header than expected an error.
PcbHeader ==
  /\ status = "header"
  /\ \/ length = 0 /\ Stop("ok") /\ Unread
     \/ length \in 1..(XINPGEN_LEN - 1) /\ Stop("error") /\ Unread
     \/ length >= XINPGEN_LEN /\ Stop("error") /\ Look(4, length)
     \/ /\ length >= XINPGEN_LEN
        /\ status' = "walking" /\ offset' = XINPGEN_LEN /\ Look(4, length)
        /\ UNCHANGED <<format, length, pcb, rt>>

Walking(f) == format = f /\ status = "walking"

\* Too little left for a header, or a length that cannot be.
PcbRefuses ==
  /\ Walking("pcb") /\ Remaining > 0
  /\ \/ Remaining < 8 /\ Unread
     \/ /\ Remaining >= 8
        /\ \E claimed \in BlockLengths : claimed < 8 \/ claimed > Remaining
        /\ Look(offset + 4, length)
  /\ Stop("error")

Start(claimed, readable) ==
  IF claimed >= Minimum.inpcb /\ readable THEN [pcb |-> offset, uid |-> 0, state |-> 0] ELSE None

Block_KeepsPending(kind, claimed, readable) ==
  CASE kind = "inpcb" ->
         /\ sockets' = IF pending = None THEN sockets ELSE Append(sockets, pending)
         /\ pending' = IF Start(claimed, readable) = None THEN pending ELSE Start(claimed, readable)
    [] kind \in {"socket", "tcpcb"} ->
         /\ pending' = IF pending = None \/ claimed < Minimum[kind] THEN pending
                       ELSE IF kind = "socket" THEN [pending EXCEPT !.uid = offset]
                       ELSE [pending EXCEPT !.state = offset]
         /\ UNCHANGED sockets
    [] OTHER -> UNCHANGED <<pending, sockets>>

\* A control block ends the socket before it, and begins one if it can be read
\* and is of a family; the others add to the one begun.
Block(kind, claimed, readable) ==
  CASE kind = "inpcb" ->
         /\ sockets' = IF pending = None THEN sockets ELSE Append(sockets, pending)
         /\ pending' = Start(claimed, readable)
    [] kind \in {"socket", "tcpcb"} ->
         /\ pending' = IF pending = None \/ claimed < Minimum[kind] THEN pending
                       ELSE IF kind = "socket" THEN [pending EXCEPT !.uid = offset]
                       ELSE [pending EXCEPT !.state = offset]
         /\ UNCHANGED sockets
    [] OTHER -> UNCHANGED <<pending, sockets>>

\* How far into the block its fields are read.
Touched_Unchecked(kind, claimed) == IF kind = "other" THEN 8 ELSE Minimum[kind]

Touched(kind, claimed) ==
  IF kind = "other" \/ claimed < Minimum[kind] THEN 8 ELSE Minimum[kind]

\* The blocks as they are, whether they can be read or not.
Described(kind, claimed, readable) ==
  LET n == Len(blocks)
      Long == claimed >= Minimum[kind]
  IN CASE kind = "inpcb" ->
            Append(blocks, [pcb |-> offset, ok |-> Long /\ readable, uid |-> 0, state |-> 0])
       [] kind = "socket" /\ n > 0 -> IF Long THEN [blocks EXCEPT ![n].uid = offset] ELSE blocks
       [] kind = "tcpcb" /\ n > 0 -> IF Long THEN [blocks EXCEPT ![n].state = offset] ELSE blocks
       [] OTHER -> blocks

\* The last block's padding may be missing.
StepOver(claimed) ==
  IF offset + Advance(claimed) > length
    THEN status' = "flush" /\ UNCHANGED offset
    ELSE offset' = offset + Advance(claimed) /\ UNCHANGED status

PcbBlock ==
  /\ Walking("pcb") /\ Remaining >= 8
  /\ \E claimed \in BlockLengths, kind \in Kinds, readable \in BOOLEAN :
       /\ claimed \in 8..Remaining
       /\ Block(kind, claimed, readable)
       /\ blocks' = Described(kind, claimed, readable)
       /\ StepOver(claimed)
       /\ Look(offset + Touched(kind, claimed), offset + claimed)
  /\ UNCHANGED <<format, length, rt>>

PcbDone ==
  /\ format = "pcb"
  /\ status = "flush" \/ (status = "walking" /\ Remaining = 0)
  /\ sockets' = IF pending = None THEN sockets ELSE Append(sockets, pending)
  /\ pending' = None
  /\ status' = "ok"
  /\ UNCHANGED <<format, length, offset, blocks, rt, reach, fence>>

-----------------------------------------------------------------------------
\* Too little left, a length of zero, one beyond the buffer, or one of a
\* record of this version that cannot hold its own header.
RtRefuses ==
  /\ Walking("rt_msg") /\ Remaining > 0
  /\ \/ Remaining < 4 /\ Unread
     \/ /\ Remaining >= 4
        /\ \E claimed \in RecordLengths \cup {0} :
             claimed > Remaining \/ claimed < HEADER_LEN
        /\ Look(offset + 4, length)
  /\ Stop("error")

\* A record of another version is stepped over.
RtSkip ==
  /\ Walking("rt_msg") /\ Remaining >= 4
  /\ \E claimed \in RecordLengths \cap 1..Remaining :
       /\ offset' = offset + claimed
       /\ Look(offset + 3, length)
  /\ UNCHANGED <<format, length, status, pcb, rt>>

RtRecord ==
  /\ Walking("rt_msg") /\ Remaining >= 4
  /\ \E claimed \in RecordLengths \cap HEADER_LEN..Remaining, mask \in Masks :
       /\ end' = offset + claimed /\ bits' = mask
       /\ offset' = offset + HEADER_LEN /\ written' = offset + HEADER_LEN
       /\ Look(offset + 52, offset + claimed)
  /\ status' = "addresses"
  /\ UNCHANGED <<format, length, pcb>>

NextBit == CHOOSE b \in bits : \A c \in bits : b <= c

Families == {"inet", "inet6", "link", "other"}

\* How far an address is read: its fields only if it is long enough for them.
Read(family, n) ==
  CASE family = "inet" /\ n >= 8 -> 8
    [] family = "inet6" /\ n >= 24 -> IF n >= 28 THEN 28 ELSE 24
    [] OTHER -> n

RtAddress ==
  /\ status = "addresses" /\ bits # {} /\ offset < end
  /\ \E n \in AddressLengths, family \in Families :
       /\ Consumed(n) <= end - offset
       /\ Look(offset + IF n <= 1 THEN 1 ELSE Read(family, n),
               offset + IF n = 0 THEN 1 ELSE n)
       /\ offset' = offset + Consumed(n)
       /\ written' = written + Occupied(n)
  /\ bits' = bits \ {NextBit}
  /\ UNCHANGED <<format, length, status, pcb, end>>

\* An address that does not fit the rest of its record.
RtAddressRefuses ==
  /\ status = "addresses" /\ bits # {}
  /\ \/ offset >= end
     \/ \E n \in AddressLengths : Consumed(n) > end - offset
  /\ Unread
  /\ Stop("error")

\* On to the next record, whatever the addresses left over.
RtRecordDone ==
  /\ status = "addresses" /\ bits = {}
  /\ status' = "walking" /\ offset' = end
  /\ end' = 0 /\ written' = 0 /\ fence' = length
  /\ UNCHANGED <<format, length, pcb, bits, reach>>

RtDone ==
  /\ Walking("rt_msg") /\ Remaining = 0
  /\ Unread
  /\ Stop("ok")

-----------------------------------------------------------------------------
WalkNext ==
  \/ PcbHeader \/ PcbRefuses \/ PcbBlock \/ PcbDone
  \/ RtRefuses \/ RtSkip \/ RtRecord \/ RtAddress \/ RtAddressRefuses
  \/ RtRecordDone \/ RtDone

WalkSpec == WalkInit /\ [][WalkNext]_walkVars

-----------------------------------------------------------------------------
(* Properties.                                                             *)

WalkTypeOK ==
  /\ format \in {"pcb", "rt_msg"} /\ length \in Lengths /\ offset \in 0..length
  /\ status \in {"header", "walking", "addresses", "flush", "ok", "error"}
  /\ end \in 0..length /\ bits \subseteq 1..8
  /\ reach \in Nat /\ fence \in 0..length

\* No byte outside the block, record or address at hand is ever looked at,
\* whatever lengths and kinds the kernel writes: an index beyond would panic.
InsideItsBlock == reach <= fence

\* The walk stays in step with the kernel: control blocks begin on multiples
\* of eight, and each address of a message is read where it was written, so
\* that no slot gets the address of another.
InStep ==
  /\ format = "pcb" => offset % ALIGNMENT = 0
  /\ status = "addresses" => offset = written

\* The socket a control block and its followers describe, and those assembled.
Socket(block) == [pcb |-> block.pcb, uid |-> block.uid, state |-> block.state]

Assembled == IF pending = None THEN sockets ELSE Append(sockets, pending)

\* Every control block that can be read comes out as a socket, once and in
\* order, with the uid and the state of its own blocks: nothing of a block
\* that cannot be read, or of the trailing header, sticks to a neighbour.
EverySocketComesOut ==
  /\ {Assembled[i] : i \in DOMAIN Assembled} =
       {Socket(blocks[n]) : n \in {k \in DOMAIN blocks : blocks[k].ok}}
  /\ \A i, k \in DOMAIN Assembled : i < k => Assembled[i].pcb < Assembled[k].pcb

\* Each step gets further into the buffer or on to another phase of the walk,
\* so that a walk ends after at most as many steps as there are bytes.
EveryStepAdvances ==
  [][offset' > offset \/ (offset' = offset /\ status' # status)]_walkVars

=============================================================================
