------------------------------ MODULE SpiChips ------------------------------
(***************************************************************************)
(* The SPI RAM allocators: doStart, doRead and doWrite of spiram_alloc.h,  *)
(* which spread a block over several chips, and spiram.cpp, which sends    *)
(* each of them its bytes, either one at a time (SPI.transfer) or through  *)
(* the FIFO of the Teensy (SPIFIFO), with VIRTMEM_SPIRAM_USENODATASWAP.    *)
(* The allocator for a single chip is the case of one chip.                *)
(*                                                                         *)
(* What SPISerialRam does in a call does not depend on the answers, so it  *)
(* is a script: the chip select, the bytes or words, and where the answers *)
(* are taken from the FIFO.  The board does one item of it per step; the   *)
(* FIFO sends its words on its own.  The chips are on one bus: each that   *)
(* is selected takes every byte.  Fault: the board is reset, anywhere in a *)
(* call; the chips keep their power, and the chip select pins float until  *)
(* begin() drives them.                                                    *)
(***************************************************************************)
EXTENDS Integers, Sequences, SequencesExt

CONSTANTS ChipSizes,    \* spiChips: the bytes of each chip
          ByteBase,     \* the values of an address byte: 256
          FifoSize,     \* SPIFIFO_SIZE
          Sizes,        \* a bound: the sizes of the blocks
          MaxCalls,     \* a bound: reads and writes
          MaxResets     \* a bound: resets of the board

Chip == DOMAIN ChipSizes
N == Len(ChipSizes)
EndPtr(i) == LET end[k \in 0 .. N] == IF k = 0 THEN 0 ELSE end[k - 1] + ChipSizes[k] IN end[i]
StartPtr(i) == EndPtr(i - 1)
PoolSize == EndPtr(N)
Smaller(m, n) == IF m < n THEN m ELSE n

(* The values of a byte: a write stores the mark of each address, so that  *)
(* a byte that lands anywhere else shows.                                  *)
Val == 0 .. PoolSize
Dummy == PoolSize + 1     \* 0xFF

(* What the bytes of a number count, from the lowest.                      *)
Weight == <<1, ByteBase, ByteBase * ByteBase, ByteBase * ByteBase * ByteBase>>
One(b) == IF b THEN 1 ELSE 0
(* _addrBytes *)
AddrBytes(size) == One(size >= Weight[1]) + One(size >= Weight[2]) + One(size >= Weight[3]) + One(size >= Weight[4])
(* A chip takes as many as its last address has.                           *)
ChipAddrBytes(size) == 1 + One(size > Weight[2]) + One(size > Weight[3]) + One(size > Weight[4])

(* Sizes have 32 bits. *)
ASSUME ChipAssumption ==
    /\ ChipSizes \in Seq(Nat \ {0}) /\ N >= 1 /\ ByteBase \in Nat \ {0, 1} /\ FifoSize \in Nat \ {0}
    /\ \A k \in Chip : ChipSizes[k] < ByteBase * Weight[4]
ASSUME BoundAssumption == Sizes \subseteq 1 .. PoolSize /\ MaxCalls \in Nat /\ MaxResets \in Nat

VARIABLES build,    \* "plain" or "fifo": VIRTMEM_SPIRAM_USESPIFIFO
          chips,    \* data, mode, and what each chip is in the middle of
          pin,      \* the chip whose select pin the transfer drives
          tx, rx,   \* words in the FIFO: to be sent, and answers
          open,     \* SPI.beginTransaction was called, and endTransaction not yet
          started,  \* doStart has returned
          op,       \* the call: kind, offset, size and data
          i,        \* the chip its loop is at
          sz,       \* bytes it exchanges with that chip; 0 before
          script,   \* what SPISerialRam has left to do
          buffer,   \* what was read
          before,   \* the bytes of all chips when the call began
          asked,    \* the call as it was made
          call,     \* the last call: what was asked, and the block read or written
          calls, resets

bus == <<chips, pin, tx, rx, open>>
loop == <<op, i, sz, before, asked>>
counts == <<calls, resets>>
vars == <<build, bus, started, loop, script, buffer, call, counts>>

NoOp == [kind |-> "none", offset |-> 0, size |-> 0, data |-> <<>>]
NoCall == <<"none", <<>>>>
(* The bytes of all chips, one chip after the other. *)
Contents(cs) == [a \in 1 .. PoolSize |-> LET k == CHOOSE k \in Chip : StartPtr(k) < a /\ a <= EndPtr(k)
                                         IN  cs[k].data[a - StartPtr(k)]]

-----------------------------------------------------------------------------
(* A chip.                                                                 *)

Read == 3
Write == 2
WriteMode == 1
SequentialMode == 64
NoInstruction == 0

Deselected(c) == [c EXCEPT !.selected = FALSE, !.instr = NoInstruction, !.need = 0, !.pos = 0]
Selected(c) == [c EXCEPT !.selected = TRUE]

(* A selected chip takes an instruction, then an address or a mode, then   *)
(* data; without the sequential mode its address stays where it is.        *)
Take(c, size, b) ==
    LET at == 1 + (c.pos % size)
    IN  IF ~c.selected THEN c
        ELSE IF c.instr = NoInstruction
        THEN [c EXCEPT !.instr = b, !.need = IF b \in {Read, Write} THEN ChipAddrBytes(size) ELSE 0]
        ELSE IF c.instr = WriteMode THEN [c EXCEPT !.sequential = (b = SequentialMode)]
        ELSE IF c.need > 0 THEN [c EXCEPT !.need = @ - 1, !.pos = @ * ByteBase + b]
        ELSE [c EXCEPT !.pos = IF c.sequential THEN at % size ELSE @,
                       !.data = IF c.instr = Write THEN [@ EXCEPT ![at] = b] ELSE @]

Answer(c, size) ==
    IF c.instr = Read /\ c.need = 0 THEN c.data[1 + (c.pos % size)] ELSE Dummy

(* One byte on the bus.  Nobody may count on an answer of several chips.   *)
Exchange(x, b) ==
    LET talking == {k \in Chip : x.chips[k].selected}
    IN  [chips |-> [k \in Chip |-> Take(x.chips[k], ChipSizes[k], b)],
         got |-> Append(x.got, IF \E k \in Chip : talking = {k}
                               THEN LET k == CHOOSE k \in talking : TRUE
                                    IN  Answer(x.chips[k], ChipSizes[k])
                               ELSE Dummy)]
ExchangeAll(cs, bytes) ==
    LET after[j \in 0 .. Len(bytes)] ==
            IF j = 0 THEN [chips |-> cs, got |-> <<>>] ELSE Exchange(after[j - 1], bytes[j])
    IN  after[Len(bytes)]

-----------------------------------------------------------------------------
(* SPISerialRam: the items of its scripts.  keep: the answer goes to the   *)
(* buffer of the caller.                                                   *)
High(k) == [do |-> "high", chip |-> k]
Low(k) == [do |-> "low", chip |-> k]
Send(bytes, more, keep) == [do |-> "send", bytes |-> bytes, more |-> more, keep |-> keep]
Receive(keep) == [do |-> "receive", keep |-> keep]
EndTransaction == [do |-> "end"]

Each(F(_), from, to) == [j \in 1 .. to - from + 1 |-> F(from + j - 1)]

(* sendByteMore and sendByteNoMore *)
SendByte(b, more, keep) ==
    <<Send(<<b>>, more, keep)>>
    \o (IF build = "fifo" THEN <<Receive(keep)>> ELSE <<>>)
    \o (IF more THEN <<>> ELSE <<EndTransaction>>)
SendBytes(bytes, keep, last) ==
    FlattenSeq(Each(LAMBDA j : SendByte(bytes[j], j # last, keep), 1, Len(bytes)))

InitTransfer(k, instruction) == <<Low(k)>> \o SendByte(instruction, TRUE, FALSE)
(* sendAddress: the highest byte first *)
SendAddress(k, address) ==
    LET n == AddrBytes(ChipSizes[k])
    IN  SendBytes(Each(LAMBDA j : (address \div Weight[n - j + 1]) % ByteBase, 1, n), FALSE, 0)

(* begin() *)
Begin(k) ==
    (IF build = "plain" THEN <<High(k)>> ELSE <<>>)
    \o InitTransfer(k, WriteMode) \o SendByte(SequentialMode, FALSE, FALSE)

(* Mutant: the FIFO is filled to the last word before the first is taken.  *)
ThroughFifoFull(bytes, keep) ==
    LET words == Len(bytes) \div 2
        fill == IF words > FifoSize THEN FifoSize ELSE 0
        Word(j) == Send(SubSeq(bytes, 2 * j - 1, 2 * j), j # words, keep)
    IN  Each(Word, 1, fill)
        \o FlattenSeq(Each(LAMBDA j : <<Word(j), Receive(keep)>>, fill + 1, words))
        \o Each(LAMBDA j : Receive(keep), 1, fill)
(* An even number of bytes, in words: when they are too many for the FIFO  *)
(* it is kept filled but for one word, and purged at the end.              *)
ThroughFifo(bytes, keep) ==
    LET words == Len(bytes) \div 2
        fill == IF words > FifoSize THEN FifoSize - 1 ELSE 0
        Word(j) == Send(SubSeq(bytes, 2 * j - 1, 2 * j), j # words, keep)
    IN  Each(Word, 1, fill)
        \o FlattenSeq(Each(LAMBDA j : <<Word(j), Receive(keep)>>, fill + 1, words))
        \o Each(LAMBDA j : Receive(keep), 1, fill)

(* The data of a transfer; through the FIFO an odd byte goes first.        *)
Data(bytes, keep) ==
    IF build = "plain" THEN SendBytes(bytes, keep, Len(bytes))
    ELSE IF Len(bytes) % 2 = 0 THEN ThroughFifo(bytes, keep)
    ELSE IF Len(bytes) = 1 THEN SendByte(bytes[1], FALSE, keep)
    ELSE SendByte(bytes[1], TRUE, keep) \o ThroughFifo(Tail(bytes), keep)

(* read() and write() *)
ReadChip(k, address, size) ==
    InitTransfer(k, Read) \o SendAddress(k, address) \o Data([j \in 1 .. size |-> Dummy], TRUE)
WriteChip(k, address, data) ==
    InitTransfer(k, Write) \o SendAddress(k, address) \o Data(data, FALSE)

-----------------------------------------------------------------------------
PowerOn(k) == [data : {[j \in 1 .. ChipSizes[k] |-> 0]}, sequential : BOOLEAN, selected : BOOLEAN,
               instr : {NoInstruction}, need : {0}, pos : {0}]

Init ==
    /\ build \in {"plain", "fifo"}
    /\ chips \in {cs \in [Chip -> UNION {PowerOn(k) : k \in Chip}] : \A k \in Chip : cs[k] \in PowerOn(k)}
    /\ pin = 1 /\ tx = <<>> /\ rx = <<>> /\ open = FALSE
    /\ started = FALSE /\ op = NoOp /\ i = 0 /\ sz = 0 /\ before = <<>> /\ asked = NoOp
    /\ script = <<>> /\ buffer = <<>> /\ call = NoCall /\ calls = 0 /\ resets = 0

(* The page manager calls one function at a time.                          *)
BeginCall(kind, offset, size, data) ==
    /\ op.kind = "none"
    /\ op' = [kind |-> kind, offset |-> offset, size |-> size, data |-> data]
    /\ i' = 1 /\ buffer' = <<>> /\ before' = Contents(chips) /\ asked' = op'
    /\ call' = NoCall
    /\ UNCHANGED <<build, bus, started, sz, script, resets>>

DoStart == ~started /\ BeginCall("start", 0, 0, <<>>) /\ UNCHANGED calls

Block(offset, size) == started /\ calls < MaxCalls /\ offset + size <= PoolSize /\ calls' = calls + 1
DoRead == \E offset \in 0 .. PoolSize - 1, size \in Sizes :
    Block(offset, size) /\ BeginCall("read", offset, size, <<>>)
DoWrite == \E offset \in 0 .. PoolSize - 1, size \in Sizes :
    Block(offset, size) /\ BeginCall("write", offset, size, [j \in 1 .. size |-> offset + j])

AtLoop == op.kind # "none" /\ script = <<>> /\ i <= N

(* The loop of doStart. *)
StartChip ==
    /\ AtLoop /\ op.kind = "start"
    /\ script' = Begin(i) /\ i' = i + 1
    /\ UNCHANGED <<build, bus, started, op, sz, before, asked, buffer, call, counts>>

(* Mutant: a read passes on the address in the pool.  A write does not.    *)
EnterChipAbsolute ==
    /\ AtLoop /\ op.kind \in {"read", "write"} /\ sz = 0
    /\ LET p == op.offset - StartPtr(i)
           most == Smaller(op.size, ChipSizes[i] - p)
       IN  IF op.offset >= StartPtr(i) /\ op.offset < EndPtr(i)
           THEN /\ sz' = most /\ i' = i
                /\ script' = IF op.kind = "read" THEN ReadChip(i, op.offset, most)
                             ELSE WriteChip(i, p, SubSeq(op.data, 1, most))
           ELSE i' = i + 1 /\ UNCHANGED <<sz, script>>
    /\ UNCHANGED <<build, bus, started, op, before, asked, buffer, call, counts>>
(* The loop of doRead and doWrite, up to the call of SPISerialRam.         *)
EnterChip ==
    /\ AtLoop /\ op.kind \in {"read", "write"} /\ sz = 0
    /\ LET p == op.offset - StartPtr(i)
           most == Smaller(op.size, ChipSizes[i] - p)
       IN  IF op.offset >= StartPtr(i) /\ op.offset < EndPtr(i)
           THEN /\ sz' = most /\ i' = i
                /\ script' = IF op.kind = "read" THEN ReadChip(i, p, most)
                             ELSE WriteChip(i, p, SubSeq(op.data, 1, most))
           ELSE i' = i + 1 /\ UNCHANGED <<sz, script>>
    /\ UNCHANGED <<build, bus, started, op, before, asked, buffer, call, counts>>

(* Mutant: only the offset moves on. *)
LeaveChipSize ==
    /\ AtLoop /\ sz > 0
    /\ IF sz = op.size THEN i' = N + 1 /\ UNCHANGED op
       ELSE op' = [op EXCEPT !.offset = @ + sz] /\ i' = i + 1
    /\ sz' = 0
    /\ UNCHANGED <<build, bus, started, script, before, asked, buffer, call, counts>>
(* Mutant: the loop goes on when the block is done. *)
LeaveChipLate ==
    /\ AtLoop /\ sz > 0
    /\ op' = [op EXCEPT !.size = @ - sz, !.offset = @ + sz, !.data = SubSeq(@, sz + 1, Len(@))]
    /\ i' = i + 1 /\ sz' = 0
    /\ UNCHANGED <<build, bus, started, script, before, asked, buffer, call, counts>>
(* And after it. *)
LeaveChip ==
    /\ AtLoop /\ sz > 0
    /\ IF sz = op.size THEN i' = N + 1 /\ UNCHANGED op
       ELSE /\ op' = [op EXCEPT !.size = @ - sz, !.offset = @ + sz, !.data = SubSeq(@, sz + 1, Len(@))]
            /\ i' = i + 1
    /\ sz' = 0
    /\ UNCHANGED <<build, bus, started, script, before, asked, buffer, call, counts>>

Return ==
    /\ op.kind # "none" /\ script = <<>> /\ i = N + 1
    /\ op' = NoOp /\ i' = 0 /\ before' = <<>> /\ asked' = NoOp /\ buffer' = <<>>
    /\ started' = TRUE
    /\ call' = CASE op.kind = "read"  -> <<"read", asked.offset, asked.size, buffer>>
                 [] op.kind = "write" -> <<"write", asked.offset, asked.data>>
                 [] OTHER -> NoCall
    /\ UNCHANGED <<build, bus, sz, script, counts>>

-----------------------------------------------------------------------------
(* The next item of the script. *)
Doing(do) == script # <<>> /\ Head(script).do = do /\ script' = Tail(script)
Keep(keep, bytes) == buffer' = IF keep THEN buffer \o bytes ELSE buffer

(* digitalWrite, and SPIFIFO.begin, which leaves the pin high.  It is      *)
(* pulled low when a transaction has begun.                                *)
DrivePin ==
    /\ \/ /\ Doing("high")
          /\ chips' = [chips EXCEPT ![Head(script).chip] = Deselected(@)]
       \/ /\ Doing("low")
          /\ chips' = [chips EXCEPT ![Head(script).chip] =
                          IF build = "plain" THEN Selected(@) ELSE Deselected(@)]
    /\ pin' = Head(script).chip
    /\ open' = (open \/ Head(script).do = "low")
    /\ UNCHANGED <<build, tx, rx, started, loop, buffer, call, counts>>

CloseTransaction ==
    /\ Doing("end")
    /\ open' = FALSE
    /\ UNCHANGED <<build, chips, pin, tx, rx, started, loop, buffer, call, counts>>

(* SPI.transfer, and the pin is raised after the last byte. *)
Transfer ==
    /\ build = "plain" /\ Doing("send")
    /\ LET x == ExchangeAll(chips, Head(script).bytes)
       IN  /\ chips' = IF Head(script).more THEN x.chips ELSE [x.chips EXCEPT ![pin] = Deselected(@)]
           /\ Keep(Head(script).keep, x.got)
    /\ UNCHANGED <<build, pin, tx, rx, open, started, loop, call, counts>>

(* SPIFIFO.write and write16 wait for room. *)
PushWord ==
    /\ build = "fifo" /\ Doing("send") /\ Len(tx) < FifoSize
    /\ tx' = Append(tx, Head(script))
    /\ UNCHANGED <<build, chips, pin, rx, open, started, loop, buffer, call, counts>>

(* SPIFIFO.read waits for an answer. *)
PopWord ==
    /\ Doing("receive") /\ rx # <<>>
    /\ rx' = Tail(rx) /\ Keep(Head(script).keep, Head(rx))
    /\ UNCHANGED <<build, chips, pin, tx, open, started, loop, call, counts>>

(* The FIFO sends a word; an answer that finds no room is lost.            *)
Shift ==
    /\ tx # <<>>
    /\ LET x == ExchangeAll([chips EXCEPT ![pin] = Selected(@)], Head(tx).bytes)
       IN  /\ chips' = IF Head(tx).more THEN x.chips ELSE [x.chips EXCEPT ![pin] = Deselected(@)]
           /\ rx' = IF Len(rx) < FifoSize THEN Append(rx, x.got) ELSE rx
    /\ tx' = Tail(tx)
    /\ UNCHANGED <<build, pin, open, started, loop, script, buffer, call, counts>>

(* The board is reset: its pins float, so that any chip may be selected.   *)
Reset ==
    /\ resets < MaxResets /\ resets' = resets + 1
    /\ \E floating \in SUBSET Chip :
          chips' = [k \in Chip |-> IF k \in floating THEN Selected(chips[k]) ELSE Deselected(chips[k])]
    /\ pin' = 1 /\ tx' = <<>> /\ rx' = <<>> /\ open' = FALSE /\ started' = FALSE
    /\ op' = NoOp /\ i' = 0 /\ sz' = 0 /\ before' = <<>> /\ asked' = NoOp
    /\ script' = <<>> /\ buffer' = <<>> /\ call' = NoCall
    /\ UNCHANGED <<build, calls>>

Board ==
    \/ StartChip \/ EnterChip \/ LeaveChip \/ Return
    \/ DrivePin \/ CloseTransaction \/ Transfer \/ PushWord \/ PopWord
Next == DoStart \/ DoRead \/ DoWrite \/ Board \/ Shift \/ Reset

(* The board runs on, and so does the hardware that sends its words.       *)
Spec == Init /\ [][Next]_vars /\ WF_vars(Board) /\ WF_vars(Shift)

-----------------------------------------------------------------------------
(* Properties                                                              *)

Byte == Val \cup {Dummy}
TypeOK ==
    /\ build \in {"plain", "fifo"} /\ pin \in Chip /\ started \in BOOLEAN
    /\ \A k \in Chip :
          /\ chips[k].data \in [1 .. ChipSizes[k] -> Byte \cup {WriteMode, SequentialMode}]
          /\ chips[k].sequential \in BOOLEAN /\ chips[k].selected \in BOOLEAN
          /\ chips[k].need \in 0 .. ChipAddrBytes(ChipSizes[k])
    /\ op.kind \in {"none", "start", "read", "write"} /\ op.offset \in 0 .. PoolSize
    /\ op.size \in 0 .. PoolSize /\ op.offset + op.size <= PoolSize /\ i \in 0 .. N + 1
    /\ sz \in 0 .. Smaller(op.size, PoolSize) /\ Len(buffer) <= PoolSize

(* Transfers stay out of each other's way.  Once the allocator is started  *)
(* no two chips are selected together: one that is left selected takes the *)
(* bytes meant for the others, and answers with them.  There is room in    *)
(* the FIFO for the answer to every word that was sent.  Between two calls *)
(* no chip is selected and the FIFO is empty, or the next transfer would   *)
(* take the answers that are left for its own.  Sent byte by byte, a call  *)
(* also ends the transaction it began.  (Words do not: the last write16 of *)
(* a block leaves it open, until a call that ends in a single byte.)       *)
TransfersKeepApart ==
    /\ started => \A j, k \in Chip : chips[j].selected /\ chips[k].selected => j = k
    /\ Len(tx) + Len(rx) <= FifoSize
    /\ script = <<>> => tx = <<>> /\ rx = <<>>
    /\ started /\ op.kind = "none" => \A k \in Chip : ~chips[k].selected
    /\ build = "plain" /\ op.kind = "none" => ~open

(* The chips keep every block, wherever it is cut between them, and each   *)
(* call writes exactly its block, or reads the bytes at the address and of *)
(* the size it asks for: a pool as at the other end of the serial port,    *)
(* which begins with what the chips hold.                                  *)
Pool == INSTANCE RemotePool WITH
    Fresh <- [1 .. PoolSize -> Byte \cup {WriteMode, SequentialMode}],
    mem <- IF ~started THEN <<>> ELSE IF op.kind = "none" THEN Contents(chips) ELSE before
ImplementsRemotePool == Pool!Spec

(* No chip is as large as a power of 256: spiram.cpp sends such a chip one *)
(* byte of address more than it takes.                                     *)
ChipsFit == \A k \in Chip : ChipSizes[k] \notin {Weight[2], Weight[3], Weight[4]}

(* A call returns unless the board is reset. *)
CallsReturn == op.kind # "none" ~> op.kind = "none"
=============================================================================
