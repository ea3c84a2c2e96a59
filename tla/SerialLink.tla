------------------------------ MODULE SerialLink ------------------------------
(***************************************************************************)
(* The serial allocator: the functions of serial_utils.hpp and             *)
(* serial_alloc.h on the board, the script serialiohandler.py and its I/O  *)
(* thread on the host, and the two wires between them.                     *)
(*                                                                         *)
(* The board is single threaded and waits inside its calls, so a call is   *)
(* the step that sends a command and the steps that take in the answer.    *)
(* The host takes in a byte per step; blockedRead() gathers the arguments  *)
(* of a command in args.  An answer is sent in one step.  A 32-bit number  *)
(* is one byte on the wire, and a byte that is not meant as a number is    *)
(* taken as one all the same.  Faults: the board is reset, which may cut a *)
(* command it is sending, or the port is disconnected, which throws        *)
(* everything on the wires away, raises an exception in the script and,    *)
(* when the port is opened again, resets the board.                        *)
(***************************************************************************)
EXTENDS Integers, Sequences, SequencesExt

CONSTANTS PoolSize,    \* getPoolSize()
          CmdStart,    \* CMD_START: 0xFF, here a small number that no command has
          Val,         \* a bound: the values of the bytes written to the pool
          Calls,       \* the calls the program makes
          StreamIsSerial,  \* the allocator uses the port named Serial
          WireSize,    \* a bound: the bytes on the way to the host
          BufferSize,  \* the bytes on the way to the board that its buffer holds
          MaxTyped,    \* a bound: the bytes typed at the terminal of the host
          MaxFaults    \* a bound: resets and disconnections

(* The commands, in the order of the enumeration. *)
CmdInit == 0
CmdInitPool == 1
CmdRead == 2
CmdWrite == 3
CmdInputAvailable == 4
CmdInputRequest == 5
CmdInputPeek == 6
CmdPing == 7
Commands == CmdInit .. CmdPing

ASSUME LinkAssumption ==
    /\ PoolSize \in Nat \ {0} /\ CmdStart \in Nat \ Commands
    /\ Val \subseteq 0 .. CmdStart
    /\ WireSize \in Nat /\ BufferSize \in Nat /\ MaxTyped \in 0 .. CmdStart - 1 /\ MaxFaults \in Nat
    /\ StreamIsSerial \in BOOLEAN

VARIABLES phase,         \* where the board is in a call
          op,            \* the call: its kind, address and size
          got,           \* what it has received so far
          gotinit,       \* waitForCommand() has seen CMD_START
          availableMin,  \* SerialInput::availableMin
          host,          \* State of the script, and the command it handles
          inputQueue,    \* bytes typed that the I/O thread has not taken yet
          toHost,        \* bytes on the wire to the host
          toBoard,       \* bytes on the wire to the board
          typed,         \* how many bytes were typed: they are numbered
          taken,         \* the last of them the program has read
          faults,        \* how many faults there were
          call           \* the last call: what was asked, and the block read or written

boardVars == <<phase, op, got, gotinit, availableMin>>
inputVars == <<inputQueue, typed>>
vars == <<boardVars, host, inputVars, toHost, toBoard, taken, faults, call>>

NoPool == <<-1>>         \* None
NoCommand == -1
NoOp == [kind |-> "none", p |-> 0, n |-> 0]
NoCall == <<"none", <<>>>>
Zeros(n) == [i \in 1 .. n |-> 0]
Smaller(m, n) == IF m < n THEN m ELSE n

-----------------------------------------------------------------------------
(* The host.                                                               *)

(* Mutant: the block is taken from the beginning of the pool. *)
SliceFromStart(pool, i, n) == SubSeq(pool, 1, Smaller(n, Len(pool)))
(* pool[i : i + n], and pool[i : i + n] = d, of a Python bytearray. *)
Slice(pool, i, n) == SubSeq(pool, i + 1, Smaller(i + n, Len(pool)))
SetSlice(pool, i, n, d) ==
    SubSeq(pool, 1, Smaller(i, Len(pool))) \o d \o SubSeq(pool, i + n + 1, Len(pool))

(* Mutant: the data of a write is not read. *)
ArgumentsUpToSize(c, args) == CASE c \in {CmdInitPool, CmdInputRequest} -> 1
                                [] c \in {CmdRead, CmdWrite} -> 2
                                [] OTHER -> 0
(* The bytes the handler of a command reads, args being the first of them. *)
Arguments(c, args) == CASE c \in {CmdInitPool, CmdInputRequest} -> 1
                        [] c = CmdRead -> 2
                        [] c = CmdWrite -> IF Len(args) < 2 THEN 2 ELSE 2 + args[2]
                        [] OTHER -> 0

(* handleCommand ignores most commands before CmdInit, and those for the   *)
(* pool before CmdInitPool.                                                *)
Accepts(h, c) ==
    \/ c \in {CmdPing, CmdInit}
    \/ h.initialized /\ (c \in {CmdRead, CmdWrite} => h.pool # NoPool)

Reply(c) == <<CmdStart, c>>

(* Mutant: the bytes that are sent are not removed. *)
KeepInput(h, count) == h
DropInput(h, count) == [h EXCEPT !.inputData = SubSeq(@, count + 1, Len(@))]

(* The host afterwards, in h, and what it sends, in out.                   *)
Answer(h, bytes) == [h |-> h, out |-> bytes]

Initialize(h) == [h EXCEPT !.initialized = TRUE, !.pool = NoPool]
SetPool(h, pool) == [h EXCEPT !.pool = pool]
WriteToPool(h, args) ==
    SetPool(h, SetSlice(h.pool, args[1], args[2], SubSeq(args, 3, Len(args))))

(* Up to n bytes of input, and how many they are. *)
RequestInput(h, n) ==
    LET count == Smaller(n, Len(h.inputData))
    IN  Answer(DropInput(h, count), <<count>> \o SubSeq(h.inputData, 1, count))

(* What write() sends when it is given a number n is n zeros. *)
PeekInput(h) ==
    IF h.inputData = <<>> THEN Zeros(0) ELSE Zeros(1) \o Zeros(Head(h.inputData))

(* handleCommand, when it has its arguments.                               *)
HandleCommand(h, c, args) ==
    IF ~Accepts(h, c) THEN Answer(h, <<>>)
    ELSE CASE c = CmdPing -> Answer(h, Reply(CmdPing))
           [] c = CmdInit -> Answer(Initialize(h), Reply(CmdInit))
           [] c = CmdInitPool -> Answer(SetPool(h, Zeros(args[1])), <<>>)
           [] c = CmdInputAvailable -> Answer(h, <<Len(h.inputData)>>)
           [] c = CmdInputRequest -> RequestInput(h, args[1])
           [] c = CmdInputPeek -> Answer(h, PeekInput(h))
           [] c = CmdRead -> Answer(h, Slice(h.pool, args[1], args[2]))
           [] c = CmdWrite -> Answer(WriteToPool(h, args), <<>>)
           [] OTHER -> Answer(h, <<>>)

(* processByte, and the reads of the handler it calls. *)
ProcessByte(h, b) ==
    LET c == IF h.command = NoCommand THEN b ELSE h.command
        args == IF h.command = NoCommand THEN <<>> ELSE Append(h.args, b)
        handled == HandleCommand(h, c, args)
        idle == [handled.h EXCEPT !.processState = "idle", !.command = NoCommand, !.args = <<>>]
    IN  IF h.processState = "idle"
        THEN [h |-> IF b = CmdStart THEN [h EXCEPT !.processState = "gotinit"] ELSE h, out |-> <<>>]
        ELSE IF Accepts(h, c) /\ Len(args) < Arguments(c, args)
        THEN [h |-> [h EXCEPT !.command = c, !.args = args], out |-> <<>>]
        ELSE [h |-> idle, out |-> handled.out]

(* Bytes that do not fit in the buffer of the board are lost. *)
Buffered(bytes) == SubSeq(bytes, 1, Smaller(Len(bytes), BufferSize))

HostReceives ==
    LET processed == ProcessByte(host, Head(toHost))
    IN  /\ toHost # <<>>
        /\ host' = processed.h
        /\ toHost' = Tail(toHost)
        /\ toBoard' = Buffered(toBoard \o processed.out)
        /\ call' = NoCall
        /\ UNCHANGED <<boardVars, inputVars, taken, faults>>

(* The I/O thread has no byte left to process and takes what was typed. *)
HostTakesInput ==
    /\ toHost = <<>> /\ host.command = NoCommand
    /\ inputQueue # <<>>
    /\ host' = [host EXCEPT !.inputData = Append(@, Head(inputQueue))]
    /\ inputQueue' = Tail(inputQueue)
    /\ call' = NoCall
    /\ UNCHANGED <<boardVars, toHost, toBoard, typed, taken, faults>>

(* The input thread puts a line into the queue. *)
Type ==
    /\ typed < MaxTyped
    /\ typed' = typed + 1
    /\ inputQueue' = Append(inputQueue, typed')
    /\ call' = NoCall
    /\ UNCHANGED <<boardVars, host, toHost, toBoard, taken, faults>>

-----------------------------------------------------------------------------
(* The board: start().                                                     *)

Send(bytes) == Len(toHost) + Len(bytes) <= WireSize /\ toHost' = toHost \o bytes

(* The bytes that are there are read before the time is looked at again. *)
SendInit ==
    /\ \/ phase = "start"
       \/ phase = "handshake" /\ (StreamIsSerial => toBoard = <<>>)
    /\ Send(<<CmdStart, CmdInit>>)
    /\ phase' = "handshake"
    /\ gotinit' = FALSE
    /\ call' = NoCall
    /\ UNCHANGED <<op, got, availableMin, host, inputVars, toBoard, taken, faults>>

(* waitForCommand reads a byte, if the port named Serial has any. *)
WaitForCommand(c, then) ==
    /\ StreamIsSerial /\ toBoard # <<>>
    /\ gotinit' = (gotinit \/ Head(toBoard) = CmdStart)
    /\ phase' = IF gotinit /\ Head(toBoard) = c THEN then ELSE phase
    /\ toBoard' = Tail(toBoard)
    /\ call' = NoCall
    /\ UNCHANGED <<op, got, availableMin, host, inputVars, toHost, taken, faults>>

Handshake == phase = "handshake" /\ WaitForCommand(CmdInit, "purge")

Purge ==
    /\ phase = "purge" /\ toBoard # <<>>
    /\ toBoard' = <<>>
    /\ call' = NoCall
    /\ UNCHANGED <<boardVars, host, inputVars, toHost, taken, faults>>

(* The time for purging is over.  It is long enough for the host to answer *)
(* all that was sent.                                                      *)
SendInitPool ==
    /\ phase = "purge" /\ toHost = <<>> /\ toBoard = <<>>
    /\ Send(<<CmdStart, CmdInitPool, PoolSize>>)
    /\ phase' = "ready"
    /\ call' = NoCall
    /\ UNCHANGED <<op, got, gotinit, availableMin, host, inputVars, toBoard, taken, faults>>

-----------------------------------------------------------------------------
(* The board: doRead(), doWrite(), ping() and SerialInput.                 *)

(* sendReadCommand with its arguments: what is still there is dropped. *)
Ask(kind, p, n, bytes, next) ==
    /\ phase = "ready" /\ kind \in Calls
    /\ Send(bytes)
    /\ toBoard' = <<>>
    /\ phase' = next
    /\ op' = [kind |-> kind, p |-> p, n |-> n]
    /\ got' = <<>>
    /\ gotinit' = FALSE
    /\ call' = NoCall
    /\ UNCHANGED <<availableMin, host, inputVars, taken, faults>>

DoRead(p, n) ==
    p + n <= PoolSize /\ Ask("read", p, n, <<CmdStart, CmdRead, p, n>>, "bytes")
Ping == Ask("ping", 0, 0, <<CmdStart, CmdPing>>, "pong")
Available == Ask("available", 0, 0, <<CmdStart, CmdInputAvailable>>, "count")
AvailableAtLeast ==
    availableMin = 0 /\ Ask("availableAtLeast", 0, 0, <<CmdStart, CmdInputAvailable>>, "count")
ReadInput(n) == Ask("input", 0, n, <<CmdStart, CmdInputRequest, n>>, "granted")
Peek == Ask("peek", 0, 0, <<CmdStart, CmdInputPeek>>, "peeked")

DoWrite(p, d) ==
    /\ phase = "ready" /\ "write" \in Calls
    /\ p + Len(d) <= PoolSize
    /\ Send(<<CmdStart, CmdWrite, p, Len(d)>> \o d)
    /\ call' = <<"write", p, d>>
    /\ UNCHANGED <<boardVars, host, inputVars, toBoard, taken, faults>>

(* The program prints something through the same port. *)
PrintText ==
    /\ phase = "ready" /\ "print" \in Calls
    /\ Send(<<CmdInit>>)
    /\ call' = NoCall
    /\ UNCHANGED <<boardVars, host, inputVars, toBoard, taken, faults>>

Awaits(in) == phase = in /\ toBoard # <<>>
Receives(next) ==
    /\ toBoard' = Tail(toBoard)
    /\ phase' = next
    /\ UNCHANGED <<gotinit, host, inputVars, toHost, faults>>

(* Back to the program: the next call sets op and got again. *)
Done == op' = NoOp /\ got' = <<>>

ReceiveByte ==
    LET block == Append(got, Head(toBoard))
    IN  /\ Awaits("bytes")
        /\ IF Len(block) = op.n
           THEN Receives("ready") /\ Done /\ call' = <<"read", op.p, op.n, block>>
           ELSE Receives("bytes") /\ got' = block /\ call' = NoCall /\ UNCHANGED op
        /\ UNCHANGED <<availableMin, taken>>

Pong == phase = "pong" /\ WaitForCommand(CmdPing, "ready")

ReceiveCount ==
    /\ Awaits("count") /\ Receives("ready") /\ Done
    /\ availableMin' = IF op.kind = "availableAtLeast" THEN Head(toBoard) ELSE availableMin
    /\ call' = NoCall
    /\ UNCHANGED taken

(* The number of bytes the host grants; read() and readBytes() return at   *)
(* once when it is zero.                                                   *)
ReceiveGrant ==
    LET count == Head(toBoard)
    IN  /\ Awaits("granted")
        /\ IF count = 0 THEN Receives("ready") /\ Done
           ELSE Receives("input") /\ op' = [op EXCEPT !.n = count] /\ UNCHANGED got
        /\ call' = NoCall
        /\ UNCHANGED <<availableMin, taken>>

(* Mutants: the cached number is not reduced, or not kept from below zero. *)
SameAvailable(min, n) == min
LessAvailableUnchecked(min, n) == min - n
LessAvailable(min, n) == IF min > n THEN min - n ELSE 0

ReceiveInput ==
    LET bytes == Append(got, Head(toBoard))
    IN  /\ Awaits("input")
        /\ taken' = Head(toBoard)
        /\ IF Len(bytes) = op.n
           THEN /\ Receives("ready") /\ Done
                /\ availableMin' = LessAvailable(availableMin, op.n)
           ELSE Receives("input") /\ got' = bytes /\ UNCHANGED <<op, availableMin>>
        /\ call' = NoCall

(* peek() takes a flag, and a byte if the flag is set. *)
ReceivePeek ==
    /\ Awaits("peeked")
    /\ IF op.n = 0 /\ Head(toBoard) # 0
       THEN Receives("peeked") /\ op' = [op EXCEPT !.n = 1] /\ UNCHANGED got
       ELSE Receives("ready") /\ Done
    /\ call' = NoCall
    /\ UNCHANGED <<availableMin, taken>>

-----------------------------------------------------------------------------
(* Faults.                                                                 *)

BoardRestarts ==
    /\ faults < MaxFaults
    /\ faults' = faults + 1
    /\ phase' = "start" /\ op' = NoOp /\ got' = <<>> /\ gotinit' = FALSE /\ availableMin' = 0
    /\ call' = NoCall
    /\ UNCHANGED <<inputVars, taken>>

(* The end of what the board was sending is lost; what the host has sent   *)
(* may be lost with the board's buffer or arrive after the reset.          *)
ResetBoard ==
    /\ BoardRestarts
    /\ \E sent \in 0 .. Len(toHost) : toHost' = SubSeq(toHost, 1, sent)
    /\ toBoard' \in {<<>>, toBoard}
    /\ UNCHANGED host

(* The exception leaves handleCommand before processState is set to idle;  *)
(* State.initialized is reset, everything else is kept.                    *)
Disconnect ==
    /\ BoardRestarts
    /\ toHost' = <<>> /\ toBoard' = <<>>
    /\ host' = [host EXCEPT !.initialized = FALSE, !.command = NoCommand, !.args = <<>>]

-----------------------------------------------------------------------------
Init ==
    /\ phase = "start" /\ op = NoOp /\ got = <<>> /\ gotinit = FALSE /\ availableMin = 0
    /\ host = [initialized |-> FALSE, processState |-> "idle", pool |-> NoPool, inputData |-> <<>>,
               command |-> NoCommand, args |-> <<>>]
    /\ inputQueue = <<>> /\ typed = 0 /\ taken = 0
    /\ toHost = <<>> /\ toBoard = <<>>
    /\ faults = 0 /\ call = NoCall

HostStep == HostReceives \/ HostTakesInput

Starting == SendInit \/ Handshake \/ Purge \/ SendInitPool

Answered == ReceiveByte \/ Pong \/ ReceiveCount \/ ReceiveGrant \/ ReceiveInput

Program ==
    \/ \E p \in 0 .. PoolSize - 1, n \in 1 .. PoolSize :
          DoRead(p, n) \/ \E d \in [1 .. n -> Val] : DoWrite(p, d)
    \/ Ping \/ Available \/ AvailableAtLeast \/ PrintText
    \/ \E n \in 1 .. MaxTyped : ReadInput(n)

Next == HostStep \/ Starting \/ Answered \/ Program \/ Type \/ ResetBoard \/ Disconnect

(* Host and board go on: the I/O thread polls the port for ever, and the   *)
(* board is never left by itself in the middle of a call.  The program     *)
(* need not make a call and nobody need type anything.                     *)
Fairness == WF_vars(HostReceives) /\ WF_vars(HostTakesInput) /\ WF_vars(Starting) /\ WF_vars(Answered)

Spec == Init /\ [][Next]_vars
FairSpec == Spec /\ Fairness

(* A program that calls peek() as well. *)
PeekingSpec == Init /\ [][Next \/ Peek \/ ReceivePeek]_vars /\ Fairness /\ WF_vars(ReceivePeek)

-----------------------------------------------------------------------------
(* Properties                                                              *)

Byte == 0 .. IF PoolSize > CmdStart THEN PoolSize ELSE CmdStart
Phases == {"start", "handshake", "purge", "ready", "bytes", "pong", "count", "granted", "input", "peeked"}

TypeOK ==
    /\ phase \in Phases
    /\ op.p \in 0 .. PoolSize /\ op.n \in Byte
    /\ got \in Seq(Byte) /\ gotinit \in BOOLEAN /\ availableMin \in 0 .. MaxTyped
    /\ host.pool = NoPool \/ host.pool \in Seq(Byte)
    /\ host.processState \in {"idle", "gotinit"} /\ host.initialized \in BOOLEAN
    /\ host.command \in Byte \cup {NoCommand} /\ host.args \in Seq(Byte)
    /\ toHost \in Seq(Byte) /\ toBoard \in Seq(Byte)
    /\ taken \in 0 .. typed /\ typed \in 0 .. MaxTyped

Started == phase \notin {"start", "handshake", "purge"}

(* The host h once it has taken in all of bytes.  The CHOOSE from one      *)
(* value has TLC evaluate every step once.                                 *)
After(h, bytes) ==
    LET after[k \in 0 .. Len(bytes)] ==
            IF k = 0 THEN h
            ELSE CHOOSE next \in {ProcessByte(g, bytes[k]).h : g \in {after[k - 1]}} : TRUE
    IN  after[Len(bytes)]
Settled == After(host, toHost)

Remote == INSTANCE RemotePool WITH Fresh <- {Zeros(PoolSize)},
                                   mem <- IF Started THEN Settled.pool ELSE <<>>

(* The serial allocator is a pool that keeps what was written to it: every *)
(* write that doWrite() sent off arrives as it was, whatever bytes it is   *)
(* made of and whatever was cut off by a reset before, and doRead()        *)
(* returns the bytes of the pool at the address and of the size it asks    *)
(* for, and not of some older answer.                                      *)
ImplementsRemotePool == Remote!Spec

(* Whenever the program can make a call and nothing is under way, the host *)
(* waits for a command, with a pool of the right size and with no answer   *)
(* left that the board did not expect.                                     *)
HostInStep ==
    phase = "ready" /\ toHost = <<>> =>
        /\ host.processState = "idle" /\ host.initialized /\ Len(host.pool) = PoolSize
        /\ toBoard = <<>>

(* Every byte that was typed reaches the program once, in order: those on  *)
(* the way to it are the next ones.  A fault may lose those on the wire.   *)
OnTheWay == IF phase = "input" THEN toBoard
            ELSE IF phase = "granted" /\ toBoard # <<>> THEN Tail(toBoard) ELSE <<>>
InputInOrder ==
    LET rest == OnTheWay \o host.inputData \o inputQueue
    IN  /\ \A i \in DOMAIN rest : rest[i] > (IF i = 1 THEN taken ELSE rest[i - 1])
        /\ faults = 0 => Len(rest) = typed - taken

(* availableAtLeast() never promises input that is not there: read() and   *)
(* readBytes() keep its cached number below what the host has left.        *)
PromisedInputIsThere == phase = "ready" => availableMin <= Len(host.inputData)

(* start() and every call return, also after a reset and a disconnection:  *)
(* the board always gets back to the program.                              *)
CallsReturn == []<>(phase = "ready")
=============================================================================
