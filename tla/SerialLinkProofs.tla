--------------------------- MODULE SerialLinkProofs ---------------------------
(***************************************************************************)
(* Proofs about SerialLink, for a pool of any size, any values and any     *)
(* number of faults.  What the host will answer depends on every byte that *)
(* is on the way to it, so the invariant speaks of the trace F of the      *)
(* host: F[k] is the host after the first k bytes of toHost.  The lemmas   *)
(* follow the code: one byte in handleCommand, a command byte by byte, the *)
(* bytes of input through the link, what a call of the board sends, what   *)
(* the host and the board make of a byte, and then each step.              *)
(***************************************************************************)
EXTENDS SerialLink, TLAPS, SequenceTheorems, WellFoundedInduction

(* A host, as the script may be between two bytes.                         *)
Hosts == [initialized : BOOLEAN, processState : {"idle", "gotinit"}, pool : Seq(Byte) \cup {NoPool},
          inputData : Seq(Byte), command : Commands \cup {NoCommand}, args : Seq(Byte)]

(* A host that gathers arguments has accepted a command that has some. *)
Gathering == {CmdInitPool, CmdInputRequest, CmdRead, CmdWrite}
HostOK(h) ==
    /\ h \in Hosts /\ Len(h.inputData) <= MaxTyped
    /\ h.command # NoCommand =>
          h.command \in Gathering /\ Accepts(h, h.command) /\ h.processState = "gotinit"

Step(h, b) == ProcessByte(h, b).h
Out(h, b) == ProcessByte(h, b).out

Same(g, h) == g.initialized = h.initialized /\ g.pool = h.pool /\ g.inputData = h.inputData
IsIdle(h) == h.processState = "idle" /\ h.command = NoCommand

CommandOf(h, b) == IF h.command = NoCommand THEN b ELSE h.command
ArgsOf(h, b) == IF h.command = NoCommand THEN <<>> ELSE Append(h.args, b)

(* What the assumption says of the constants, in the form it is used.      *)
LEMMA Constants ==
  /\ CmdStart \in Nat /\ CmdStart > 7 /\ PoolSize \in Nat /\ PoolSize >= 1
  /\ Byte \subseteq Nat /\ Commands \subseteq Byte /\ CmdStart \in Byte /\ \A n \in 0 .. PoolSize : n \in Byte
  /\ ~(NoCommand \in Byte) /\ ~(NoPool \in Seq(Byte))
  /\ MaxTyped \in Nat /\ MaxTyped < CmdStart /\ Val \subseteq Byte /\ BufferSize \in Nat
<1>1. CmdStart \in Nat /\ CmdStart > 7 /\ PoolSize \in Nat /\ PoolSize >= 1
    BY LinkAssumption DEF Commands, CmdInit, CmdPing
<1>2. Byte \subseteq Nat /\ Commands \subseteq Byte /\ CmdStart \in Byte /\ \A n \in 0 .. PoolSize : n \in Byte
    BY <1>1 DEF Byte, Commands, CmdInit, CmdPing
<1>3. ~(NoCommand \in Byte)
    BY <1>2 DEF NoCommand
<1>4. ~(NoPool \in Seq(Byte))
  <2>1. SUFFICES ASSUME NoPool \in Seq(Byte) PROVE FALSE
      OBVIOUS
  <2>2. NoPool[1] = -1 /\ Len(NoPool) = 1
      BY DEF NoPool
  <2>3. NoPool[1] \in Byte
      BY <2>1, <2>2
  <2> QED BY <2>2, <2>3, <1>2
<1>5. MaxTyped \in Nat /\ MaxTyped < CmdStart /\ BufferSize \in Nat
    BY <1>1, LinkAssumption
<1>6. Val \subseteq Byte
    BY <1>1, LinkAssumption DEF Byte
<1> QED BY <1>1, <1>2, <1>3, <1>4, <1>5, <1>6

-----------------------------------------------------------------------------
(* The host.                                                               *)

(* An idle host waits for CMD_START and shows every other byte.            *)
LEMMA Idles ==
  ASSUME NEW h \in Hosts, NEW b, h.processState = "idle"
  PROVE  /\ Out(h, b) = <<>> /\ Same(Step(h, b), h) /\ Step(h, b) \in Hosts
         /\ Step(h, b).command = h.command /\ Step(h, b).args = h.args
         /\ Step(h, b).processState = IF b = CmdStart THEN "gotinit" ELSE "idle"
<1>1. /\ Step(h, b) = IF b = CmdStart THEN [h EXCEPT !.processState = "gotinit"] ELSE h
      /\ Out(h, b) = <<>>
    BY DEF Step, Out, ProcessByte
<1> QED BY <1>1 DEF Hosts, Same

(* A host that wants more arguments keeps the byte as one of them.         *)
LEMMA Gathers ==
  ASSUME NEW h \in Hosts, NEW b \in Byte, h.processState = "gotinit",
         Accepts(h, CommandOf(h, b)), Len(ArgsOf(h, b)) < Arguments(CommandOf(h, b), ArgsOf(h, b))
  PROVE  /\ Out(h, b) = <<>> /\ Same(Step(h, b), h)
         /\ Step(h, b).command = CommandOf(h, b) /\ Step(h, b).args = ArgsOf(h, b)
         /\ Step(h, b).processState = "gotinit"
<1>1. /\ Step(h, b) = [h EXCEPT !.command = CommandOf(h, b), !.args = ArgsOf(h, b)]
      /\ Out(h, b) = <<>>
    BY DEF Step, Out, ProcessByte, CommandOf, ArgsOf
<1> QED BY <1>1 DEF Hosts, Same

(* A host that has all the arguments handles its command and is idle.      *)
LEMMA Handles ==
  ASSUME NEW h \in Hosts, NEW b \in Byte, h.processState = "gotinit",
         ~(Accepts(h, CommandOf(h, b)) /\ Len(ArgsOf(h, b)) < Arguments(CommandOf(h, b), ArgsOf(h, b))),
         HandleCommand(h, CommandOf(h, b), ArgsOf(h, b)).h \in Hosts
  PROVE  /\ Out(h, b) = HandleCommand(h, CommandOf(h, b), ArgsOf(h, b)).out
         /\ Same(Step(h, b), HandleCommand(h, CommandOf(h, b), ArgsOf(h, b)).h)
         /\ IsIdle(Step(h, b)) /\ Step(h, b) \in Hosts
<1> DEFINE g == HandleCommand(h, CommandOf(h, b), ArgsOf(h, b))
<1>1. /\ Step(h, b) = [g.h EXCEPT !.processState = "idle", !.command = NoCommand, !.args = <<>>]
      /\ Out(h, b) = g.out
    BY DEF Step, Out, ProcessByte, CommandOf, ArgsOf
<1>2. g.h \in Hosts
    OBVIOUS
<1> HIDE DEF g
<1>3. Same(Step(h, b), g.h) /\ IsIdle(Step(h, b))
    BY <1>1, <1>2 DEF Hosts, Same, IsIdle
<1>4. Step(h, b) \in Hosts
  <2>1. <<>> \in Seq(Byte)
      OBVIOUS
  <2> QED BY <1>1, <1>2, <2>1 DEF Hosts
<1> QED BY <1>1, <1>3, <1>4 DEF g

(* bytearray(n) has n bytes.                                               *)
LEMMA ZerosType ==
  ASSUME NEW n \in Nat
  PROVE  Zeros(n) \in Seq(Byte) /\ Len(Zeros(n)) = n /\ DOMAIN Zeros(n) = 1 .. n
<1>1. 0 \in Byte
    BY Constants DEF Commands, CmdInit, CmdPing
<1> QED BY <1>1 DEF Zeros

(* The commands are different numbers. *)
LEMMA Numbers ==
  /\ CmdInit = 0 /\ CmdInitPool = 1 /\ CmdRead = 2 /\ CmdWrite = 3 /\ CmdInputAvailable = 4
  /\ CmdInputRequest = 5 /\ CmdInputPeek = 6 /\ CmdPing = 7 /\ Commands = 0 .. 7
BY DEF Commands, CmdInit, CmdPing, CmdInitPool, CmdInputAvailable, CmdInputRequest, CmdInputPeek, CmdRead, CmdWrite

(* The two parts of an answer.                                             *)
LEMMA Answers ==
  ASSUME NEW h, NEW bytes, NEW a, a = Answer(h, bytes)
  PROVE  a.h = h /\ a.out = bytes
BY DEF Answer

(* The answer a to a command, with the host h afterwards. *)
Gives(a, h, bytes) == a.h = h /\ a.out = bytes

(* handleCommand, by command. *)
LEMMA HandleCases ==
  ASSUME NEW h, NEW c, NEW args
  PROVE  LET a == HandleCommand(h, c, args)
         IN  /\ ~Accepts(h, c) => Gives(a, h, <<>>)
             /\ Accepts(h, c) /\ c = CmdPing => Gives(a, h, Reply(CmdPing))
             /\ Accepts(h, c) /\ c = CmdInit => Gives(a, Initialize(h), Reply(CmdInit))
             /\ Accepts(h, c) /\ c = CmdInitPool => Gives(a, SetPool(h, Zeros(args[1])), <<>>)
             /\ Accepts(h, c) /\ c = CmdInputAvailable => Gives(a, h, <<Len(h.inputData)>>)
             /\ Accepts(h, c) /\ c = CmdInputPeek => Gives(a, h, PeekInput(h))
             /\ Accepts(h, c) /\ c = CmdRead => Gives(a, h, Slice(h.pool, args[1], args[2]))
             /\ Accepts(h, c) /\ c = CmdWrite => Gives(a, WriteToPool(h, args), <<>>)
             /\ Accepts(h, c) /\ ~(c \in Commands) => Gives(a, h, <<>>)
             /\ Accepts(h, c) /\ c = CmdInputRequest => a = RequestInput(h, args[1])
<1> DEFINE a == HandleCommand(h, c, args)
<1>1. ASSUME ~Accepts(h, c) PROVE Gives(a, h, <<>>)
  <2>1. a = Answer(h, <<>>)
      BY <1>1, Numbers DEF HandleCommand
  <2> HIDE DEF a
  <2> QED BY <2>1, Answers DEF Gives
<1>2. ASSUME Accepts(h, c), c = CmdPing PROVE Gives(a, h, Reply(CmdPing))
  <2>1. a = Answer(h, Reply(CmdPing))
      BY <1>2, Numbers DEF HandleCommand
  <2> HIDE DEF a
  <2> QED BY <2>1, Answers DEF Gives
<1>3. ASSUME Accepts(h, c), c = CmdInit PROVE Gives(a, Initialize(h), Reply(CmdInit))
  <2>1. a = Answer(Initialize(h), Reply(CmdInit))
      BY <1>3, Numbers DEF HandleCommand
  <2> HIDE DEF a
  <2> QED BY <2>1, Answers DEF Gives
<1>4. ASSUME Accepts(h, c), c = CmdInitPool PROVE Gives(a, SetPool(h, Zeros(args[1])), <<>>)
  <2>1. a = Answer(SetPool(h, Zeros(args[1])), <<>>)
      BY <1>4, Numbers DEF HandleCommand
  <2> HIDE DEF a
  <2> QED BY <2>1, Answers DEF Gives
<1>5. ASSUME Accepts(h, c), c = CmdInputAvailable PROVE Gives(a, h, <<Len(h.inputData)>>)
  <2>1. a = Answer(h, <<Len(h.inputData)>>)
      BY <1>5, Numbers DEF HandleCommand
  <2> HIDE DEF a
  <2> QED BY <2>1, Answers DEF Gives
<1>6. ASSUME Accepts(h, c), c = CmdInputPeek PROVE Gives(a, h, PeekInput(h))
  <2>1. a = Answer(h, PeekInput(h))
      BY <1>6, Numbers DEF HandleCommand
  <2> HIDE DEF a
  <2> QED BY <2>1, Answers DEF Gives
<1>7. ASSUME Accepts(h, c), c = CmdRead PROVE Gives(a, h, Slice(h.pool, args[1], args[2]))
  <2>1. a = Answer(h, Slice(h.pool, args[1], args[2]))
      BY <1>7, Numbers DEF HandleCommand
  <2> HIDE DEF a
  <2> QED BY <2>1, Answers DEF Gives
<1>8. ASSUME Accepts(h, c), c = CmdWrite PROVE Gives(a, WriteToPool(h, args), <<>>)
  <2>1. a = Answer(WriteToPool(h, args), <<>>)
      BY <1>8, Numbers DEF HandleCommand
  <2> HIDE DEF a
  <2> QED BY <2>1, Answers DEF Gives
<1>9. ASSUME Accepts(h, c), ~(c \in Commands) PROVE Gives(a, h, <<>>)
  <2>1. a = Answer(h, <<>>)
      BY <1>9, Numbers DEF HandleCommand
  <2> HIDE DEF a
  <2> QED BY <2>1, Answers DEF Gives
<1>10. ASSUME Accepts(h, c), c = CmdInputRequest PROVE a = RequestInput(h, args[1])
    BY <1>10, Numbers DEF HandleCommand
<1> QED BY <1>1, <1>2, <1>3, <1>4, <1>5, <1>6, <1>7, <1>8, <1>9, <1>10

(* What is in a sequence of bytes.                                         *)
LEMMA Element ==
  ASSUME NEW s \in Seq(Byte), NEW i \in 1 .. Len(s)
  PROVE  s[i] \in Byte /\ s[i] \in Nat
<1>1. s[i] \in Byte
    OBVIOUS
<1> QED BY <1>1, Constants

(* What the handlers do to the state of the host. *)
LEMMA Initializes ==
  ASSUME NEW h \in Hosts
  PROVE  /\ Initialize(h) \in Hosts /\ Initialize(h).initialized = TRUE
         /\ Initialize(h).pool = NoPool /\ Initialize(h).inputData = h.inputData
BY DEF Initialize, Hosts

(* Only the pool is another one.                                           *)
LEMMA SetsPool ==
  ASSUME NEW h \in Hosts, NEW pool \in Seq(Byte)
  PROVE  /\ SetPool(h, pool) \in Hosts /\ SetPool(h, pool).initialized = h.initialized
         /\ SetPool(h, pool).pool = pool /\ SetPool(h, pool).inputData = h.inputData
BY DEF SetPool, Hosts

(* Only the input is cut.                                                  *)
LEMMA DropsInput ==
  ASSUME NEW h \in Hosts, NEW count \in 0 .. Len(h.inputData)
  PROVE  /\ DropInput(h, count) \in Hosts /\ DropInput(h, count).initialized = h.initialized
         /\ DropInput(h, count).pool = h.pool
         /\ DropInput(h, count).inputData = SubSeq(h.inputData, count + 1, Len(h.inputData))
<1> DEFINE d == SubSeq(h.inputData, count + 1, Len(h.inputData))
<1>1. h.inputData \in Seq(Byte)
    BY DEF Hosts
<1>2. d \in Seq(Byte)
    BY <1>1
<1>3. DropInput(h, count) = [h EXCEPT !.inputData = d]
    BY DEF DropInput
<1> HIDE DEF d
<1>4. /\ DropInput(h, count) \in Hosts /\ DropInput(h, count).initialized = h.initialized
      /\ DropInput(h, count).pool = h.pool /\ DropInput(h, count).inputData = d
    BY <1>2, <1>3 DEF Hosts
<1> QED BY <1>4 DEF d

AppendIs(s, x, t) ==
    /\ t \in Seq(Byte) /\ Len(t) = Len(s) + 1 /\ Len(s) \in Nat /\ t[Len(s) + 1] = x
    /\ \A i \in 1 .. Len(s) : t[i] = s[i]
(* A byte is put at the end.                                               *)
LEMMA Appends ==
  ASSUME NEW s \in Seq(Byte), NEW x \in Byte
  PROVE  AppendIs(s, x, Append(s, x))
BY AppendProperties DEF AppendIs

(* The bytes granted to a request for n. *)
Granted(h, n) == Smaller(n, Len(h.inputData))
(* A request is given what there is, up to n bytes, and these are dropped. *)
LEMMA Requests ==
  ASSUME NEW h \in Hosts, NEW n \in Nat
  PROVE  /\ Granted(h, n) \in 0 .. Len(h.inputData) /\ Granted(h, n) <= n
         /\ RequestInput(h, n).h = DropInput(h, Granted(h, n))
         /\ RequestInput(h, n).out = <<Granted(h, n)>> \o SubSeq(h.inputData, 1, Granted(h, n))
<1>1. Len(h.inputData) \in Nat
    BY DEF Hosts
<1>2. Granted(h, n) \in 0 .. Len(h.inputData) /\ Granted(h, n) <= n
    BY <1>1 DEF Granted, Smaller
<1> DEFINE bytes == <<Granted(h, n)>> \o SubSeq(h.inputData, 1, Granted(h, n))
<1>3. RequestInput(h, n) = Answer(DropInput(h, Granted(h, n)), bytes)
    BY DEF RequestInput, Granted
<1> HIDE DEF bytes
<1>4. RequestInput(h, n).h = DropInput(h, Granted(h, n)) /\ RequestInput(h, n).out = bytes
    BY <1>3, Answers
<1> QED BY <1>2, <1>4 DEF bytes

(* The answer to a peek is made of bytes.                                  *)
LEMMA PeekType ==
  ASSUME NEW h \in Hosts
  PROVE  PeekInput(h) \in Seq(Byte)
<1>0. h.inputData \in Seq(Byte) /\ Byte \subseteq Nat
    BY Constants DEF Hosts
<1>1. h.inputData # <<>> => Head(h.inputData) \in Nat
    BY <1>0, HeadTailProperties
<1>2. /\ Zeros(0) \in Seq(Byte)
      /\ h.inputData # <<>> => Zeros(1) \in Seq(Byte) /\ Zeros(Head(h.inputData)) \in Seq(Byte)
    BY <1>1, ZerosType
<1> QED BY <1>2 DEF PeekInput

(* A slice is made of bytes.                                               *)
LEMMA SliceType ==
  ASSUME NEW pool \in Seq(Byte), NEW i \in Nat, NEW n \in Nat
  PROVE  Slice(pool, i, n) \in Seq(Byte)
<1>1. Smaller(i + n, Len(pool)) \in 0 .. Len(pool)
    BY DEF Smaller
<1> QED BY <1>1 DEF Slice

(* And so is a pool part of which was replaced.                            *)
LEMMA SetSliceType ==
  ASSUME NEW pool \in Seq(Byte), NEW i \in Nat, NEW n \in Nat, NEW d \in Seq(Byte)
  PROVE  SetSlice(pool, i, n, d) \in Seq(Byte)
<1>1. Smaller(i, Len(pool)) \in 0 .. Len(pool)
    BY DEF Smaller
<1>2. SubSeq(pool, 1, Smaller(i, Len(pool))) \in Seq(Byte)
    BY <1>1
<1>3. SubSeq(pool, i + n + 1, Len(pool)) \in Seq(Byte)
    OBVIOUS
<1> QED BY <1>2, <1>3 DEF SetSlice

(* A write leaves the host with such a pool.                               *)
LEMMA WritesToPool ==
  ASSUME NEW h \in Hosts, h.pool # NoPool, NEW args \in Seq(Byte), Len(args) >= 2
  PROVE  LET pool == SetSlice(h.pool, args[1], args[2], SubSeq(args, 3, Len(args)))
         IN  /\ pool \in Seq(Byte) /\ WriteToPool(h, args) = SetPool(h, pool)
<1>1. Len(args) \in Nat /\ 1 \in 1 .. Len(args) /\ 2 \in 1 .. Len(args)
    OBVIOUS
<1>2. args[1] \in Byte /\ args[2] \in Byte
    BY <1>1
<1>3. args[1] \in Nat /\ args[2] \in Nat
    BY <1>2, Constants
<1>4. SubSeq(args, 3, Len(args)) \in Seq(Byte)
    BY <1>1
<1>5. h.pool \in Seq(Byte)
    BY DEF Hosts
<1> QED BY <1>3, <1>4, <1>5, SetSliceType DEF WriteToPool

(* What a command that is handled does to the host, and what it sends. *)
Handled(h, g, out) ==
    /\ g \in Hosts /\ out \in Seq(Byte)
    /\ h.initialized => g.initialized
    /\ \E n \in 0 .. Len(h.inputData) : g.inputData = SubSeq(h.inputData, n + 1, Len(h.inputData))
    /\ out = <<>> => g.inputData = h.inputData

(* A command that keeps the input and the connection.                      *)
LEMMA HandledSame ==
  ASSUME NEW h \in Hosts, NEW g \in Hosts, NEW out \in Seq(Byte),
         h.initialized => g.initialized, g.inputData = h.inputData
  PROVE  Handled(h, g, out)
<1>1. h.inputData \in Seq(Byte)
    BY DEF Hosts
<1>2. h.inputData = SubSeq(h.inputData, 0 + 1, Len(h.inputData)) /\ 0 \in 0 .. Len(h.inputData)
    BY <1>1, SubSeqFull
<1> QED BY <1>2 DEF Handled

(* What any command may do, and that only a ping is answered by a host     *)
(* that is not initialized.                                                *)
LEMMA HandledByCommand ==
  ASSUME NEW h \in Hosts, Len(h.inputData) <= MaxTyped, NEW c \in Byte, NEW args \in Seq(Byte),
         ~(Accepts(h, c) /\ Len(args) < Arguments(c, args))
  PROVE  /\ Handled(h, HandleCommand(h, c, args).h, HandleCommand(h, c, args).out)
         /\ HandleCommand(h, c, args).out # <<>> /\ c # CmdPing =>
               HandleCommand(h, c, args).h.initialized
<1> DEFINE g == HandleCommand(h, c, args).h
           out == HandleCommand(h, c, args).out
<1> <<>> \in Seq(Byte)
    OBVIOUS
<1>1. CASE ~Accepts(h, c)
  <2>1. g = h /\ out = <<>>
      BY <1>1, HandleCases DEF Gives
  <2> QED BY <2>1, HandledSame
<1>2. CASE Accepts(h, c) /\ c = CmdPing
  <2>1. g = h /\ out = Reply(CmdPing)
      BY <1>2, HandleCases DEF Gives
  <2>2. Reply(CmdPing) \in Seq(Byte)
      BY Constants, Numbers DEF Reply
  <2> QED BY <1>2, <2>1, <2>2, HandledSame
<1>3. CASE Accepts(h, c) /\ c = CmdInit
  <2>1. g = Initialize(h) /\ out = Reply(CmdInit)
      BY <1>3, HandleCases DEF Gives
  <2>2. Reply(CmdInit) \in Seq(Byte)
      BY Constants, Numbers DEF Reply
  <2> QED BY <2>1, <2>2, Initializes, HandledSame
<1> SUFFICES ASSUME Accepts(h, c), c # CmdPing, c # CmdInit
             PROVE  Handled(h, g, out) /\ g.initialized
    BY <1>1, <1>2, <1>3
<1>i. h.initialized
    BY DEF Accepts
<1>n. Len(args) \in Nat /\ Arguments(c, args) <= Len(args)
  <2>0. Len(args) \in Nat
      OBVIOUS
  <2>1. Len(args) >= 2 => args[2] \in Nat
      BY <2>0, Element
  <2>2. Len(args) \in Nat /\ Arguments(c, args) \in Nat
      BY <2>1 DEF Arguments
  <2> QED BY <2>2
<1>4. CASE c = CmdInitPool
  <2>0. Len(args) >= 1
      BY <1>4, <1>n, Numbers DEF Arguments
  <2>1. args[1] \in Nat
      BY <1>n, <2>0, Element
  <2>2. g = SetPool(h, Zeros(args[1])) /\ out = <<>>
      BY <1>4, HandleCases DEF Gives
  <2>3. Zeros(args[1]) \in Seq(Byte)
      BY <2>1, ZerosType
  <2> QED BY <1>i, <2>2, <2>3, SetsPool, HandledSame
<1>5. CASE c = CmdInputAvailable
  <2>1. g = h /\ out = <<Len(h.inputData)>>
      BY <1>5, HandleCases DEF Gives
  <2>2. Len(h.inputData) \in Nat
      BY DEF Hosts
  <2>3. Len(h.inputData) \in Byte
      BY <2>2, Constants DEF Byte
  <2>4. out \in Seq(Byte) /\ g = h
      BY <2>1, <2>3
  <2> QED BY <1>i, <2>4, HandledSame
<1>6. CASE c = CmdInputPeek
  <2>1. g = h /\ out = PeekInput(h)
      BY <1>6, HandleCases DEF Gives
  <2> QED BY <1>i, <2>1, PeekType, HandledSame
<1>7. CASE c = CmdRead
  <2>0. Len(args) >= 2
      BY <1>7, <1>n, Numbers DEF Arguments
  <2>1. args[1] \in Nat /\ args[2] \in Nat
      BY <1>n, <2>0, Element
  <2>2. g = h /\ out = Slice(h.pool, args[1], args[2])
      BY <1>7, HandleCases DEF Gives
  <2>3. h.pool \in Seq(Byte)
      BY <1>7 DEF Accepts, Hosts
  <2>4. out \in Seq(Byte)
      BY <2>1, <2>2, <2>3, SliceType
  <2> QED BY <1>i, <2>2, <2>4, HandledSame
<1>8. CASE c = CmdWrite
  <2>0. Len(args) >= 2
      BY <1>8, <1>n, Numbers DEF Arguments
  <2>1. h.pool # NoPool
      BY <1>8 DEF Accepts
  <2>2. g = WriteToPool(h, args) /\ out = <<>>
      BY <1>8, HandleCases DEF Gives
  <2> DEFINE pool == SetSlice(h.pool, args[1], args[2], SubSeq(args, 3, Len(args)))
  <2>3. pool \in Seq(Byte) /\ WriteToPool(h, args) = SetPool(h, pool)
      BY <2>0, <2>1, WritesToPool
  <2> HIDE DEF pool
  <2>4. g = SetPool(h, pool)
      BY <2>2, <2>3
  <2>5. g \in Hosts /\ g.initialized = h.initialized /\ g.inputData = h.inputData
      BY <2>3, <2>4, SetsPool
  <2> HIDE DEF g, out
  <2> QED BY <1>i, <2>2, <2>5, HandledSame
<1>9. CASE c = CmdInputRequest
  <2>0. Len(args) >= 1
      BY <1>9, <1>n, Numbers DEF Arguments
  <2>1. args[1] \in Nat
      BY <1>n, <2>0, Element
  <2> DEFINE count == Granted(h, args[1])
  <2>a. HandleCommand(h, c, args) = RequestInput(h, args[1])
      BY <1>9, HandleCases
  <2>2. g = DropInput(h, count) /\ out = <<count>> \o SubSeq(h.inputData, 1, count)
      BY <2>a, <2>1, Requests
  <2>3. count \in 0 .. Len(h.inputData)
      BY <2>1, Requests
  <2> HIDE DEF count
  <2>4. h.inputData \in Seq(Byte) /\ Len(h.inputData) \in Nat
      BY DEF Hosts
  <2>5. SubSeq(h.inputData, 1, count) \in Seq(Byte)
      BY <2>3, <2>4
  <2>6. count \in Byte
      BY <2>3, <2>4, Constants DEF Byte
  <2>7. out \in Seq(Byte) /\ out # <<>>
      BY <2>2, <2>5, <2>6
  <2>8. g \in Hosts /\ g.initialized = h.initialized
        /\ g.inputData = SubSeq(h.inputData, count + 1, Len(h.inputData))
      BY <2>2, <2>3, DropsInput
  <2> HIDE DEF g, out
  <2> QED BY <1>i, <2>3, <2>7, <2>8 DEF Handled
<1>10. CASE c \notin Commands
  <2>1. g = h /\ out = <<>>
      BY <1>10, HandleCases DEF Gives
  <2> QED BY <1>i, <2>1, HandledSame
<1> QED BY <1>4, <1>5, <1>6, <1>7, <1>8, <1>9, <1>10, Numbers

(* The input after a command.                                              *)
LEMMA HandledInput ==
  ASSUME NEW h \in Hosts, NEW g, NEW out, Handled(h, g, out)
  PROVE  g.inputData \in Seq(Byte) /\ Len(g.inputData) \in Nat /\ Len(g.inputData) <= Len(h.inputData)
<1>0. h.inputData \in Seq(Byte) /\ Len(h.inputData) \in Nat
    BY DEF Hosts
<1>1. PICK n \in 0 .. Len(h.inputData) : g.inputData = SubSeq(h.inputData, n + 1, Len(h.inputData))
    BY DEF Handled
<1>2. SubSeq(h.inputData, n + 1, Len(h.inputData)) \in Seq(Byte)
      /\ Len(SubSeq(h.inputData, n + 1, Len(h.inputData))) = Len(h.inputData) - n
    BY <1>0
<1> QED BY <1>0, <1>1, <1>2

(* What a byte does to the host. *)
StepFacts(h, b) ==
    /\ HostOK(Step(h, b)) /\ Handled(h, Step(h, b), Out(h, b))
    /\ Out(h, b) # <<>> => Step(h, b).command = NoCommand /\ Step(h, b).processState = "idle"
    /\ Out(h, b) # <<>> /\ ~(h.command = NoCommand /\ b = CmdPing) => Step(h, b).initialized

(* What a command is given.                                                *)
LEMMA CommandType ==
  ASSUME NEW h, HostOK(h), NEW b \in Byte
  PROVE  /\ CommandOf(h, b) \in Byte /\ ArgsOf(h, b) \in Seq(Byte)
         /\ h \in Hosts /\ Len(h.inputData) <= MaxTyped
<1>1. h \in Hosts /\ Len(h.inputData) <= MaxTyped
    BY DEF HostOK
<1>2. h.command \in Commands \cup {NoCommand} /\ h.args \in Seq(Byte)
    BY <1>1 DEF Hosts
<1>3. CommandOf(h, b) \in Byte
    BY <1>2, Constants DEF CommandOf
<1>4. Append(h.args, b) \in Seq(Byte) /\ <<>> \in Seq(Byte)
    BY <1>2
<1> QED BY <1>1, <1>3, <1>4 DEF ArgsOf

(* What a host may do with any byte.                                       *)
LEMMA StepDoes ==
  ASSUME NEW h, HostOK(h), NEW b \in Byte
  PROVE  StepFacts(h, b)
<1> DEFINE c == CommandOf(h, b)
           args == ArgsOf(h, b)
           g == Step(h, b)
<1>1. c \in Byte /\ args \in Seq(Byte) /\ h \in Hosts /\ Len(h.inputData) <= MaxTyped
    BY CommandType
<1>e. <<>> \in Seq(Byte)
    OBVIOUS
<1>2. CASE h.processState = "idle"
  <2>1. /\ Out(h, b) = <<>> /\ Same(g, h) /\ g \in Hosts
        /\ g.command = h.command /\ h.command = NoCommand
      BY <1>1, <1>2, Idles DEF HostOK
  <2> HIDE DEF g
  <2>2. Handled(h, g, Out(h, b))
      BY <1>1, <1>e, <2>1, HandledSame DEF Same
  <2>3. HostOK(g)
      BY <1>1, <2>1 DEF HostOK, Same
  <2> QED BY <2>1, <2>2, <2>3 DEF StepFacts, g
<1>3. CASE h.processState = "gotinit" /\ Accepts(h, c) /\ Len(args) < Arguments(c, args)
  <2>1. /\ Out(h, b) = <<>> /\ Same(g, h)
        /\ g.command = c /\ g.args = args /\ g.processState = "gotinit"
      BY <1>1, <1>3, Gathers
  <2>2. c \in Gathering
    <3>1. Len(args) \in Nat
        BY <1>1
    <3>2. Arguments(c, args) # 0
        BY <1>3, <3>1
    <3> QED BY <3>2, Numbers DEF Gathering, Arguments
  <2>3. Gathering \subseteq Commands
      BY Numbers DEF Gathering
  <2>4. g \in Hosts
    <3>1. g = [h EXCEPT !.command = c, !.args = args]
        BY <1>3 DEF Step, ProcessByte, CommandOf, ArgsOf
    <3> HIDE DEF c, args, g
    <3> QED BY <1>1, <2>2, <2>3, <3>1 DEF Hosts
  <2>5. Accepts(g, c)
      BY <1>3, <2>1 DEF Accepts, Same
  <2> HIDE DEF g, c, args
  <2>6. Handled(h, g, Out(h, b))
      BY <1>1, <1>e, <2>1, <2>4, HandledSame DEF Same
  <2>7. HostOK(g)
      BY <1>1, <2>1, <2>2, <2>4, <2>5 DEF HostOK, Same
  <2> QED BY <2>1, <2>6, <2>7 DEF StepFacts, g
<1>4. CASE h.processState = "gotinit" /\ ~(Accepts(h, c) /\ Len(args) < Arguments(c, args))
  <2> DEFINE a == HandleCommand(h, c, args)
  <2>1. Handled(h, a.h, a.out) /\ (a.out # <<>> /\ c # CmdPing => a.h.initialized)
      BY <1>1, <1>4, HandledByCommand
  <2>2. a.h \in Hosts
      BY <2>1 DEF Handled
  <2>3. /\ Out(h, b) = a.out /\ Same(g, a.h) /\ IsIdle(g) /\ g \in Hosts
      BY <1>1, <1>4, <2>2, Handles
  <2>4. CmdPing # NoCommand /\ (c = CmdPing => h.command = NoCommand /\ b = CmdPing)
    <3>1. CmdPing # NoCommand /\ ~(CmdPing \in Gathering)
        BY Numbers DEF NoCommand, Gathering
    <3> QED BY <3>1 DEF HostOK, CommandOf
  <2> HIDE DEF a, g, c, args
  <2>5. Handled(h, g, Out(h, b))
      BY <2>1, <2>3 DEF Handled, Same
  <2>6. Len(g.inputData) <= MaxTyped
      BY <1>1, <2>5, HandledInput, Constants DEF Hosts
  <2>7. HostOK(g)
      BY <2>3, <2>6 DEF HostOK, IsIdle
  <2>8. Out(h, b) # <<>> /\ ~(h.command = NoCommand /\ b = CmdPing) => g.initialized
      BY <2>1, <2>3, <2>4 DEF Same
  <2> QED BY <2>3, <2>5, <2>7, <2>8 DEF StepFacts, IsIdle, g
<1>5. h.processState \in {"idle", "gotinit"}
    BY <1>1 DEF Hosts
<1> QED BY <1>2, <1>3, <1>4, <1>5

(* The two bytes of the handshake.                                        *)
LEMMA HandshakeByte ==
  ASSUME NEW h, HostOK(h), h.command = NoCommand, NEW b \in {CmdStart, CmdInit}
  PROVE  /\ Step(h, b).command = NoCommand
         /\ h.initialized => Step(h, b).initialized
         /\ Step(h, b).inputData = h.inputData
         /\ b = CmdInit => Step(h, b).processState = "idle"
<1>1. b \in Byte /\ Commands \subseteq Byte
    BY Constants, Numbers
<1>2. h \in Hosts /\ h.processState \in {"idle", "gotinit"}
    BY DEF HostOK, Hosts
<1>3. CASE h.processState = "idle"
  <2>1. CmdInit # CmdStart
      BY Constants, Numbers
  <2> QED BY <1>2, <1>3, <2>1, Idles DEF Same
<1>4. CASE h.processState = "gotinit"
  <2>1. CommandOf(h, b) = b /\ ArgsOf(h, b) = <<>>
      BY DEF CommandOf, ArgsOf
  <2>2. Arguments(b, <<>>) = 0
      BY Constants, Numbers DEF Arguments
  <2> DEFINE a == HandleCommand(h, b, <<>>)
  <2>3. a.h \in Hosts /\ (h.initialized => a.h.initialized) /\ a.h.inputData = h.inputData
    <3>1. CASE b = CmdInit
      <4>1. a.h = Initialize(h)
          BY <3>1, HandleCases DEF Gives, Accepts
      <4> QED BY <1>2, <4>1, Initializes
    <3>2. CASE b = CmdStart
      <4>1. ~(CmdStart \in Commands)
          BY Constants, Numbers
      <4>2. a.h = h
          BY <3>2, <4>1, HandleCases DEF Gives
      <4> QED BY <1>2, <4>2
    <3> QED BY <3>1, <3>2
  <2>4. /\ Same(Step(h, b), a.h) /\ IsIdle(Step(h, b))
      BY <1>1, <1>2, <1>4, <2>1, <2>2, <2>3, Handles
  <2> QED BY <2>3, <2>4 DEF Same, IsIdle
<1> QED BY <1>2, <1>3, <1>4

(* Whatever comes before, the host waits for CMD_START after CMD_INIT unless *)
(* it takes the byte as an argument and wants more of them.                  *)
LEMMA InitByte ==
  ASSUME NEW h, HostOK(h), Step(h, CmdInit).command = NoCommand
  PROVE  Step(h, CmdInit).processState = "idle"
<1> DEFINE b == CmdInit
           c == CommandOf(h, b)
           args == ArgsOf(h, b)
<1>1. b \in Byte /\ CmdInit # CmdStart
    BY Constants, Numbers
<1>2. h \in Hosts /\ h.processState \in {"idle", "gotinit"} /\ Len(h.inputData) <= MaxTyped
      /\ c \in Byte /\ args \in Seq(Byte)
    BY <1>1, CommandType DEF HostOK, Hosts
<1>3. CASE h.processState = "idle"
    BY <1>1, <1>2, <1>3, Idles
<1>4. CASE h.processState = "gotinit" /\ Accepts(h, c) /\ Len(args) < Arguments(c, args)
  <2>1. Step(h, b).command = c
      BY <1>1, <1>2, <1>4, Gathers
  <2> QED BY <1>2, <2>1, Constants
<1>5. CASE h.processState = "gotinit" /\ ~(Accepts(h, c) /\ Len(args) < Arguments(c, args))
  <2>1. HandleCommand(h, c, args).h \in Hosts
      BY <1>2, <1>5, HandledByCommand DEF Handled
  <2> QED BY <1>1, <1>2, <1>5, <2>1, Handles DEF IsIdle
<1> QED BY <1>2, <1>3, <1>4, <1>5

-----------------------------------------------------------------------------
(* Traces: the hosts that come of taking in a sequence of bytes.           *)

Trace(h, w, F) ==
    /\ w \in Seq(Byte) /\ DOMAIN F = 0 .. Len(w)
    /\ F[0] = h
    /\ \A k \in 0 .. Len(w) : HostOK(F[k])
    /\ \A k \in 1 .. Len(w) : F[k] = Step(F[k - 1], w[k])

(* A nonempty set of naturals has a least element. *)
LEMMA Least ==
  ASSUME NEW S \in SUBSET Nat, S # {}
  PROVE  \E x \in S : \A y \in S : x <= y
<1>1. PICK x \in S : \A y \in S : ~(<<y, x>> \in OpToRel(<, Nat))
    BY NatLessThanWellFounded, WFMin
<1>2. \A y \in S : ~(y < x)
    BY <1>1 DEF OpToRel
<1> QED BY <1>2

(* After is the last of them. *)
LEMMA AfterIs ==
  ASSUME NEW h, NEW w, NEW F, Trace(h, w, F)
  PROVE  After(h, w) = F[Len(w)]
<1> DEFINE n == Len(w)
           Is(g) == g = [k \in 0 .. n |-> IF k = 0 THEN h
                                          ELSE CHOOSE next \in {ProcessByte(x, w[k]).h : x \in {g[k - 1]}} : TRUE]
           G == [k \in 0 .. n |-> F[k]]
           after == CHOOSE g : Is(g)
<1>0. n \in Nat
    BY DEF Trace
<1>1. ASSUME NEW y, NEW b
      PROVE  (CHOOSE next \in {ProcessByte(x, b).h : x \in {y}} : TRUE) = Step(y, b)
  <2>1. {ProcessByte(x, b).h : x \in {y}} = {Step(y, b)}
      BY DEF Step
  <2> QED BY <2>1
<1>2. ASSUME NEW k \in 0 .. n, k # 0 PROVE G[k] = Step(G[k - 1], w[k])
  <2>1. k \in 1 .. n /\ k - 1 \in 0 .. n
      BY <1>0, <1>2
  <2> QED BY <2>1 DEF Trace
<1>3. Is(G)
  <2>1. ASSUME NEW k \in 0 .. n
        PROVE  F[k] = IF k = 0 THEN h
                      ELSE CHOOSE next \in {ProcessByte(x, w[k]).h : x \in {G[k - 1]}} : TRUE
    <3>1. CASE k = 0
        BY <3>1 DEF Trace
    <3>2. CASE k # 0
      <4>1. G[k] = F[k]
          OBVIOUS
      <4>2. (CHOOSE next \in {ProcessByte(x, w[k]).h : x \in {G[k - 1]}} : TRUE) = Step(G[k - 1], w[k])
          BY <1>1
      <4> HIDE DEF G
      <4> QED BY <1>2, <3>2, <4>1, <4>2
    <3> QED BY <3>1, <3>2
  <2> QED BY <2>1
<1>4. Is(after)
  <2> HIDE DEF Is
  <2> QED BY <1>3
<1>5. After(h, w) = after[n]
    BY DEF After
<1> HIDE DEF after
<1>6. after[0] = h /\ \A k \in 0 .. n : k # 0 => after[k] = Step(after[k - 1], w[k])
  <2>1. ASSUME NEW k \in 0 .. n
        PROVE  after[k] = IF k = 0 THEN h
                      ELSE CHOOSE next \in {ProcessByte(x, w[k]).h : x \in {after[k - 1]}} : TRUE
    <3>1. after = [j \in 0 .. n |-> IF j = 0 THEN h
                      ELSE CHOOSE next \in {ProcessByte(x, w[j]).h : x \in {after[j - 1]}} : TRUE]
        BY <1>4
    <3> QED BY <3>1
  <2>2. ASSUME NEW k \in 0 .. n, k # 0 PROVE after[k] = Step(after[k - 1], w[k])
    <3>1. (CHOOSE next \in {ProcessByte(x, w[k]).h : x \in {after[k - 1]}} : TRUE) = Step(after[k - 1], w[k])
        BY <1>1
    <3> QED BY <2>1, <2>2, <3>1
  <2>3. 0 \in 0 .. n
      BY <1>0
  <2> QED BY <2>1, <2>2, <2>3
<1> DEFINE Bad == {k \in 0 .. n : after[k] # F[k]}
<1>7. Bad = {}
  <2> SUFFICES ASSUME Bad # {} PROVE FALSE
      OBVIOUS
  <2>1. Bad \in SUBSET Nat
      BY <1>0
  <2>2. PICK k \in Bad : \A y \in Bad : k <= y
    <3> HIDE DEF Bad
    <3> QED BY <2>1, Least
  <2>3. k # 0
      BY <1>6 DEF Trace
  <2>4. k \in 0 .. n /\ k \in 1 .. n /\ k - 1 \in 0 .. n /\ ~(k <= k - 1) /\ after[k] # F[k]
      BY <1>0, <2>3
  <2>5. after[k - 1] = F[k - 1]
      BY <2>2, <2>4
  <2>6. F[k] = Step(F[k - 1], w[k])
      BY <2>4 DEF Trace
  <2> QED BY <1>6, <2>3, <2>4, <2>5, <2>6
<1>8. n \in 0 .. n
    BY <1>0
<1> QED BY <1>5, <1>7, <1>8

(* No byte is left. *)
LEMMA TraceEmpty ==
  ASSUME NEW h, HostOK(h)
  PROVE  Trace(h, <<>>, [k \in 0 .. 0 |-> h])
<1>1. <<>> \in Seq(Byte) /\ Len(<<>>) = 0
    OBVIOUS
<1> QED BY <1>1 DEF Trace

(* One byte is taken in. *)
Later(F, n) == [k \in 0 .. n - 1 |-> F[k + 1]]
(* The trace goes on from its second place.                                *)
LEMMA TraceTail ==
  ASSUME NEW h, NEW w, NEW F, Trace(h, w, F), w # <<>>
  PROVE  /\ Trace(Step(h, Head(w)), Tail(w), Later(F, Len(w)))
         /\ Len(w) \in Nat /\ Len(w) >= 1 /\ Len(Tail(w)) = Len(w) - 1 /\ Head(w) = w[1] /\ Head(w) \in Byte
         /\ \A k \in 1 .. Len(w) - 1 : Tail(w)[k] = w[k + 1]
         /\ \A k \in 0 .. Len(w) - 1 : Later(F, Len(w))[k] = F[k + 1]
         /\ HostOK(h) /\ F[0] = h /\ F[1] = Step(h, Head(w))
<1>1. w \in Seq(Byte)
    BY DEF Trace
<1>2. /\ Len(w) \in Nat /\ Len(w) >= 1 /\ Len(Tail(w)) = Len(w) - 1 /\ Head(w) = w[1] /\ Head(w) \in Byte
      /\ Tail(w) \in Seq(Byte) /\ \A k \in 1 .. Len(w) - 1 : Tail(w)[k] = w[k + 1]
    BY <1>1, HeadTailProperties, EmptySeq
<1> DEFINE n == Len(w)
           G == Later(F, n)
<1>3. \A k \in 0 .. n - 1 : G[k] = F[k + 1]
    BY DEF Later
<1>4. DOMAIN G = 0 .. Len(Tail(w))
    BY <1>2 DEF Later
<1>5. F[0] = h /\ HostOK(h) /\ F[1] = Step(h, Head(w))
  <2>1. 0 \in 0 .. n /\ 1 \in 1 .. n /\ 1 - 1 = 0
      BY <1>2
  <2> QED BY <1>2, <2>1 DEF Trace
<1> HIDE DEF G
<1>6. G[0] = Step(h, Head(w))
    BY <1>2, <1>3, <1>5
<1>7. ASSUME NEW k \in 0 .. Len(Tail(w)) PROVE HostOK(G[k])
  <2>1. k \in 0 .. n - 1 /\ k + 1 \in 0 .. n
      BY <1>2
  <2> QED BY <1>3, <2>1 DEF Trace
<1>8. ASSUME NEW k \in 1 .. Len(Tail(w)) PROVE G[k] = Step(G[k - 1], Tail(w)[k])
  <2>1. k \in 0 .. n - 1 /\ k - 1 \in 0 .. n - 1 /\ k + 1 \in 1 .. n /\ (k - 1) + 1 = k /\ (k + 1) - 1 = k
        /\ k \in 1 .. n - 1
      BY <1>2
  <2>2. F[k + 1] = Step(F[k], w[k + 1])
      BY <2>1 DEF Trace
  <2> QED BY <1>2, <1>3, <2>1, <2>2
<1>9. Trace(Step(h, Head(w)), Tail(w), G)
    BY <1>2, <1>4, <1>6, <1>7, <1>8 DEF Trace
<1> QED BY <1>2, <1>3, <1>5, <1>9 DEF G

(* More bytes are sent. *)
Joined(F, n, G, m) == [k \in 0 .. n + m |-> IF k <= n THEN F[k] ELSE G[k - n]]
(* Two traces, the second from where the first ends, are one.              *)
LEMMA TraceJoin ==
  ASSUME NEW h, NEW w, NEW F, Trace(h, w, F), NEW q, NEW G, Trace(F[Len(w)], q, G)
  PROVE  LET n == Len(w)
             m == Len(q)
             J == Joined(F, n, G, m)
         IN  /\ Trace(h, w \o q, J) /\ n \in Nat /\ m \in Nat /\ Len(w \o q) = n + m
             /\ \A k \in 0 .. n : J[k] = F[k]
             /\ \A k \in 0 .. m : J[n + k] = G[k]
             /\ \A k \in 1 .. n : (w \o q)[k] = w[k]
             /\ \A k \in 1 .. m : (w \o q)[n + k] = q[k]
<1> DEFINE n == Len(w)
           m == Len(q)
           J == Joined(F, n, G, m)
           s == w \o q
<1>1. w \in Seq(Byte) /\ q \in Seq(Byte) /\ n \in Nat /\ m \in Nat
    BY DEF Trace
<1>2. /\ s \in Seq(Byte) /\ Len(s) = n + m
      /\ \A k \in 1 .. n + m : s[k] = IF k <= n THEN w[k] ELSE q[k - n]
    BY <1>1, ConcatProperties
<1>3. /\ \A k \in 1 .. n : s[k] = w[k]
      /\ \A k \in 1 .. m : s[n + k] = q[k]
  <2>1. ASSUME NEW k \in 1 .. n PROVE s[k] = w[k]
    <3>1. k \in 1 .. n + m /\ k <= n
        BY <1>1
    <3> QED BY <1>2, <3>1
  <2>2. ASSUME NEW k \in 1 .. m PROVE s[n + k] = q[k]
    <3>1. n + k \in 1 .. n + m /\ ~(n + k <= n) /\ (n + k) - n = k
        BY <1>1
    <3> QED BY <1>2, <3>1
  <2> QED BY <2>1, <2>2
<1> HIDE DEF s
<1>4. G[0] = F[n]
    BY DEF Trace
<1>5. /\ \A k \in 0 .. n : J[k] = F[k]
      /\ \A k \in 0 .. m : J[n + k] = G[k]
      /\ DOMAIN J = 0 .. n + m
  <2>1. ASSUME NEW k \in 0 .. n PROVE J[k] = F[k]
    <3>1. k \in 0 .. n + m /\ k <= n
        BY <1>1
    <3> QED BY <3>1 DEF Joined
  <2>2. ASSUME NEW k \in 0 .. m PROVE J[n + k] = G[k]
    <3>1. n + k \in 0 .. n + m /\ (n + k) - n = k /\ (n + k <= n => k = 0 /\ n + k = n)
        BY <1>1
    <3>2. J[n + k] = IF n + k <= n THEN F[n + k] ELSE G[(n + k) - n]
        BY <3>1 DEF Joined
    <3> QED BY <1>4, <3>1, <3>2
  <2> QED BY <2>1, <2>2 DEF Joined
<1> HIDE DEF J
<1>6. J[0] = h
  <2>1. 0 \in 0 .. n
      BY <1>1
  <2> QED BY <1>5, <2>1 DEF Trace
<1>7. ASSUME NEW k \in 0 .. n + m
      PROVE  k \in 0 .. n \/ (k - n \in 1 .. m /\ k = n + (k - n) /\ k - 1 = n + ((k - n) - 1) /\ (k - n) - 1 \in 0 .. m)
    BY <1>1
<1>8. ASSUME NEW k \in 0 .. Len(s) PROVE HostOK(J[k])
  <2>1. CASE k \in 0 .. n
      BY <2>1, <1>5 DEF Trace
  <2>2. CASE k - n \in 1 .. m /\ k = n + (k - n)
    <3>1. k - n \in 0 .. m
        BY <1>1, <2>2
    <3>2. J[k] = G[k - n]
        BY <1>5, <2>2, <3>1
    <3> QED BY <3>1, <3>2 DEF Trace
  <2> QED BY <1>2, <1>7, <2>1, <2>2
<1>9. ASSUME NEW k \in 1 .. Len(s) PROVE J[k] = Step(J[k - 1], s[k])
  <2>1. CASE k \in 0 .. n
    <3>1. k \in 1 .. n /\ k - 1 \in 0 .. n
        BY <1>1, <2>1
    <3> QED BY <1>3, <1>5, <2>1, <3>1 DEF Trace
  <2>2. CASE k - n \in 1 .. m /\ k = n + (k - n) /\ k - 1 = n + ((k - n) - 1) /\ (k - n) - 1 \in 0 .. m
    <3>1. k - n \in 0 .. m
        BY <1>1, <2>2
    <3>2. J[k] = G[k - n]
        BY <1>5, <2>2, <3>1
    <3>3. J[k - 1] = G[(k - n) - 1]
        BY <1>5, <2>2
    <3>4. s[k] = q[k - n]
        BY <1>3, <2>2
    <3> QED BY <2>2, <3>2, <3>3, <3>4 DEF Trace
  <2>3. k \in 0 .. n + m
      BY <1>1, <1>2
  <2> QED BY <1>7, <2>1, <2>2, <2>3
<1>10. Trace(h, s, J)
    BY <1>1, <1>2, <1>5, <1>6, <1>8, <1>9 DEF Trace
<1> QED BY <1>1, <1>2, <1>3, <1>5, <1>10 DEF s, J

(* v is w and then q, and so is their trace J. *)
Prolongs(w, F, q, G, v, J) ==
    /\ Len(w) \in Nat /\ Len(q) \in Nat /\ Len(v) = Len(w) + Len(q)
    /\ \A k \in 0 .. Len(w) : J[k] = F[k]
    /\ \A k \in 0 .. Len(q) : J[Len(w) + k] = G[k]
    /\ \A k \in 1 .. Len(w) : v[k] = w[k]
    /\ \A k \in 1 .. Len(q) : v[Len(w) + k] = q[k]
(* The same, in the form the proofs below use.                             *)
LEMMA TraceAppend ==
  ASSUME NEW h, NEW w, NEW F, Trace(h, w, F), NEW q, NEW G, Trace(F[Len(w)], q, G), NEW v, v = w \o q
  PROVE  \E J : Trace(h, v, J) /\ Prolongs(w, F, q, G, v, J)
<1> DEFINE J == Joined(F, Len(w), G, Len(q))
<1>1. Trace(h, w \o q, J) /\ Prolongs(w, F, q, G, w \o q, J)
    BY TraceJoin DEF Prolongs
<1> HIDE DEF J
<1> QED BY <1>1

(* The end is cut off. *)
LEMMA TraceCut ==
  ASSUME NEW h, NEW w, NEW F, Trace(h, w, F), NEW n \in 0 .. Len(w)
  PROVE  LET G == [k \in 0 .. n |-> F[k]]
         IN  /\ Trace(h, SubSeq(w, 1, n), G)
             /\ Len(SubSeq(w, 1, n)) = n /\ \A k \in 1 .. n : SubSeq(w, 1, n)[k] = w[k]
<1> DEFINE G == [k \in 0 .. n |-> F[k]]
           s == SubSeq(w, 1, n)
<1>1. w \in Seq(Byte) /\ Len(w) \in Nat
    BY DEF Trace
<1>2. s \in Seq(Byte) /\ Len(s) = n /\ \A k \in 1 .. n : s[k] = w[k]
    BY <1>1
<1> HIDE DEF s
<1>3. ASSUME NEW k \in 0 .. n PROVE HostOK(G[k]) /\ G[k] = F[k] /\ k \in 0 .. Len(w)
  <2>1. k \in 0 .. Len(w)
      BY <1>1
  <2> QED BY <2>1 DEF Trace
<1>4. G[0] = h /\ DOMAIN G = 0 .. n
  <2>1. 0 \in 0 .. n
      BY <1>1
  <2> QED BY <2>1 DEF Trace
<1> HIDE DEF G
<1>5. ASSUME NEW k \in 1 .. n PROVE G[k] = Step(G[k - 1], s[k])
  <2>1. k \in 0 .. n /\ k - 1 \in 0 .. n /\ k \in 1 .. Len(w)
      BY <1>1
  <2> QED BY <1>2, <1>3, <2>1 DEF Trace
<1>6. Trace(h, s, G)
    BY <1>2, <1>3, <1>4, <1>5 DEF Trace
<1> QED BY <1>2, <1>6 DEF s, G

(* Every sequence of bytes can be taken in. *)
Upto(h, w, F, n) ==
    /\ DOMAIN F = 0 .. n /\ F[0] = h
    /\ \A k \in 0 .. n : HostOK(F[k])
    /\ \A k \in 1 .. n : F[k] = Step(F[k - 1], w[k])
(* There is a trace for any bytes: the least place where none goes on is   *)
(* none.                                                                   *)
LEMMA TraceExists ==
  ASSUME NEW h, HostOK(h), NEW w \in Seq(Byte)
  PROVE  \E F : Trace(h, w, F)
<1> DEFINE Bad == {n \in 0 .. Len(w) : ~ \E F : Upto(h, w, F, n)}
<1>0. Len(w) \in Nat
    OBVIOUS
<1>1. Bad = {}
  <2> SUFFICES ASSUME Bad # {} PROVE FALSE
      OBVIOUS
  <2>1. Bad \in SUBSET Nat
      BY <1>0
  <2>2. PICK n \in Bad : \A y \in Bad : n <= y
    <3> HIDE DEF Bad
    <3> QED BY <2>1, Least
  <2>3. n \in 0 .. Len(w) /\ n \in Nat /\ ~ \E F : Upto(h, w, F, n)
      BY <1>0
  <2>4. n # 0
    <3>1. Upto(h, w, [k \in 0 .. 0 |-> h], 0)
        BY DEF Upto
    <3> QED BY <2>3, <3>1
  <2>5. n - 1 \in 0 .. Len(w) /\ ~(n <= n - 1) /\ n - 1 \in Nat
      BY <1>0, <2>3, <2>4
  <2>6. PICK F : Upto(h, w, F, n - 1)
      BY <2>2, <2>5
  <2> DEFINE G == [k \in 0 .. n |-> IF k = n THEN Step(F[n - 1], w[n]) ELSE F[k]]
  <2>7. w[n] \in Byte
      BY <1>0, <2>3, <2>4
  <2>8. HostOK(F[n - 1]) /\ n - 1 \in 0 .. n - 1
      BY <2>5, <2>6 DEF Upto
  <2>9. HostOK(Step(F[n - 1], w[n]))
      BY <2>7, <2>8, StepDoes DEF StepFacts
  <2>10. ASSUME NEW k \in 0 .. n
         PROVE  HostOK(G[k]) /\ (k # 0 => G[k] = Step(G[k - 1], w[k]))
    <3>1. CASE k = n
      <4>1. G[n] = Step(F[n - 1], w[n]) /\ G[n - 1] = F[n - 1]
          BY <2>3, <2>5
      <4> HIDE DEF G
      <4> QED BY <2>9, <3>1, <4>1
    <3>2. CASE k # n
      <4>1. k \in 0 .. n - 1 /\ (k # 0 => k \in 1 .. n - 1 /\ k - 1 \in 0 .. n /\ k - 1 # n)
          BY <2>3, <3>2
      <4>2. G[k] = F[k] /\ (k # 0 => G[k - 1] = F[k - 1])
          BY <3>2, <4>1
      <4> HIDE DEF G
      <4> QED BY <2>6, <4>1, <4>2 DEF Upto
    <3> QED BY <3>1, <3>2
  <2>11. G[0] = h /\ DOMAIN G = 0 .. n
    <3>1. 0 \in 0 .. n /\ 0 # n
        BY <2>3, <2>4
    <3> QED BY <2>6, <3>1 DEF Upto
  <2> HIDE DEF G
  <2>12. \A k \in 1 .. n : k \in 0 .. n /\ k # 0
      BY <2>3
  <2>13. Upto(h, w, G, n)
      BY <2>10, <2>11, <2>12 DEF Upto
  <2> QED BY <2>3, <2>13
<1>2. Len(w) \in 0 .. Len(w)
    BY <1>0
<1>3. PICK F : Upto(h, w, F, Len(w))
    BY <1>1, <1>2
<1>4. Trace(h, w, F)
    BY <1>3 DEF Upto, Trace
<1> QED BY <1>4

-----------------------------------------------------------------------------
(* Commands on their way to a host that waits for one.                     *)

Ready(h) ==
    /\ HostOK(h) /\ IsIdle(h) /\ h.initialized = TRUE
    /\ h.pool \in Seq(Byte) /\ Len(h.pool) = PoolSize

(* The host g is h after CMD_START, or with the arguments a of a command.  *)
Alert(g, h) == HostOK(g) /\ Same(g, h) /\ g.processState = "gotinit" /\ g.command = NoCommand
Collects(g, h, c, a) ==
    /\ HostOK(g) /\ Same(g, h) /\ g.processState = "gotinit" /\ g.command = c /\ g.args = a
    /\ c \in Gathering

(* It has all arguments a of c, and sends out. *)
Executes(g, h, f, out) ==
    /\ HostOK(h) /\ IsIdle(h) /\ out = f.out /\ Same(h, f.h)

(* What a host accepts depends on its pool and its connection only.        *)
LEMMA AcceptsSame ==
  ASSUME NEW g, NEW h, Same(g, h), NEW c
  PROVE  Accepts(g, c) = Accepts(h, c)
BY DEF Accepts, Same

(* CMD_START makes an idle host wait for a command.                        *)
LEMMA Wakes ==
  ASSUME NEW h, HostOK(h), IsIdle(h)
  PROVE  Alert(Step(h, CmdStart), h) /\ Out(h, CmdStart) = <<>>
<1>1. CmdStart \in Byte /\ h \in Hosts
    BY Constants DEF HostOK
<1>2. HostOK(Step(h, CmdStart))
    BY <1>1, StepDoes DEF StepFacts
<1> QED BY <1>1, <1>2, Idles DEF Alert, IsIdle

(* These commands have an argument at least.                               *)
LEMMA GatheringIs ==
  /\ Gathering \subseteq Byte /\ Gathering \subseteq Commands /\ ~(NoCommand \in Gathering)
  /\ \A c \in Gathering : Arguments(c, <<>>) >= 1
BY Constants, Numbers DEF Gathering, Arguments

(* The command is kept until its arguments are there.                      *)
LEMMA TakesCommand ==
  ASSUME NEW g, NEW h, Alert(g, h), NEW c \in Gathering, Accepts(h, c)
  PROVE  Collects(Step(g, c), h, c, <<>>) /\ Out(g, c) = <<>>
<1>1. c \in Byte /\ g \in Hosts /\ CommandOf(g, c) = c /\ ArgsOf(g, c) = <<>>
    BY GatheringIs DEF Alert, HostOK, CommandOf, ArgsOf
<1>2. HostOK(Step(g, c))
    BY <1>1, StepDoes DEF StepFacts, Alert
<1>3. Accepts(g, c)
    BY AcceptsSame DEF Alert
<1>4. Len(ArgsOf(g, c)) < Arguments(CommandOf(g, c), ArgsOf(g, c))
  <2>1. Arguments(c, <<>>) \in Nat /\ Arguments(c, <<>>) >= 1 /\ Len(<<>>) = 0
      BY GatheringIs, Numbers DEF Arguments
  <2> QED BY <1>1, <2>1
<1>5. /\ Out(g, c) = <<>> /\ Same(Step(g, c), g) /\ Step(g, c).command = c
      /\ Step(g, c).args = <<>> /\ Step(g, c).processState = "gotinit"
    BY <1>1, <1>3, <1>4, Gathers DEF Alert
<1> QED BY <1>2, <1>5 DEF Collects, Alert, Same

(* An argument that is not the last is kept.                               *)
LEMMA TakesArgument ==
  ASSUME NEW g, NEW h, NEW c, NEW a \in Seq(Byte), Collects(g, h, c, a), Accepts(h, c), NEW b \in Byte,
         Len(a) + 1 < Arguments(c, Append(a, b))
  PROVE  Collects(Step(g, b), h, c, Append(a, b)) /\ Out(g, b) = <<>>
<1>1. g \in Hosts /\ CommandOf(g, b) = c /\ ArgsOf(g, b) = Append(a, b)
    BY GatheringIs DEF Collects, HostOK, CommandOf, ArgsOf
<1>2. HostOK(Step(g, b))
    BY <1>1, StepDoes DEF StepFacts, Collects
<1>3. Accepts(g, c)
    BY AcceptsSame DEF Collects
<1>4. Len(ArgsOf(g, b)) < Arguments(CommandOf(g, b), ArgsOf(g, b))
  <2>1. Len(Append(a, b)) = Len(a) + 1
      BY AppendProperties
  <2> QED BY <1>1, <2>1
<1>5. /\ Out(g, b) = <<>> /\ Same(Step(g, b), g) /\ Step(g, b).command = c
      /\ Step(g, b).args = Append(a, b) /\ Step(g, b).processState = "gotinit"
    BY <1>1, <1>3, <1>4, Gathers DEF Collects
<1> QED BY <1>2, <1>5 DEF Collects, Same

(* And so is the first of several.                                         *)
LEMMA TakesFirst ==
  ASSUME NEW g, NEW h, NEW c, Collects(g, h, c, <<>>), Accepts(h, c), NEW b \in Byte,
         1 < Arguments(c, Append(<<>>, b))
  PROVE  Collects(Step(g, b), h, c, Append(<<>>, b)) /\ Out(g, b) = <<>>
<1> DEFINE e == <<>>
<1>1. e \in Seq(Byte) /\ Len(e) + 1 = 1
    OBVIOUS
<1>2. Collects(g, h, c, e) /\ 1 < Arguments(c, Append(e, b))
    OBVIOUS
<1> HIDE DEF e
<1>3. Collects(Step(g, b), h, c, Append(e, b)) /\ Out(g, b) = <<>>
    BY <1>1, <1>2, TakesArgument
<1> QED BY <1>3 DEF e

(* With its last argument the command is executed.                         *)
LEMMA TakesLast ==
  ASSUME NEW g, NEW h, NEW c, NEW a \in Seq(Byte), Collects(g, h, c, a), NEW b \in Byte,
         ~(Len(a) + 1 < Arguments(c, Append(a, b)))
  PROVE  Executes(g, Step(g, b), HandleCommand(g, c, Append(a, b)), Out(g, b))
<1>1. g \in Hosts /\ Len(g.inputData) <= MaxTyped /\ CommandOf(g, b) = c /\ ArgsOf(g, b) = Append(a, b)
      /\ Append(a, b) \in Seq(Byte) /\ c \in Byte
    BY GatheringIs, AppendProperties DEF Collects, HostOK, CommandOf, ArgsOf
<1>2. HostOK(Step(g, b))
    BY <1>1, StepDoes DEF StepFacts, Collects
<1>4. ~(Accepts(g, c) /\ Len(Append(a, b)) < Arguments(c, Append(a, b)))
  <2>1. Len(Append(a, b)) = Len(a) + 1
      BY AppendProperties
  <2> QED BY <2>1
<1>5. HandleCommand(g, c, Append(a, b)).h \in Hosts
    BY <1>1, <1>4, HandledByCommand DEF Handled
<1>6. /\ Out(g, b) = HandleCommand(g, c, Append(a, b)).out
      /\ Same(Step(g, b), HandleCommand(g, c, Append(a, b)).h) /\ IsIdle(Step(g, b))
    BY <1>1, <1>4, <1>5, Handles DEF Collects
<1> QED BY <1>2, <1>6 DEF Executes

(* A command without arguments. *)
LEMMA TakesAll ==
  ASSUME NEW g, NEW h, Alert(g, h), NEW c \in Byte, ~(c \in Gathering)
  PROVE  Executes(g, Step(g, c), HandleCommand(g, c, <<>>), Out(g, c))
<1>1. g \in Hosts /\ Len(g.inputData) <= MaxTyped /\ CommandOf(g, c) = c /\ ArgsOf(g, c) = <<>>
      /\ <<>> \in Seq(Byte) /\ Len(<<>>) = 0
    BY DEF Alert, HostOK, CommandOf, ArgsOf
<1>2. HostOK(Step(g, c))
    BY <1>1, StepDoes DEF StepFacts, Alert
<1>4. ~(Accepts(g, c) /\ Len(<<>>) < Arguments(c, <<>>))
  <2>1. Arguments(c, <<>>) = 0
      BY DEF Arguments, Gathering
  <2> QED BY <1>1, <2>1
<1>5. HandleCommand(g, c, <<>>).h \in Hosts
    BY <1>1, <1>4, HandledByCommand DEF Handled
<1>6. /\ Out(g, c) = HandleCommand(g, c, <<>>).out
      /\ Same(Step(g, c), HandleCommand(g, c, <<>>).h) /\ IsIdle(Step(g, c))
    BY <1>1, <1>4, <1>5, Handles DEF Alert
<1> QED BY <1>2, <1>6 DEF Executes

(* Nothing is sent back while the first n bytes of w are taken in, and no  *)
(* input is given away.                                                    *)
QuietTo(w, F, n) ==
    \A k \in 1 .. n : Out(F[k - 1], w[k]) = <<>> /\ F[k].inputData = F[0].inputData

(* A host that is ready accepts every command.                             *)
LEMMA ReadyAccepts ==
  ASSUME NEW h, Ready(h), NEW c \in Commands
  PROVE  Accepts(h, c) /\ h.pool # NoPool /\ h \in Hosts
BY Constants DEF Ready, Accepts, HostOK

(* The first bytes of a trace. *)
Firsts(h, w, F) ==
    /\ F[0] = h /\ Len(w) \in Nat
    /\ Len(w) >= 1 => F[1] = Step(h, w[1]) /\ w[1] \in Byte
    /\ Len(w) >= 2 => F[2] = Step(F[1], w[2]) /\ w[2] \in Byte
    /\ Len(w) >= 3 => F[3] = Step(F[2], w[3]) /\ w[3] \in Byte
    /\ Len(w) >= 4 => F[4] = Step(F[3], w[4]) /\ w[4] \in Byte
(* A trace, byte by byte.                                                  *)
LEMMA TraceIs ==
  ASSUME NEW h, NEW w, NEW F, Trace(h, w, F)
  PROVE  Firsts(h, w, F)
<1>1. w \in Seq(Byte) /\ Len(w) \in Nat /\ F[0] = h
    BY DEF Trace
<1>2. ASSUME NEW k \in 1 .. Len(w) PROVE F[k] = Step(F[k - 1], w[k]) /\ w[k] \in Byte
    BY <1>1 DEF Trace
<1> QED BY <1>1, <1>2 DEF Firsts

(* Nothing comes back from the first byte.                                 *)
LEMMA FirstQuiet ==
  ASSUME NEW h, NEW w, NEW F, F[0] = h, Out(h, w[1]) = <<>>, F[1].inputData = h.inputData
  PROVE  QuietTo(w, F, 1)
BY DEF QuietTo

(* Nor from the next.                                                      *)
LEMMA NextQuiet ==
  ASSUME NEW w, NEW F, NEW n \in Nat, QuietTo(w, F, n), NEW m \in Nat, m = n + 1,
         Out(F[n], w[m]) = <<>>, F[m].inputData = F[0].inputData
  PROVE  QuietTo(w, F, m)
<1>1. ASSUME NEW k \in 1 .. m PROVE Out(F[k - 1], w[k]) = <<>> /\ F[k].inputData = F[0].inputData
  <2>1. CASE k = m
    <3>1. k - 1 = n
        BY <2>1
    <3> QED BY <2>1, <3>1
  <2>2. CASE k \in 1 .. n
      BY <2>2 DEF QuietTo
  <2> QED BY <2>1, <2>2
<1> QED BY <1>1 DEF QuietTo

(* CMD_START and a command that has arguments. *)
LEMMA Begins ==
  ASSUME NEW h, HostOK(h), IsIdle(h), NEW c \in Gathering, Accepts(h, c),
         NEW w, Len(w) >= 2, w[1] = CmdStart, w[2] = c, NEW F, Trace(h, w, F)
  PROVE  QuietTo(w, F, 2) /\ Collects(F[2], h, c, <<>>) /\ F[2].inputData = h.inputData
<1>1. F[0] = h /\ F[1] = Step(h, CmdStart) /\ F[2] = Step(F[1], c) /\ Len(w) \in Nat
    BY TraceIs DEF Firsts
<1>2. Alert(F[1], h) /\ Out(h, CmdStart) = <<>>
    BY <1>1, Wakes
<1>3. Collects(F[2], h, c, <<>>) /\ Out(F[1], c) = <<>>
    BY <1>1, <1>2, TakesCommand
<1>4. F[1].inputData = h.inputData /\ F[2].inputData = h.inputData
    BY <1>2, <1>3 DEF Alert, Collects, Same
<1>5. QuietTo(w, F, 1)
    BY <1>1, <1>2, <1>4, FirstQuiet
<1>6. QuietTo(w, F, 2)
    BY <1>1, <1>3, <1>4, <1>5, NextQuiet
<1> QED BY <1>3, <1>4, <1>6

(* CMD_INITPOOL gives the host a pool of zeros, and nothing comes back.    *)
LEMMA SentInitPool ==
  ASSUME NEW h, HostOK(h), IsIdle(h), h.initialized = TRUE,
         NEW F, Trace(h, <<CmdStart, CmdInitPool, PoolSize>>, F)
  PROVE  /\ QuietTo(<<CmdStart, CmdInitPool, PoolSize>>, F, 3)
         /\ Ready(F[3]) /\ F[3].pool = Zeros(PoolSize)
<1> DEFINE w == <<CmdStart, CmdInitPool, PoolSize>>
           c == CmdInitPool
<1>1. Len(w) = 3 /\ w[1] = CmdStart /\ w[2] = c /\ w[3] = PoolSize /\ Trace(h, w, F)
    OBVIOUS
<1> HIDE DEF w
<1>2. c \in Gathering /\ Accepts(h, c) /\ h \in Hosts
    BY Numbers DEF Gathering, Accepts, HostOK
<1>3. QuietTo(w, F, 2) /\ Collects(F[2], h, c, <<>>) /\ F[2].inputData = h.inputData
    BY <1>1, <1>2, Begins
<1>4. F[3] = Step(F[2], PoolSize) /\ PoolSize \in Byte /\ F[0] = h
  <2>1. Firsts(h, w, F)
      BY <1>1, TraceIs
  <2> QED BY <1>1, <2>1 DEF Firsts
<1> DEFINE a == Append(<<>>, PoolSize)
           g == F[2]
<1>5. a[1] = PoolSize /\ Len(<<>>) = 0 /\ <<>> \in Seq(Byte) /\ a \in Seq(Byte)
         /\ ~(Len(<<>>) + 1 < Arguments(c, a))
  <2>1. <<>> \in Seq(Byte) /\ Len(<<>>) = 0
      OBVIOUS
  <2>2. a[1] = PoolSize /\ a \in Seq(Byte)
      BY <1>4, <2>1, AppendProperties
  <2> QED BY <2>1, <2>2, Numbers DEF Arguments
<1> HIDE DEF a
<1>6. Executes(g, F[3], HandleCommand(g, c, a), Out(g, PoolSize))
    BY <1>3, <1>4, <1>5, TakesLast DEF a
<1>7. g \in Hosts /\ Accepts(g, c) /\ Same(g, h)
    BY <1>2, <1>3, AcceptsSame DEF Collects, HostOK
<1> HIDE DEF g, c
<1>8. HandleCommand(g, c, a).h = SetPool(g, Zeros(PoolSize)) /\ HandleCommand(g, c, a).out = <<>>
    BY <1>5, <1>7, HandleCases DEF Gives, c
<1>9. Zeros(PoolSize) \in Seq(Byte) /\ Len(Zeros(PoolSize)) = PoolSize
    BY ZerosType, Constants
<1>10. /\ F[3].pool = Zeros(PoolSize) /\ F[3].initialized = TRUE /\ F[3].inputData = h.inputData
       /\ Out(g, PoolSize) = <<>> /\ HostOK(F[3]) /\ IsIdle(F[3])
    BY <1>6, <1>7, <1>8, <1>9, SetsPool DEF Executes, Same
<1>11. QuietTo(w, F, 3)
    BY <1>1, <1>3, <1>4, <1>10, NextQuiet DEF g
<1> QED BY <1>9, <1>10, <1>11 DEF Ready, w

(* A host that is idle again, with the same pool, is ready.                *)
LEMMA StaysReady ==
  ASSUME NEW h, Ready(h), NEW g, Same(g, h), HostOK(g), IsIdle(g)
  PROVE  Ready(g) /\ g.pool = h.pool /\ g.inputData = h.inputData
BY DEF Ready, Same

(* What is printed is ignored. *)
LEMMA SentPrint ==
  ASSUME NEW h, Ready(h), NEW F, Trace(h, <<CmdInit>>, F)
  PROVE  QuietTo(<<CmdInit>>, F, 1) /\ Ready(F[1]) /\ F[1].pool = h.pool
<1> DEFINE w == <<CmdInit>>
<1>1. Len(w) = 1 /\ w[1] = CmdInit /\ Trace(h, w, F)
    OBVIOUS
<1> HIDE DEF w
<1>a. F[0] = h /\ F[1] = Step(h, w[1])
  <2>1. Firsts(h, w, F)
      BY <1>1, TraceIs
  <2> QED BY <1>1, <2>1 DEF Firsts
<1>b. CmdInit \in Byte /\ CmdInit # CmdStart
    BY Constants, Numbers
<1>2. F[0] = h /\ F[1] = Step(h, CmdInit) /\ CmdInit \in Byte /\ CmdInit # CmdStart
    BY <1>1, <1>a, <1>b
<1>3. HostOK(h) /\ h \in Hosts /\ IsIdle(h)
    BY DEF Ready, HostOK
<1>4. HostOK(F[1])
    BY <1>2, <1>3, StepDoes DEF StepFacts
<1>5. Out(h, CmdInit) = <<>> /\ Same(F[1], h) /\ IsIdle(F[1])
    BY <1>2, <1>3, Idles DEF IsIdle
<1>6. Ready(F[1]) /\ F[1].pool = h.pool /\ F[1].inputData = h.inputData
    BY <1>4, <1>5, StaysReady
<1>7. QuietTo(w, F, 1)
    BY <1>1, <1>2, <1>5, <1>6, FirstQuiet
<1> QED BY <1>6, <1>7 DEF w

(* A query without arguments. *)
LEMMA SentBare ==
  ASSUME NEW h, Ready(h), NEW c \in {CmdPing, CmdInputAvailable}, NEW F, Trace(h, <<CmdStart, c>>, F)
  PROVE  /\ QuietTo(<<CmdStart, c>>, F, 1) /\ Ready(F[2]) /\ F[2].pool = h.pool
         /\ F[0] = h /\ F[1].inputData = h.inputData /\ F[2].inputData = h.inputData
         /\ Out(F[1], c) = IF c = CmdPing THEN Reply(CmdPing) ELSE <<Len(h.inputData)>>
<1> DEFINE w == <<CmdStart, c>>
<1>1. Len(w) = 2 /\ w[1] = CmdStart /\ w[2] = c /\ Trace(h, w, F)
    OBVIOUS
<1> HIDE DEF w
<1>a. F[0] = h /\ F[1] = Step(h, w[1]) /\ F[2] = Step(F[1], w[2])
  <2>1. Firsts(h, w, F)
      BY <1>1, TraceIs
  <2> QED BY <1>1, <2>1 DEF Firsts
<1>2. F[0] = h /\ F[1] = Step(h, CmdStart) /\ F[2] = Step(F[1], c)
    BY <1>1, <1>a
<1>3. HostOK(h) /\ h \in Hosts /\ IsIdle(h)
    BY DEF Ready, HostOK
<1>4. c \in Byte /\ c \in Commands /\ ~(c \in Gathering) /\ CmdPing # CmdInputAvailable
    BY Constants, Numbers DEF Gathering
<1>5. Alert(F[1], h) /\ Out(h, CmdStart) = <<>>
    BY <1>2, <1>3, Wakes
<1> DEFINE g == F[1]
<1>6. Executes(g, F[2], HandleCommand(g, c, <<>>), Out(g, c))
    BY <1>2, <1>4, <1>5, TakesAll
<1>7. Accepts(g, c) /\ Same(g, h)
    BY <1>4, <1>5, ReadyAccepts, AcceptsSame DEF Alert
<1> HIDE DEF g
<1>8. /\ HandleCommand(g, c, <<>>).h = g
      /\ HandleCommand(g, c, <<>>).out = IF c = CmdPing THEN Reply(CmdPing) ELSE <<Len(g.inputData)>>
    BY <1>4, <1>7, HandleCases DEF Gives
<1>9. /\ Same(F[2], h) /\ HostOK(F[2]) /\ IsIdle(F[2])
      /\ Out(g, c) = IF c = CmdPing THEN Reply(CmdPing) ELSE <<Len(h.inputData)>>
    BY <1>6, <1>7, <1>8 DEF Executes, Same
<1>10. Ready(F[2]) /\ F[2].pool = h.pool /\ F[2].inputData = h.inputData
    BY <1>9, StaysReady
<1>11. F[1].inputData = h.inputData
    BY <1>5 DEF Alert, Same
<1>12. QuietTo(w, F, 1)
    BY <1>1, <1>2, <1>5, <1>11, FirstQuiet
<1> QED BY <1>2, <1>9, <1>10, <1>11, <1>12 DEF w, g

(* CMD_INPUTREQUEST is answered with the count and then the bytes.         *)
LEMMA SentRequest ==
  ASSUME NEW h, Ready(h), NEW n \in Nat, NEW F, Trace(h, <<CmdStart, CmdInputRequest, n>>, F)
  PROVE  /\ QuietTo(<<CmdStart, CmdInputRequest, n>>, F, 2) /\ Ready(F[3]) /\ F[3].pool = h.pool
         /\ F[0] = h /\ F[2].inputData = h.inputData
         /\ Out(F[2], n) = <<Granted(h, n)>> \o SubSeq(h.inputData, 1, Granted(h, n))
         /\ F[3].inputData = SubSeq(h.inputData, Granted(h, n) + 1, Len(h.inputData))
<1> DEFINE w == <<CmdStart, CmdInputRequest, n>>
           c == CmdInputRequest
<1>1. Len(w) = 3 /\ w[1] = CmdStart /\ w[2] = c /\ w[3] = n /\ Trace(h, w, F)
    OBVIOUS
<1> HIDE DEF w
<1>a. c \in Gathering /\ c \in Commands
    BY Numbers DEF Gathering
<1>2. c \in Gathering /\ Accepts(h, c) /\ HostOK(h) /\ IsIdle(h)
    BY <1>a, ReadyAccepts DEF Ready
<1>3. QuietTo(w, F, 2) /\ Collects(F[2], h, c, <<>>) /\ F[2].inputData = h.inputData
    BY <1>1, <1>2, Begins
<1>4. F[3] = Step(F[2], n) /\ n \in Byte /\ F[0] = h
  <2>1. Firsts(h, w, F)
      BY <1>1, TraceIs
  <2> QED BY <1>1, <2>1 DEF Firsts
<1> DEFINE a == Append(<<>>, n)
           g == F[2]
<1>5. /\ a[1] = n /\ <<>> \in Seq(Byte) /\ a \in Seq(Byte)
      /\ ~(Len(<<>>) + 1 < Arguments(c, a))
  <2>1. <<>> \in Seq(Byte) /\ Len(<<>>) = 0
      OBVIOUS
  <2>2. a[1] = n /\ a \in Seq(Byte)
      BY <1>4, <2>1, AppendProperties
  <2> QED BY <2>1, <2>2, Numbers DEF Arguments
<1> HIDE DEF a
<1>6. Executes(g, F[3], HandleCommand(g, c, a), Out(g, n))
    BY <1>3, <1>4, <1>5, TakesLast DEF a
<1>7. g \in Hosts /\ Accepts(g, c) /\ Same(g, h)
    BY <1>2, <1>3, AcceptsSame DEF Collects, HostOK
<1> HIDE DEF g, c
<1>8. HandleCommand(g, c, a) = RequestInput(g, n)
    BY <1>5, <1>7, HandleCases DEF c
<1> DEFINE count == Granted(g, n)
<1>9. /\ count \in 0 .. Len(g.inputData) /\ RequestInput(g, n).h = DropInput(g, count)
      /\ RequestInput(g, n).out = <<count>> \o SubSeq(g.inputData, 1, count)
    BY <1>7, Requests
<1>10. count = Granted(h, n) /\ g.inputData = h.inputData
    BY <1>7 DEF Same, Granted
<1> HIDE DEF count
<1>11. /\ DropInput(g, count).initialized = g.initialized /\ DropInput(g, count).pool = g.pool
       /\ DropInput(g, count).inputData = SubSeq(g.inputData, count + 1, Len(g.inputData))
    BY <1>7, <1>9, DropsInput
<1> DEFINE rest == SubSeq(h.inputData, count + 1, Len(h.inputData))
           bytes == <<count>> \o SubSeq(h.inputData, 1, count)
<1>12. /\ DropInput(g, count).inputData = rest /\ RequestInput(g, n).out = bytes
    BY <1>9, <1>10, <1>11
<1> HIDE DEF rest, bytes
<1>13. /\ F[3].pool = h.pool /\ F[3].initialized = h.initialized /\ F[3].inputData = rest
       /\ HostOK(F[3]) /\ IsIdle(F[3]) /\ Out(g, n) = bytes
    BY <1>6, <1>7, <1>8, <1>9, <1>11, <1>12 DEF Executes, Same
<1>14. Ready(F[3])
    BY <1>13 DEF Ready
<1> QED BY <1>3, <1>4, <1>10, <1>13, <1>14 DEF w, g, rest, bytes, count

(* CMD_READ is answered with the slice that was asked for.                 *)
LEMMA SentRead ==
  ASSUME NEW h, Ready(h), NEW p \in Nat, NEW n \in Nat, NEW F, Trace(h, <<CmdStart, CmdRead, p, n>>, F)
  PROVE  /\ QuietTo(<<CmdStart, CmdRead, p, n>>, F, 3) /\ Ready(F[4]) /\ F[4].pool = h.pool
         /\ F[0] = h /\ F[3].inputData = h.inputData /\ F[4].inputData = h.inputData
         /\ Out(F[3], n) = Slice(h.pool, p, n)
<1> DEFINE w == <<CmdStart, CmdRead, p, n>>
           c == CmdRead
<1>1. Len(w) = 4 /\ w[1] = CmdStart /\ w[2] = c /\ w[3] = p /\ w[4] = n /\ Trace(h, w, F)
    OBVIOUS
<1> HIDE DEF w
<1>a. c \in Gathering /\ c \in Commands
    BY Numbers DEF Gathering
<1>2. c \in Gathering /\ Accepts(h, c) /\ HostOK(h) /\ IsIdle(h)
    BY <1>a, ReadyAccepts DEF Ready
<1>3. QuietTo(w, F, 2) /\ Collects(F[2], h, c, <<>>) /\ F[2].inputData = h.inputData
    BY <1>1, <1>2, Begins
<1>t. Firsts(h, w, F)
    BY <1>1, TraceIs
<1>4. F[3] = Step(F[2], p) /\ p \in Byte /\ F[4] = Step(F[3], n) /\ n \in Byte /\ F[0] = h
    BY <1>1, <1>t DEF Firsts
<1> DEFINE a == Append(<<>>, p)
           b == Append(a, n)
           g == F[3]
<1>5. /\ <<>> \in Seq(Byte) /\ a \in Seq(Byte) /\ b[1] = p /\ b[2] = n
      /\ Len(<<>>) + 1 < Arguments(c, a) /\ ~(Len(a) + 1 < Arguments(c, b))
  <2>1. <<>> \in Seq(Byte) /\ Len(<<>>) = 0
      OBVIOUS
  <2>2. a[1] = p /\ a \in Seq(Byte) /\ Len(a) = 1
      BY <1>4, <2>1, AppendProperties
  <2>3. b[1] = p /\ b[2] = n
    <3>1. n \in Byte
        BY <1>4
    <3> HIDE DEF a
    <3>2. AppendIs(a, n, b)
        BY <2>2, <3>1, Appends
    <3> HIDE DEF b
    <3>3. 1 \in 1 .. Len(a) /\ Len(a) + 1 = 2
        BY <2>2
    <3> QED BY <2>2, <3>2, <3>3 DEF AppendIs
  <2>4. Arguments(c, a) = 2 /\ Arguments(c, b) = 2
      BY Numbers DEF Arguments
  <2> QED BY <2>1, <2>2, <2>3, <2>4
<1> HIDE DEF a, b
<1>a1. 1 < Arguments(c, Append(<<>>, p))
  <2>1. Len(<<>>) + 1 = 1
      OBVIOUS
  <2> QED BY <1>5, <2>1 DEF a
<1>6. Collects(g, h, c, a) /\ Out(F[2], p) = <<>>
  <2>1. p \in Byte /\ Accepts(h, c) /\ Collects(F[2], h, c, <<>>) /\ g = Step(F[2], p)
      BY <1>2, <1>3, <1>4
  <2> HIDE DEF c, g
  <2>2. Collects(Step(F[2], p), h, c, Append(<<>>, p)) /\ Out(F[2], p) = <<>>
      BY <1>a1, <2>1, TakesFirst
  <2> QED BY <2>1, <2>2 DEF a
<1>7. Executes(g, F[4], HandleCommand(g, c, b), Out(g, n))
    BY <1>4, <1>5, <1>6, TakesLast DEF b
<1>8. Accepts(g, c) /\ Same(g, h) /\ g.inputData = h.inputData
    BY <1>2, <1>6, AcceptsSame DEF Collects, Same
<1> HIDE DEF g, c
<1>9. /\ HandleCommand(g, c, b).h = g
      /\ HandleCommand(g, c, b).out = Slice(g.pool, p, n)
    BY <1>5, <1>8, HandleCases DEF Gives, c
<1>10. Same(F[4], h) /\ HostOK(F[4]) /\ IsIdle(F[4]) /\ Out(g, n) = Slice(h.pool, p, n)
    BY <1>7, <1>8, <1>9 DEF Executes, Same
<1>11. Ready(F[4]) /\ F[4].pool = h.pool /\ F[4].inputData = h.inputData
    BY <1>10, StaysReady
<1>12. QuietTo(w, F, 3)
    BY <1>1, <1>3, <1>4, <1>6, <1>8, NextQuiet DEF g
<1> QED BY <1>4, <1>8, <1>10, <1>11, <1>12 DEF w, g

(* The pool q is pool with the n bytes of d from p on. *)
Overwritten(q, pool, p, n, d) ==
    /\ q \in Seq(Byte) /\ Len(q) = Len(pool)
    /\ \A i \in 1 .. Len(pool) : q[i] = IF i - p \in 1 .. n THEN d[i - p] ELSE pool[i]

(* Replacing a slice by as many bytes changes these and no others.         *)
LEMMA SliceSet ==
  ASSUME NEW pool \in Seq(Byte), NEW d \in Seq(Byte), NEW p \in Nat, NEW n \in Nat,
         Len(d) = n, p + n <= Len(pool)
  PROVE  Overwritten(SetSlice(pool, p, n, d), pool, p, n, d)
<1> DEFINE m == Len(pool)
           a == SubSeq(pool, 1, p)
           e == SubSeq(pool, p + n + 1, m)
           ad == a \o d
           q == ad \o e
<1>1. m \in Nat /\ Smaller(p, m) = p
    BY DEF Smaller
<1>2. SetSlice(pool, p, n, d) = q
    BY <1>1 DEF SetSlice
<1>3. a \in Seq(Byte) /\ Len(a) = p /\ \A i \in 1 .. p : a[i] = pool[i]
    BY <1>1
<1>4. e \in Seq(Byte) /\ Len(e) = m - (p + n) /\ \A i \in 1 .. m - (p + n) : e[i] = pool[p + n + i]
    BY <1>1
<1> HIDE DEF a, e
<1>5. ad \in Seq(Byte) /\ Len(ad) = p + n /\ \A i \in 1 .. p + n : ad[i] = IF i <= p THEN a[i] ELSE d[i - p]
    BY <1>1, <1>3, ConcatProperties
<1> HIDE DEF ad
<1>6. /\ q \in Seq(Byte) /\ Len(q) = m
      /\ \A i \in 1 .. m : q[i] = IF i <= p + n THEN ad[i] ELSE e[i - (p + n)]
    BY <1>1, <1>4, <1>5, ConcatProperties
<1> HIDE DEF q
<1>7. ASSUME NEW i \in 1 .. m
      PROVE  q[i] = IF i - p \in 1 .. n THEN d[i - p] ELSE pool[i]
  <2>1. CASE i <= p
    <3>1. i \in 1 .. p /\ i \in 1 .. p + n /\ i <= p + n /\ ~(i - p \in 1 .. n)
        BY <1>1, <2>1
    <3> QED BY <1>3, <1>5, <1>6, <2>1, <3>1
  <2>2. CASE i > p /\ i <= p + n
    <3>1. ~(i <= p) /\ i \in 1 .. p + n /\ i - p \in 1 .. n
        BY <1>1, <2>2
    <3> QED BY <1>5, <1>6, <2>2, <3>1
  <2>3. CASE i > p + n
    <3>1. ~(i <= p + n) /\ i - (p + n) \in 1 .. m - (p + n) /\ ~(i - p \in 1 .. n) /\ p + n + (i - (p + n)) = i
        BY <1>1, <2>3
    <3> QED BY <1>4, <1>6, <3>1
  <2> QED BY <1>1, <2>1, <2>2, <2>3
<1> HIDE DEF m
<1>8. Overwritten(q, pool, p, n, d)
    BY <1>6, <1>7 DEF Overwritten, m
<1> QED BY <1>2, <1>8

(* The first j bytes of data have been gathered after the address and the size. *)
Data(a, p, n, d, j) ==
    /\ a \in Seq(Byte) /\ Len(a) = 2 + j /\ a[1] = p /\ a[2] = n
    /\ \A i \in 1 .. j : a[2 + i] = d[i]

(* The arguments of a write, without data so far.                          *)
LEMMA DataStarts ==
  ASSUME NEW p \in Byte, NEW n \in Byte, NEW d
  PROVE  Data(Append(Append(<<>>, p), n), p, n, d, 0)
<1> DEFINE a == Append(<<>>, p)
           b == Append(a, n)
<1>1. a[1] = p /\ a \in Seq(Byte) /\ Len(a) = 1
  <2>1. <<>> \in Seq(Byte) /\ Len(<<>>) = 0
      OBVIOUS
  <2> QED BY <2>1, AppendProperties
<1> HIDE DEF a
<1>2. AppendIs(a, n, b)
    BY <1>1, Appends
<1> HIDE DEF b
<1>3. 1 \in 1 .. Len(a) /\ Len(a) + 1 = 2
    BY <1>1
<1>4. b \in Seq(Byte) /\ Len(b) = 2 /\ b[1] = p /\ b[2] = n
    BY <1>1, <1>2, <1>3 DEF AppendIs
<1>5. Data(b, p, n, d, 0)
    BY <1>4 DEF Data
<1> QED BY <1>5 DEF a, b

(* And with one byte of data more.                                         *)
LEMMA DataGrows ==
  ASSUME NEW a, NEW p \in Byte, NEW n \in Byte, NEW d, NEW j \in Nat, Data(a, p, n, d, j),
         NEW b \in Byte, b = d[j + 1]
  PROVE  Data(Append(a, b), p, n, d, j + 1)
<1> DEFINE t == Append(a, b)
<1>1. a \in Seq(Byte) /\ Len(a) = 2 + j
    BY DEF Data
<1>2. AppendIs(a, b, t)
    BY <1>1, Appends
<1> HIDE DEF t
<1>3. t \in Seq(Byte) /\ Len(t) = 2 + (j + 1) /\ t[2 + (j + 1)] = b /\ \A i \in 1 .. 2 + j : t[i] = a[i]
  <2>1. Len(a) + 1 = 2 + (j + 1)
      BY <1>1
  <2> QED BY <1>1, <1>2, <2>1 DEF AppendIs
<1>4. t[1] = p /\ t[2] = n
  <2>1. 1 \in 1 .. 2 + j /\ 2 \in 1 .. 2 + j
      OBVIOUS
  <2> QED BY <1>3, <2>1 DEF Data
<1>5. ASSUME NEW i \in 1 .. j + 1 PROVE t[2 + i] = d[i]
  <2>1. CASE i = j + 1
      BY <1>3, <2>1
  <2>2. CASE i # j + 1
    <3>1. i \in 1 .. j /\ 2 + i \in 1 .. 2 + j
        BY <2>2
    <3> QED BY <1>3, <3>1 DEF Data
  <2> QED BY <2>1, <2>2
<1>6. Data(t, p, n, d, j + 1)
    BY <1>3, <1>4, <1>5 DEF Data
<1> QED BY <1>6 DEF t

(* What the bytes are that doWrite() sends. *)
WriteIs(w, p, n, d) ==
    /\ w \in Seq(Byte) /\ Len(w) = 4 + n /\ w[1] = CmdStart /\ w[2] = CmdWrite /\ w[3] = p /\ w[4] = n
    /\ p \in Byte /\ n \in Byte
    /\ \A j \in 1 .. n : w[4 + j] = d[j] /\ d[j] \in Byte

(* The bytes of a write in their places.                                   *)
LEMMA WriteBytes ==
  ASSUME NEW d \in Seq(Byte), NEW p \in Byte, NEW n, n = Len(d), n \in Byte
  PROVE  WriteIs(<<CmdStart, CmdWrite, p, n>> \o d, p, n, d)
<1> DEFINE v == <<CmdStart, CmdWrite, p, n>>
           w == v \o d
<1>0. CmdStart \in Byte /\ CmdWrite \in Byte
    BY Constants, Numbers
<1>1. v \in Seq(Byte) /\ Len(v) = 4 /\ v[1] = CmdStart /\ v[2] = CmdWrite /\ v[3] = p /\ v[4] = n
    BY <1>0
<1> HIDE DEF v
<1>2. n \in Nat
    OBVIOUS
<1>3. /\ w \in Seq(Byte) /\ Len(w) = 4 + n
      /\ \A i \in 1 .. 4 + n : w[i] = IF i <= 4 THEN v[i] ELSE d[i - 4]
  <2>1. /\ w \in Seq(Byte) /\ Len(w) = Len(v) + Len(d)
        /\ \A i \in 1 .. Len(v) + Len(d) : w[i] = IF i <= Len(v) THEN v[i] ELSE d[i - Len(v)]
      BY <1>1, ConcatProperties
  <2> HIDE DEF w
  <2> QED BY <1>1, <2>1
<1> HIDE DEF w
<1>4. w[1] = v[1] /\ w[2] = v[2] /\ w[3] = v[3] /\ w[4] = v[4]
  <2>1. 1 \in 1 .. 4 + n /\ 2 \in 1 .. 4 + n /\ 3 \in 1 .. 4 + n /\ 4 \in 1 .. 4 + n
      BY <1>2
  <2> QED BY <1>3, <2>1
<1>5. ASSUME NEW j \in 1 .. n PROVE w[4 + j] = d[j] /\ d[j] \in Byte
  <2>1. 4 + j \in 1 .. 4 + n /\ ~(4 + j <= 4) /\ (4 + j) - 4 = j
      BY <1>2
  <2> QED BY <1>3, <2>1
<1>6. WriteIs(w, p, n, d)
    BY <1>1, <1>3, <1>4, <1>5 DEF WriteIs
<1> QED BY <1>6 DEF w, v

(* The host has the command, its address and size, and j bytes of data. *)
Gathered(h, w, F, p, n, d, j) ==
    /\ QuietTo(w, F, 4 + j) /\ F[4 + j].inputData = h.inputData
    /\ \E a : Collects(F[4 + j], h, CmdWrite, a) /\ Data(a, p, n, d, j)

(* The host has taken CMD_WRITE, the address and the size.                 *)
LEMMA GatherStarts ==
  ASSUME NEW h, Ready(h), NEW p, NEW n, NEW d, NEW w, WriteIs(w, p, n, d), n >= 1,
         NEW F, Trace(h, w, F)
  PROVE  Gathered(h, w, F, p, n, d, 0)
<1> DEFINE c == CmdWrite
<1>1. Len(w) >= 4 /\ Len(w) \in Nat /\ w[1] = CmdStart /\ w[2] = c /\ w[3] = p /\ w[4] = n /\ p \in Byte /\ n \in Byte
      /\ n \in Nat
  <2>1. n \in Nat /\ Len(w) = 4 + n
      BY Constants DEF WriteIs
  <2> QED BY <2>1 DEF WriteIs
<1>a. c \in Gathering /\ c \in Commands
    BY Numbers DEF Gathering
<1>2. c \in Gathering /\ Accepts(h, c) /\ HostOK(h) /\ IsIdle(h)
    BY <1>a, ReadyAccepts DEF Ready
<1>3. QuietTo(w, F, 2) /\ Collects(F[2], h, c, <<>>) /\ F[2].inputData = h.inputData
    BY <1>1, <1>2, Begins
<1>t. Firsts(h, w, F)
    BY TraceIs
<1>4. F[3] = Step(F[2], p) /\ F[4] = Step(F[3], n) /\ F[0] = h
    BY <1>1, <1>t DEF Firsts
<1> DEFINE a == Append(<<>>, p)
           b == Append(a, n)
           g == F[3]
<1>5. Data(b, p, n, d, 0)
    BY <1>1, DataStarts
<1>6. a \in Seq(Byte) /\ Len(a) = 1
  <2>1. <<>> \in Seq(Byte) /\ Len(<<>>) = 0
      OBVIOUS
  <2> QED BY <1>1, <2>1, AppendProperties
<1>7. 1 < Arguments(c, a) /\ Len(a) + 1 < Arguments(c, b)
  <2>1. Arguments(c, a) = 2
      BY <1>6, Numbers DEF Arguments
  <2>2. b[2] = n /\ Len(b) = 2
      BY <1>5 DEF Data
  <2> HIDE DEF b
  <2>3. Arguments(c, b) = 2 + n
      BY <2>2, Numbers DEF Arguments
  <2> QED BY <1>1, <1>6, <2>1, <2>3
<1>8. Collects(g, h, c, a) /\ Out(F[2], p) = <<>>
  <2>1. p \in Byte /\ Accepts(h, c) /\ Collects(F[2], h, c, <<>>) /\ g = Step(F[2], p) /\ 1 < Arguments(c, Append(<<>>, p))
      BY <1>1, <1>2, <1>3, <1>4, <1>7
  <2> HIDE DEF c, g
  <2>2. Collects(Step(F[2], p), h, c, Append(<<>>, p)) /\ Out(F[2], p) = <<>>
      BY <2>1, TakesFirst
  <2> QED BY <2>1, <2>2 DEF a
<1> HIDE DEF a, c, g
<1>9. Collects(F[4], h, c, b) /\ Out(g, n) = <<>>
  <2>1. Collects(Step(g, n), h, c, Append(a, n)) /\ Out(g, n) = <<>>
      BY <1>1, <1>2, <1>6, <1>7, <1>8, TakesArgument
  <2> QED BY <1>4, <2>1 DEF g
<1>10. F[3].inputData = h.inputData /\ F[4].inputData = h.inputData
    BY <1>8, <1>9 DEF Collects, Same, g
<1>11. QuietTo(w, F, 3)
    BY <1>1, <1>3, <1>4, <1>8, <1>10, NextQuiet
<1>12. QuietTo(w, F, 4)
    BY <1>1, <1>4, <1>9, <1>10, <1>11, NextQuiet DEF g
<1> HIDE DEF b
<1>13. 4 + 0 = 4
    OBVIOUS
<1> QED BY <1>5, <1>9, <1>10, <1>12, <1>13 DEF Gathered, c

(* It takes one byte of data more, whatever its value.                     *)
LEMMA GatherGoesOn ==
  ASSUME NEW h, Ready(h), NEW p, NEW n, NEW d, NEW w, WriteIs(w, p, n, d),
         NEW F, Trace(h, w, F), NEW j \in Nat, j + 1 < n, Gathered(h, w, F, p, n, d, j)
  PROVE  Gathered(h, w, F, p, n, d, j + 1)
<1> DEFINE c == CmdWrite
           b == d[j + 1]
           k == 4 + j
           m == 4 + (j + 1)
<1>1. n \in Nat /\ n \in Byte /\ p \in Byte /\ j + 1 \in 1 .. n /\ m \in 1 .. Len(w) /\ m - 1 = k /\ m = k + 1
  <2>1. n \in Nat /\ n \in Byte /\ p \in Byte /\ Len(w) = 4 + n
      BY Constants DEF WriteIs
  <2> QED BY <2>1
<1>2. w[m] = b /\ b \in Byte
    BY <1>1 DEF WriteIs
<1>3. F[m] = Step(F[k], b) /\ F[0] = h
    BY <1>1, <1>2 DEF Trace
<1>4. PICK a : Collects(F[k], h, c, a) /\ Data(a, p, n, d, j)
    BY DEF Gathered
<1> DEFINE t == Append(a, b)
<1>5. Data(t, p, n, d, j + 1)
    BY <1>1, <1>2, <1>4, DataGrows
<1>6. Accepts(h, c)
  <2>1. c \in Commands
      BY Numbers
  <2> QED BY <2>1, ReadyAccepts
<1>7. a \in Seq(Byte) /\ Len(a) + 1 < Arguments(c, t)
  <2>1. a \in Seq(Byte) /\ Len(a) = 2 + j
      BY <1>4 DEF Data
  <2>2. t[2] = n /\ Len(t) = 2 + (j + 1)
      BY <1>5 DEF Data
  <2> HIDE DEF t
  <2>3. ~(Len(t) < 2)
      BY <2>2
  <2>4. Arguments(c, t) = 2 + n
      BY <2>2, <2>3, Numbers DEF Arguments
  <2> QED BY <1>1, <2>1, <2>4
<1> HIDE DEF c, b
<1>8. Collects(F[m], h, c, t) /\ Out(F[k], b) = <<>>
  <2>1. Collects(Step(F[k], b), h, c, Append(a, b)) /\ Out(F[k], b) = <<>>
      BY <1>2, <1>4, <1>6, <1>7, TakesArgument
  <2> QED BY <1>3, <2>1
<1>9. F[m].inputData = h.inputData
    BY <1>8 DEF Collects, Same
<1>10. QuietTo(w, F, k) /\ k \in Nat /\ m \in Nat
    BY DEF Gathered
<1>11. QuietTo(w, F, m)
  <2>1. Out(F[k], w[m]) = <<>> /\ F[m].inputData = F[0].inputData /\ m = k + 1
      BY <1>1, <1>2, <1>3, <1>8, <1>9
  <2> HIDE DEF m, k
  <2> QED BY <1>10, <2>1, NextQuiet
<1> HIDE DEF t
<1> QED BY <1>5, <1>8, <1>9, <1>11 DEF Gathered, c

(* And so on, up to the last but one.                                      *)
LEMMA GathersAll ==
  ASSUME NEW h, Ready(h), NEW p, NEW n, NEW d, NEW w, WriteIs(w, p, n, d), n >= 1,
         NEW F, Trace(h, w, F)
  PROVE  \A j \in 0 .. n - 1 : Gathered(h, w, F, p, n, d, j)
<1>0. n \in Nat
    BY Constants DEF WriteIs
<1> DEFINE Bad == {j \in 0 .. n - 1 : ~Gathered(h, w, F, p, n, d, j)}
<1>1. SUFFICES ASSUME Bad # {} PROVE FALSE
    OBVIOUS
<1>2. Bad \in SUBSET Nat
    BY <1>0
<1>3. PICK j \in Bad : \A y \in Bad : j <= y
  <2> HIDE DEF Bad
  <2> QED BY <1>1, <1>2, Least
<1>4. j \in 0 .. n - 1 /\ j \in Nat /\ ~Gathered(h, w, F, p, n, d, j)
    BY <1>0
<1>5. j # 0
    BY <1>4, GatherStarts
<1> DEFINE i == j - 1
<1>6. i \in 0 .. n - 1 /\ ~(j <= i) /\ i \in Nat /\ i + 1 = j /\ i + 1 < n
    BY <1>0, <1>4, <1>5
<1>7. Gathered(h, w, F, p, n, d, i)
    BY <1>3, <1>6
<1> HIDE DEF i
<1>8. Gathered(h, w, F, p, n, d, i + 1)
    BY <1>6, <1>7, GatherGoesOn
<1> QED BY <1>4, <1>6, <1>8

(* CMD_WRITE overwrites its block of the pool, and nothing comes back.     *)
LEMMA SentWrite ==
  ASSUME NEW h, Ready(h), NEW d \in Seq(Byte), NEW p \in Byte, NEW n, n = Len(d), n >= 1, n \in Byte,
         p + n <= PoolSize, NEW F, Trace(h, <<CmdStart, CmdWrite, p, n>> \o d, F)
  PROVE  /\ QuietTo(<<CmdStart, CmdWrite, p, n>> \o d, F, 4 + n) /\ Ready(F[4 + n])
         /\ Len(<<CmdStart, CmdWrite, p, n>> \o d) = 4 + n
         /\ Overwritten(F[4 + n].pool, h.pool, p, n, d)
<1> DEFINE w == <<CmdStart, CmdWrite, p, n>> \o d
           c == CmdWrite
<1>1. WriteIs(w, p, n, d) /\ Trace(h, w, F)
    BY WriteBytes
<1> HIDE DEF w
<1> DEFINE i == n - 1
           k == 4 + i
           m == 4 + n
           b == d[n]
           g == F[k]
<1>2. n \in Nat /\ p \in Nat /\ i \in 0 .. n - 1 /\ n \in 1 .. n /\ m \in 1 .. Len(w) /\ Len(w) = m /\ m - 1 = k /\ m = k + 1
      /\ k \in Nat /\ m \in Nat /\ i \in Nat /\ i + 1 = n
  <2>1. n \in Nat /\ p \in Nat /\ Len(w) = 4 + n
      BY <1>1, Constants DEF WriteIs
  <2> QED BY <2>1
<1>3. Gathered(h, w, F, p, n, d, i)
    BY <1>1, <1>2, GathersAll
<1>4. w[m] = b /\ b \in Byte
    BY <1>1, <1>2 DEF WriteIs
<1>5. F[m] = Step(g, b) /\ F[0] = h
    BY <1>1, <1>2, <1>4 DEF Trace
<1>6. PICK a : Collects(g, h, c, a) /\ Data(a, p, n, d, i)
    BY <1>3 DEF Gathered
<1> DEFINE t == Append(a, b)
<1>7. Data(t, p, n, d, n)
  <2>1. b = d[i + 1]
      BY <1>2
  <2> HIDE DEF b, i
  <2>2. Data(Append(a, b), p, n, d, i + 1)
      BY <1>2, <1>4, <1>6, <2>1, DataGrows
  <2> QED BY <1>2, <2>2
<1>8. a \in Seq(Byte) /\ ~(Len(a) + 1 < Arguments(c, t))
  <2>1. a \in Seq(Byte) /\ Len(a) = 2 + i
      BY <1>6 DEF Data
  <2>2. t[2] = n /\ Len(t) = 2 + n
      BY <1>7 DEF Data
  <2> HIDE DEF t, i
  <2>3. ~(Len(t) < 2)
      BY <1>2, <2>2
  <2>4. Arguments(c, t) = 2 + n
      BY <2>2, <2>3, Numbers DEF Arguments
  <2> QED BY <1>2, <2>1, <2>4
<1> HIDE DEF c, b, g, k, m, i
<1>9. Executes(g, F[m], HandleCommand(g, c, t), Out(g, b))
    BY <1>4, <1>5, <1>6, <1>8, TakesLast
<1>10. Same(g, h) /\ Accepts(g, c) /\ g \in Hosts /\ h.pool # NoPool /\ h \in Hosts /\ g.pool = h.pool
  <2>1. c \in Commands
      BY Numbers DEF c
  <2>2. Accepts(h, c) /\ h.pool # NoPool /\ h \in Hosts
      BY <2>1, ReadyAccepts
  <2> QED BY <1>6, <2>2, AcceptsSame DEF Collects, HostOK, Same
<1> HIDE DEF t
<1>11. HandleCommand(g, c, t).h = WriteToPool(g, t) /\ HandleCommand(g, c, t).out = <<>>
    BY <1>10, HandleCases DEF Gives, c
<1> DEFINE x == SubSeq(t, 3, Len(t))
           q == SetSlice(g.pool, t[1], t[2], x)
<1>12. t \in Seq(Byte) /\ Len(t) = 2 + n /\ t[1] = p /\ t[2] = n /\ \A y \in 1 .. n : t[2 + y] = d[y]
    BY <1>7 DEF Data
<1>13. q \in Seq(Byte) /\ WriteToPool(g, t) = SetPool(g, q)
  <2>1. Len(t) >= 2
      BY <1>2, <1>12
  <2> QED BY <1>10, <1>12, <2>1, WritesToPool
<1>14. x \in Seq(Byte) /\ Len(x) = n /\ \A y \in 1 .. n : x[y] = d[y]
  <2>1. x \in Seq(Byte) /\ Len(x) = n /\ \A y \in 1 .. n : x[y] = t[2 + y]
      BY <1>2, <1>12
  <2> QED BY <1>12, <2>1
<1> HIDE DEF x
<1>15. q = SetSlice(h.pool, p, n, x)
    BY <1>10, <1>12
<1> HIDE DEF q
<1>16. h.pool \in Seq(Byte) /\ Len(h.pool) = PoolSize
    BY DEF Ready
<1>17. Overwritten(q, h.pool, p, n, x)
    BY <1>2, <1>14, <1>15, <1>16, SliceSet
<1>18. Overwritten(q, h.pool, p, n, d)
    BY <1>14, <1>17 DEF Overwritten
<1>19. /\ F[m].pool = q /\ F[m].initialized = h.initialized /\ F[m].inputData = h.inputData
       /\ HostOK(F[m]) /\ IsIdle(F[m]) /\ Out(g, b) = <<>>
    BY <1>9, <1>10, <1>11, <1>13, SetsPool DEF Executes, Same
<1>20. Ready(F[m])
    BY <1>16, <1>18, <1>19 DEF Ready, Overwritten
<1>21. QuietTo(w, F, m)
  <2>1. QuietTo(w, F, k)
      BY <1>3 DEF Gathered, k
  <2> QED BY <1>2, <1>4, <1>5, <1>19, <2>1, NextQuiet DEF g
<1> QED BY <1>2, <1>18, <1>19, <1>20, <1>21 DEF w, m

-----------------------------------------------------------------------------
(* The input on its way to the program: three sequences after each other.  *)

Parts(s, a, b, c) ==
    /\ a \in Seq(Byte) /\ b \in Seq(Byte) /\ c \in Seq(Byte) /\ s \in Seq(Byte)
    /\ Len(a) \in Nat /\ Len(b) \in Nat /\ Len(c) \in Nat /\ Len(s) = Len(a) + Len(b) + Len(c)
    /\ \A i \in 1 .. Len(a) : s[i] = a[i]
    /\ \A i \in 1 .. Len(b) : s[Len(a) + i] = b[i]
    /\ \A i \in 1 .. Len(c) : s[Len(a) + Len(b) + i] = c[i]

(* Three sequences, one behind the other.                                  *)
LEMMA JoinedParts ==
  ASSUME NEW a \in Seq(Byte), NEW b \in Seq(Byte), NEW c \in Seq(Byte)
  PROVE  Parts(a \o b \o c, a, b, c)
<1> DEFINE d == a \o b
           s == d \o c
<1>1. Len(a) \in Nat /\ Len(b) \in Nat /\ Len(c) \in Nat
    OBVIOUS
<1>2. /\ d \in Seq(Byte) /\ Len(d) = Len(a) + Len(b)
      /\ \A i \in 1 .. Len(a) + Len(b) : d[i] = IF i <= Len(a) THEN a[i] ELSE b[i - Len(a)]
    BY ConcatProperties
<1> HIDE DEF d
<1>3. /\ s \in Seq(Byte) /\ Len(s) = Len(d) + Len(c)
      /\ \A i \in 1 .. Len(d) + Len(c) : s[i] = IF i <= Len(d) THEN d[i] ELSE c[i - Len(d)]
  <2>1. d \in Seq(Byte)
      BY <1>2
  <2> QED BY <2>1, ConcatProperties
<1> HIDE DEF s
<1>4. ASSUME NEW i \in 1 .. Len(a) PROVE s[i] = a[i]
  <2>1. i \in 1 .. Len(a) + Len(b) /\ i \in 1 .. Len(d) + Len(c) /\ i <= Len(a) /\ i <= Len(d)
      BY <1>1, <1>2
  <2> QED BY <1>2, <1>3, <2>1
<1>5. ASSUME NEW i \in 1 .. Len(b) PROVE s[Len(a) + i] = b[i]
  <2> DEFINE k == Len(a) + i
  <2>1. k \in 1 .. Len(a) + Len(b) /\ k \in 1 .. Len(d) + Len(c) /\ ~(k <= Len(a)) /\ k <= Len(d) /\ k - Len(a) = i
      BY <1>1, <1>2
  <2> HIDE DEF k
  <2>2. s[k] = d[k] /\ d[k] = b[k - Len(a)]
      BY <1>2, <1>3, <2>1
  <2> QED BY <2>1, <2>2 DEF k
<1>6. ASSUME NEW i \in 1 .. Len(c) PROVE s[Len(a) + Len(b) + i] = c[i]
  <2> DEFINE k == Len(a) + Len(b) + i
  <2>1. k \in 1 .. Len(d) + Len(c) /\ ~(k <= Len(d)) /\ k - Len(d) = i
      BY <1>1, <1>2
  <2> HIDE DEF k
  <2>2. s[k] = c[k - Len(d)]
      BY <1>3, <2>1
  <2> QED BY <2>1, <2>2 DEF k
<1>7. Parts(s, a, b, c)
    BY <1>1, <1>2, <1>3, <1>4, <1>5, <1>6 DEF Parts
<1> QED BY <1>7 DEF s, d

(* The numbers in s are above lo, at most hi, and rise. *)
Rising(s, lo, hi) ==
    /\ s \in Seq(Byte) /\ Len(s) \in Nat
    /\ \A i \in 1 .. Len(s) : s[i] > lo /\ s[i] <= hi
    /\ \A i, j \in 1 .. Len(s) : i < j => s[i] < s[j]
Numbered(s, lo, hi) == Len(s) = hi - lo /\ \A i \in 1 .. Len(s) : s[i] = lo + i

(* t is s without the g elements after the first m. *)
Cut(t, s, m, g) ==
    /\ t \in Seq(Byte) /\ Len(t) \in Nat /\ m \in Nat /\ g \in Nat /\ Len(s) = Len(t) + g
    /\ \A i \in 1 .. Len(t) : t[i] = s[IF i <= m THEN i ELSE i + g]

(* Bytes in order stay so when some are taken out.                         *)
LEMMA CutRises ==
  ASSUME NEW t, NEW s, NEW m, NEW g, Cut(t, s, m, g), NEW lo, NEW hi, Rising(s, lo, hi)
  PROVE  Rising(t, lo, hi)
<1> DEFINE at(i) == IF i <= m THEN i ELSE i + g
<1>1. ASSUME NEW i \in 1 .. Len(t) PROVE t[i] = s[at(i)] /\ at(i) \in 1 .. Len(s)
    BY DEF Cut
<1>2. ASSUME NEW i \in 1 .. Len(t), NEW j \in 1 .. Len(t), i < j PROVE at(i) < at(j)
    BY <1>2 DEF Cut
<1> HIDE DEF at
<1>3. ASSUME NEW i \in 1 .. Len(t) PROVE t[i] > lo /\ t[i] <= hi
    BY <1>1 DEF Rising
<1>4. ASSUME NEW i \in 1 .. Len(t), NEW j \in 1 .. Len(t), i < j PROVE t[i] < t[j]
  <2>1. at(i) < at(j) /\ at(i) \in 1 .. Len(s) /\ at(j) \in 1 .. Len(s)
      BY <1>1, <1>2, <1>4
  <2>2. s[at(i)] < s[at(j)]
      BY <2>1 DEF Rising
  <2> QED BY <1>1, <2>2
<1> QED BY <1>3, <1>4 DEF Rising, Cut

(* Bytes without a gap stay so when the first are taken off.               *)
LEMMA SameNumbered ==
  ASSUME NEW t, NEW s, NEW m, Cut(t, s, m, 0), NEW lo, NEW hi, Numbered(s, lo, hi)
  PROVE  Numbered(t, lo, hi)
<1>1. Len(t) = Len(s) /\ Len(t) \in Nat
    BY DEF Cut
<1>2. ASSUME NEW i \in 1 .. Len(t) PROVE t[i] = lo + i
  <2>1. t[i] = s[i] /\ i \in 1 .. Len(s)
      BY <1>1 DEF Cut
  <2> QED BY <2>1 DEF Numbered
<1> QED BY <1>1, <1>2 DEF Numbered

(* Of the data b, c bytes are taken out; w holds the first k of them, and *)
(* e is what is left.                                                      *)
Divided(b, c, w, k, e) ==
    /\ c \in 0 .. Len(b) /\ k \in 0 .. c
    /\ Len(w) = k /\ \A i \in 1 .. k : w[i] = b[i]
    /\ Len(e) = Len(b) - c /\ \A i \in 1 .. Len(e) : e[i] = b[c + i]

(* The host gives k of its c bytes of input to the wire and loses the      *)
(* rest.                                                                   *)
LEMMA GivesData ==
  ASSUME NEW s, NEW t, NEW a, NEW b, NEW q, NEW w, NEW e, NEW c, NEW k,
         Len(a) = 0, Parts(s, a, b, q), Parts(t, w, e, q), Divided(b, c, w, k, e)
  PROVE  Cut(t, s, k, c - k)
<1>d. /\ c \in 0 .. Len(b) /\ k \in 0 .. c
      /\ Len(w) = k /\ \A i \in 1 .. k : w[i] = b[i]
      /\ Len(e) = Len(b) - c /\ \A i \in 1 .. Len(e) : e[i] = b[c + i]
    BY DEF Divided
<1>1. Len(b) \in Nat /\ Len(q) \in Nat /\ Len(w) \in Nat /\ Len(e) \in Nat
    BY DEF Parts
<1>2. Len(s) = Len(b) + Len(q) /\ Len(t) = k + (Len(b) - c) + Len(q) /\ c \in Nat /\ k \in Nat /\ c - k \in Nat
    BY <1>1, <1>d DEF Parts
<1>3. /\ \A i \in 1 .. Len(b) : s[i] = b[i]
      /\ \A i \in 1 .. Len(q) : s[Len(b) + i] = q[i]
  <2>1. /\ \A i \in 1 .. Len(b) : s[Len(a) + i] = b[i]
        /\ \A i \in 1 .. Len(q) : s[Len(a) + Len(b) + i] = q[i]
      BY <1>1 DEF Parts
  <2>2. \A i \in Nat : Len(a) + i = i
      OBVIOUS
  <2> QED BY <1>1, <2>1, <2>2
<1>4. ASSUME NEW i \in 1 .. Len(t) PROVE t[i] = s[IF i <= k THEN i ELSE i + (c - k)]
  <2>1. CASE i <= k
    <3>1. i \in 1 .. Len(w) /\ i \in 1 .. k /\ i \in 1 .. Len(b)
        BY <1>1, <1>2, <1>d, <2>1
    <3>2. t[i] = w[i] /\ w[i] = b[i] /\ s[i] = b[i]
        BY <1>3, <1>d, <3>1 DEF Parts
    <3> QED BY <2>1, <3>2
  <2>2. CASE i > k /\ i <= k + Len(e)
    <3> DEFINE j == i - k
    <3>1. j \in 1 .. Len(e) /\ c + j \in 1 .. Len(b) /\ Len(w) + j = i /\ i + (c - k) = c + j /\ ~(i <= k)
        BY <1>1, <1>2, <1>d, <2>2
    <3> HIDE DEF j
    <3>2. t[Len(w) + j] = e[j]
        BY <3>1 DEF Parts
    <3>3. e[j] = b[c + j] /\ s[c + j] = b[c + j]
        BY <1>3, <1>d, <3>1
    <3> QED BY <3>1, <3>2, <3>3
  <2>3. CASE i > k + Len(e)
    <3> DEFINE j == i - (k + Len(e))
    <3>1. j \in 1 .. Len(q) /\ Len(w) + Len(e) + j = i /\ i + (c - k) = Len(b) + j /\ ~(i <= k)
        BY <1>1, <1>2, <1>d, <2>3
    <3> HIDE DEF j
    <3>2. t[Len(w) + Len(e) + j] = q[j]
        BY <3>1 DEF Parts
    <3>3. s[Len(b) + j] = q[j]
        BY <1>3, <1>d, <3>1
    <3> QED BY <3>1, <3>2, <3>3
  <2> QED BY <1>1, <1>2, <1>d, <2>1, <2>2, <2>3
<1> QED BY <1>1, <1>2, <1>4, <1>d DEF Cut, Parts

(* What is on the way to the board is lost. *)
LEMMA LosesWay ==
  ASSUME NEW s, NEW t, NEW w, NEW b, NEW q, Parts(s, w, b, q), Parts(t, <<>>, b, q)
  PROVE  Cut(t, s, 0, Len(w))
<1> DEFINE e == <<>>
<1>0. Len(e) = 0 /\ Parts(t, e, b, q)
    OBVIOUS
<1> HIDE DEF e
<1>1. Len(b) \in Nat /\ Len(q) \in Nat /\ Len(w) \in Nat /\ Len(t) = Len(b) + Len(q) /\ Len(s) = Len(w) + Len(b) + Len(q)
    BY <1>0 DEF Parts
<1>2. ASSUME NEW i \in 1 .. Len(t) PROVE t[i] = s[i + Len(w)]
  <2>1. CASE i <= Len(b)
    <3>1. i \in 1 .. Len(b) /\ Len(w) + i = i + Len(w) /\ Len(e) + i = i
        BY <1>0, <1>1, <2>1
    <3>2. t[Len(e) + i] = b[i] /\ s[Len(w) + i] = b[i]
        BY <1>0, <3>1 DEF Parts
    <3> QED BY <3>1, <3>2
  <2>2. CASE i > Len(b)
    <3> DEFINE j == i - Len(b)
    <3>1. j \in 1 .. Len(q) /\ Len(w) + Len(b) + j = i + Len(w) /\ Len(e) + Len(b) + j = i
        BY <1>0, <1>1, <2>2
    <3> HIDE DEF j
    <3>2. t[Len(e) + Len(b) + j] = q[j] /\ s[Len(w) + Len(b) + j] = q[j]
        BY <1>0, <3>1 DEF Parts
    <3> QED BY <3>1, <3>2
  <2> QED BY <1>1, <2>1, <2>2
<1>3. \A i \in 1 .. Len(t) : ~(i <= 0)
    BY <1>1
<1> QED BY <1>0, <1>1, <1>2, <1>3 DEF Cut, Parts

(* The I/O thread takes a byte out of the queue. *)
LEMMA MovesInput ==
  ASSUME NEW s, NEW t, NEW w, NEW b, NEW q, Parts(s, w, b, q), q # <<>>,
         Parts(t, w, Append(b, Head(q)), Tail(q))
  PROVE  Cut(t, s, 0, 0)
<1> DEFINE x == Head(q)
           d == Append(b, x)
           r == Tail(q)
<1>0. Parts(t, w, d, r)
    OBVIOUS
<1>1. Len(b) \in Nat /\ Len(q) \in Nat /\ Len(w) \in Nat /\ q \in Seq(Byte) /\ b \in Seq(Byte)
      /\ Len(s) = Len(w) + Len(b) + Len(q)
    BY DEF Parts
<1>2. x = q[1] /\ x \in Byte /\ Len(r) = Len(q) - 1 /\ (\A i \in 1 .. Len(q) - 1 : r[i] = q[i + 1]) /\ Len(q) >= 1
    BY <1>1, HeadTailProperties, EmptySeq
<1> HIDE DEF x, r
<1>3. AppendIs(b, x, d)
    BY <1>1, <1>2, Appends
<1> HIDE DEF d
<1>4. Len(d) = Len(b) + 1
    BY <1>3 DEF AppendIs
<1>5. Len(t) = Len(s) /\ Len(t) \in Nat
    BY <1>0, <1>1, <1>2, <1>4 DEF Parts
<1>6. ASSUME NEW i \in 1 .. Len(t) PROVE t[i] = s[i]
  <2>1. CASE i <= Len(w)
    <3>1. i \in 1 .. Len(w)
        BY <1>1, <2>1
    <3> QED BY <1>0, <3>1 DEF Parts
  <2>2. CASE i > Len(w) /\ i <= Len(w) + Len(b)
    <3> DEFINE j == i - Len(w)
    <3>1. j \in 1 .. Len(b) /\ j \in 1 .. Len(d) /\ Len(w) + j = i
        BY <1>1, <1>4, <2>2
    <3> HIDE DEF j
    <3>2. t[Len(w) + j] = d[j] /\ s[Len(w) + j] = b[j]
        BY <1>0, <3>1 DEF Parts
    <3>3. d[j] = b[j]
        BY <1>3, <3>1 DEF AppendIs
    <3> QED BY <3>1, <3>2, <3>3
  <2>3. CASE i = Len(w) + Len(b) + 1
    <3>1. Len(b) + 1 \in 1 .. Len(d) /\ Len(w) + (Len(b) + 1) = i /\ 1 \in 1 .. Len(q)
        BY <1>1, <1>2, <1>4, <2>3
    <3>2. t[Len(w) + (Len(b) + 1)] = d[Len(b) + 1]
        BY <1>0, <3>1 DEF Parts
    <3>3. s[Len(w) + Len(b) + 1] = q[1]
        BY <3>1 DEF Parts
    <3>4. d[Len(b) + 1] = x
        BY <1>3 DEF AppendIs
    <3> QED BY <1>2, <2>3, <3>1, <3>2, <3>3, <3>4
  <2>4. CASE i > Len(w) + Len(b) + 1
    <3> DEFINE j == i - (Len(w) + Len(b) + 1)
    <3>1. j \in 1 .. Len(r) /\ j + 1 \in 1 .. Len(q) /\ Len(w) + Len(d) + j = i /\ Len(w) + Len(b) + (j + 1) = i
          /\ j \in 1 .. Len(q) - 1
        BY <1>1, <1>2, <1>4, <1>5, <2>4
    <3> HIDE DEF j
    <3>2. t[Len(w) + Len(d) + j] = r[j]
        BY <1>0, <3>1 DEF Parts
    <3>3. s[Len(w) + Len(b) + (j + 1)] = q[j + 1]
        BY <3>1 DEF Parts
    <3> QED BY <1>2, <3>1, <3>2, <3>3
  <2> QED BY <1>1, <1>5, <2>1, <2>2, <2>3, <2>4
<1>7. \A i \in 1 .. Len(t) : ~(i <= 0) /\ i + 0 = i
    BY <1>5
<1>8. Len(s) = Len(t) + 0 /\ t \in Seq(Byte)
    BY <1>0, <1>5 DEF Parts
<1> QED BY <1>5, <1>6, <1>7, <1>8 DEF Cut

(* The program takes the first byte. *)
LEMMA TakesFirstByte ==
  ASSUME NEW s, NEW lo, NEW hi, lo \in Nat, hi \in Nat, Rising(s, lo, hi), NEW t,
         t \in Seq(Byte), Len(s) = Len(t) + 1, \A i \in 1 .. Len(t) : t[i] = s[i + 1]
  PROVE  /\ Rising(t, s[1], hi) /\ s[1] \in Nat /\ s[1] > lo /\ s[1] <= hi
         /\ Numbered(s, lo, hi) => Numbered(t, s[1], hi)
<1>1. Len(t) \in Nat /\ 1 \in 1 .. Len(s)
    OBVIOUS
<1>2. s[1] \in Nat /\ s[1] > lo /\ s[1] <= hi
    BY <1>1, Element DEF Rising
<1>3. \A i \in 1 .. Len(t) : i + 1 \in 1 .. Len(s) /\ 1 < i + 1
    BY <1>1
<1>4. ASSUME NEW i \in 1 .. Len(t) PROVE t[i] > s[1] /\ t[i] <= hi
  <2>1. s[1] < s[i + 1] /\ s[i + 1] <= hi /\ s[i + 1] \in Nat
      BY <1>1, <1>3, Element DEF Rising
  <2> QED BY <1>2, <2>1
<1>5. ASSUME NEW i \in 1 .. Len(t), NEW j \in 1 .. Len(t), i < j PROVE t[i] < t[j]
  <2>1. i + 1 < j + 1
      BY <1>1, <1>5
  <2> QED BY <1>3, <2>1 DEF Rising
<1>6. ASSUME Numbered(s, lo, hi) PROVE Numbered(t, s[1], hi)
  <2>1. s[1] = lo + 1 /\ Len(s) = hi - lo
      BY <1>1, <1>6 DEF Numbered
  <2>2. ASSUME NEW i \in 1 .. Len(t) PROVE t[i] = s[1] + i
    <3> DEFINE k == i + 1
    <3>1. k \in 1 .. Len(s) /\ t[i] = s[k] /\ i \in Nat
        BY <1>1, <1>3
    <3> HIDE DEF k
    <3>2. s[k] = lo + k
        BY <1>6, <3>1 DEF Numbered
    <3>3. lo + k = s[1] + i
        BY <1>2, <2>1, <3>1 DEF k
    <3> QED BY <3>1, <3>2, <3>3
  <2>3. Len(t) = hi - s[1]
    <3>1. Len(t) + 1 = hi - lo
        BY <2>1
    <3>2. Len(t) = hi - (lo + 1)
        BY <1>1, <3>1
    <3> QED BY <2>1, <3>2
  <2> QED BY <2>2, <2>3 DEF Numbered
<1> QED BY <1>1, <1>2, <1>4, <1>5, <1>6 DEF Rising

(* One more is typed. *)
LEMMA TypesOne ==
  ASSUME NEW s, NEW lo, NEW hi, lo \in Nat, hi \in Nat, lo <= hi, Rising(s, lo, hi), NEW t,
         t \in Seq(Byte), Len(t) = Len(s) + 1, t[Len(s) + 1] = hi + 1, \A i \in 1 .. Len(s) : t[i] = s[i]
  PROVE  Rising(t, lo, hi + 1) /\ (Numbered(s, lo, hi) => Numbered(t, lo, hi + 1))
<1>1. Len(s) \in Nat /\ s \in Seq(Byte)
    BY DEF Rising
<1>2. ASSUME NEW i \in 1 .. Len(t)
      PROVE  (i = Len(s) + 1 /\ t[i] = hi + 1) \/ (i \in 1 .. Len(s) /\ t[i] = s[i] /\ s[i] > lo /\ s[i] <= hi /\ s[i] \in Nat)
  <2>1. CASE i = Len(s) + 1
      BY <2>1
  <2>2. CASE i # Len(s) + 1
    <3>1. i \in 1 .. Len(s)
        BY <1>1, <2>2
    <3> QED BY <1>1, <3>1, Element DEF Rising
  <2> QED BY <2>1, <2>2
<1>3. ASSUME NEW i \in 1 .. Len(t) PROVE t[i] > lo /\ t[i] <= hi + 1
    BY <1>2
<1>4. ASSUME NEW i \in 1 .. Len(t), NEW j \in 1 .. Len(t), i < j PROVE t[i] < t[j]
  <2>1. i \in 1 .. Len(s)
      BY <1>1, <1>4
  <2>2. t[i] = s[i] /\ s[i] <= hi /\ s[i] \in Nat
      BY <1>1, <2>1, Element DEF Rising
  <2>3. CASE j = Len(s) + 1
      BY <2>2, <2>3
  <2>4. CASE j \in 1 .. Len(s)
      BY <1>4, <2>1, <2>4 DEF Rising
  <2> QED BY <1>2, <2>3, <2>4
<1>5. ASSUME Numbered(s, lo, hi) PROVE Numbered(t, lo, hi + 1)
  <2>1. Len(s) = hi - lo
      BY <1>5 DEF Numbered
  <2>2. ASSUME NEW i \in 1 .. Len(t) PROVE t[i] = lo + i
    <3>1. CASE i = Len(s) + 1
        BY <2>1, <3>1
    <3>2. CASE i # Len(s) + 1
      <4>1. i \in 1 .. Len(s)
          BY <1>1, <3>2
      <4> QED BY <1>5, <4>1 DEF Numbered
    <3> QED BY <3>1, <3>2
  <2> QED BY <1>1, <2>1, <2>2 DEF Numbered
<1> QED BY <1>1, <1>3, <1>4, <1>5 DEF Rising

-----------------------------------------------------------------------------
(* The inductive invariant.  F is the trace of the bytes on the way to the *)
(* host: F[k] is the host when it has taken in k of them.                  *)

Rest == OnTheWay \o host.inputData \o inputQueue
AnswersFit == MaxTyped < BufferSize

Kinds == {"none", "read", "ping", "available", "availableAtLeast", "input"}
Ops == [kind : Kinds, p : 0 .. PoolSize, n : Byte]
Basics ==
    /\ phase \in Phases \ {"peeked"} /\ op \in Ops /\ got \in Seq(Byte) /\ gotinit \in BOOLEAN
    /\ availableMin \in 0 .. MaxTyped /\ toBoard \in Seq(Byte) /\ inputQueue \in Seq(Byte)
    /\ typed \in 0 .. MaxTyped /\ taken \in 0 .. typed /\ faults \in Nat

(* The input on its way to the program, in order and, unless a fault or a  *)
(* full buffer lost some of it, complete.                                  *)
Streams(rest, data, queue, lo, hi, lost) ==
    /\ Rising(rest, lo, hi)
    /\ Len(data) + Len(queue) <= hi
    /\ lost = 0 /\ AnswersFit => Numbered(rest, lo, hi)
Stream == Streams(Rest, host.inputData, inputQueue, taken, typed, faults)

(* start(): the host may still have to take in the end of an older         *)
(* command, but once it has answered, only handshakes are on their way.    *)
Startup == {"start", "handshake", "purge"}
HandshakeBytes == {CmdStart, CmdInit}
Handshakes(w, k) == \A j \in k .. Len(w) : w[j] \in HandshakeBytes
Greeted == host.command = NoCommand /\ host.initialized = TRUE /\ Handshakes(toHost, 1)
AnswersHandshakes(w, F) ==
    \A k \in 1 .. Len(w) :
        Out(F[k - 1], w[k]) # <<>> => F[k].initialized = TRUE /\ Handshakes(w, k + 1)
EndsHandshake ==
    IF toHost = <<>> THEN host.command = NoCommand => host.processState = "idle"
    ELSE toHost[Len(toHost)] = CmdInit
InStart(F) ==
    /\ toBoard # <<>> \/ phase = "purge" \/ gotinit = TRUE => Greeted
    /\ phase # "start" => EndsHandshake
    /\ AnswersHandshakes(toHost, F)
    /\ faults = 0 => host.command = NoCommand /\ Handshakes(toHost, 1)
    /\ availableMin = 0

(* The program runs: nothing comes back from the writes on their way.      *)
InReady(F) ==
    /\ toBoard = <<>> /\ availableMin <= Len(host.inputData)
    /\ QuietTo(toHost, F, Len(toHost)) /\ Ready(F[Len(toHost)])

(* The last byte on its way is the end of a query: the host g sends out    *)
(* and is h then.                                                          *)
Query == {"bytes", "pong", "count", "granted"}
Block(out, pool, p, n) ==
    /\ out \in Seq(Byte) /\ Len(out) = n /\ n >= 1 /\ p + n <= PoolSize
    /\ \A i \in 1 .. n : out[i] = pool[p + i]
Grant(out, g, h, c) ==
    /\ out = <<c>> \o SubSeq(g.inputData, 1, c)
    /\ h.inputData = SubSeq(g.inputData, c + 1, Len(g.inputData))
Replies(ph, p, n, g, h, out) ==
    /\ ph # "granted" => h.inputData = g.inputData
    /\ ph = "bytes" => Block(out, h.pool, p, n)
    /\ ph = "pong" => out = Reply(CmdPing)
    /\ ph = "count" => out = <<Len(h.inputData)>>
    /\ ph = "granted" => \E c \in 0 .. Len(g.inputData) : Grant(out, g, h, c)
(* What the bytes q of a query do to a host that waits for a command.      *)
Asks(ph, p, n, q, G) ==
    /\ QuietTo(q, G, Len(q) - 1) /\ Ready(G[Len(q)]) /\ G[Len(q)].pool = G[0].pool
    /\ Replies(ph, p, n, G[Len(q) - 1], G[Len(q)], Out(G[Len(q) - 1], q[Len(q)]))
InQuery(F) ==
    /\ toBoard = <<>> /\ got = <<>> /\ availableMin <= Len(host.inputData)
    /\ QuietTo(toHost, F, Len(toHost) - 1) /\ Ready(F[Len(toHost)])
    /\ Replies(phase, op.p, op.n, F[Len(toHost) - 1], F[Len(toHost)],
               Out(F[Len(toHost) - 1], toHost[Len(toHost)]))

(* The answer is on its way to the board. *)
Waits ==
    /\ Ready(host)
    /\ phase = "bytes" =>
          /\ availableMin <= Len(host.inputData) /\ op.n >= 1 /\ op.p + op.n <= PoolSize
          /\ Len(got) < op.n /\ Len(got) + Len(toBoard) <= op.n
          /\ \A i \in 1 .. Len(got) : got[i] = host.pool[op.p + i]
          /\ \A i \in 1 .. Len(toBoard) : toBoard[i] = host.pool[op.p + Len(got) + i]
    /\ phase = "pong" =>
          /\ availableMin <= Len(host.inputData)
          /\ Len(toBoard) <= 2 /\ (Len(toBoard) = 2 => toBoard[1] = CmdStart)
    /\ phase = "count" =>
          /\ availableMin <= Len(host.inputData)
          /\ Len(toBoard) <= 1 /\ (toBoard # <<>> => toBoard[1] <= Len(host.inputData))
    /\ phase = "granted" =>
          /\ got = <<>>
          /\ toBoard # <<>> => /\ Len(toBoard) <= 1 + toBoard[1]
                               /\ availableMin <= Len(host.inputData) + toBoard[1]
    /\ phase = "input" =>
          /\ Len(got) < op.n /\ Len(got) + Len(toBoard) <= op.n
          /\ availableMin <= Len(host.inputData) + op.n

Protocol(F) ==
    /\ phase \in Startup => InStart(F)
    /\ phase = "ready" => InReady(F)
    /\ phase \in Query /\ toHost # <<>> => InQuery(F)
    /\ phase \in Query \cup {"input"} /\ toHost = <<>> => Waits
    /\ phase = "input" => toHost = <<>>

Inv(F) == Trace(host, toHost, F) /\ Basics /\ Stream /\ Protocol(F)
IInv == \E F : Inv(F)

(* What the invariant says of each variable.                               *)
LEMMA Ranges ==
  ASSUME Basics, NEW F, Trace(host, toHost, F)
  PROVE  /\ HostOK(host) /\ host \in Hosts /\ F[0] = host
         /\ host.inputData \in Seq(Byte) /\ Len(host.inputData) \in Nat /\ Len(host.inputData) <= MaxTyped
         /\ toHost \in Seq(Byte) /\ Len(toHost) \in Nat /\ inputQueue \in Seq(Byte) /\ Len(inputQueue) \in Nat
         /\ OnTheWay \in Seq(Byte) /\ Len(OnTheWay) \in Nat
         /\ taken \in Nat /\ typed \in Nat /\ taken <= typed /\ typed <= MaxTyped /\ faults \in Nat
<1>1. HostOK(host) /\ F[0] = host /\ toHost \in Seq(Byte)
  <2>1. 0 \in 0 .. Len(toHost)
      BY DEF Trace
  <2> QED BY <2>1 DEF Trace
<1>2. host \in Hosts /\ Len(host.inputData) <= MaxTyped
    BY <1>1 DEF HostOK
<1>3. host.inputData \in Seq(Byte)
    BY <1>2 DEF Hosts
<1>4. OnTheWay \in Seq(Byte)
  <2>1. toBoard \in Seq(Byte) /\ <<>> \in Seq(Byte)
      BY DEF Basics
  <2>2. toBoard # <<>> => Tail(toBoard) \in Seq(Byte)
      BY <2>1
  <2> QED BY <2>1, <2>2 DEF OnTheWay
<1>5. inputQueue \in Seq(Byte) /\ taken \in Nat /\ typed \in Nat /\ taken <= typed /\ typed <= MaxTyped /\ faults \in Nat
    BY Constants DEF Basics
<1> QED BY <1>1, <1>2, <1>3, <1>4, <1>5

(* Nothing is on its way to the board that the program asked the host for. *)
LEMMA NoWay ==
  ASSUME phase \notin {"granted", "input"} \/ (phase = "granted" /\ toBoard = <<>>)
  PROVE  OnTheWay = <<>>
BY DEF OnTheWay

(* A sequence that is cut still rises, and is complete where nothing is lost. *)
LEMMA StreamsCut ==
  ASSUME NEW s, NEW b, NEW q, NEW lo, NEW hi, NEW lost, Streams(s, b, q, lo, hi, lost),
         NEW t, NEW m, NEW g, Cut(t, s, m, g), NEW e, NEW r, Len(e) + Len(r) <= hi, NEW gone,
         gone = 0 /\ AnswersFit => lost = 0 /\ g = 0
  PROVE  Streams(t, e, r, lo, hi, gone)
<1>1. Rising(t, lo, hi)
    BY CutRises DEF Streams
<1>2. gone = 0 /\ AnswersFit => Numbered(t, lo, hi)
  <2> SUFFICES ASSUME gone = 0 /\ AnswersFit PROVE Numbered(t, lo, hi)
      OBVIOUS
  <2>1. Cut(t, s, m, 0) /\ Numbered(s, lo, hi)
      BY DEF Streams
  <2> QED BY <2>1, SameNumbered
<1> QED BY <1>1, <1>2 DEF Streams

(* The host takes c bytes of its input out, and the first k of them are on *)
(* their way.                                                              *)
LEMMA StreamGives ==
  ASSUME NEW b \in Seq(Byte), NEW q \in Seq(Byte), NEW lo, NEW hi \in Nat, NEW lost,
         Streams(<<>> \o b \o q, b, q, lo, hi, lost),
         NEW c \in 0 .. Len(b), NEW k \in 0 .. c, NEW w \in Seq(Byte), Len(w) = k, \A i \in 1 .. k : w[i] = b[i],
         lost = 0 /\ AnswersFit => c = k
  PROVE  Streams(w \o SubSeq(b, c + 1, Len(b)) \o q, SubSeq(b, c + 1, Len(b)), q, lo, hi, lost)
<1> DEFINE e == SubSeq(b, c + 1, Len(b))
           n == <<>>
<1>0. n \in Seq(Byte) /\ Len(b) \in Nat /\ Len(q) \in Nat /\ c \in Nat /\ k \in Nat
    OBVIOUS
<1>1. e \in Seq(Byte) /\ Len(e) = Len(b) - c /\ \A i \in 1 .. Len(e) : e[i] = b[c + i]
    OBVIOUS
<1> HIDE DEF e
<1>2. Parts(<<>> \o b \o q, <<>>, b, q)
  <2> HIDE DEF n
  <2>1. Parts(n \o b \o q, n, b, q)
      BY <1>0, JoinedParts
  <2> QED BY <2>1 DEF n
<1>3. Parts(w \o e \o q, w, e, q)
    BY <1>1, JoinedParts
<1> DEFINE s == <<>> \o b \o q
           t == w \o e \o q
<1>s. Parts(s, <<>>, b, q) /\ Parts(t, w, e, q) /\ Streams(s, b, q, lo, hi, lost)
    BY <1>2, <1>3
<1> HIDE DEF s, t
<1>4. Cut(t, s, k, c - k)
  <2>1. Parts(s, n, b, q) /\ Len(n) = 0
      BY <1>s
  <2>2. Divided(b, c, w, k, e)
      BY <1>0, <1>1 DEF Divided
  <2> HIDE DEF n
  <2> QED BY <1>s, <2>1, <2>2, GivesData
<1>5. Len(e) + Len(q) <= hi
  <2>1. Len(b) + Len(q) <= hi
      BY DEF Streams
  <2> QED BY <1>0, <1>1, <2>1
<1>6. lost = 0 /\ AnswersFit => lost = 0 /\ c - k = 0
    BY <1>0
<1>7. Streams(t, e, q, lo, hi, lost)
    BY <1>4, <1>5, <1>6, <1>s, StreamsCut
<1> QED BY <1>7 DEF e, t

-----------------------------------------------------------------------------
(* The initial state.                                                      *)

(* In the beginning nothing is on its way.                                 *)
LEMMA InitInv == Init => IInv
<1> SUFFICES ASSUME Init PROVE IInv
    OBVIOUS
<1> DEFINE F == [k \in 0 .. 0 |-> host]
<1>0. <<>> \in Seq(Byte) /\ Len(<<>>) = 0 /\ 0 \in Byte
    BY Constants DEF Commands, CmdInit, CmdPing
<1>1. HostOK(host)
  <2>1. host \in Hosts
      BY <1>0 DEF Init, Hosts
  <2> QED BY <1>0, <2>1, Constants DEF Init, HostOK
<1>2. Trace(host, toHost, F)
    BY <1>1, TraceEmpty DEF Init
<1>3. Basics
  <2>1. NoOp \in Ops
      BY <1>0, Constants DEF NoOp, Ops, Kinds
  <2>2. /\ phase = "start" /\ op = NoOp /\ got = <<>> /\ gotinit = FALSE /\ availableMin = 0 /\ inputQueue = <<>>
        /\ typed = 0 /\ taken = 0 /\ toBoard = <<>> /\ faults = 0
      BY DEF Init
  <2>3. 0 \in 0 .. MaxTyped /\ 0 \in Nat /\ 0 \in 0 .. 0
      BY Constants
  <2> QED BY <1>0, <2>1, <2>2, <2>3 DEF Basics, Phases
<1>4. Rest = <<>> /\ Len(host.inputData) = 0 /\ Len(inputQueue) = 0
  <2>1. OnTheWay = <<>> /\ host.inputData = <<>> /\ inputQueue = <<>>
      BY DEF Init, OnTheWay
  <2>2. <<>> \o <<>> \o <<>> = <<>>
      BY <1>0, ConcatEmptySeq
  <2> QED BY <1>0, <2>1, <2>2 DEF Rest
<1>5. Stream
  <2>1. Rising(<<>>, 0, 0) /\ Numbered(<<>>, 0, 0)
      BY <1>0 DEF Rising, Numbered
  <2>2. taken = 0 /\ typed = 0
      BY DEF Init
  <2> QED BY <1>4, <2>1, <2>2 DEF Stream, Streams
<1>6. InStart(F)
    BY <1>0 DEF Init, InStart, EndsHandshake, AnswersHandshakes, Handshakes
<1>7. Protocol(F)
  <2>1. phase = "start"
      BY DEF Init
  <2> HIDE DEF F
  <2> QED BY <1>6, <2>1 DEF Protocol, Query
<1> QED BY <1>2, <1>3, <1>5, <1>7 DEF IInv, Inv

-----------------------------------------------------------------------------
(* The board: start().                                                     *)

(* Nothing happens to the input.                                           *)
LEMMA StreamStays ==
  ASSUME Stream, OnTheWay' = OnTheWay, UNCHANGED <<host, inputVars, taken, faults>>
  PROVE  Stream'
<1>1. Rest' = Rest /\ host' = host /\ inputQueue' = inputQueue /\ typed' = typed /\ taken' = taken /\ faults' = faults
    BY DEF Rest, inputVars
<1> QED BY <1>1 DEF Stream

(* start() sends its handshake, behind what is left of older calls.        *)
LEMMA SendInitInv ==
  ASSUME NEW F, Inv(F), SendInit
  PROVE  IInv'
<1>1. phase \in {"start", "handshake"} /\ phase' = "handshake" /\ gotinit' = FALSE
      /\ UNCHANGED <<op, got, availableMin, host, inputVars, toBoard, taken, faults>>
      /\ toHost' = toHost \o <<CmdStart, CmdInit>>
    BY DEF SendInit, Send
<1>2. Trace(host, toHost, F) /\ Basics /\ Stream /\ InStart(F)
    BY <1>1 DEF Inv, Protocol, Startup
<1> DEFINE n == Len(toHost)
           q == <<CmdStart, CmdInit>>
<1>3. q \in Seq(Byte) /\ Len(q) = 2 /\ q[1] = CmdStart /\ q[2] = CmdInit
      /\ CmdStart \in Byte /\ CmdInit \in Byte /\ CmdStart # CmdPing /\ CmdInit # CmdPing
    BY Constants, Numbers
<1>4. HostOK(F[n])
    BY <1>2 DEF Trace
<1> HIDE DEF q
<1>5. PICK G : Trace(F[n], q, G)
    BY <1>3, <1>4, TraceExists
<1>j. PICK J : Trace(host, toHost', J) /\ Prolongs(toHost, F, q, G, toHost', J)
  <2>1. toHost' = toHost \o q
      BY <1>1 DEF q
  <2> QED BY <1>2, <1>5, <2>1, TraceAppend
<1>6. /\ Trace(host, toHost', J) /\ n \in Nat /\ Len(toHost') = n + 2
      /\ \A k \in 0 .. n : J[k] = F[k]
      /\ \A k \in 0 .. 2 : J[n + k] = G[k]
      /\ \A k \in 1 .. n : toHost'[k] = toHost[k]
      /\ \A k \in 1 .. 2 : toHost'[n + k] = q[k]
    BY <1>3, <1>j DEF Prolongs
<1>7. toHost'[n + 1] = CmdStart /\ toHost'[n + 2] = CmdInit
    BY <1>3, <1>6
<1>8. ASSUME NEW k \in 1 .. n + 2 PROVE k \in 1 .. n \/ k = n + 1 \/ k = n + 2
    BY <1>6
<1>9. ASSUME NEW i \in 1 .. n + 1, Handshakes(toHost, i) PROVE Handshakes(toHost', i)
  <2>1. ASSUME NEW j \in i .. Len(toHost') PROVE toHost'[j] \in HandshakeBytes
    <3>1. j \in 1 .. n + 2 /\ (j \in 1 .. n => j \in i .. n)
        BY <1>6
    <3>2. CASE j \in i .. n
      <4>1. toHost[j] \in HandshakeBytes /\ j \in 1 .. n
          BY <1>6, <1>9, <3>2 DEF Handshakes
      <4> QED BY <1>6, <4>1
    <3> QED BY <1>7, <1>8, <3>1, <3>2 DEF HandshakeBytes
  <2> QED BY <2>1 DEF Handshakes
<1>10. AnswersHandshakes(toHost', J)
  <2>1. ASSUME NEW k \in 1 .. Len(toHost'), Out(J[k - 1], toHost'[k]) # <<>>
        PROVE  J[k].initialized = TRUE /\ Handshakes(toHost', k + 1)
    <3>1. CASE k \in 1 .. n
      <4>1. k \in 0 .. n /\ k - 1 \in 0 .. n /\ k + 1 \in 1 .. n + 1
          BY <1>6, <3>1
      <4>2. J[k] = F[k] /\ J[k - 1] = F[k - 1] /\ toHost'[k] = toHost[k]
          BY <1>6, <3>1, <4>1
      <4>3. F[k].initialized = TRUE /\ Handshakes(toHost, k + 1)
          BY <1>2, <2>1, <3>1, <4>2 DEF InStart, AnswersHandshakes
      <4> QED BY <1>9, <4>1, <4>2, <4>3
    <3>2. CASE k = n + 1 \/ k = n + 2
      <4>1. k - 1 \in 0 .. Len(toHost') /\ k \in 0 .. Len(toHost')
          BY <1>6, <3>2
      <4>2. HostOK(J[k - 1]) /\ J[k] = Step(J[k - 1], toHost'[k])
          BY <1>6, <4>1 DEF Trace
      <4>3. toHost'[k] \in Byte /\ toHost'[k] # CmdPing
          BY <1>3, <1>7, <3>2
      <4>4. StepFacts(J[k - 1], toHost'[k])
          BY <4>2, <4>3, StepDoes
      <4>5. J[k].initialized = TRUE
          BY <2>1, <4>2, <4>3, <4>4 DEF StepFacts, HostOK, Hosts
      <4>6. Handshakes(toHost', k + 1)
        <5>1. ASSUME NEW j \in k + 1 .. Len(toHost') PROVE j = n + 2
            BY <1>6, <3>2
        <5> QED BY <1>7, <5>1 DEF Handshakes, HandshakeBytes
      <4> QED BY <4>5, <4>6
    <3> QED BY <1>6, <1>8, <3>1, <3>2
  <2> QED BY <2>1 DEF AnswersHandshakes
<1>11. InStart(J)'
  <2>1. 1 \in 1 .. n + 1
      BY <1>6
  <2>2. Greeted => Greeted'
      BY <1>1, <1>9, <2>1 DEF Greeted
  <2>3. EndsHandshake'
    <3>1. Len(toHost') # 0 /\ toHost'[Len(toHost')] = CmdInit
        BY <1>6, <1>7
    <3>2. toHost' # <<>>
      <4>1. Len(<<>>) = 0
          OBVIOUS
      <4> QED BY <3>1, <4>1
    <3> QED BY <3>1, <3>2 DEF EndsHandshake
  <2>4. faults = 0 => host.command = NoCommand /\ Handshakes(toHost', 1)
      BY <1>2, <1>9, <2>1 DEF InStart
  <2> QED BY <1>1, <1>2, <1>10, <2>2, <2>3, <2>4 DEF InStart
<1>12. Basics'
    BY <1>1, <1>2 DEF Basics, Phases, inputVars
<1>13. Stream'
  <2>1. OnTheWay' = OnTheWay
      BY <1>1 DEF OnTheWay
  <2> QED BY <1>1, <1>2, <2>1, StreamStays
<1>14. Protocol(J)'
    BY <1>1, <1>11 DEF Protocol, Query
<1>15. Trace(host', toHost', J)
    BY <1>1, <1>6
<1> QED BY <1>12, <1>13, <1>14, <1>15 DEF IInv, Inv

(* The board takes a byte of an answer to a handshake.                     *)
LEMMA HandshakeInv ==
  ASSUME NEW F, Inv(F), Handshake
  PROVE  IInv'
<1>1. phase = "handshake" /\ toBoard # <<>> /\ toBoard' = Tail(toBoard)
      /\ gotinit' = (gotinit \/ Head(toBoard) = CmdStart) /\ phase' \in {"handshake", "purge"}
      /\ UNCHANGED <<op, got, availableMin, host, inputVars, toHost, taken, faults>>
    BY DEF Handshake, WaitForCommand
<1>2. Trace(host, toHost, F) /\ Basics /\ Stream /\ InStart(F)
    BY <1>1 DEF Inv, Protocol, Startup
<1>3. Greeted /\ EndsHandshake
    BY <1>1, <1>2 DEF InStart
<1>4. Greeted' /\ EndsHandshake'
    BY <1>1, <1>3 DEF Greeted, EndsHandshake
<1>5. AnswersHandshakes(toHost', F) /\ toHost' = toHost
    BY <1>1, <1>2 DEF InStart
<1>6. InStart(F)'
    BY <1>1, <1>2, <1>4, <1>5 DEF InStart
<1>7. Tail(toBoard) \in Seq(Byte)
    BY <1>1, <1>2 DEF Basics
<1>8. Basics'
    BY <1>1, <1>2, <1>7 DEF Basics, Phases, inputVars
<1>9. Stream'
  <2>1. OnTheWay' = OnTheWay
      BY <1>1 DEF OnTheWay
  <2> QED BY <1>1, <1>2, <2>1, StreamStays
<1>10. Protocol(F)'
    BY <1>1, <1>6 DEF Protocol, Query
<1>11. Trace(host', toHost', F)
    BY <1>1, <1>2
<1> QED BY <1>8, <1>9, <1>10, <1>11 DEF IInv, Inv

(* What is left of these answers is dropped when all are there.            *)
LEMMA PurgeInv ==
  ASSUME NEW F, Inv(F), Purge
  PROVE  IInv'
<1>1. phase = "purge" /\ toBoard' = <<>>
      /\ UNCHANGED <<phase, op, got, gotinit, availableMin, host, inputVars, toHost, taken, faults>>
    BY DEF Purge, boardVars
<1>2. Trace(host, toHost, F) /\ Basics /\ Stream /\ InStart(F)
    BY <1>1 DEF Inv, Protocol, Startup
<1>3. Greeted /\ EndsHandshake
    BY <1>1, <1>2 DEF InStart
<1>4. Greeted' /\ EndsHandshake'
    BY <1>1, <1>3 DEF Greeted, EndsHandshake
<1>5. AnswersHandshakes(toHost', F) /\ toHost' = toHost
    BY <1>1, <1>2 DEF InStart
<1>6. InStart(F)'
    BY <1>1, <1>2, <1>4, <1>5 DEF InStart
<1>7. <<>> \in Seq(Byte)
    OBVIOUS
<1>8. Basics'
    BY <1>1, <1>2, <1>7 DEF Basics, Phases, inputVars
<1>9. Stream'
  <2>1. OnTheWay' = OnTheWay
      BY <1>1 DEF OnTheWay
  <2> QED BY <1>1, <1>2, <2>1, StreamStays
<1>10. Protocol(F)'
    BY <1>1, <1>6 DEF Protocol, Query
<1>11. Trace(host', toHost', F)
    BY <1>1, <1>2
<1> QED BY <1>8, <1>9, <1>10, <1>11 DEF IInv, Inv

(* The trace of the bytes that are sent to a host that waits for a command. *)
LEMMA SendInitPoolTrace ==
  ASSUME NEW F, Inv(F), SendInitPool
  PROVE  \E G : /\ Trace(host', toHost', G) /\ InReady(G)'
                /\ Len(toHost') = 3 /\ G[3].pool = Zeros(PoolSize)
<1>1. phase = "purge" /\ toHost = <<>> /\ toBoard = <<>> /\ phase' = "ready"
      /\ UNCHANGED <<availableMin, host, toBoard>>
      /\ toHost' = toHost \o <<CmdStart, CmdInitPool, PoolSize>>
    BY DEF SendInitPool, Send
<1>2. Trace(host, toHost, F) /\ Basics /\ InStart(F)
    BY <1>1 DEF Inv, Protocol, Startup
<1> DEFINE q == <<CmdStart, CmdInitPool, PoolSize>>
<1>3. q \in Seq(Byte) /\ Len(q) = 3
    BY Constants, Numbers
<1>4. toHost' = q
    BY <1>1, <1>3, ConcatEmptySeq
<1>5. HostOK(host) /\ IsIdle(host) /\ host.initialized = TRUE
  <2>1. Greeted /\ EndsHandshake
      BY <1>1, <1>2 DEF InStart
  <2> QED BY <1>1, <1>2, <2>1, Ranges DEF Greeted, EndsHandshake, IsIdle
<1>6. PICK G : Trace(host, q, G)
  <2> HIDE DEF q
  <2> QED BY <1>3, <1>5, TraceExists
<1>7. QuietTo(q, G, 3) /\ Ready(G[3]) /\ G[3].pool = Zeros(PoolSize)
    BY <1>5, <1>6, SentInitPool
<1>8. availableMin <= Len(host.inputData)
  <2>1. availableMin = 0 /\ Len(host.inputData) \in Nat
      BY <1>2, Ranges DEF InStart
  <2> QED BY <2>1
<1> HIDE DEF q
<1>9. InReady(G)'
    BY <1>1, <1>3, <1>4, <1>7, <1>8 DEF InReady
<1> QED BY <1>1, <1>3, <1>4, <1>6, <1>7, <1>9

(* The host is sent its pool and start() returns.                          *)
LEMMA SendInitPoolInv ==
  ASSUME NEW F, Inv(F), SendInitPool
  PROVE  IInv'
<1>1. phase = "purge" /\ phase' = "ready"
      /\ UNCHANGED <<op, got, gotinit, availableMin, host, inputVars, toBoard, taken, faults>>
    BY DEF SendInitPool
<1>2. Basics /\ Stream
    BY DEF Inv
<1>3. PICK G : Trace(host', toHost', G) /\ InReady(G)'
    BY SendInitPoolTrace
<1>4. Basics'
    BY <1>1, <1>2 DEF Basics, Phases, inputVars
<1>5. Stream'
  <2>1. OnTheWay' = OnTheWay
      BY <1>1 DEF OnTheWay
  <2> QED BY <1>1, <1>2, <2>1, StreamStays
<1>6. Protocol(G)'
    BY <1>1, <1>3 DEF Protocol, Query, Startup
<1> QED BY <1>3, <1>4, <1>5, <1>6 DEF IInv, Inv

-----------------------------------------------------------------------------
(* The board: the calls.                                                   *)

(* Quiet bytes behind quiet bytes.                                         *)
LEMMA QuietProlonged ==
  ASSUME NEW w, NEW F, NEW q, NEW G, NEW v, NEW J, Prolongs(w, F, q, G, v, J), QuietTo(w, F, Len(w)),
         G[0] = F[Len(w)], NEW m \in 0 .. Len(q), QuietTo(q, G, m)
  PROVE  QuietTo(v, J, Len(w) + m)
<1> DEFINE n == Len(w)
<1>1. n \in Nat /\ Len(q) \in Nat /\ 0 \in 0 .. n /\ n \in 0 .. n
    BY DEF Prolongs
<1>2. J[0] = F[0]
    BY <1>1 DEF Prolongs
<1>3. F[n].inputData = F[0].inputData
  <2>1. CASE n = 0
      BY <2>1
  <2>2. CASE n # 0
    <3>1. n \in 1 .. n
        BY <1>1, <2>2
    <3> QED BY <3>1 DEF QuietTo
  <2> QED BY <2>1, <2>2
<1>4. ASSUME NEW k \in 1 .. n + m PROVE Out(J[k - 1], v[k]) = <<>> /\ J[k].inputData = J[0].inputData
  <2>1. CASE k <= n
    <3>1. k \in 1 .. n /\ k \in 0 .. n /\ k - 1 \in 0 .. n
        BY <1>1, <2>1
    <3>2. J[k] = F[k] /\ J[k - 1] = F[k - 1] /\ v[k] = w[k]
        BY <3>1 DEF Prolongs
    <3> QED BY <1>2, <3>1, <3>2 DEF QuietTo
  <2>2. CASE k > n
    <3> DEFINE i == k - n
    <3>1. i \in 1 .. m /\ i \in 1 .. Len(q) /\ i \in 0 .. Len(q) /\ i - 1 \in 0 .. Len(q) /\ n + i = k /\ n + (i - 1) = k - 1
        BY <1>1, <2>2
    <3> HIDE DEF i
    <3>2. J[n + i] = G[i] /\ J[n + (i - 1)] = G[i - 1] /\ v[n + i] = q[i]
        BY <3>1 DEF Prolongs
    <3>3. Out(G[i - 1], q[i]) = <<>> /\ G[i].inputData = G[0].inputData
        BY <3>1 DEF QuietTo
    <3> QED BY <1>2, <1>3, <3>1, <3>2, <3>3
  <2> QED BY <1>1, <2>1, <2>2
<1> QED BY <1>4 DEF QuietTo

(* The program sends q. *)
Sent(w, F, q, G, v, J) ==
    /\ Ready(F[Len(w)]) /\ Trace(F[Len(w)], q, G) /\ G[0] = F[Len(w)]
    /\ Len(v) = Len(w) + Len(q) /\ v # <<>>
    /\ J[Len(v)] = G[Len(q)] /\ J[Len(v) - 1] = G[Len(q) - 1] /\ v[Len(v)] = q[Len(q)]
    /\ QuietTo(q, G, Len(q)) => QuietTo(v, J, Len(v))
    /\ QuietTo(q, G, Len(q) - 1) => QuietTo(v, J, Len(v) - 1)

(* The board sends q, and the trace is prolonged by what the host will     *)
(* make of it.                                                             *)
LEMMA Sends ==
  ASSUME NEW F, Inv(F), phase = "ready", NEW q \in Seq(Byte), Len(q) >= 1, host' = host, toHost' = toHost \o q
  PROVE  \E G, J : Trace(host', toHost', J) /\ Sent(toHost, F, q, G, toHost', J)
<1>1. Trace(host, toHost, F) /\ InReady(F)
    BY DEF Inv, Protocol
<1>2. Ready(F[Len(toHost)]) /\ HostOK(F[Len(toHost)]) /\ QuietTo(toHost, F, Len(toHost))
    BY <1>1 DEF InReady, Ready
<1>3. PICK G : Trace(F[Len(toHost)], q, G)
    BY <1>2, TraceExists
<1>4. PICK J : Trace(host, toHost', J) /\ Prolongs(toHost, F, q, G, toHost', J)
    BY <1>1, <1>3, TraceAppend
<1> DEFINE n == Len(toHost)
           m == Len(q)
           k == m - 1
<1>5. n \in Nat /\ m \in Nat /\ Len(toHost') = n + m /\ m \in 0 .. m /\ k \in 0 .. m /\ m \in 1 .. m
      /\ n + m - 1 = n + k
    BY <1>4 DEF Prolongs
<1>6. G[0] = F[n]
    BY <1>3 DEF Trace
<1>7. J[n + m] = G[m] /\ J[n + k] = G[k] /\ toHost'[n + m] = q[m]
    BY <1>4, <1>5 DEF Prolongs
<1>8. QuietTo(q, G, m) => QuietTo(toHost', J, n + m)
    BY <1>2, <1>4, <1>5, <1>6, QuietProlonged
<1>9. QuietTo(q, G, k) => QuietTo(toHost', J, n + k)
  <2> HIDE DEF k
  <2> QED BY <1>2, <1>4, <1>5, <1>6, QuietProlonged
<1>10. toHost' # <<>>
  <2>1. Len(<<>>) = 0 /\ Len(toHost') # 0
      BY <1>5
  <2> QED BY <2>1
<1>11. Sent(toHost, F, q, G, toHost', J)
    BY <1>2, <1>3, <1>5, <1>6, <1>7, <1>8, <1>9, <1>10 DEF Sent
<1> QED BY <1>4, <1>11

(* The pool of the host when it has taken in all that is on the way to it. *)
PoolAfter(w, F) == F[Len(w)].pool

(* The board sends a query: only its last byte is answered.                *)
LEMMA AskInv ==
  ASSUME NEW F, Inv(F), NEW kind \in Kinds, NEW p \in 0 .. PoolSize, NEW n \in Byte,
         NEW q \in Seq(Byte), Len(q) >= 1, NEW next \in Query, Ask(kind, p, n, q, next),
         \A h, G : Ready(h) /\ Trace(h, q, G) => Asks(next, p, n, q, G)
  PROVE  \E J : Inv(J)' /\ PoolAfter(toHost', J) = PoolAfter(toHost, F)
<1>1. /\ phase = "ready" /\ phase' = next /\ toHost' = toHost \o q /\ toBoard' = <<>>
      /\ op' = [kind |-> kind, p |-> p, n |-> n] /\ got' = <<>> /\ gotinit' = FALSE
      /\ UNCHANGED <<availableMin, host, inputVars, taken, faults>>
    BY DEF Ask, Send
<1>2. Basics /\ Stream /\ InReady(F)
    BY <1>1 DEF Inv, Protocol
<1>3. PICK G, J : Trace(host', toHost', J) /\ Sent(toHost, F, q, G, toHost', J)
    BY <1>1, Sends
<1>4. Asks(next, p, n, q, G)
    BY <1>3 DEF Sent
<1>5. PoolAfter(toHost', J) = PoolAfter(toHost, F)
    BY <1>3, <1>4 DEF Sent, Asks, PoolAfter
<1>6. InQuery(J)'
  <2>1. op'.p = p /\ op'.n = n /\ phase' = next
      BY <1>1
  <2>2. QuietTo(toHost', J, Len(toHost') - 1) /\ Ready(J[Len(toHost')])
      BY <1>3, <1>4 DEF Sent, Asks
  <2>3. Replies(phase', op'.p, op'.n, J[Len(toHost') - 1], J[Len(toHost')],
                Out(J[Len(toHost') - 1], toHost'[Len(toHost')]))
      BY <1>3, <1>4, <2>1 DEF Sent, Asks
  <2>4. availableMin' <= Len(host'.inputData)
      BY <1>1, <1>2 DEF InReady
  <2> QED BY <1>1, <2>2, <2>3, <2>4 DEF InQuery
<1>7. op' \in Ops
    BY <1>1 DEF Ops
<1>8. <<>> \in Seq(Byte) /\ Query \subseteq Phases \ {"peeked"}
    BY DEF Query, Phases
<1>9. Basics'
    BY <1>1, <1>2, <1>7, <1>8 DEF Basics, inputVars
<1>10. Stream'
  <2>1. OnTheWay' = OnTheWay
      BY <1>1, <1>2 DEF OnTheWay, InReady
  <2> QED BY <1>1, <1>2, <2>1, StreamStays
<1>11. Protocol(J)'
  <2>1. toHost' # <<>> /\ phase' \in Query
      BY <1>1, <1>3 DEF Sent
  <2> QED BY <1>6, <2>1 DEF Protocol, Query, Startup
<1> QED BY <1>3, <1>5, <1>9, <1>10, <1>11 DEF Inv

(* s is the n bytes of pool from place p on. *)
IsPart(s, pool, p, n) == s \in Seq(Byte) /\ Len(s) = n /\ \A i \in 1 .. n : s[i] = pool[p + i]

(* A part of the pool that lies within it, byte by byte. *)
LEMMA PoolPart ==
  ASSUME NEW pool \in Seq(Byte), Len(pool) = PoolSize, NEW p \in Nat, NEW n \in Nat, n >= 1, p + n <= PoolSize
  PROVE  IsPart(SubSeq(pool, p + 1, p + n), pool, p, n)
<1>1. p + n <= Len(pool) /\ p + n \in Nat /\ Len(pool) \in Nat
    OBVIOUS
<1> DEFINE s == SubSeq(pool, p + 1, p + n)
<1>2. s \in Seq(Byte) /\ Len(s) = n /\ \A i \in 1 .. n : s[i] = pool[p + i]
    BY <1>1
<1> HIDE DEF s
<1>3. IsPart(s, pool, p, n)
    BY <1>2 DEF IsPart
<1> QED BY <1>3 DEF s

(* The slice of a read is the block of the pool.                           *)
LEMMA SliceBlock ==
  ASSUME NEW pool \in Seq(Byte), Len(pool) = PoolSize, NEW p \in Nat, NEW n \in Nat, n >= 1, p + n <= PoolSize
  PROVE  Block(Slice(pool, p, n), pool, p, n)
<1>0. Len(pool) \in Nat
    OBVIOUS
<1>1. Smaller(p + n, Len(pool)) = p + n /\ Len(pool) \in Nat
  <2>1. p + n <= Len(pool) /\ p + n \in Nat
      BY <1>0
  <2>2. ASSUME NEW a \in Nat, NEW b \in Nat, a <= b PROVE Smaller(a, b) = a
      BY <2>2 DEF Smaller
  <2> QED BY <1>0, <2>1, <2>2
<1>2. Slice(pool, p, n) = SubSeq(pool, p + 1, p + n)
    BY <1>1 DEF Slice
<1> DEFINE s == SubSeq(pool, p + 1, p + n)
<1>3. s \in Seq(Byte) /\ Len(s) = n /\ \A i \in 1 .. n : s[i] = pool[p + i]
    BY <1>1
<1> HIDE DEF s
<1>4. Block(s, pool, p, n)
    BY <1>3 DEF Block
<1> QED BY <1>2, <1>4 DEF s

(* doRead() sends its command.                                             *)
LEMMA DoReadInv ==
  ASSUME NEW F, Inv(F), NEW p \in 0 .. PoolSize - 1, NEW n \in 1 .. PoolSize, DoRead(p, n)
  PROVE  \E J : Inv(J)' /\ PoolAfter(toHost', J) = PoolAfter(toHost, F)
<1> DEFINE q == <<CmdStart, CmdRead, p, n>>
<1>0. p \in Nat /\ n \in Nat /\ n >= 1 /\ p \in 0 .. PoolSize /\ p \in Byte /\ n \in Byte
      /\ CmdStart \in Byte /\ CmdRead \in Byte /\ "read" \in Kinds /\ "bytes" \in Query
    BY Constants, Numbers DEF Kinds, Query
<1>1. q \in Seq(Byte) /\ Len(q) = 4 /\ q[4] = n
    BY <1>0
<1>2. p + n <= PoolSize /\ Ask("read", p, n, q, "bytes")
    BY DEF DoRead
<1>3. ASSUME NEW h, NEW G, Ready(h), Trace(h, q, G)
      PROVE  Asks("bytes", p, n, q, G)
  <2>1. /\ QuietTo(q, G, 3) /\ Ready(G[4]) /\ G[4].pool = h.pool
        /\ G[0] = h /\ G[3].inputData = h.inputData /\ G[4].inputData = h.inputData
        /\ Out(G[3], n) = Slice(h.pool, p, n)
      BY <1>0, <1>3, SentRead
  <2>2. h.pool \in Seq(Byte) /\ Len(h.pool) = PoolSize
      BY <1>3 DEF Ready
  <2>3. Block(Slice(h.pool, p, n), h.pool, p, n)
      BY <1>0, <1>2, <2>2, SliceBlock
  <2> HIDE DEF q
  <2>4. Replies("bytes", p, n, G[3], G[4], Out(G[3], n))
      BY <2>1, <2>3 DEF Replies
  <2> QED BY <1>1, <2>1, <2>4 DEF Asks
<1> HIDE DEF q
<1>4. Len(q) >= 1
    BY <1>1
<1> QED BY <1>0, <1>1, <1>2, <1>3, <1>4, AskInv

(* ping() and available() send theirs.                                     *)
LEMMA BareInv ==
  ASSUME NEW F, Inv(F), NEW kind \in Kinds, NEW c \in {CmdPing, CmdInputAvailable}, NEW next,
         next = (IF c = CmdPing THEN "pong" ELSE "count"), Ask(kind, 0, 0, <<CmdStart, c>>, next)
  PROVE  \E J : Inv(J)' /\ PoolAfter(toHost', J) = PoolAfter(toHost, F)
<1> DEFINE q == <<CmdStart, c>>
<1>0. CmdStart \in Byte /\ c \in Byte /\ next \in Query /\ CmdPing # CmdInputAvailable
      /\ 0 \in 0 .. PoolSize /\ 0 \in Byte
    BY Constants, Numbers DEF Query
<1>1. q \in Seq(Byte) /\ Len(q) = 2 /\ q[2] = c
    BY <1>0
<1>3. ASSUME NEW h, NEW G, Ready(h), Trace(h, q, G)
      PROVE  Asks(next, 0, 0, q, G)
  <2>1. /\ QuietTo(q, G, 1) /\ Ready(G[2]) /\ G[2].pool = h.pool
        /\ G[0] = h /\ G[1].inputData = h.inputData /\ G[2].inputData = h.inputData
        /\ Out(G[1], c) = IF c = CmdPing THEN Reply(CmdPing) ELSE <<Len(h.inputData)>>
      BY <1>3, SentBare
  <2> HIDE DEF q
  <2>4. Replies(next, 0, 0, G[1], G[2], Out(G[1], c))
      BY <1>0, <2>1 DEF Replies
  <2> QED BY <1>1, <2>1, <2>4 DEF Asks
<1>5. Ask(kind, 0, 0, q, next)
    OBVIOUS
<1> HIDE DEF q
<1>4. Len(q) >= 1
    BY <1>1
<1> QED BY <1>0, <1>1, <1>3, <1>4, <1>5, AskInv

(* readBytes() asks for input.                                             *)
LEMMA ReadInputInv ==
  ASSUME NEW F, Inv(F), NEW n \in 1 .. MaxTyped, ReadInput(n)
  PROVE  \E J : Inv(J)' /\ PoolAfter(toHost', J) = PoolAfter(toHost, F)
<1> DEFINE q == <<CmdStart, CmdInputRequest, n>>
<1>0. n \in Nat /\ n \in Byte /\ 0 \in 0 .. PoolSize
      /\ CmdStart \in Byte /\ CmdInputRequest \in Byte /\ "input" \in Kinds /\ "granted" \in Query
  <2>1. MaxTyped \in Nat /\ MaxTyped < CmdStart /\ CmdStart \in Nat /\ PoolSize \in Nat
      BY Constants
  <2>2. n \in Byte
      BY <2>1 DEF Byte
  <2> QED BY <2>1, <2>2, Constants, Numbers DEF Kinds, Query
<1>1. q \in Seq(Byte) /\ Len(q) = 3 /\ q[3] = n /\ Len(q) - 1 = 2
    BY <1>0
<1>2. Ask("input", 0, n, q, "granted")
    BY DEF ReadInput
<1>3. ASSUME NEW h, NEW G, Ready(h), Trace(h, q, G)
      PROVE  Asks("granted", 0, n, q, G)
  <2> DEFINE c == Granted(h, n)
  <2>1. /\ QuietTo(q, G, 2) /\ Ready(G[3]) /\ G[3].pool = h.pool
        /\ G[0] = h /\ G[2].inputData = h.inputData
        /\ Out(G[2], n) = <<c>> \o SubSeq(h.inputData, 1, c)
        /\ G[3].inputData = SubSeq(h.inputData, c + 1, Len(h.inputData))
      BY <1>0, <1>3, SentRequest
  <2>2. h \in Hosts
      BY <1>3 DEF Ready, HostOK
  <2>3. c \in 0 .. Len(h.inputData)
      BY <1>0, <2>2, Requests
  <2> HIDE DEF q, c
  <2>4. Grant(Out(G[2], n), G[2], G[3], c)
      BY <2>1 DEF Grant
  <2>5. Replies("granted", 0, n, G[2], G[3], Out(G[2], n))
      BY <2>1, <2>3, <2>4 DEF Replies
  <2> QED BY <1>1, <2>1, <2>5 DEF Asks
<1> HIDE DEF q
<1>4. Len(q) >= 1
    BY <1>1
<1> QED BY <1>0, <1>1, <1>2, <1>3, <1>4, AskInv

(* What is sent is not answered. *)
LEMMA TellInv ==
  ASSUME NEW F, Inv(F), NEW q \in Seq(Byte), Len(q) >= 1, phase = "ready", toHost' = toHost \o q,
         UNCHANGED <<boardVars, host, inputVars, toBoard, taken, faults>>,
         \A h, G : Ready(h) /\ Trace(h, q, G) => QuietTo(q, G, Len(q)) /\ Ready(G[Len(q)])
  PROVE  \E J, G : /\ Inv(J)' /\ Trace(F[Len(toHost)], q, G) /\ Ready(F[Len(toHost)])
                   /\ PoolAfter(toHost', J) = PoolAfter(q, G)
<1>1. /\ phase' = "ready" /\ toBoard' = toBoard /\ op' = op /\ got' = got /\ gotinit' = gotinit
      /\ UNCHANGED <<availableMin, host, inputVars, taken, faults>>
    BY DEF boardVars
<1>2. Basics /\ Stream /\ InReady(F)
    BY DEF Inv, Protocol
<1>3. PICK G, J : Trace(host', toHost', J) /\ Sent(toHost, F, q, G, toHost', J)
    BY <1>1, Sends
<1>4. QuietTo(q, G, Len(q)) /\ Ready(G[Len(q)])
    BY <1>3 DEF Sent
<1>5. PoolAfter(toHost', J) = PoolAfter(q, G) /\ Trace(F[Len(toHost)], q, G) /\ Ready(F[Len(toHost)])
    BY <1>3 DEF Sent, PoolAfter
<1>6. InReady(J)'
  <2>1. QuietTo(toHost', J, Len(toHost')) /\ Ready(J[Len(toHost')])
      BY <1>3, <1>4 DEF Sent
  <2>2. availableMin' <= Len(host'.inputData)
      BY <1>1, <1>2 DEF InReady
  <2> QED BY <1>1, <1>2, <2>1, <2>2 DEF InReady
<1>7. Basics'
    BY <1>1, <1>2 DEF Basics, inputVars, Phases
<1>8. Stream'
  <2>1. OnTheWay' = OnTheWay
      BY <1>1 DEF OnTheWay
  <2> QED BY <1>1, <1>2, <2>1, StreamStays
<1>9. Protocol(J)'
    BY <1>1, <1>6 DEF Protocol, Query, Startup
<1>10. Inv(J)'
    BY <1>3, <1>7, <1>8, <1>9 DEF Inv
<1> QED BY <1>5, <1>10

(* The program prints: a host that waits for CMD_START shows the text.     *)
LEMMA PrintTextInv ==
  ASSUME NEW F, Inv(F), PrintText
  PROVE  \E J : Inv(J)' /\ PoolAfter(toHost', J) = PoolAfter(toHost, F)
<1> DEFINE q == <<CmdInit>>
<1>1. q \in Seq(Byte) /\ Len(q) = 1
    BY Constants, Numbers
<1>2. /\ phase = "ready" /\ toHost' = toHost \o q
      /\ UNCHANGED <<boardVars, host, inputVars, toBoard, taken, faults>>
    BY DEF PrintText, Send
<1>3. ASSUME NEW h, NEW G, Ready(h), Trace(h, q, G)
      PROVE  QuietTo(q, G, 1) /\ Ready(G[1]) /\ PoolAfter(q, G) = h.pool
    BY <1>1, <1>3, SentPrint DEF PoolAfter
<1> HIDE DEF q
<1>4. \A h, G : Ready(h) /\ Trace(h, q, G) => QuietTo(q, G, Len(q)) /\ Ready(G[Len(q)])
    BY <1>1, <1>3
<1>5. PICK J, G : /\ Inv(J)' /\ Trace(F[Len(toHost)], q, G) /\ Ready(F[Len(toHost)])
                  /\ PoolAfter(toHost', J) = PoolAfter(q, G)
  <2>1. Len(q) >= 1
      BY <1>1
  <2> QED BY <1>1, <1>2, <1>4, <2>1, TellInv
<1>6. PoolAfter(q, G) = PoolAfter(toHost, F)
    BY <1>3, <1>5 DEF PoolAfter
<1> QED BY <1>5, <1>6

(* doWrite() sends its command and the block.                              *)
LEMMA DoWriteInv ==
  ASSUME NEW F, Inv(F), NEW p \in 0 .. PoolSize - 1, NEW n \in 1 .. PoolSize, NEW d \in [1 .. n -> Val],
         DoWrite(p, d)
  PROVE  \E J : /\ Inv(J)' /\ Overwritten(PoolAfter(toHost', J), PoolAfter(toHost, F), p, n, d)
                /\ Len(PoolAfter(toHost, F)) = PoolSize
<1>0. /\ p \in Byte /\ n \in Byte /\ n \in Nat /\ n >= 1 /\ p \in Nat /\ p <= PoolSize
      /\ CmdStart \in Byte /\ CmdWrite \in Byte
    BY Constants, Numbers
<1>1. d \in Seq(Byte) /\ Len(d) = n
  <2>1. \A i \in 1 .. n : d[i] \in Byte
      BY Constants
  <2> QED BY <1>0, <2>1
<1> DEFINE q == <<CmdStart, CmdWrite, p, n>> \o d
<1>2. /\ phase = "ready" /\ toHost' = toHost \o q /\ p + n <= PoolSize
      /\ UNCHANGED <<boardVars, host, inputVars, toBoard, taken, faults>>
    BY <1>1 DEF DoWrite, Send
<1>3. WriteIs(q, p, n, d)
    BY <1>0, <1>1, WriteBytes
<1>4. q \in Seq(Byte) /\ Len(q) = 4 + n /\ Len(q) >= 1
  <2> HIDE DEF q
  <2>1. q \in Seq(Byte) /\ Len(q) = 4 + n
      BY <1>3 DEF WriteIs
  <2> QED BY <1>0, <2>1
<1>5. ASSUME NEW h, NEW G, Ready(h), Trace(h, q, G)
      PROVE  QuietTo(q, G, 4 + n) /\ Ready(G[4 + n]) /\ Overwritten(PoolAfter(q, G), h.pool, p, n, d)
    BY <1>0, <1>1, <1>2, <1>5, SentWrite DEF PoolAfter
<1> HIDE DEF q
<1>6. \A h, G : Ready(h) /\ Trace(h, q, G) => QuietTo(q, G, Len(q)) /\ Ready(G[Len(q)])
    BY <1>4, <1>5
<1>7. PICK J, G : /\ Inv(J)' /\ Trace(F[Len(toHost)], q, G) /\ Ready(F[Len(toHost)])
                  /\ PoolAfter(toHost', J) = PoolAfter(q, G)
    BY <1>2, <1>4, <1>6, TellInv
<1>8. Overwritten(PoolAfter(q, G), PoolAfter(toHost, F), p, n, d)
    BY <1>5, <1>7 DEF PoolAfter
<1>9. Len(PoolAfter(toHost, F)) = PoolSize
    BY <1>7 DEF PoolAfter, Ready
<1> QED BY <1>7, <1>8, <1>9

-----------------------------------------------------------------------------
(* The host.                                                               *)

(* What fits into the buffer of the board.                                 *)
LEMMA Buffers ==
  ASSUME NEW s \in Seq(Byte)
  PROVE  /\ Buffered(s) \in Seq(Byte) /\ Len(Buffered(s)) = Smaller(Len(s), BufferSize)
         /\ Len(Buffered(s)) \in Nat /\ Len(Buffered(s)) <= Len(s) /\ Len(Buffered(s)) <= BufferSize
         /\ \A i \in 1 .. Len(Buffered(s)) : Buffered(s)[i] = s[i]
         /\ s = <<>> => Buffered(s) = <<>>
<1> DEFINE m == Smaller(Len(s), BufferSize)
<1>1. Len(s) \in Nat /\ BufferSize \in Nat
    BY Constants
<1>2. m \in 0 .. Len(s) /\ m <= BufferSize /\ m \in Nat
    BY <1>1 DEF Smaller
<1>3. Buffered(s) = SubSeq(s, 1, m)
    BY DEF Buffered
<1> HIDE DEF m
<1>4. SubSeq(s, 1, m) \in Seq(Byte) /\ Len(SubSeq(s, 1, m)) = m /\ \A i \in 1 .. m : SubSeq(s, 1, m)[i] = s[i]
    BY <1>1, <1>2
<1>5. s = <<>> => Buffered(s) = <<>>
  <2>1. CASE s = <<>>
    <3>1. Len(s) = 0
        BY <2>1
    <3>2. Len(SubSeq(s, 1, m)) = 0
        BY <1>1, <1>2, <1>4, <3>1
    <3> QED BY <1>3, <1>4, <3>2, EmptySeq
  <2> QED BY <2>1
<1> QED BY <1>1, <1>2, <1>3, <1>4, <1>5 DEF m

(* The host takes in the first byte on its way; G is the trace of the rest. *)
Moved(F, G) ==
    LET n == Len(toHost)
        out == Out(host, toHost[1])
    IN  /\ Trace(host', toHost', G) /\ n \in Nat /\ n >= 1 /\ Len(toHost') = n - 1
        /\ F[0] = host /\ host' = F[1] /\ HostOK(host) /\ StepFacts(host, toHost[1])
        /\ host' = Step(host, toHost[1]) /\ toHost[1] \in Byte
        /\ out \in Seq(Byte) /\ toBoard' = Buffered(toBoard \o out) /\ toBoard' \in Seq(Byte)
        /\ \A k \in 1 .. n - 1 : toHost'[k] = toHost[k + 1]
        /\ \A k \in 0 .. n - 1 : G[k] = F[k + 1]
        /\ UNCHANGED <<boardVars, inputVars, taken, faults>>

(* The host takes a byte and is then where the trace said.                 *)
LEMMA HostMoves ==
  ASSUME NEW F, Inv(F), HostReceives
  PROVE  \E G : Moved(F, G)
<1> DEFINE n == Len(toHost)
           L == Later(F, n)
           b == Head(toHost)
<1>1. /\ toHost # <<>> /\ host' = Step(host, b) /\ toHost' = Tail(toHost)
      /\ toBoard' = Buffered(toBoard \o Out(host, b))
      /\ UNCHANGED <<boardVars, inputVars, taken, faults>>
    BY DEF HostReceives, Step, Out
<1>2. Trace(host, toHost, F) /\ Basics
    BY DEF Inv
<1>3. /\ Trace(Step(host, b), Tail(toHost), L)
      /\ n \in Nat /\ n >= 1 /\ Len(Tail(toHost)) = n - 1 /\ b = toHost[1] /\ b \in Byte
      /\ \A k \in 1 .. n - 1 : Tail(toHost)[k] = toHost[k + 1]
      /\ \A k \in 0 .. n - 1 : L[k] = F[k + 1]
      /\ HostOK(host) /\ F[0] = host /\ F[1] = Step(host, b)
    BY <1>1, <1>2, TraceTail
<1> HIDE DEF L, b
<1>4. StepFacts(host, b)
    BY <1>3, StepDoes
<1>5. Out(host, b) \in Seq(Byte)
    BY <1>4 DEF StepFacts, Handled
<1>6. toBoard' \in Seq(Byte)
  <2>1. toBoard \o Out(host, b) \in Seq(Byte)
      BY <1>2, <1>5, ConcatProperties DEF Basics
  <2> QED BY <1>1, <2>1, Buffers
<1>7. PICK G : /\ Trace(Step(host, b), Tail(toHost), G)
               /\ \A k \in 0 .. n - 1 : G[k] = F[k + 1]
    BY <1>3
<1>8. Trace(host', toHost', G)
    BY <1>1, <1>7
<1> HIDE DEF n
<1>9. Moved(F, G)
    BY <1>1, <1>3, <1>4, <1>5, <1>6, <1>7, <1>8 DEF Moved, n
<1> QED BY <1>9

(* The types of the variables after it.                                    *)
LEMMA MovedBasics ==
  ASSUME Basics, NEW F, NEW G, Moved(F, G)
  PROVE  Basics'
<1>1. toBoard' \in Seq(Byte) /\ UNCHANGED <<boardVars, inputVars, taken, faults>>
    BY DEF Moved
<1>2. phase' = phase /\ op' = op /\ got' = got /\ gotinit' = gotinit /\ availableMin' = availableMin
      /\ inputQueue' = inputQueue /\ typed' = typed /\ taken' = taken /\ faults' = faults
    BY <1>1 DEF boardVars, inputVars
<1> QED BY <1>1, <1>2 DEF Basics

(* Nothing is on its way to the board before, and the host gives c bytes   *)
(* of its input, k of which are on their way then.                         *)
LEMMA MovedStream ==
  ASSUME Basics, Stream, NEW F, Trace(host, toHost, F), NEW G, Moved(F, G), OnTheWay = <<>>,
         NEW c \in 0 .. Len(host.inputData),
         host'.inputData = SubSeq(host.inputData, c + 1, Len(host.inputData)),
         NEW k \in 0 .. c, OnTheWay' \in Seq(Byte), Len(OnTheWay') = k,
         \A i \in 1 .. k : OnTheWay'[i] = host.inputData[i],
         faults = 0 /\ AnswersFit => c = k
  PROVE  Stream'
<1> DEFINE b == host.inputData
           w == OnTheWay'
           e == SubSeq(b, c + 1, Len(b))
<1>1. inputQueue' = inputQueue /\ typed' = typed /\ taken' = taken /\ faults' = faults
    BY DEF Moved, inputVars
<1>2. b \in Seq(Byte) /\ inputQueue \in Seq(Byte) /\ typed \in Nat
    BY Ranges
<1>3. Streams(<<>> \o b \o inputQueue, b, inputQueue, taken, typed, faults)
    BY DEF Stream, Rest
<1>4. Streams(w \o e \o inputQueue, e, inputQueue, taken, typed, faults)
  <2> HIDE DEF b, w
  <2>1. w \in Seq(Byte) /\ Len(w) = k /\ \A i \in 1 .. k : w[i] = b[i]
      BY DEF w, b
  <2>2. c \in 0 .. Len(b)
      BY DEF b
  <2> QED BY <1>2, <1>3, <2>1, <2>2, StreamGives
<1>5. Rest' = w \o e \o inputQueue /\ host'.inputData = e
    BY <1>1 DEF Rest
<1> HIDE DEF w, e
<1> QED BY <1>1, <1>4, <1>5 DEF Stream

(* The host gives no input.                                                *)
LEMMA MovedQuietStream ==
  ASSUME Basics, Stream, NEW F, Trace(host, toHost, F), NEW G, Moved(F, G), OnTheWay = <<>>, OnTheWay' = <<>>,
         host'.inputData = host.inputData \/ ~(faults = 0 /\ AnswersFit)
  PROVE  Stream'
<1> DEFINE b == host.inputData
<1>1. b \in Seq(Byte) /\ Len(b) \in Nat
    BY Ranges
<1>2. \E c \in 0 .. Len(b) : /\ host'.inputData = SubSeq(b, c + 1, Len(b))
                             /\ faults = 0 /\ AnswersFit => c = 0
  <2>1. CASE host'.inputData = b
    <3>1. b = SubSeq(b, 0 + 1, Len(b)) /\ 0 \in 0 .. Len(b)
        BY <1>1, SubSeqFull
    <3> QED BY <2>1, <3>1
  <2>2. CASE ~(faults = 0 /\ AnswersFit)
    <3>1. Handled(host, host', Out(host, toHost[1]))
        BY DEF Moved, StepFacts
    <3> QED BY <2>2, <3>1 DEF Handled
  <2> QED BY <2>1, <2>2
<1>3. PICK c \in 0 .. Len(b) : /\ host'.inputData = SubSeq(b, c + 1, Len(b))
                               /\ faults = 0 /\ AnswersFit => c = 0
    BY <1>2
<1>4. OnTheWay' \in Seq(Byte) /\ Len(OnTheWay') = 0 /\ 0 \in 0 .. c /\ \A i \in 1 .. 0 : OnTheWay'[i] = host.inputData[i]
  <2>1. <<>> \in Seq(Byte) /\ Len(<<>>) = 0
      OBVIOUS
  <2> QED BY <1>3, <2>1
<1> QED BY <1>3, <1>4, MovedStream

(* The handshakes on their way have moved up by one.                       *)
LEMMA TailHandshakes ==
  ASSUME NEW F, NEW G, Moved(F, G), NEW i \in 1 .. Len(toHost), Handshakes(toHost, i + 1)
  PROVE  Handshakes(toHost', i)
<1>1. ASSUME NEW j \in i .. Len(toHost') PROVE toHost'[j] \in HandshakeBytes
  <2>1. j \in 1 .. Len(toHost) - 1 /\ j + 1 \in i + 1 .. Len(toHost)
      BY DEF Moved
  <2>2. toHost'[j] = toHost[j + 1]
      BY <2>1 DEF Moved
  <2> QED BY <2>1, <2>2 DEF Handshakes
<1> QED BY <1>1 DEF Handshakes

(* A host that has answered stays connected through further handshakes.    *)
LEMMA GreetedByte ==
  ASSUME NEW F, NEW G, Moved(F, G), host.command = NoCommand, Handshakes(toHost, 1)
  PROVE  /\ host'.command = NoCommand /\ host'.inputData = host.inputData /\ Handshakes(toHost', 1)
         /\ host.initialized = TRUE => host'.initialized = TRUE
<1>1. Len(toHost) \in Nat /\ Len(toHost) >= 1 /\ HostOK(host) /\ host' = Step(host, toHost[1]) /\ HostOK(host')
    BY DEF Moved, StepFacts
<1>2. toHost[1] \in {CmdStart, CmdInit}
  <2>1. 1 \in 1 .. Len(toHost)
      BY <1>1
  <2> QED BY <2>1 DEF Handshakes, HandshakeBytes
<1>3. /\ host'.command = NoCommand /\ (host.initialized => host'.initialized)
      /\ host'.inputData = host.inputData
    BY <1>1, <1>2, HandshakeByte
<1>4. Handshakes(toHost', 1)
  <2>1. 1 \in 1 .. Len(toHost) /\ Handshakes(toHost, 1 + 1)
      BY <1>1 DEF Handshakes
  <2> QED BY <2>1, TailHandshakes
<1>5. host.initialized = TRUE => host'.initialized = TRUE
    BY <1>1, <1>3 DEF HostOK, Hosts
<1> QED BY <1>3, <1>4, <1>5

(* A byte is taken during start().                                         *)
LEMMA MovedStart ==
  ASSUME NEW F, NEW G, Moved(F, G), Basics, InStart(F), phase \in Startup
  PROVE  InStart(G)' /\ (host'.inputData = host.inputData \/ faults # 0)
<1> DEFINE n == Len(toHost)
           out == Out(host, toHost[1])
<1>1. /\ n \in Nat /\ n >= 1 /\ Len(toHost') = n - 1 /\ HostOK(host) /\ StepFacts(host, toHost[1])
      /\ host' = Step(host, toHost[1]) /\ host' = F[1] /\ F[0] = host /\ HostOK(host')
      /\ toBoard' = Buffered(toBoard \o out) /\ out \in Seq(Byte) /\ 1 \in 1 .. n
    BY DEF Moved, StepFacts
<1>2. phase' = phase /\ gotinit' = gotinit /\ availableMin' = availableMin /\ faults' = faults
    BY DEF Moved, boardVars
<1>3. ASSUME out # <<>>
      PROVE  Greeted'
  <2>1. host'.command = NoCommand
      BY <1>1, <1>3 DEF StepFacts
  <2>2. F[1].initialized = TRUE /\ Handshakes(toHost, 1 + 1)
    <3>1. Out(F[1 - 1], toHost[1]) # <<>>
        BY <1>1, <1>3
    <3> QED BY <1>1, <3>1 DEF InStart, AnswersHandshakes
  <2>3. Handshakes(toHost', 1)
      BY <1>1, <2>2, TailHandshakes
  <2> QED BY <1>1, <2>1, <2>2, <2>3 DEF Greeted
<1>4. ASSUME Greeted PROVE Greeted'
    BY <1>4, GreetedByte DEF Greeted
<1>5. toBoard' # <<>> \/ phase' = "purge" \/ gotinit' = TRUE => Greeted'
  <2>1. CASE out # <<>>
      BY <1>3, <2>1
  <2>2. CASE out = <<>> /\ ~(toBoard # <<>> \/ phase = "purge" \/ gotinit = TRUE)
    <3>1. <<>> \o <<>> = <<>> /\ <<>> \in Seq(Byte)
        BY ConcatEmptySeq
    <3>2. toBoard' = <<>>
        BY <1>1, <2>2, <3>1, Buffers
    <3> QED BY <1>2, <2>2, <3>2
  <2>3. CASE toBoard # <<>> \/ phase = "purge" \/ gotinit = TRUE
      BY <1>4, <2>3 DEF InStart
  <2> QED BY <2>1, <2>2, <2>3
<1>6. phase' # "start" => EndsHandshake'
  <2> SUFFICES ASSUME phase # "start" PROVE EndsHandshake'
      BY <1>2
  <2>1. toHost # <<>> /\ toHost[n] = CmdInit
    <3>1. toHost # <<>>
      <4>1. Len(<<>>) = 0
          OBVIOUS
      <4> QED BY <1>1, <4>1
    <3> QED BY <3>1 DEF InStart, EndsHandshake
  <2>2. CASE n = 1
    <3>1. toHost' = <<>>
      <4>1. toHost' \in Seq(Byte) /\ Len(toHost') = 0
          BY <1>1, <2>2 DEF Moved, Trace
      <4> QED BY <4>1, EmptySeq
    <3>2. host' = Step(host, CmdInit)
        BY <1>1, <2>1, <2>2
    <3>3. host'.command = NoCommand => host'.processState = "idle"
        BY <1>1, <3>2, InitByte
    <3> QED BY <3>1, <3>3 DEF EndsHandshake
  <2>3. CASE n # 1
    <3>1. n - 1 \in 1 .. n - 1 /\ n - 1 + 1 = n
        BY <1>1, <2>3
    <3>2. toHost'[n - 1] = toHost[n - 1 + 1]
        BY <3>1 DEF Moved
    <3>3. toHost' # <<>>
      <4>1. Len(<<>>) = 0
          OBVIOUS
      <4> QED BY <1>1, <2>3, <4>1
    <3> QED BY <1>1, <2>1, <3>1, <3>2, <3>3 DEF EndsHandshake
  <2> QED BY <2>2, <2>3
<1>7. AnswersHandshakes(toHost', G)
  <2>1. ASSUME NEW k \in 1 .. Len(toHost'), Out(G[k - 1], toHost'[k]) # <<>>
        PROVE  G[k].initialized = TRUE /\ Handshakes(toHost', k + 1)
    <3> DEFINE i == k + 1
    <3>1. k \in 1 .. n - 1 /\ k \in 0 .. n - 1 /\ k - 1 \in 0 .. n - 1 /\ i \in 1 .. n /\ (k - 1) + 1 = i - 1
        BY <1>1
    <3>2. G[k] = F[i] /\ G[k - 1] = F[i - 1] /\ toHost'[k] = toHost[i]
      <4>1. G[k] = F[k + 1] /\ G[k - 1] = F[(k - 1) + 1] /\ toHost'[k] = toHost[k + 1]
          BY <3>1 DEF Moved
      <4> QED BY <3>1, <4>1
    <3> HIDE DEF i
    <3>3. F[i].initialized = TRUE /\ Handshakes(toHost, i + 1)
        BY <2>1, <3>1, <3>2 DEF InStart, AnswersHandshakes
    <3>4. Handshakes(toHost', i)
        BY <3>1, <3>3, TailHandshakes
    <3> QED BY <3>2, <3>3, <3>4 DEF i
  <2> QED BY <2>1 DEF AnswersHandshakes
<1>8. faults = 0 => host'.command = NoCommand /\ Handshakes(toHost', 1) /\ host'.inputData = host.inputData
    BY GreetedByte DEF InStart
<1>9. InStart(G)'
  <2>1. availableMin' = 0 /\ (faults' = 0 => host'.command = NoCommand /\ Handshakes(toHost', 1))
      BY <1>2, <1>8 DEF InStart
  <2> QED BY <1>5, <1>6, <1>7, <2>1 DEF InStart
<1> QED BY <1>8, <1>9

(* A quiet byte is taken: no answer, no change of the input.               *)
LEMMA MovedQuiet ==
  ASSUME NEW F, NEW G, Moved(F, G), toBoard = <<>>, NEW m \in 1 .. Len(toHost), QuietTo(toHost, F, m)
  PROVE  host'.inputData = host.inputData /\ toBoard' = <<>> /\ QuietTo(toHost', G, m - 1)
<1> DEFINE n == Len(toHost)
<1>1. n \in Nat /\ n >= 1 /\ F[0] = host /\ host' = F[1] /\ 1 \in 1 .. m /\ m \in 1 .. n /\ 1 - 1 = 0
    BY DEF Moved
<1>2. Out(F[1 - 1], toHost[1]) = <<>> /\ F[1].inputData = F[0].inputData
    BY <1>1 DEF QuietTo
<1>3. Out(host, toHost[1]) = <<>> /\ host'.inputData = host.inputData
    BY <1>1, <1>2
<1>4. toBoard' = <<>>
  <2>1. <<>> \o <<>> = <<>> /\ <<>> \in Seq(Byte)
      BY ConcatEmptySeq
  <2>2. toBoard' = Buffered(<<>>)
      BY <1>3, <2>1 DEF Moved
  <2> QED BY <2>1, <2>2, Buffers
<1>5. ASSUME NEW k \in 1 .. m - 1
      PROVE  Out(G[k - 1], toHost'[k]) = <<>> /\ G[k].inputData = G[0].inputData
  <2> DEFINE i == k + 1
  <2>1. k \in 1 .. n - 1 /\ k \in 0 .. n - 1 /\ k - 1 \in 0 .. n - 1 /\ 0 \in 0 .. n - 1 /\ i \in 1 .. m /\ (k - 1) + 1 = i - 1
      BY <1>1
  <2>2. G[k] = F[i] /\ G[k - 1] = F[i - 1] /\ toHost'[k] = toHost[i] /\ G[0] = F[1]
    <3>1. G[k] = F[k + 1] /\ G[k - 1] = F[(k - 1) + 1] /\ toHost'[k] = toHost[k + 1] /\ G[0] = F[0 + 1]
        BY <2>1 DEF Moved
    <3> QED BY <2>1, <3>1
  <2> HIDE DEF i
  <2>3. Out(F[i - 1], toHost[i]) = <<>> /\ F[i].inputData = F[0].inputData
      BY <2>1 DEF QuietTo
  <2> QED BY <1>2, <2>2, <2>3
<1> QED BY <1>3, <1>4, <1>5 DEF QuietTo

(* A byte is taken between calls.                                          *)
LEMMA MovedReady ==
  ASSUME NEW F, NEW G, Moved(F, G), InReady(F)
  PROVE  InReady(G)' /\ host'.inputData = host.inputData
<1> DEFINE n == Len(toHost)
<1>1. n \in Nat /\ n \in 1 .. n /\ Len(toHost') = n - 1 /\ availableMin' = availableMin /\ n - 1 \in 0 .. n - 1
    BY DEF Moved, boardVars
<1>2. host'.inputData = host.inputData /\ toBoard' = <<>> /\ QuietTo(toHost', G, n - 1)
    BY <1>1, MovedQuiet DEF InReady
<1>3. G[n - 1] = F[n]
  <2>1. G[n - 1] = F[n - 1 + 1] /\ n - 1 + 1 = n
      BY <1>1 DEF Moved
  <2> QED BY <2>1
<1>4. QuietTo(toHost', G, Len(toHost')) /\ Ready(G[Len(toHost')])
    BY <1>1, <1>2, <1>3 DEF InReady
<1>5. availableMin' <= Len(host'.inputData)
    BY <1>1, <1>2 DEF InReady
<1> QED BY <1>2, <1>4, <1>5 DEF InReady

(* A byte of a query is taken that is not its last.                        *)
LEMMA MovedQuery ==
  ASSUME NEW F, NEW G, Moved(F, G), InQuery(F), Len(toHost) # 1
  PROVE  InQuery(G)' /\ host'.inputData = host.inputData /\ toBoard' = <<>>
<1> DEFINE n == Len(toHost)
           m == n - 1
           k == m - 1
<1>1. n \in Nat /\ m \in 1 .. n /\ Len(toHost') = m /\ m \in 0 .. n - 1 /\ k \in 0 .. n - 1 /\ m \in 1 .. n - 1
      /\ m + 1 = n /\ k + 1 = m
    BY DEF Moved
<1>2. availableMin' = availableMin /\ phase' = phase /\ op' = op /\ got' = got
    BY DEF Moved, boardVars
<1>3. host'.inputData = host.inputData /\ toBoard' = <<>> /\ QuietTo(toHost', G, m - 1)
  <2> HIDE DEF m
  <2> QED BY <1>1, MovedQuiet DEF InQuery, m
<1>4. G[m] = F[n] /\ G[k] = F[m] /\ toHost'[m] = toHost[n]
  <2>1. G[m] = F[m + 1] /\ G[k] = F[k + 1] /\ toHost'[m] = toHost[m + 1]
      BY <1>1 DEF Moved
  <2> QED BY <1>1, <2>1
<1>5. Ready(F[n]) /\ Replies(phase, op.p, op.n, F[m], F[n], Out(F[m], toHost[n]))
      /\ availableMin <= Len(host.inputData) /\ got = <<>>
    BY DEF InQuery
<1>6. Ready(G[m]) /\ Replies(phase', op'.p, op'.n, G[k], G[m], Out(G[k], toHost'[m]))
    BY <1>2, <1>4, <1>5
<1> QED BY <1>1, <1>2, <1>3, <1>5, <1>6 DEF InQuery

(* The last byte of a query. *)
LEMMA MovedLast ==
  ASSUME NEW F, NEW G, Moved(F, G), InQuery(F), Len(toHost) = 1
  PROVE  /\ Ready(host') /\ toHost' = <<>> /\ got' = <<>> /\ availableMin' = availableMin
         /\ phase' = phase /\ op' = op /\ availableMin <= Len(host.inputData)
         /\ \E out \in Seq(Byte) : toBoard' = Buffered(out) /\ Replies(phase, op.p, op.n, host, host', out)
<1>1. Ready(F[1]) /\ Replies(phase, op.p, op.n, F[1 - 1], F[1], Out(F[1 - 1], toHost[1])) /\ got = <<>>
      /\ toBoard = <<>> /\ availableMin <= Len(host.inputData)
    BY DEF InQuery
<1>2. F[0] = host /\ F[1] = host' /\ got' = got /\ availableMin' = availableMin /\ phase' = phase /\ op' = op
    BY DEF Moved, boardVars
<1> DEFINE out == Out(host, toHost[1])
<1>3. out \in Seq(Byte) /\ toBoard' = Buffered(toBoard \o out)
    BY DEF Moved
<1>4. toHost' = <<>>
  <2>1. toHost' \in Seq(Byte) /\ Len(toHost') = 0
      BY DEF Moved, Trace
  <2> QED BY <2>1, EmptySeq
<1>5. <<>> \o out = out
    BY <1>3, ConcatEmptySeq
<1>6. 1 - 1 = 0
    OBVIOUS
<1>7. toBoard' = Buffered(out)
    BY <1>1, <1>3, <1>5
<1>8. Replies(phase, op.p, op.n, host, host', out)
    BY <1>1, <1>2, <1>6
<1> QED BY <1>1, <1>2, <1>3, <1>4, <1>7, <1>8

(* The answer is on its way, as far as it fits into the buffer.            *)
Arrives(ph, p, n, h, board, min) ==
    /\ ph = "bytes" =>
          /\ min <= Len(h.inputData) /\ n >= 1 /\ p + n <= PoolSize /\ Len(board) <= n
          /\ \A i \in 1 .. Len(board) : board[i] = h.pool[p + i]
    /\ ph = "pong" => /\ min <= Len(h.inputData)
                      /\ Len(board) <= 2 /\ (Len(board) = 2 => board[1] = CmdStart)
    /\ ph = "count" => /\ min <= Len(h.inputData)
                       /\ Len(board) <= 1 /\ (board # <<>> => board[1] <= Len(h.inputData))
(* The answer arrives, as far as there is room for it.                     *)
LEMMA AnswerGoesOut ==
  ASSUME NEW out \in Seq(Byte), NEW g, HostOK(g), NEW h, Ready(h), NEW board, board = Buffered(out),
         NEW ph, NEW p \in Nat, NEW n \in Nat, Replies(ph, p, n, g, h, out), NEW min \in Nat, min <= Len(g.inputData)
  PROVE  Arrives(ph, p, n, h, board, min)
<1>1. board \in Seq(Byte) /\ Len(board) \in Nat /\ Len(board) <= Len(out) /\ \A i \in 1 .. Len(board) : board[i] = out[i]
    BY Buffers
<1>2. Len(out) \in Nat /\ Len(h.inputData) \in Nat
    BY DEF Ready, HostOK, Hosts
<1>3. CASE ph = "bytes"
  <2>1. h.inputData = g.inputData /\ Block(out, h.pool, p, n)
      BY <1>3 DEF Replies
  <2>2. Len(out) = n /\ n >= 1 /\ p + n <= PoolSize /\ \A i \in 1 .. n : out[i] = h.pool[p + i]
      BY <2>1 DEF Block
  <2>3. \A i \in 1 .. Len(board) : board[i] = h.pool[p + i]
    <3>1. \A i \in 1 .. Len(board) : i \in 1 .. n
        BY <1>1, <1>2, <2>2
    <3> QED BY <1>1, <2>2, <3>1
  <2> QED BY <1>1, <1>3, <2>1, <2>2, <2>3 DEF Arrives
<1>4. CASE ph = "pong"
  <2>1. h.inputData = g.inputData /\ out = <<CmdStart, CmdPing>>
      BY <1>4 DEF Replies, Reply
  <2>2. Len(out) = 2 /\ out[1] = CmdStart
      BY <2>1
  <2>3. Len(board) = 2 => board[1] = CmdStart
    <3>1. Len(board) = 2 => 1 \in 1 .. Len(board)
        OBVIOUS
    <3> QED BY <1>1, <2>2, <3>1
  <2> QED BY <1>1, <1>4, <2>1, <2>2, <2>3 DEF Arrives
<1>5. CASE ph = "count"
  <2>1. h.inputData = g.inputData /\ out = <<Len(h.inputData)>>
      BY <1>5 DEF Replies
  <2>2. Len(out) = 1 /\ out[1] = Len(h.inputData)
      BY <2>1
  <2>3. board # <<>> => board[1] <= Len(h.inputData)
    <3>1. board # <<>> => 1 \in 1 .. Len(board)
        BY <1>1, EmptySeq
    <3> QED BY <1>1, <1>2, <2>2, <3>1
  <2> QED BY <1>1, <1>5, <2>1, <2>2, <2>3 DEF Arrives
<1> QED BY <1>3, <1>4, <1>5 DEF Arrives

(* The host grants c bytes of its input. *)
LEMMA GrantGoesOut ==
  ASSUME Basics, Stream, NEW F, Trace(host, toHost, F), NEW G, Moved(F, G), phase = "granted", toBoard = <<>>,
         NEW out \in Seq(Byte), toBoard' = Buffered(out), NEW c \in 0 .. Len(host.inputData),
         Grant(out, host, host', c)
  PROVE  /\ Stream' /\ Len(host'.inputData) = Len(host.inputData) - c
         /\ toBoard' # <<>> => toBoard'[1] = c /\ Len(toBoard') <= 1 + c
<1> DEFINE D == host.inputData
           s == SubSeq(D, 1, c)
           b == toBoard'
<1>1. D \in Seq(Byte) /\ Len(D) \in Nat /\ Len(D) <= MaxTyped /\ c \in Nat /\ c <= MaxTyped /\ MaxTyped \in Nat
      /\ BufferSize \in Nat
    BY Ranges, Constants
<1>2. s \in Seq(Byte) /\ Len(s) = c /\ \A i \in 1 .. c : s[i] = D[i]
    BY <1>1
<1>3. host'.inputData = SubSeq(D, c + 1, Len(D)) /\ out = <<c>> \o s
    BY DEF Grant
<1>4. Len(host'.inputData) = Len(D) - c
  <2>1. Len(SubSeq(D, c + 1, Len(D))) = Len(D) - c
      BY <1>1
  <2> QED BY <1>3, <2>1
<1>n. c \in Byte
  <2>1. CmdStart \in Nat /\ PoolSize \in Nat /\ c <= CmdStart
      BY <1>1, Constants
  <2> QED BY <1>1, <2>1 DEF Byte
<1> HIDE DEF s, D
<1>5. Len(out) = 1 + c /\ out[1] = c /\ \A i \in 1 .. c : out[i + 1] = D[i]
  <2> DEFINE o == <<c>>
  <2>1. o \in Seq(Byte) /\ Len(o) = 1 /\ o[1] = c
      BY <1>n
  <2>2. out = o \o s
      BY <1>3
  <2> HIDE DEF o
  <2>3. /\ Len(o \o s) = Len(o) + Len(s)
        /\ \A i \in 1 .. Len(o) + Len(s) : (o \o s)[i] = IF i <= Len(o) THEN o[i] ELSE s[i - Len(o)]
      BY <1>2, <2>1, ConcatProperties
  <2>4. ASSUME NEW i \in 1 .. c PROVE out[i + 1] = D[i]
    <3>1. i + 1 \in 1 .. Len(o) + Len(s) /\ ~(i + 1 <= Len(o)) /\ i + 1 - Len(o) = i
        BY <1>1, <1>2, <2>1
    <3> QED BY <1>2, <2>2, <2>3, <3>1
  <2>5. 1 \in 1 .. Len(o) + Len(s) /\ 1 <= Len(o)
      BY <1>1, <1>2, <2>1
  <2> QED BY <1>2, <2>1, <2>2, <2>3, <2>4, <2>5
<1>6. b \in Seq(Byte) /\ Len(b) \in Nat /\ Len(b) = Smaller(1 + c, BufferSize) /\ Len(b) <= 1 + c
      /\ \A i \in 1 .. Len(b) : b[i] = out[i]
    BY <1>5, Buffers
<1>7. AnswersFit => Len(b) = 1 + c
  <2>1. AnswersFit => 1 + c <= BufferSize /\ 1 + c \in Nat
      BY <1>1 DEF AnswersFit
  <2>2. ASSUME NEW m \in Nat, NEW n \in Nat, m <= n PROVE Smaller(m, n) = m
      BY <2>2 DEF Smaller
  <2> QED BY <1>1, <1>6, <2>1, <2>2
<1>8. phase' = phase
    BY DEF Moved, boardVars
<1> HIDE DEF b
<1>9. CASE b = <<>>
  <2>1. Len(b) = 0
      BY <1>9
  <2>2. OnTheWay' = <<>>
      BY <1>8, <1>9 DEF OnTheWay, b
  <2>3. ~AnswersFit
      BY <1>1, <1>7, <2>1
  <2>4. OnTheWay' \in Seq(Byte) /\ Len(OnTheWay') = 0 /\ 0 \in 0 .. c
        /\ \A i \in 1 .. 0 : OnTheWay'[i] = host.inputData[i]
      BY <1>1, <1>6, <1>9, <2>1, <2>2
  <2>5. OnTheWay = <<>>
      BY NoWay
  <2>6. Stream'
      BY <1>3, <2>3, <2>4, <2>5, MovedStream DEF D
  <2> QED BY <1>4, <1>9, <2>6 DEF D, b
<1>10. CASE b # <<>>
  <2>1. Len(b) >= 1 /\ Tail(b) \in Seq(Byte) /\ Len(Tail(b)) = Len(b) - 1
        /\ \A i \in 1 .. Len(b) - 1 : Tail(b)[i] = b[i + 1]
      BY <1>6, <1>10, HeadTailProperties, EmptySeq
  <2> DEFINE k == Len(b) - 1
  <2>2. OnTheWay' = Tail(b)
      BY <1>8, <1>10 DEF OnTheWay, b
  <2>3. k \in 0 .. c /\ (AnswersFit => c = k)
      BY <1>1, <1>6, <1>7, <2>1
  <2>4. ASSUME NEW i \in 1 .. k PROVE Tail(b)[i] = D[i]
    <3>1. i \in 1 .. Len(b) - 1 /\ i + 1 \in 1 .. Len(b) /\ i \in 1 .. c
        BY <1>1, <1>6, <2>1
    <3> QED BY <1>5, <1>6, <2>1, <3>1
  <2>5. OnTheWay = <<>>
      BY NoWay
  <2>6. OnTheWay' \in Seq(Byte) /\ Len(OnTheWay') = k /\ \A i \in 1 .. k : OnTheWay'[i] = host.inputData[i]
      BY <2>1, <2>2, <2>4 DEF D
  <2> HIDE DEF k
  <2>7. Stream'
      BY <1>3, <2>3, <2>5, <2>6, MovedStream DEF D
  <2>8. b[1] = c
    <3>1. 1 \in 1 .. Len(b)
        BY <1>6, <2>1
    <3> QED BY <1>5, <1>6, <3>1
  <2> QED BY <1>4, <1>6, <2>7, <2>8 DEF D, b
<1> QED BY <1>9, <1>10

(* The board waits for the answer that the host sends out.                 *)
LEMMA MovedWaits ==
  ASSUME NEW F, NEW G, Basics, Stream, Trace(host, toHost, F), Moved(F, G), InQuery(F), phase \in Query,
         Len(toHost) = 1
  PROVE  Waits' /\ Stream' /\ toHost' = <<>>
<1>1. /\ Ready(host') /\ toHost' = <<>> /\ got' = <<>> /\ availableMin' = availableMin
      /\ phase' = phase /\ op' = op /\ availableMin <= Len(host.inputData)
    BY MovedLast
<1>2. PICK out \in Seq(Byte) : toBoard' = Buffered(out) /\ Replies(phase, op.p, op.n, host, host', out)
    BY MovedLast
<1>3. HostOK(host) /\ toBoard = <<>> /\ toBoard' \in Seq(Byte) /\ Len(toBoard') \in Nat
      /\ availableMin \in Nat /\ availableMin' \in Nat
      /\ op.p \in Nat /\ op.n \in Nat /\ Len(host.inputData) \in Nat
  <2>1. op.p \in 0 .. PoolSize /\ op.n \in Byte /\ availableMin \in 0 .. MaxTyped
      BY DEF Basics, Ops
  <2>2. toBoard' \in Seq(Byte)
      BY DEF Moved
  <2>a. Byte \subseteq Nat /\ PoolSize \in Nat /\ MaxTyped \in Nat
      BY Constants
  <2>b. op.n \in Nat
      BY <2>1, <2>a
  <2>3. op.n \in Nat /\ op.p \in Nat /\ availableMin \in Nat
      BY <2>1, <2>a, <2>b
  <2>4. HostOK(host) /\ toBoard = <<>> /\ Len(host.inputData) \in Nat
      BY Ranges DEF InQuery
  <2> QED BY <1>1, <2>2, <2>3, <2>4
<1>4. CASE phase # "granted"
  <2>0. HostOK(host) /\ Ready(host') /\ Replies(phase, op.p, op.n, host, host', out) /\ toBoard' = Buffered(out)
      BY <1>1, <1>2, <1>3
  <2>a. Arrives(phase, op.p, op.n, host', toBoard', availableMin)
      BY <1>1, <1>3, <2>0, AnswerGoesOut
  <2>1. /\ phase = "bytes" =>
               /\ availableMin <= Len(host'.inputData) /\ op.n >= 1 /\ op.p + op.n <= PoolSize /\ Len(toBoard') <= op.n
               /\ \A i \in 1 .. Len(toBoard') : toBoard'[i] = host'.pool[op.p + i]
        /\ phase = "pong" => /\ availableMin <= Len(host'.inputData)
                             /\ Len(toBoard') <= 2 /\ (Len(toBoard') = 2 => toBoard'[1] = CmdStart)
        /\ phase = "count" => /\ availableMin <= Len(host'.inputData)
                              /\ Len(toBoard') <= 1 /\ (toBoard' # <<>> => toBoard'[1] <= Len(host'.inputData))
      BY <2>a DEF Arrives
  <2>2. OnTheWay = <<>> /\ OnTheWay' = <<>> /\ host'.inputData = host.inputData
      BY <1>1, <1>2, <1>4 DEF OnTheWay, Query, Replies
  <2>3. Stream'
      BY <2>2, MovedQuietStream
  <2>4. Len(got') = 0 /\ \A i \in 1 .. Len(got') : got'[i] = host'.pool[op'.p + i]
    <3>1. Len(got') = 0
        BY <1>1
    <3> QED BY <3>1
  <2>5. phase = "bytes" => \A i \in 1 .. Len(toBoard') : toBoard'[i] = host'.pool[op'.p + Len(got') + i]
    <3>1. op.p + 0 = op.p
        BY <1>3
    <3> QED BY <1>1, <2>1, <2>4, <3>1
  <2>6. phase = "bytes" => Len(got') < op'.n /\ Len(got') + Len(toBoard') <= op'.n
      BY <1>1, <1>3, <2>1, <2>4
  <2>7. phase # "input"
      BY DEF Query
  <2> QED BY <1>1, <1>4, <2>1, <2>3, <2>4, <2>5, <2>6, <2>7 DEF Waits
<1>5. CASE phase = "granted"
  <2>1. PICK c \in 0 .. Len(host.inputData) : Grant(out, host, host', c)
      BY <1>2, <1>5 DEF Replies
  <2>2. /\ Stream' /\ Len(host'.inputData) = Len(host.inputData) - c
        /\ toBoard' # <<>> => toBoard'[1] = c /\ Len(toBoard') <= 1 + c
      BY <1>2, <1>3, <1>5, <2>1, GrantGoesOut
  <2>3. availableMin' <= Len(host'.inputData) + c
      BY <1>1, <1>3, <2>1, <2>2
  <2> QED BY <1>1, <1>5, <2>2, <2>3 DEF Waits
<1> QED BY <1>4, <1>5

(* The step of the host, in any phase.                                     *)
LEMMA HostReceivesInv ==
  ASSUME NEW F, Inv(F), HostReceives
  PROVE  \E J : Inv(J)' /\ PoolAfter(toHost', J) = PoolAfter(toHost, F)
<1>1. PICK G : Moved(F, G)
    BY HostMoves
<1>2. Trace(host, toHost, F) /\ Basics /\ Stream /\ Protocol(F)
    BY DEF Inv
<1>3. Trace(host', toHost', G) /\ phase' = phase /\ op' = op /\ toHost # <<>>
    BY <1>1 DEF Moved, boardVars, HostReceives
<1>4. Basics'
    BY <1>1, <1>2, MovedBasics
<1>5. PoolAfter(toHost', G) = PoolAfter(toHost, F)
  <2> DEFINE m == Len(toHost) - 1
  <2>1. m \in 0 .. Len(toHost) - 1 /\ m + 1 = Len(toHost) /\ Len(toHost') = m
      BY <1>1 DEF Moved
  <2>2. G[m] = F[m + 1]
      BY <1>1, <2>1 DEF Moved
  <2> HIDE DEF m
  <2> QED BY <2>1, <2>2 DEF PoolAfter
<1>6. Stream' /\ Protocol(G)'
  <2>1. CASE phase \in Startup
    <3>1. InStart(G)' /\ (host'.inputData = host.inputData \/ faults # 0)
        BY <1>1, <1>2, <2>1, MovedStart DEF Protocol
    <3>2. OnTheWay = <<>> /\ OnTheWay' = <<>>
        BY <1>3, <2>1 DEF OnTheWay, Startup
    <3>3. Stream'
        BY <1>1, <1>2, <3>1, <3>2, MovedQuietStream
    <3> QED BY <1>3, <2>1, <3>1, <3>3 DEF Protocol, Startup, Query
  <2>2. CASE phase = "ready"
    <3>1. InReady(G)' /\ host'.inputData = host.inputData
        BY <1>1, <1>2, <2>2, MovedReady DEF Protocol
    <3>2. OnTheWay = <<>> /\ OnTheWay' = <<>>
        BY <1>3, <2>2 DEF OnTheWay
    <3>3. Stream'
        BY <1>1, <1>2, <3>1, <3>2, MovedQuietStream
    <3> QED BY <1>3, <2>2, <3>1, <3>3 DEF Protocol, Startup, Query
  <2>3. CASE phase \in Query /\ Len(toHost) # 1
    <3>0. InQuery(F)
        BY <1>2, <1>3, <2>3 DEF Protocol
    <3>1. InQuery(G)' /\ host'.inputData = host.inputData /\ toBoard' = <<>>
        BY <1>1, <2>3, <3>0, MovedQuery
    <3>2. OnTheWay = <<>> /\ OnTheWay' = <<>>
        BY <1>3, <2>3, <3>0, <3>1 DEF OnTheWay, InQuery, Query
    <3>3. Stream'
        BY <1>1, <1>2, <3>1, <3>2, MovedQuietStream
    <3>4. toHost' # <<>>
      <4>1. Len(toHost') # 0 /\ Len(<<>>) = 0
          BY <1>1, <2>3 DEF Moved
      <4> QED BY <4>1
    <3> QED BY <1>3, <2>3, <3>1, <3>3, <3>4 DEF Protocol, Startup, Query
  <2>4. CASE phase \in Query /\ Len(toHost) = 1
    <3>0. InQuery(F)
        BY <1>2, <1>3, <2>4 DEF Protocol
    <3>1. Waits' /\ Stream' /\ toHost' = <<>>
        BY <1>1, <1>2, <2>4, <3>0, MovedWaits
    <3> QED BY <1>3, <2>4, <3>1 DEF Protocol, Startup, Query
  <2>5. phase # "input"
      BY <1>2, <1>3 DEF Protocol
  <2>6. phase \in Phases \ {"peeked"}
      BY <1>2 DEF Basics
  <2> QED BY <2>1, <2>2, <2>3, <2>4, <2>5, <2>6 DEF Phases, Startup, Query
<1> QED BY <1>3, <1>4, <1>5, <1>6 DEF Inv

(* Nothing is on the way to the host g.                                    *)
LEMMA TraceOfNone ==
  ASSUME NEW g, HostOK(g), NEW w, w = <<>>
  PROVE  \E J : Trace(g, w, J) /\ J[0] = g /\ Len(w) = 0
<1>1. w \in Seq(Byte) /\ Len(w) = 0
    OBVIOUS
<1>2. PICK J : Trace(g, w, J)
    BY <1>1, TraceExists
<1>3. J[0] = g
    BY <1>2 DEF Trace
<1> QED BY <1>1, <1>2, <1>3

(* A byte of input has come to the host. *)
Took(g, h, x) ==
    /\ g \in Hosts /\ g.initialized = h.initialized /\ g.pool = h.pool /\ g.command = h.command
    /\ g.processState = h.processState
    /\ g.inputData = Append(h.inputData, x) /\ Len(g.inputData) = Len(h.inputData) + 1
(* The host takes a byte of what was typed.                                *)
LEMMA HostTakes ==
  ASSUME NEW h \in Hosts, NEW x \in Byte, NEW g, g = [h EXCEPT !.inputData = Append(@, x)]
  PROVE  Took(g, h, x)
<1> DEFINE d == Append(h.inputData, x)
<1>1. d \in Seq(Byte) /\ Len(d) = Len(h.inputData) + 1
  <2>1. h.inputData \in Seq(Byte)
      BY DEF Hosts
  <2> QED BY <2>1, AppendProperties
<1>2. g = [h EXCEPT !.inputData = d]
    OBVIOUS
<1> HIDE DEF d
<1>3. g \in Hosts /\ g.initialized = h.initialized /\ g.pool = h.pool /\ g.command = h.command
      /\ g.processState = h.processState /\ g.inputData = d
    BY <1>1, <1>2 DEF Hosts
<1> QED BY <1>1, <1>3 DEF d, Took

(* The host may have more input than before. *)
LEMMA WaitsOn ==
  ASSUME Basics, Waits, HostOK(host), UNCHANGED <<boardVars, toBoard>>, HostOK(host'),
         host'.pool = host.pool, host'.initialized = host.initialized, IsIdle(host'),
         Len(host.inputData) \in Nat, Len(host'.inputData) \in Nat, Len(host'.inputData) >= Len(host.inputData)
  PROVE  Waits'
<1>1. phase' = phase /\ op' = op /\ got' = got /\ availableMin' = availableMin /\ toBoard' = toBoard
    BY DEF boardVars
<1>2. availableMin \in Nat /\ Len(toBoard) \in Nat
    BY Constants DEF Basics
<1>3. Ready(host')
    BY DEF Waits, Ready
<1>4. \A m \in Nat : m <= Len(host.inputData) => m <= Len(host'.inputData)
    OBVIOUS
<1>5. toBoard # <<>> => toBoard[1] \in Nat
  <2>1. toBoard \in Seq(Byte)
      BY DEF Basics
  <2>2. toBoard # <<>> => 1 \in 1 .. Len(toBoard)
      BY <2>1, EmptySeq
  <2>3. toBoard # <<>> => toBoard[1] \in Byte
      BY <2>1, <2>2
  <2> QED BY <2>3, Constants
<1>6. op.n \in Nat
    BY Constants DEF Basics, Ops
<1>7. ASSUME phase = "bytes" PROVE Waits'
    BY <1>1, <1>2, <1>3, <1>4, <1>7 DEF Waits
<1>8. ASSUME phase = "pong" PROVE Waits'
    BY <1>1, <1>2, <1>3, <1>4, <1>8 DEF Waits
<1>9. ASSUME phase = "count" PROVE Waits'
    BY <1>1, <1>2, <1>3, <1>4, <1>5, <1>9 DEF Waits
<1>10. ASSUME phase = "granted" PROVE Waits'
  <2>1. toBoard # <<>> => availableMin <= Len(host'.inputData) + toBoard[1]
      BY <1>2, <1>5, <1>10 DEF Waits
  <2> QED BY <1>1, <1>3, <1>10, <2>1 DEF Waits
<1>11. ASSUME phase = "input" PROVE Waits'
  <2>1. availableMin <= Len(host'.inputData) + op.n
      BY <1>2, <1>6, <1>11 DEF Waits
  <2> QED BY <1>1, <1>3, <1>11, <2>1 DEF Waits
<1> QED BY <1>1, <1>3, <1>7, <1>8, <1>9, <1>10, <1>11 DEF Waits

(* And the order of the input stays the same.                              *)
LEMMA HostTakesInputInv ==
  ASSUME NEW F, Inv(F), HostTakesInput
  PROVE  \E J : Inv(J)' /\ PoolAfter(toHost', J) = PoolAfter(toHost, F)
<1> DEFINE x == Head(inputQueue)
           D == host.inputData
<1>1. /\ toHost = <<>> /\ toHost' = <<>> /\ host.command = NoCommand /\ inputQueue # <<>>
      /\ host' = [host EXCEPT !.inputData = Append(@, x)] /\ inputQueue' = Tail(inputQueue)
      /\ UNCHANGED <<boardVars, toBoard, typed, taken, faults>>
    BY DEF HostTakesInput
<1>2. Trace(host, toHost, F) /\ Basics /\ Stream /\ Protocol(F)
    BY DEF Inv
<1>3. phase' = phase /\ op' = op /\ got' = got /\ gotinit' = gotinit /\ availableMin' = availableMin
      /\ toBoard' = toBoard /\ typed' = typed /\ taken' = taken /\ faults' = faults
    BY <1>1 DEF boardVars
<1>4. HostOK(host) /\ host \in Hosts /\ F[0] = host /\ D \in Seq(Byte) /\ Len(D) \in Nat /\ OnTheWay \in Seq(Byte)
      /\ inputQueue \in Seq(Byte) /\ Len(inputQueue) \in Nat /\ typed \in Nat /\ typed <= MaxTyped
    BY <1>2, Ranges
<1>5. x \in Byte /\ Tail(inputQueue) \in Seq(Byte) /\ Len(Tail(inputQueue)) = Len(inputQueue) - 1 /\ Len(inputQueue) >= 1
    BY <1>1, <1>4, HeadTailProperties, EmptySeq
<1>6. /\ host' \in Hosts /\ host'.initialized = host.initialized /\ host'.pool = host.pool /\ host'.command = host.command
      /\ host'.processState = host.processState
      /\ host'.inputData = Append(D, x) /\ Len(host'.inputData) = Len(D) + 1
  <2>1. Took(host', host, x)
    <3> HIDE DEF x
    <3> QED BY <1>1, <1>4, <1>5, HostTakes
  <2> QED BY <2>1 DEF Took
<1>7. Len(D) + Len(inputQueue) <= typed
    BY <1>2 DEF Stream, Streams
<1>8. Len(host'.inputData) + Len(inputQueue') <= typed /\ Len(host'.inputData) <= MaxTyped
    BY <1>1, <1>4, <1>5, <1>6, <1>7, Constants
<1>9. HostOK(host')
    BY <1>1, <1>6, <1>8 DEF HostOK
<1>10. PICK J : Trace(host', toHost', J) /\ J[0] = host' /\ Len(toHost') = 0
    BY <1>1, <1>9, TraceOfNone
<1>11. Basics'
    BY <1>1, <1>2, <1>3, <1>5 DEF Basics
<1>12. Stream'
  <2> DEFINE q == inputQueue
             w == OnTheWay
             s == w \o D \o q
             e == Append(D, x)
             r == Tail(q)
             t == w \o e \o r
  <2>1. OnTheWay' = w
      BY <1>3 DEF OnTheWay
  <2>2. Rest = s /\ Rest' = t
      BY <1>1, <1>6, <2>1 DEF Rest
  <2>3. e \in Seq(Byte)
      BY <1>4, <1>5
  <2>4. Parts(s, w, D, q) /\ Parts(t, w, e, r)
    <3> HIDE DEF w, D, e, r, q
    <3> QED BY <1>4, <1>5, <2>3, JoinedParts DEF w, r, q
  <2>5. Cut(t, s, 0, 0)
    <3> HIDE DEF w, D, q, s, t
    <3>1. q # <<>>
        BY <1>1 DEF q
    <3> QED BY <2>4, <3>1, MovesInput DEF q
  <2>6. Streams(s, D, q, taken, typed, faults)
      BY <1>2, <2>2 DEF Stream
  <2> HIDE DEF w, D, q, s, t, e, r
  <2>7. Len(e) + Len(r) <= typed
      BY <1>1, <1>6, <1>8 DEF e, r, q
  <2>8. Streams(t, e, r, taken, typed, faults)
      BY <2>5, <2>6, <2>7, StreamsCut
  <2>9. host'.inputData = e /\ inputQueue' = r
      BY <1>1, <1>6 DEF e, r, q
  <2> QED BY <1>3, <2>2, <2>8, <2>9 DEF Stream
<1>13. Len(D) <= Len(host'.inputData) /\ Len(host'.inputData) \in Nat
    BY <1>4, <1>6
<1>14. Protocol(J)'
  <2>1. CASE phase \in Startup
    <3>0. InStart(F)
        BY <1>2, <2>1 DEF Protocol
    <3>1. Greeted => Greeted'
        BY <1>1, <1>6 DEF Greeted
    <3>2. EndsHandshake => EndsHandshake'
        BY <1>1, <1>6 DEF EndsHandshake
    <3>3. AnswersHandshakes(toHost', J)
        BY <1>10 DEF AnswersHandshakes
    <3>4. InStart(J)'
        BY <1>1, <1>3, <1>6, <3>0, <3>1, <3>2, <3>3 DEF InStart
    <3> QED BY <1>3, <2>1, <3>4 DEF Protocol, Startup, Query
  <2>2. CASE phase = "ready"
    <3>0. InReady(F) /\ Len(toHost) = 0
        BY <1>1, <1>2, <1>10, <2>2 DEF Protocol
    <3>1. Ready(host')
        BY <1>4, <1>6, <1>9, <3>0 DEF InReady, Ready, IsIdle
    <3>2. QuietTo(toHost', J, 0)
        BY DEF QuietTo
    <3>3. availableMin' <= Len(host'.inputData)
      <4>1. availableMin \in Nat /\ availableMin <= Len(D)
          BY <1>2, <3>0, Constants DEF InReady, Basics
      <4> QED BY <1>3, <1>4, <1>13, <4>1
    <3>4. InReady(J)'
        BY <1>3, <1>10, <3>0, <3>1, <3>2, <3>3 DEF InReady
    <3> QED BY <1>3, <2>2, <3>4 DEF Protocol, Startup, Query
  <2>3. CASE phase \in Query \cup {"input"}
    <3>1. Waits
        BY <1>1, <1>2, <2>3 DEF Protocol
    <3>2. IsIdle(host')
        BY <1>6, <3>1 DEF Waits, Ready, IsIdle
    <3>3. Waits'
        BY <1>1, <1>2, <1>3, <1>4, <1>6, <1>9, <1>13, <3>1, <3>2, WaitsOn
    <3> QED BY <1>1, <1>3, <2>3, <3>3 DEF Protocol, Startup, Query
  <2>4. phase \in Phases \ {"peeked"}
      BY <1>2 DEF Basics
  <2> QED BY <2>1, <2>2, <2>3, <2>4 DEF Phases, Startup, Query
<1>15. PoolAfter(toHost', J) = PoolAfter(toHost, F)
    BY <1>1, <1>4, <1>6, <1>10 DEF PoolAfter
<1>16. Inv(J)'
    BY <1>10, <1>11, <1>12, <1>14 DEF Inv
<1> QED BY <1>15, <1>16

(* A byte typed is behind all others.                                      *)
LEMMA TypesAtEnd ==
  ASSUME NEW s, NEW t, NEW w, NEW b, NEW q, Parts(s, w, b, q), NEW x \in Byte, Parts(t, w, b, Append(q, x))
  PROVE  /\ t \in Seq(Byte) /\ Len(t) = Len(s) + 1 /\ t[Len(s) + 1] = x
         /\ \A i \in 1 .. Len(s) : t[i] = s[i]
<1> DEFINE r == Append(q, x)
<1>0. Parts(t, w, b, r) /\ q \in Seq(Byte)
    BY DEF Parts
<1>1. AppendIs(q, x, r)
    BY <1>0, Appends
<1> HIDE DEF r
<1>2. Len(b) \in Nat /\ Len(q) \in Nat /\ Len(w) \in Nat /\ Len(s) = Len(w) + Len(b) + Len(q)
      /\ Len(r) = Len(q) + 1 /\ t \in Seq(Byte)
    BY <1>0, <1>1 DEF Parts, AppendIs
<1>3. Len(t) = Len(s) + 1
    BY <1>0, <1>2 DEF Parts
<1>4. t[Len(s) + 1] = x
  <2> DEFINE j == Len(q) + 1
  <2>1. j \in 1 .. Len(r) /\ Len(w) + Len(b) + j = Len(s) + 1
      BY <1>2
  <2>2. r[j] = x
      BY <1>1 DEF AppendIs
  <2> HIDE DEF j
  <2>3. t[Len(w) + Len(b) + j] = r[j]
      BY <1>0, <2>1 DEF Parts
  <2> QED BY <2>1, <2>2, <2>3
<1>5. ASSUME NEW i \in 1 .. Len(s) PROVE t[i] = s[i]
  <2>1. CASE i <= Len(w)
    <3>1. i \in 1 .. Len(w)
        BY <1>2, <2>1
    <3> QED BY <1>0, <3>1 DEF Parts
  <2>2. CASE i > Len(w) /\ i <= Len(w) + Len(b)
    <3> DEFINE j == i - Len(w)
    <3>1. j \in 1 .. Len(b) /\ Len(w) + j = i
        BY <1>2, <2>2
    <3> HIDE DEF j
    <3>2. t[Len(w) + j] = b[j] /\ s[Len(w) + j] = b[j]
        BY <1>0, <3>1 DEF Parts
    <3> QED BY <3>1, <3>2
  <2>3. CASE i > Len(w) + Len(b)
    <3> DEFINE j == i - (Len(w) + Len(b))
    <3>1. j \in 1 .. Len(q) /\ j \in 1 .. Len(r) /\ Len(w) + Len(b) + j = i
        BY <1>2, <2>3
    <3> HIDE DEF j
    <3>2. t[Len(w) + Len(b) + j] = r[j] /\ s[Len(w) + Len(b) + j] = q[j]
        BY <1>0, <3>1 DEF Parts
    <3>3. r[j] = q[j]
        BY <1>1, <3>1 DEF AppendIs
    <3> QED BY <3>1, <3>2, <3>3
  <2> QED BY <1>2, <2>1, <2>2, <2>3
<1> QED BY <1>2, <1>3, <1>4, <1>5

(* Nothing that the protocol is about happens. *)
LEMMA ProtocolStays ==
  ASSUME NEW F, Protocol(F), phase' = phase, op' = op, got' = got, gotinit' = gotinit,
         availableMin' = availableMin, host' = host, toHost' = toHost, toBoard' = toBoard, faults' = faults
  PROVE  Protocol(F)'
<1>1. InStart(F) => InStart(F)'
  <2>1. (Greeted => Greeted') /\ (EndsHandshake => EndsHandshake')
      BY DEF Greeted, EndsHandshake
  <2> QED BY <2>1 DEF InStart
<1>2. InReady(F) => InReady(F)'
    BY DEF InReady
<1>3. InQuery(F) => InQuery(F)'
    BY DEF InQuery
<1>4. Waits => Waits'
    BY DEF Waits
<1> QED BY <1>1, <1>2, <1>3, <1>4 DEF Protocol

(* A byte is typed.                                                        *)
LEMMA TypeInv ==
  ASSUME NEW F, Inv(F), Type
  PROVE  Inv(F)' /\ PoolAfter(toHost', F) = PoolAfter(toHost, F)
<1> DEFINE x == typed + 1
           D == host.inputData
<1>1. /\ typed < MaxTyped /\ typed' = x /\ inputQueue' = Append(inputQueue, x)
      /\ UNCHANGED <<boardVars, host, toHost, toBoard, taken, faults>>
    BY DEF Type
<1>2. Trace(host, toHost, F) /\ Basics /\ Stream /\ Protocol(F)
    BY DEF Inv
<1>3. phase' = phase /\ op' = op /\ got' = got /\ gotinit' = gotinit /\ availableMin' = availableMin
      /\ toBoard' = toBoard /\ host' = host /\ toHost' = toHost /\ taken' = taken /\ faults' = faults
    BY <1>1 DEF boardVars
<1>4. D \in Seq(Byte) /\ Len(D) \in Nat /\ OnTheWay \in Seq(Byte) /\ inputQueue \in Seq(Byte)
      /\ Len(inputQueue) \in Nat /\ typed \in Nat /\ taken \in Nat /\ taken <= typed
    BY <1>2, Ranges
<1>5. x \in Byte /\ x \in 0 .. MaxTyped /\ taken \in 0 .. x
  <2>1. x \in Nat /\ x <= MaxTyped /\ MaxTyped \in Nat /\ x <= CmdStart /\ CmdStart \in Nat /\ PoolSize \in Nat
        /\ taken <= x
      BY <1>1, <1>4, Constants
  <2> QED BY <1>4, <2>1 DEF Byte
<1> HIDE DEF x, D
<1>6. AppendIs(inputQueue, x, Append(inputQueue, x))
    BY <1>4, <1>5, Appends
<1>7. Append(inputQueue, x) \in Seq(Byte) /\ Len(inputQueue') = Len(inputQueue) + 1
    BY <1>1, <1>4, <1>5, <1>6 DEF AppendIs
<1>8. Basics'
    BY <1>1, <1>2, <1>3, <1>5, <1>7 DEF Basics
<1>9. Stream'
  <2> DEFINE w == OnTheWay
             q == inputQueue
             r == Append(q, x)
             s == w \o D \o q
             t == w \o D \o r
  <2>1. OnTheWay' = w
      BY <1>3 DEF OnTheWay
  <2>2. Rest = s /\ Rest' = t
      BY <1>1, <1>3, <2>1 DEF Rest, D
  <2>3. Parts(s, w, D, q) /\ Parts(t, w, D, r)
    <3> HIDE DEF w, r, q
    <3> QED BY <1>4, <1>7, JoinedParts DEF w, r, q
  <2>4. /\ t \in Seq(Byte) /\ Len(t) = Len(s) + 1 /\ t[Len(s) + 1] = x
        /\ \A i \in 1 .. Len(s) : t[i] = s[i]
    <3> HIDE DEF w, q, s, t
    <3> QED BY <1>5, <2>3, TypesAtEnd
  <2>5. Streams(s, D, q, taken, typed, faults)
      BY <1>2, <2>2 DEF Stream, D
  <2> HIDE DEF s, t, w, q, r
  <2>6. Rising(t, taken, x) /\ (Numbered(s, taken, typed) => Numbered(t, taken, x))
      BY <1>4, <2>4, <2>5, TypesOne DEF Streams, x
  <2>7. Len(D) + Len(r) <= x
    <3>1. Len(D) + Len(q) <= typed
        BY <2>5 DEF Streams
    <3> QED BY <1>1, <1>4, <1>7, <3>1 DEF r, q, x
  <2>8. Streams(t, D, r, taken, x, faults)
      BY <2>5, <2>6, <2>7 DEF Streams
  <2> QED BY <1>1, <1>3, <2>2, <2>8 DEF Stream, r, q, D
<1>10. Protocol(F)'
    BY <1>2, <1>3, ProtocolStays
<1>11. Trace(host', toHost', F)
    BY <1>2, <1>3
<1> QED BY <1>3, <1>8, <1>9, <1>10, <1>11 DEF Inv

-----------------------------------------------------------------------------
(* The board: answers.                                                     *)

(* The board takes the first byte that is there. *)
Takes(F) ==
    /\ toHost = <<>> /\ Len(toHost) = 0 /\ F[0] = host /\ Waits /\ Ready(host)
    /\ toBoard \in Seq(Byte) /\ Len(toBoard) \in Nat /\ Len(toBoard) >= 1
    /\ Head(toBoard) = toBoard[1] /\ toBoard[1] \in Byte /\ toBoard[1] \in Nat
    /\ Tail(toBoard) \in Seq(Byte) /\ Len(Tail(toBoard)) = Len(toBoard) - 1
    /\ Len(toBoard) = 1 => Tail(toBoard) = <<>>
    /\ \A i \in 1 .. Len(toBoard) - 1 : Tail(toBoard)[i] = toBoard[i + 1]
    /\ op \in Ops /\ op.p \in Nat /\ op.n \in Nat /\ got \in Seq(Byte) /\ Len(got) \in Nat
    /\ availableMin \in Nat /\ Len(host.inputData) \in Nat /\ Len(host.inputData) <= MaxTyped /\ MaxTyped \in Nat
(* The board can only take a byte when the host has handled the call.      *)
LEMMA BoardTakes ==
  ASSUME NEW F, Inv(F), phase \in Query \cup {"input"}, toBoard # <<>>
  PROVE  Takes(F)
<1>1. Trace(host, toHost, F) /\ Basics /\ Protocol(F)
    BY DEF Inv
<1>2. toHost = <<>>
    BY <1>1 DEF Protocol, InQuery
<1>3. Waits
    BY <1>1, <1>2 DEF Protocol
<1>4. toBoard \in Seq(Byte) /\ op \in Ops /\ got \in Seq(Byte) /\ availableMin \in 0 .. MaxTyped
    BY <1>1 DEF Basics
<1>5. Len(toBoard) \in Nat /\ Len(toBoard) >= 1 /\ Head(toBoard) = toBoard[1] /\ toBoard[1] \in Byte
      /\ Tail(toBoard) \in Seq(Byte) /\ Len(Tail(toBoard)) = Len(toBoard) - 1
      /\ \A i \in 1 .. Len(toBoard) - 1 : Tail(toBoard)[i] = toBoard[i + 1]
    BY <1>4, HeadTailProperties, EmptySeq
<1>6. ASSUME Len(toBoard) = 1 PROVE Tail(toBoard) = <<>>
  <2>1. Len(Tail(toBoard)) = 0
      BY <1>5, <1>6
  <2> QED BY <1>5, <2>1, EmptySeq
<1>7. Byte \subseteq Nat /\ PoolSize \in Nat /\ MaxTyped \in Nat
    BY Constants
<1>8. op.p \in 0 .. PoolSize /\ op.n \in Byte
    BY <1>4 DEF Ops
<1>9. op.p \in Nat /\ op.n \in Nat /\ toBoard[1] \in Nat /\ availableMin \in Nat
  <2>1. op.n \in Nat /\ toBoard[1] \in Nat
      BY <1>5, <1>7, <1>8
  <2>2. op.p \in Nat
      BY <1>7, <1>8
  <2>3. availableMin \in Nat
      BY <1>4, <1>7
  <2> QED BY <2>1, <2>2, <2>3
<1>10. F[0] = host /\ Len(host.inputData) \in Nat /\ Len(host.inputData) <= MaxTyped
    BY <1>1, Ranges
<1>11. Ready(host)
    BY <1>3 DEF Waits
<1>12. Len(toHost) = 0 /\ Len(got) \in Nat
    BY <1>2, <1>4
<1> QED BY <1>2, <1>3, <1>4, <1>5, <1>6, <1>7, <1>9, <1>10, <1>11, <1>12 DEF Takes

(* The call is over, or goes on. *)
LEMMA CallOver ==
  ASSUME NEW F, Takes(F), UNCHANGED <<host, toHost>>, phase' = "ready", toBoard' = <<>>,
         availableMin' <= Len(host.inputData)
  PROVE  Protocol(F)' /\ PoolAfter(toHost', F) = PoolAfter(toHost, F)
<1>1. QuietTo(toHost', F, 0) /\ Len(toHost') = 0 /\ Ready(F[0])
    BY DEF QuietTo, Takes
<1>2. InReady(F)'
    BY <1>1 DEF InReady
<1>3. toHost' = toHost
    OBVIOUS
<1> QED BY <1>2, <1>3 DEF Protocol, Startup, Query

(* The call goes on and the host does not move.                            *)
LEMMA CallGoesOn ==
  ASSUME NEW F, Takes(F), UNCHANGED <<host, toHost>>, phase' \in Query \cup {"input"}, Waits'
  PROVE  Protocol(F)' /\ PoolAfter(toHost', F) = PoolAfter(toHost, F)
<1>1. toHost' = toHost /\ toHost' = <<>>
    BY DEF Takes
<1> QED BY <1>1 DEF Protocol, Startup, Query

(* No call is a call of its own kind.                                      *)
LEMMA NoOpType == NoOp \in Ops
<1>1. 0 \in Byte /\ 0 \in 0 .. PoolSize /\ "none" \in Kinds
    BY Constants, Numbers DEF Kinds
<1> QED BY <1>1 DEF NoOp, Ops

(* The board has got one byte more of a block of the pool. *)
GotBlock(block, pool, p, n) ==
    /\ block \in Seq(Byte) /\ Len(block) <= n /\ n >= 1 /\ p + n <= PoolSize
    /\ \A i \in 1 .. Len(block) : block[i] = pool[p + i]
(* The next byte is the next one of the block.                             *)
LEMMA BlockGrows ==
  ASSUME NEW F, Inv(F), Awaits("bytes")
  PROVE  /\ Takes(F) /\ GotBlock(Append(got, Head(toBoard)), host.pool, op.p, op.n)
         /\ Len(Append(got, Head(toBoard))) = Len(got) + 1
<1>1. phase = "bytes" /\ toBoard # <<>>
    BY DEF Awaits
<1>2. Takes(F)
    BY <1>1, BoardTakes DEF Query
<1> DEFINE x == Head(toBoard)
           block == Append(got, x)
<1>3. x \in Byte /\ got \in Seq(Byte) /\ x = toBoard[1] /\ Len(got) \in Nat /\ Len(toBoard) \in Nat
      /\ Len(toBoard) >= 1 /\ op.n \in Nat /\ op.p \in Nat
    BY <1>2 DEF Takes
<1>4. /\ op.n >= 1 /\ op.p + op.n <= PoolSize /\ Len(got) + Len(toBoard) <= op.n
      /\ \A i \in 1 .. Len(got) : got[i] = host.pool[op.p + i]
      /\ \A i \in 1 .. Len(toBoard) : toBoard[i] = host.pool[op.p + Len(got) + i]
    BY <1>1, <1>2 DEF Takes, Waits
<1>5. AppendIs(got, x, block)
    BY <1>3, Appends
<1> HIDE DEF block, x
<1>6. block \in Seq(Byte) /\ Len(block) = Len(got) + 1 /\ Len(block) <= op.n
    BY <1>3, <1>4, <1>5 DEF AppendIs
<1>7. ASSUME NEW i \in 1 .. Len(block) PROVE block[i] = host.pool[op.p + i]
  <2>1. CASE i = Len(got) + 1
    <3>1. block[i] = toBoard[1] /\ 1 \in 1 .. Len(toBoard)
        BY <1>3, <1>5, <2>1 DEF AppendIs
    <3>2. op.p + Len(got) + 1 = op.p + i
      <4>1. ASSUME NEW a \in Nat, NEW b \in Nat PROVE a + b + 1 = a + (b + 1)
          OBVIOUS
      <4> QED BY <1>3, <2>1, <4>1
    <3> QED BY <1>4, <3>1, <3>2
  <2>2. CASE i # Len(got) + 1
    <3>1. i \in 1 .. Len(got)
        BY <1>3, <1>6, <2>2
    <3> QED BY <1>4, <1>5, <3>1 DEF AppendIs
  <2> QED BY <2>1, <2>2
<1> QED BY <1>2, <1>4, <1>6, <1>7 DEF GotBlock, block, x

(* The board takes a byte of a block.                                      *)
LEMMA ReceiveByteInv ==
  ASSUME NEW F, Inv(F), ReceiveByte
  PROVE  Inv(F)' /\ PoolAfter(toHost', F) = PoolAfter(toHost, F)
<1> DEFINE block == Append(got, Head(toBoard))
<1>1. /\ Awaits("bytes") /\ phase = "bytes" /\ toBoard' = Tail(toBoard)
      /\ UNCHANGED <<gotinit, host, inputVars, toHost, faults, availableMin, taken>>
      /\ \/ Len(block) = op.n /\ phase' = "ready" /\ op' = NoOp /\ got' = <<>>
         \/ Len(block) # op.n /\ phase' = "bytes" /\ op' = op /\ got' = block
    BY DEF ReceiveByte, Awaits, Receives, Done
<1>2. /\ Takes(F) /\ GotBlock(block, host.pool, op.p, op.n) /\ Len(block) = Len(got) + 1
    BY <1>1, BlockGrows
<1> HIDE DEF block
<1>3. Trace(host, toHost, F) /\ Basics /\ Stream
    BY DEF Inv
<1>4. /\ inputQueue' = inputQueue /\ typed' = typed /\ host' = host /\ toHost' = toHost /\ faults' = faults
      /\ availableMin' = availableMin /\ taken' = taken /\ gotinit' = gotinit
    BY <1>1 DEF inputVars
<1>5. /\ availableMin <= Len(host.inputData) /\ Len(got) + Len(toBoard) <= op.n /\ Ready(host)
      /\ \A i \in 1 .. Len(toBoard) : toBoard[i] = host.pool[op.p + Len(got) + i]
    BY <1>1, <1>2 DEF Takes, Waits
<1>6. Len(toBoard) \in Nat /\ Len(toBoard) >= 1 /\ Len(got) \in Nat /\ op.n \in Nat /\ op.p \in Nat
      /\ toBoard' \in Seq(Byte) /\ Len(toBoard') = Len(toBoard) - 1
      /\ \A i \in 1 .. Len(toBoard) - 1 : toBoard'[i] = toBoard[i + 1]
    BY <1>1, <1>2 DEF Takes
<1>7. Basics'
  <2>1. op' \in Ops /\ got' \in Seq(Byte) /\ phase' \in Phases \ {"peeked"}
    <3>1. op \in Ops /\ <<>> \in Seq(Byte) /\ block \in Seq(Byte)
        BY <1>2 DEF Takes, GotBlock
    <3> QED BY <1>1, <3>1, NoOpType DEF Phases
  <2> QED BY <1>3, <1>4, <1>6, <2>1 DEF Basics
<1>8. Stream'
  <2>1. OnTheWay' = OnTheWay
      BY <1>1 DEF OnTheWay
  <2> QED BY <1>1, <1>3, <2>1, StreamStays
<1>9. Protocol(F)' /\ PoolAfter(toHost', F) = PoolAfter(toHost, F)
  <2>1. CASE Len(block) = op.n /\ phase' = "ready"
    <3>1. Len(toBoard) = 1
        BY <1>2, <1>5, <1>6, <2>1
    <3>2. toBoard' = <<>>
        BY <1>1, <1>2, <3>1 DEF Takes
    <3> QED BY <1>2, <1>4, <1>5, <2>1, <3>2, CallOver
  <2>2. CASE Len(block) # op.n /\ phase' = "bytes" /\ op' = op /\ got' = block
    <3>1. Len(got') = Len(got) + 1 /\ Len(got') < op.n /\ Len(got') + Len(toBoard') <= op.n
        BY <1>2, <1>5, <1>6, <2>2
    <3>2. ASSUME NEW i \in 1 .. Len(toBoard') PROVE toBoard'[i] = host.pool[op.p + Len(got') + i]
      <4>1. i \in 1 .. Len(toBoard) - 1 /\ i + 1 \in 1 .. Len(toBoard)
          BY <1>6
      <4>2. op.p + Len(got) + (i + 1) = op.p + Len(got') + i
        <5>1. ASSUME NEW a \in Nat, NEW b \in Nat, NEW c \in Nat PROVE a + b + (c + 1) = a + (b + 1) + c
            OBVIOUS
        <5> QED BY <1>6, <3>1, <5>1
      <4> QED BY <1>5, <1>6, <4>1, <4>2
    <3>3. \A i \in 1 .. Len(got') : got'[i] = host.pool[op.p + i]
        BY <1>2, <2>2 DEF GotBlock
    <3>4. op.n >= 1 /\ op.p + op.n <= PoolSize
        BY <1>2 DEF GotBlock
    <3>5. Waits'
        BY <1>4, <1>5, <2>2, <3>1, <3>2, <3>3, <3>4 DEF Waits
    <3> QED BY <1>2, <1>4, <2>2, <3>5, CallGoesOn DEF Query
  <2> QED BY <1>1, <2>1, <2>2
<1>10. Trace(host', toHost', F)
    BY <1>3, <1>4
<1> QED BY <1>7, <1>8, <1>9, <1>10 DEF Inv

(* The board takes a byte of the answer to ping().                         *)
LEMMA PongInv ==
  ASSUME NEW F, Inv(F), Pong
  PROVE  Inv(F)' /\ PoolAfter(toHost', F) = PoolAfter(toHost, F)
<1>1. /\ phase = "pong" /\ toBoard # <<>> /\ toBoard' = Tail(toBoard)
      /\ gotinit' = (gotinit \/ Head(toBoard) = CmdStart)
      /\ \/ Head(toBoard) = CmdPing /\ phase' = "ready"
         \/ phase' = "pong"
      /\ UNCHANGED <<op, got, availableMin, host, inputVars, toHost, taken, faults>>
    BY DEF Pong, WaitForCommand
<1>2. Takes(F)
    BY <1>1, BoardTakes DEF Query
<1>3. Trace(host, toHost, F) /\ Basics /\ Stream
    BY DEF Inv
<1>4. /\ op' = op /\ got' = got /\ inputQueue' = inputQueue /\ typed' = typed /\ host' = host /\ toHost' = toHost
      /\ faults' = faults /\ availableMin' = availableMin /\ taken' = taken
    BY <1>1 DEF inputVars
<1>5. /\ availableMin <= Len(host.inputData) /\ Ready(host)
      /\ Len(toBoard) <= 2 /\ (Len(toBoard) = 2 => toBoard[1] = CmdStart)
    BY <1>1, <1>2 DEF Takes, Waits
<1>6. Len(toBoard) \in Nat /\ Len(toBoard) >= 1 /\ toBoard' \in Seq(Byte) /\ Len(toBoard') = Len(toBoard) - 1
      /\ Head(toBoard) = toBoard[1]
    BY <1>1, <1>2 DEF Takes
<1>7. Basics'
  <2>1. phase' \in Phases \ {"peeked"} /\ gotinit' \in BOOLEAN
      BY <1>1 DEF Phases
  <2> QED BY <1>3, <1>4, <1>6, <2>1 DEF Basics
<1>8. Stream'
  <2>1. OnTheWay' = OnTheWay
      BY <1>1 DEF OnTheWay
  <2> QED BY <1>1, <1>3, <2>1, StreamStays
<1>9. Protocol(F)' /\ PoolAfter(toHost', F) = PoolAfter(toHost, F)
  <2>1. CASE Head(toBoard) = CmdPing /\ phase' = "ready"
    <3>1. CmdPing # CmdStart
        BY Constants, Numbers
    <3>2. Len(toBoard) = 1
        BY <1>5, <1>6, <2>1, <3>1
    <3>3. toBoard' = <<>>
        BY <1>1, <1>2, <3>2 DEF Takes
    <3> QED BY <1>2, <1>4, <1>5, <2>1, <3>3, CallOver
  <2>2. CASE phase' = "pong"
    <3>1. Len(toBoard') <= 1 /\ Len(toBoard') # 2
      <4>1. ASSUME NEW m \in Nat, NEW k, k = m - 1, m <= 2 PROVE k <= 1 /\ k # 2
          BY <4>1
      <4> QED BY <1>5, <1>6, <4>1
    <3>2. Len(toBoard') <= 2
        BY <1>6, <3>1
    <3>3. Waits'
        BY <1>4, <1>5, <2>2, <3>1, <3>2 DEF Waits
    <3> QED BY <1>2, <1>4, <2>2, <3>3, CallGoesOn DEF Query
  <2> QED BY <1>1, <2>1, <2>2
<1>10. Trace(host', toHost', F)
    BY <1>3, <1>4
<1> QED BY <1>7, <1>8, <1>9, <1>10 DEF Inv

(* The board takes the number of bytes there are.                          *)
LEMMA ReceiveCountInv ==
  ASSUME NEW F, Inv(F), ReceiveCount
  PROVE  Inv(F)' /\ PoolAfter(toHost', F) = PoolAfter(toHost, F)
<1>1. /\ phase = "count" /\ toBoard # <<>> /\ toBoard' = Tail(toBoard) /\ phase' = "ready"
      /\ op' = NoOp /\ got' = <<>> /\ availableMin' \in {availableMin, Head(toBoard)}
      /\ UNCHANGED <<gotinit, host, inputVars, toHost, taken, faults>>
    BY DEF ReceiveCount, Awaits, Receives, Done
<1>2. Takes(F)
    BY <1>1, BoardTakes DEF Query
<1>3. Trace(host, toHost, F) /\ Basics /\ Stream
    BY DEF Inv
<1>4. /\ gotinit' = gotinit /\ inputQueue' = inputQueue /\ typed' = typed /\ host' = host /\ toHost' = toHost
      /\ faults' = faults /\ taken' = taken
    BY <1>1 DEF inputVars
<1>5. /\ availableMin <= Len(host.inputData)
      /\ Len(toBoard) <= 1 /\ toBoard[1] <= Len(host.inputData)
    BY <1>1, <1>2 DEF Takes, Waits
<1>6. toBoard' \in Seq(Byte) /\ toBoard' = <<>> /\ availableMin' \in Nat /\ availableMin' <= Len(host.inputData)
  <2>1. Len(toBoard) = 1
      BY <1>2, <1>5 DEF Takes
  <2>2. toBoard' = <<>> /\ toBoard' \in Seq(Byte)
      BY <1>1, <1>2, <2>1 DEF Takes
  <2>3. availableMin' = availableMin \/ availableMin' = toBoard[1]
      BY <1>1, <1>2 DEF Takes
  <2>4. availableMin \in Nat /\ toBoard[1] \in Nat
      BY <1>2 DEF Takes
  <2> QED BY <1>5, <2>2, <2>3, <2>4
<1>7. Basics'
  <2>1. phase' \in Phases \ {"peeked"} /\ <<>> \in Seq(Byte)
      BY <1>1 DEF Phases
  <2>2. availableMin' \in 0 .. MaxTyped
      BY <1>2, <1>6 DEF Takes
  <2> QED BY <1>1, <1>3, <1>4, <1>6, <2>1, <2>2, NoOpType DEF Basics
<1>8. Stream'
  <2>1. OnTheWay' = OnTheWay
      BY <1>1 DEF OnTheWay
  <2> QED BY <1>1, <1>3, <2>1, StreamStays
<1>9. Protocol(F)' /\ PoolAfter(toHost', F) = PoolAfter(toHost, F)
    BY <1>1, <1>2, <1>4, <1>6, CallOver
<1>10. Trace(host', toHost', F)
    BY <1>3, <1>4
<1> QED BY <1>7, <1>8, <1>9, <1>10 DEF Inv

(* The board takes the number of bytes that come.                          *)
LEMMA ReceiveGrantInv ==
  ASSUME NEW F, Inv(F), ReceiveGrant
  PROVE  Inv(F)' /\ PoolAfter(toHost', F) = PoolAfter(toHost, F)
<1> DEFINE c == toBoard[1]
<1>1. /\ phase = "granted" /\ toBoard # <<>> /\ toBoard' = Tail(toBoard)
      /\ \/ Head(toBoard) = 0 /\ phase' = "ready" /\ op' = NoOp /\ got' = <<>>
         \/ Head(toBoard) # 0 /\ phase' = "input" /\ op' = [op EXCEPT !.n = Head(toBoard)] /\ got' = got
      /\ UNCHANGED <<gotinit, host, inputVars, toHost, availableMin, taken, faults>>
    BY DEF ReceiveGrant, Awaits, Receives, Done
<1>2. Takes(F)
    BY <1>1, BoardTakes DEF Query
<1>3. Trace(host, toHost, F) /\ Basics /\ Stream
    BY DEF Inv
<1>4. /\ gotinit' = gotinit /\ inputQueue' = inputQueue /\ typed' = typed /\ host' = host /\ toHost' = toHost
      /\ faults' = faults /\ taken' = taken /\ availableMin' = availableMin
    BY <1>1 DEF inputVars
<1>5. Head(toBoard) = c /\ c \in Byte /\ c \in Nat /\ op \in Ops /\ Len(toBoard) \in Nat /\ Len(toBoard) >= 1
      /\ availableMin \in Nat /\ Len(host.inputData) \in Nat
      /\ toBoard' \in Seq(Byte) /\ Len(toBoard') = Len(toBoard) - 1
    BY <1>1, <1>2 DEF Takes
<1>6. /\ got = <<>> /\ Len(toBoard) <= 1 + c /\ availableMin <= Len(host.inputData) + c /\ Ready(host)
    BY <1>1, <1>2 DEF Takes, Waits
<1> HIDE DEF c
<1>7. CASE c = 0
  <2>1. phase' = "ready" /\ op' = NoOp /\ got' = <<>>
      BY <1>1, <1>5, <1>7
  <2>2. Len(toBoard) = 1 /\ availableMin <= Len(host.inputData)
      BY <1>5, <1>6, <1>7
  <2>3. toBoard' = <<>> /\ Tail(toBoard) = <<>>
      BY <1>1, <1>2, <2>2 DEF Takes
  <2>4. Basics'
    <3>1. phase' \in Phases \ {"peeked"} /\ <<>> \in Seq(Byte)
        BY <2>1 DEF Phases
    <3> QED BY <1>3, <1>4, <1>5, <2>1, <3>1, NoOpType DEF Basics
  <2>5. Stream'
    <3>1. OnTheWay' = OnTheWay
        BY <1>1, <2>1, <2>3 DEF OnTheWay
    <3> QED BY <1>1, <1>3, <3>1, StreamStays
  <2>6. Protocol(F)' /\ PoolAfter(toHost', F) = PoolAfter(toHost, F)
      BY <1>2, <1>4, <2>1, <2>2, <2>3, CallOver
  <2>7. Trace(host', toHost', F)
      BY <1>3, <1>4
  <2> QED BY <2>4, <2>5, <2>6, <2>7 DEF Inv
<1>8. CASE c # 0
  <2>1. phase' = "input" /\ op' = [op EXCEPT !.n = c] /\ got' = got
      BY <1>1, <1>5, <1>8
  <2>2. op' \in Ops /\ op'.n = c
      BY <1>5, <2>1 DEF Ops
  <2>3. Basics'
    <3>1. phase' \in Phases \ {"peeked"}
        BY <2>1 DEF Phases
    <3> QED BY <1>3, <1>4, <1>5, <2>1, <2>2, <3>1 DEF Basics
  <2>4. Stream'
    <3>1. OnTheWay' = OnTheWay
        BY <1>1, <2>1 DEF OnTheWay
    <3> QED BY <1>1, <1>3, <3>1, StreamStays
  <2>5. Waits'
    <3>1. Len(got') = 0
        BY <1>6, <2>1
    <3>2. Len(got') < op'.n /\ Len(got') + Len(toBoard') <= op'.n
        BY <1>5, <1>6, <1>8, <2>2, <3>1
    <3> QED BY <1>4, <1>6, <2>1, <2>2, <3>2 DEF Waits
  <2>6. Protocol(F)' /\ PoolAfter(toHost', F) = PoolAfter(toHost, F)
      BY <1>2, <1>4, <2>1, <2>5, CallGoesOn
  <2>7. Trace(host', toHost', F)
      BY <1>3, <1>4
  <2> QED BY <2>3, <2>4, <2>6, <2>7 DEF Inv
<1> QED BY <1>7, <1>8

(* The first part loses its first byte. *)
LEMMA TailParts ==
  ASSUME NEW s, NEW t, NEW w, NEW v, NEW b, NEW q, Parts(s, w, b, q), Parts(t, v, b, q),
         Len(w) = Len(v) + 1, \A i \in 1 .. Len(v) : v[i] = w[i + 1]
  PROVE  t \in Seq(Byte) /\ Len(s) = Len(t) + 1 /\ s[1] = w[1] /\ \A i \in 1 .. Len(t) : t[i] = s[i + 1]
<1>1. Len(b) \in Nat /\ Len(q) \in Nat /\ Len(w) \in Nat /\ Len(v) \in Nat /\ t \in Seq(Byte)
      /\ Len(t) = Len(v) + Len(b) + Len(q) /\ Len(s) = Len(w) + Len(b) + Len(q)
    BY DEF Parts
<1>2. Len(s) = Len(t) + 1
    BY <1>1
<1>3. s[1] = w[1]
  <2>1. 1 \in 1 .. Len(w)
      BY <1>1
  <2> QED BY <2>1 DEF Parts
<1>4. ASSUME NEW i \in 1 .. Len(t) PROVE t[i] = s[i + 1]
  <2>1. CASE i <= Len(v)
    <3>1. i \in 1 .. Len(v) /\ i + 1 \in 1 .. Len(w)
        BY <1>1, <2>1
    <3> DEFINE k == i + 1
    <3>2. k \in 1 .. Len(w) /\ v[i] = w[k] /\ t[i] = v[i]
        BY <3>1 DEF Parts
    <3> HIDE DEF k
    <3>3. s[k] = w[k]
        BY <3>2 DEF Parts
    <3> QED BY <3>2, <3>3 DEF k
  <2>2. CASE i > Len(v) /\ i <= Len(v) + Len(b)
    <3> DEFINE j == i - Len(v)
    <3>1. j \in 1 .. Len(b) /\ Len(w) + j = i + 1 /\ Len(v) + j = i
        BY <1>1, <2>2
    <3> HIDE DEF j
    <3>2. t[Len(v) + j] = b[j] /\ s[Len(w) + j] = b[j]
        BY <3>1 DEF Parts
    <3> QED BY <3>1, <3>2
  <2>3. CASE i > Len(v) + Len(b)
    <3> DEFINE j == i - (Len(v) + Len(b))
    <3>1. j \in 1 .. Len(q) /\ Len(w) + Len(b) + j = i + 1 /\ Len(v) + Len(b) + j = i
        BY <1>1, <2>3
    <3> HIDE DEF j
    <3>2. t[Len(v) + Len(b) + j] = q[j] /\ s[Len(w) + Len(b) + j] = q[j]
        BY <3>1 DEF Parts
    <3> QED BY <3>1, <3>2
  <2> QED BY <1>1, <2>1, <2>2, <2>3
<1> QED BY <1>1, <1>2, <1>3, <1>4

(* What is left of a promise after n bytes is still kept.                  *)
LEMMA LessIsAvailable ==
  ASSUME NEW min \in Nat, NEW n \in Nat, NEW have \in Nat, min <= have + n
  PROVE  LessAvailable(min, n) \in Nat /\ LessAvailable(min, n) <= have /\ LessAvailable(min, n) <= min
BY DEF LessAvailable

(* The board takes a byte of input.                                        *)
LEMMA ReceiveInputInv ==
  ASSUME NEW F, Inv(F), ReceiveInput
  PROVE  Inv(F)' /\ PoolAfter(toHost', F) = PoolAfter(toHost, F)
<1> DEFINE x == toBoard[1]
           bytes == Append(got, Head(toBoard))
           D == host.inputData
<1>1. /\ phase = "input" /\ toBoard # <<>> /\ toBoard' = Tail(toBoard) /\ taken' = Head(toBoard)
      /\ \/ /\ Len(bytes) = op.n /\ phase' = "ready" /\ op' = NoOp /\ got' = <<>>
            /\ availableMin' = LessAvailable(availableMin, op.n)
         \/ Len(bytes) # op.n /\ phase' = "input" /\ op' = op /\ got' = bytes /\ availableMin' = availableMin
      /\ UNCHANGED <<gotinit, host, inputVars, toHost, faults>>
    BY DEF ReceiveInput, Awaits, Receives, Done
<1>2. Takes(F)
    BY <1>1, BoardTakes
<1>3. Trace(host, toHost, F) /\ Basics /\ Stream
    BY DEF Inv
<1>4. /\ gotinit' = gotinit /\ inputQueue' = inputQueue /\ typed' = typed /\ host' = host /\ toHost' = toHost
      /\ faults' = faults
    BY <1>1 DEF inputVars
<1>5. Head(toBoard) = x /\ x \in Byte /\ x \in Nat /\ op \in Ops /\ Len(toBoard) \in Nat /\ Len(toBoard) >= 1
      /\ availableMin \in Nat /\ Len(D) \in Nat /\ op.n \in Nat /\ got \in Seq(Byte) /\ Len(got) \in Nat
      /\ toBoard' \in Seq(Byte) /\ Len(toBoard') = Len(toBoard) - 1 /\ toBoard \in Seq(Byte)
      /\ \A i \in 1 .. Len(toBoard) - 1 : toBoard'[i] = toBoard[i + 1]
    BY <1>1, <1>2 DEF Takes
<1>6. /\ Len(got) < op.n /\ Len(got) + Len(toBoard) <= op.n /\ availableMin <= Len(D) + op.n /\ Ready(host)
    BY <1>1, <1>2 DEF Takes, Waits
<1>7. bytes \in Seq(Byte) /\ Len(bytes) = Len(got) + 1
    BY <1>5, AppendProperties
<1>8. LessAvailable(availableMin, op.n) \in Nat /\ LessAvailable(availableMin, op.n) <= Len(D)
      /\ LessAvailable(availableMin, op.n) <= availableMin
  <2> HIDE DEF D
  <2> QED BY <1>5, <1>6, LessIsAvailable
<1>9. D \in Seq(Byte) /\ inputQueue \in Seq(Byte) /\ typed \in Nat /\ taken \in Nat
    BY <1>3, Ranges
<1> HIDE DEF bytes, x, D
<1>10. Protocol(F)' /\ PoolAfter(toHost', F) = PoolAfter(toHost, F) /\ OnTheWay' = toBoard'
       /\ op' \in Ops /\ got' \in Seq(Byte) /\ phase' \in {"ready", "input"} /\ availableMin' \in Nat
       /\ availableMin' <= availableMin
  <2>1. CASE Len(bytes) = op.n
    <3>1. phase' = "ready" /\ op' = NoOp /\ got' = <<>> /\ availableMin' = LessAvailable(availableMin, op.n)
        BY <1>1, <2>1
    <3>2. Len(toBoard) = 1
        BY <1>5, <1>6, <1>7, <2>1
    <3>3. toBoard' = <<>>
        BY <1>1, <1>2, <3>2 DEF Takes
    <3>4. availableMin' <= Len(host.inputData)
        BY <1>8, <3>1 DEF D
    <3>5. OnTheWay' = toBoard' /\ <<>> \in Seq(Byte)
        BY <3>1, <3>3 DEF OnTheWay
    <3>6. Protocol(F)' /\ PoolAfter(toHost', F) = PoolAfter(toHost, F)
        BY <1>2, <1>4, <3>1, <3>3, <3>4, CallOver
    <3> QED BY <1>8, <3>1, <3>5, <3>6, NoOpType
  <2>2. CASE Len(bytes) # op.n
    <3>1. phase' = "input" /\ op' = op /\ got' = bytes /\ availableMin' = availableMin
        BY <1>1, <2>2
    <3>2. Len(got') < op'.n /\ Len(got') + Len(toBoard') <= op'.n
        BY <1>5, <1>6, <1>7, <2>2, <3>1
    <3>3. Waits'
        BY <1>4, <1>6, <3>1, <3>2 DEF Waits, D
    <3>4. OnTheWay' = toBoard'
        BY <3>1 DEF OnTheWay
    <3>5. Protocol(F)' /\ PoolAfter(toHost', F) = PoolAfter(toHost, F)
        BY <1>2, <1>4, <3>1, <3>3, CallGoesOn
    <3> QED BY <1>5, <1>7, <3>1, <3>4, <3>5
  <2> QED BY <2>1, <2>2
<1>11. Streams(Rest', D, inputQueue, x, typed, faults) /\ x <= typed
  <2> DEFINE w == toBoard
             v == toBoard'
             q == inputQueue
             s == w \o D \o q
             t == v \o D \o q
  <2>1. Rest = s /\ Rest' = t
      BY <1>1, <1>4, <1>10 DEF Rest, OnTheWay, D
  <2>2. Parts(s, w, D, q) /\ Parts(t, v, D, q)
    <3> HIDE DEF w, v, q
    <3> QED BY <1>5, <1>9, JoinedParts DEF w, v, q
  <2>3. Len(w) = Len(v) + 1 /\ \A i \in 1 .. Len(v) : v[i] = w[i + 1]
      BY <1>5
  <2>4. Streams(s, D, q, taken, typed, faults)
      BY <1>3, <2>1 DEF Stream, D
  <2>5. w[1] = x
      BY DEF x
  <2> HIDE DEF w, v, q, s, t
  <2>6. t \in Seq(Byte) /\ Len(s) = Len(t) + 1 /\ s[1] = w[1] /\ \A i \in 1 .. Len(t) : t[i] = s[i + 1]
      BY <2>2, <2>3, TailParts
  <2>7. /\ Rising(t, s[1], typed) /\ s[1] <= typed
        /\ Numbered(s, taken, typed) => Numbered(t, s[1], typed)
      BY <1>9, <2>4, <2>6, TakesFirstByte DEF Streams
  <2>8. Streams(t, D, q, x, typed, faults)
      BY <2>4, <2>5, <2>6, <2>7 DEF Streams
  <2> QED BY <2>1, <2>5, <2>6, <2>7, <2>8 DEF q
<1>12. Stream'
    BY <1>1, <1>4, <1>5, <1>11 DEF Stream, D
<1>13. Basics'
  <2>1. phase' \in Phases \ {"peeked"}
      BY <1>10 DEF Phases
  <2>2. availableMin' \in 0 .. MaxTyped
    <3>1. availableMin \in 0 .. MaxTyped /\ MaxTyped \in Nat
        BY <1>3, Constants DEF Basics
    <3> QED BY <1>10, <3>1
  <2>3. taken' \in 0 .. typed
      BY <1>1, <1>5, <1>9, <1>11
  <2> QED BY <1>3, <1>4, <1>5, <1>10, <2>1, <2>2, <2>3 DEF Basics
<1>14. Trace(host', toHost', F)
    BY <1>3, <1>4
<1> QED BY <1>10, <1>12, <1>13, <1>14 DEF Inv

-----------------------------------------------------------------------------
(* Faults.                                                                 *)

(* What is on the way to the board is lost, the host keeps its input. *)
LEMMA StreamLost ==
  ASSUME NEW F, Inv(F), OnTheWay' = <<>>, host'.inputData = host.inputData, UNCHANGED <<inputVars, taken>>,
         faults' = faults + 1
  PROVE  Stream'
<1>1. Trace(host, toHost, F) /\ Basics /\ Stream
    BY DEF Inv
<1> DEFINE w == OnTheWay
           e == <<>>
           D == host.inputData
           q == inputQueue
           s == w \o D \o q
           t == e \o D \o q
<1>2. D \in Seq(Byte) /\ w \in Seq(Byte) /\ q \in Seq(Byte) /\ e \in Seq(Byte) /\ faults \in Nat
    BY <1>1, Ranges
<1>3. inputQueue' = q /\ typed' = typed /\ taken' = taken
    BY DEF inputVars
<1>4. Rest = s /\ Rest' = t
    BY <1>3 DEF Rest
<1>5. Parts(s, w, D, q) /\ Parts(t, <<>>, D, q)
  <2>1. Parts(s, w, D, q) /\ Parts(t, e, D, q)
    <3> HIDE DEF w, e, q, D
    <3> QED BY <1>2, JoinedParts
  <2> QED BY <2>1
<1>6. Streams(s, D, q, taken, typed, faults)
    BY <1>1, <1>4 DEF Stream
<1> HIDE DEF w, e, D, q, s, t
<1>7. Cut(t, s, 0, Len(w))
    BY <1>5, LosesWay
<1>8. Len(D) + Len(q) <= typed
    BY <1>6 DEF Streams
<1>9. faults' # 0
    BY <1>2
<1>10. Streams(t, D, q, taken, typed, faults')
    BY <1>6, <1>7, <1>8, <1>9, StreamsCut
<1> QED BY <1>3, <1>4, <1>10 DEF Stream, D, q

(* The board begins again. *)
LEMMA RestartBasics ==
  ASSUME Basics, BoardRestarts, toBoard' \in Seq(Byte)
  PROVE  Basics' /\ phase' = "start" /\ OnTheWay' = <<>>
<1>1. /\ phase' = "start" /\ op' = NoOp /\ got' = <<>> /\ gotinit' = FALSE /\ availableMin' = 0
      /\ inputQueue' = inputQueue /\ typed' = typed /\ taken' = taken /\ faults' = faults + 1
    BY DEF BoardRestarts, inputVars
<1>2. 0 \in 0 .. MaxTyped /\ <<>> \in Seq(Byte) /\ "start" \in Phases \ {"peeked"} /\ faults' \in Nat
    BY <1>1, Constants DEF Phases, Basics
<1>3. Basics'
    BY <1>1, <1>2, NoOpType DEF Basics
<1> QED BY <1>1, <1>3 DEF OnTheWay

(* The answers to what is on the way to the host. *)
LEMMA AnswersAfterFault ==
  ASSUME NEW F, Inv(F)
  PROVE  AnswersHandshakes(toHost, F) /\ (toBoard # <<>> => Greeted)
<1>1. Trace(host, toHost, F) /\ Basics /\ Protocol(F)
    BY DEF Inv
<1> DEFINE n == Len(toHost)
<1>2. n \in Nat
    BY <1>1, Ranges
<1>3. CASE phase \in Startup
    BY <1>1, <1>3 DEF Protocol, InStart
<1>4. CASE phase = "ready"
  <2>1. toBoard = <<>> /\ QuietTo(toHost, F, n)
      BY <1>1, <1>4 DEF Protocol, InReady
  <2> QED BY <2>1 DEF QuietTo, AnswersHandshakes
<1>5. CASE phase \in Query \cup {"input"} /\ toHost = <<>>
  <2>1. Ready(host) /\ n = 0
      BY <1>1, <1>5 DEF Protocol, Waits
  <2>2. AnswersHandshakes(toHost, F) /\ Handshakes(toHost, 1)
      BY <2>1 DEF AnswersHandshakes, Handshakes
  <2> QED BY <2>1, <2>2 DEF Greeted, Ready, IsIdle
<1>6. CASE phase \in Query /\ toHost # <<>>
  <2>1. toBoard = <<>> /\ QuietTo(toHost, F, n - 1) /\ Ready(F[n])
      BY <1>1, <1>6 DEF Protocol, InQuery
  <2>2. ASSUME NEW k \in 1 .. n, Out(F[k - 1], toHost[k]) # <<>>
        PROVE  F[k].initialized = TRUE /\ Handshakes(toHost, k + 1)
    <3>1. k = n
        BY <1>2, <2>1, <2>2 DEF QuietTo
    <3>2. Handshakes(toHost, k + 1)
        BY <1>2, <3>1 DEF Handshakes
    <3> QED BY <2>1, <3>1, <3>2 DEF Ready
  <2> QED BY <2>1, <2>2 DEF AnswersHandshakes
<1>7. phase = "input" => toHost = <<>>
    BY <1>1 DEF Protocol
<1>8. phase \in Phases \ {"peeked"}
    BY <1>1 DEF Basics
<1> QED BY <1>3, <1>4, <1>5, <1>6, <1>7, <1>8 DEF Phases, Startup, Query

(* The board is reset: a command may be cut short and an answer be left.   *)
LEMMA ResetBoardInv ==
  ASSUME NEW F, Inv(F), ResetBoard
  PROVE  IInv'
<1>1. /\ BoardRestarts /\ host' = host /\ toBoard' \in {<<>>, toBoard}
      /\ phase' = "start" /\ gotinit' = FALSE /\ availableMin' = 0 /\ faults' = faults + 1
      /\ UNCHANGED <<inputVars, taken>>
    BY DEF ResetBoard, BoardRestarts
<1>2. Trace(host, toHost, F) /\ Basics
    BY DEF Inv
<1>3. PICK n \in 0 .. Len(toHost) : toHost' = SubSeq(toHost, 1, n)
    BY DEF ResetBoard
<1>4. Len(toHost) \in Nat /\ faults \in Nat
    BY <1>2, Ranges
<1>5. \E G : /\ Trace(host, toHost', G) /\ Len(toHost') = n
             /\ \A k \in 1 .. n : toHost'[k] = toHost[k]
             /\ \A k \in 0 .. n : G[k] = F[k]
  <2> DEFINE G == [k \in 0 .. n |-> F[k]]
             s == SubSeq(toHost, 1, n)
  <2>1. Trace(host, s, G) /\ Len(s) = n /\ \A k \in 1 .. n : s[k] = toHost[k]
      BY <1>2, TraceCut
  <2>2. \A k \in 0 .. n : G[k] = F[k]
      OBVIOUS
  <2>3. toHost' = s
      BY <1>3
  <2> HIDE DEF G, s
  <2> QED BY <2>1, <2>2, <2>3
<1>6. PICK G : /\ Trace(host, toHost', G) /\ Len(toHost') = n
               /\ \A k \in 1 .. n : toHost'[k] = toHost[k]
               /\ \A k \in 0 .. n : G[k] = F[k]
    BY <1>5
<1>7. toBoard' \in Seq(Byte)
  <2>1. toBoard \in Seq(Byte) /\ <<>> \in Seq(Byte)
      BY <1>2 DEF Basics
  <2> QED BY <1>1, <2>1
<1>8. Basics' /\ OnTheWay' = <<>>
    BY <1>1, <1>2, <1>7, RestartBasics
<1>9. Stream'
    BY <1>1, <1>8, StreamLost
<1>10. ASSUME NEW i \in Nat \ {0}, Handshakes(toHost, i) PROVE Handshakes(toHost', i)
  <2>1. ASSUME NEW j \in i .. Len(toHost') PROVE toHost'[j] \in HandshakeBytes
    <3>1. j \in 1 .. n /\ j \in i .. Len(toHost)
        BY <1>4, <1>6
    <3> QED BY <1>6, <1>10, <3>1 DEF Handshakes
  <2> QED BY <2>1 DEF Handshakes
<1>11. AnswersHandshakes(toHost', G)
  <2>1. ASSUME NEW k \in 1 .. n, Out(G[k - 1], toHost'[k]) # <<>>
        PROVE  G[k].initialized = TRUE /\ Handshakes(toHost', k + 1)
    <3>1. k \in 1 .. Len(toHost) /\ k \in 0 .. n /\ k - 1 \in 0 .. n /\ k + 1 \in Nat \ {0}
        BY <1>4
    <3>2. G[k] = F[k] /\ G[k - 1] = F[k - 1] /\ toHost'[k] = toHost[k]
        BY <1>6, <3>1
    <3>3. F[k].initialized = TRUE /\ Handshakes(toHost, k + 1)
        BY <2>1, <3>1, <3>2, AnswersAfterFault DEF AnswersHandshakes
    <3> QED BY <1>10, <3>1, <3>2, <3>3
  <2> QED BY <1>6, <2>1 DEF AnswersHandshakes
<1>12. toBoard' # <<>> => Greeted'
  <2> SUFFICES ASSUME toBoard' # <<>> PROVE Greeted'
      OBVIOUS
  <2>1. Greeted
      BY <1>1, AnswersAfterFault
  <2> QED BY <1>1, <1>10, <2>1 DEF Greeted
<1>13. InStart(G)'
  <2>1. faults' # 0 /\ phase' # "purge"
      BY <1>1, <1>4
  <2> QED BY <1>1, <1>11, <1>12, <2>1 DEF InStart
<1>14. Protocol(G)'
    BY <1>1, <1>13 DEF Protocol, Startup, Query
<1>15. Trace(host', toHost', G)
    BY <1>1, <1>6
<1> QED BY <1>8, <1>9, <1>14, <1>15 DEF IInv, Inv

(* The script begins again. *)
Dropped(g, h) ==
    /\ HostOK(g) /\ g.initialized = FALSE /\ g.command = NoCommand /\ g.inputData = h.inputData
(* The script has lost its connection.                                     *)
LEMMA HostDrops ==
  ASSUME NEW h, HostOK(h), NEW g, g = [h EXCEPT !.initialized = FALSE, !.command = NoCommand, !.args = <<>>]
  PROVE  Dropped(g, h)
<1>1. h \in Hosts /\ <<>> \in Seq(Byte)
    BY DEF HostOK
<1>2. g \in Hosts /\ g.initialized = FALSE /\ g.command = NoCommand /\ g.inputData = h.inputData
    BY <1>1 DEF Hosts
<1>3. HostOK(g)
    BY <1>2 DEF HostOK
<1> QED BY <1>2, <1>3 DEF Dropped

(* The port is disconnected: what was on the wires is lost.                *)
LEMMA DisconnectInv ==
  ASSUME NEW F, Inv(F), Disconnect
  PROVE  IInv'
<1>1. /\ BoardRestarts /\ toHost' = <<>> /\ toBoard' = <<>>
      /\ phase' = "start" /\ gotinit' = FALSE /\ availableMin' = 0 /\ faults' = faults + 1
      /\ UNCHANGED <<inputVars, taken>>
      /\ host' = [host EXCEPT !.initialized = FALSE, !.command = NoCommand, !.args = <<>>]
    BY DEF Disconnect, BoardRestarts
<1>2. Trace(host, toHost, F) /\ Basics
    BY DEF Inv
<1>3. HostOK(host) /\ faults \in Nat
    BY <1>2, Ranges
<1>4. Dropped(host', host)
    BY <1>1, <1>3, HostDrops
<1>5. PICK J : Trace(host', toHost', J) /\ J[0] = host' /\ Len(toHost') = 0
  <2>1. HostOK(host')
      BY <1>4 DEF Dropped
  <2> QED BY <1>1, <2>1, TraceOfNone
<1>6. Basics' /\ OnTheWay' = <<>>
  <2>1. toBoard' \in Seq(Byte)
      BY <1>1
  <2> QED BY <1>1, <1>2, <2>1, RestartBasics
<1>7. Stream'
    BY <1>1, <1>4, <1>6, StreamLost DEF Dropped
<1>8. InStart(J)'
  <2>1. faults' # 0 /\ phase' # "purge"
      BY <1>1, <1>3
  <2>2. AnswersHandshakes(toHost', J)
      BY <1>5 DEF AnswersHandshakes
  <2> QED BY <1>1, <2>1, <2>2 DEF InStart
<1>9. Protocol(J)'
    BY <1>1, <1>8 DEF Protocol, Startup, Query
<1> QED BY <1>5, <1>6, <1>7, <1>9 DEF IInv, Inv

(* Nothing happens.                                                        *)
LEMMA StutterInv ==
  ASSUME NEW F, Inv(F), UNCHANGED vars
  PROVE  Inv(F)' /\ PoolAfter(toHost', F) = PoolAfter(toHost, F)
<1>1. phase' = phase /\ op' = op /\ got' = got /\ gotinit' = gotinit /\ availableMin' = availableMin
      /\ toBoard' = toBoard /\ host' = host /\ toHost' = toHost /\ taken' = taken /\ faults' = faults
      /\ inputQueue' = inputQueue /\ typed' = typed
    BY DEF vars, boardVars, inputVars
<1>2. Trace(host, toHost, F) /\ Basics /\ Stream /\ Protocol(F)
    BY DEF Inv
<1>3. Basics'
    BY <1>1, <1>2 DEF Basics
<1>4. Stream'
  <2>1. OnTheWay' = OnTheWay
      BY <1>1 DEF OnTheWay
  <2> QED BY <1>1, <1>2, <2>1, StreamStays DEF inputVars
<1>5. Protocol(F)'
    BY <1>1, <1>2, ProtocolStays
<1>6. Trace(host', toHost', F)
    BY <1>1, <1>2
<1> QED BY <1>1, <1>3, <1>4, <1>5, <1>6 DEF Inv

-----------------------------------------------------------------------------
(* Every step.                                                             *)

(* The steps that leave the pool as it is, once start() has returned. *)
Steady ==
    \/ HostStep \/ Type \/ Answered \/ Ping \/ Available \/ AvailableAtLeast \/ PrintText
    \/ \E p \in 0 .. PoolSize - 1, n \in 1 .. PoolSize : DoRead(p, n)
    \/ \E n \in 1 .. MaxTyped : ReadInput(n)
Keeps(F, J) == Inv(J)' /\ PoolAfter(toHost', J) = PoolAfter(toHost, F)

(* The steps that leave the pool as it will be.                            *)
LEMMA SteadyInv ==
  ASSUME NEW F, Inv(F), Steady
  PROVE  \E J : Keeps(F, J)
<1>1. CASE HostReceives
    BY <1>1, HostReceivesInv DEF Keeps
<1>2. CASE HostTakesInput
    BY <1>2, HostTakesInputInv DEF Keeps
<1>3. CASE Type
    BY <1>3, TypeInv DEF Keeps
<1>4. CASE ReceiveByte
    BY <1>4, ReceiveByteInv DEF Keeps
<1>5. CASE Pong
    BY <1>5, PongInv DEF Keeps
<1>6. CASE ReceiveCount
    BY <1>6, ReceiveCountInv DEF Keeps
<1>7. CASE ReceiveGrant
    BY <1>7, ReceiveGrantInv DEF Keeps
<1>8. CASE ReceiveInput
    BY <1>8, ReceiveInputInv DEF Keeps
<1>k. CmdPing \in {CmdPing, CmdInputAvailable} /\ CmdInputAvailable \in {CmdPing, CmdInputAvailable}
      /\ CmdInputAvailable # CmdPing /\ "ping" \in Kinds /\ "available" \in Kinds /\ "availableAtLeast" \in Kinds
    BY Numbers DEF Kinds
<1>9. CASE Ping
  <2>1. Ask("ping", 0, 0, <<CmdStart, CmdPing>>, "pong")
      BY <1>9 DEF Ping
  <2> QED BY <1>k, <2>1, BareInv DEF Keeps
<1>10. CASE Available
  <2>1. Ask("available", 0, 0, <<CmdStart, CmdInputAvailable>>, "count")
      BY <1>10 DEF Available
  <2> QED BY <1>k, <2>1, BareInv DEF Keeps
<1>11. CASE AvailableAtLeast
  <2>1. Ask("availableAtLeast", 0, 0, <<CmdStart, CmdInputAvailable>>, "count")
      BY <1>11 DEF AvailableAtLeast
  <2> QED BY <1>k, <2>1, BareInv DEF Keeps
<1>12. CASE PrintText
    BY <1>12, PrintTextInv DEF Keeps
<1>13. CASE \E p \in 0 .. PoolSize - 1, n \in 1 .. PoolSize : DoRead(p, n)
    BY <1>13, DoReadInv DEF Keeps
<1>14. CASE \E n \in 1 .. MaxTyped : ReadInput(n)
    BY <1>14, ReadInputInv DEF Keeps
<1> QED BY <1>1, <1>2, <1>3, <1>4, <1>5, <1>6, <1>7, <1>8, <1>9, <1>10, <1>11, <1>12, <1>13, <1>14
        DEF Steady, HostStep, Answered

(* The other steps: start(), a write and a fault. *)
LEMMA NextCases ==
  ASSUME Next
  PROVE  \/ Steady \/ Starting \/ ResetBoard \/ Disconnect
         \/ \E p \in 0 .. PoolSize - 1 : \E n \in 1 .. PoolSize : \E d \in [1 .. n -> Val] : DoWrite(p, d)
BY DEF Next, Program, Steady

(* Every step keeps the invariant.                                         *)
LEMMA StepInv == IInv /\ [Next]_vars => IInv'
<1> SUFFICES ASSUME IInv, [Next]_vars PROVE IInv'
    OBVIOUS
<1>1. PICK F : Inv(F)
    BY DEF IInv
<1>2. CASE Steady
    BY <1>1, <1>2, SteadyInv DEF Keeps, IInv
<1>3. CASE Starting
    BY <1>1, <1>3, SendInitInv, HandshakeInv, PurgeInv, SendInitPoolInv DEF Starting
<1>4. CASE ResetBoard
    BY <1>1, <1>4, ResetBoardInv
<1>5. CASE Disconnect
    BY <1>1, <1>5, DisconnectInv
<1>6. CASE \E p \in 0 .. PoolSize - 1 : \E n \in 1 .. PoolSize : \E d \in [1 .. n -> Val] : DoWrite(p, d)
    BY <1>1, <1>6, DoWriteInv DEF IInv
<1>7. CASE UNCHANGED vars
    BY <1>1, <1>7, StutterInv DEF IInv
<1> QED BY <1>2, <1>3, <1>4, <1>5, <1>6, <1>7, NextCases

(* The invariant of the proofs below.                                      *)
THEOREM InvTheorem == Spec => []IInv
<1> QED BY InitInv, StepInv, PTL DEF Spec

(* All variables have their types.                                         *)
THEOREM TypeTheorem == Spec => []TypeOK
<1>1. IInv => TypeOK
  <2> SUFFICES ASSUME NEW F, Inv(F) PROVE TypeOK
      BY DEF IInv
  <2>1. Trace(host, toHost, F) /\ Basics
      BY DEF Inv
  <2>2. host \in Hosts /\ toHost \in Seq(Byte)
      BY <2>1, Ranges
  <2>3. /\ host.pool = NoPool \/ host.pool \in Seq(Byte)
        /\ host.processState \in {"idle", "gotinit"} /\ host.initialized \in BOOLEAN
        /\ host.command \in Byte \cup {NoCommand} /\ host.args \in Seq(Byte)
      BY <2>2, Constants DEF Hosts
  <2>4. op.p \in 0 .. PoolSize /\ op.n \in Byte /\ phase \in Phases
      BY <2>1 DEF Basics, Ops
  <2> QED BY <2>1, <2>2, <2>3, <2>4 DEF TypeOK, Basics
<1> QED BY <1>1, InvTheorem, PTL

(* What the invariant says between calls.                                  *)
LEMMA InReadyState ==
  ASSUME NEW F, Inv(F), phase = "ready"
  PROVE  InReady(F) /\ F[0] = host /\ Len(toHost) \in Nat
BY Ranges DEF Inv, Protocol

(* Between two calls the host waits for a command with a pool of the right *)
(* size, and nothing of an answer is left in the buffer of the board.      *)
THEOREM InStepTheorem == Spec => []HostInStep
<1>1. IInv => HostInStep
  <2> SUFFICES ASSUME NEW F, Inv(F), phase = "ready", toHost = <<>>
               PROVE  /\ host.processState = "idle" /\ host.initialized /\ Len(host.pool) = PoolSize
                      /\ toBoard = <<>>
      BY DEF IInv, HostInStep
  <2>1. InReady(F) /\ F[0] = host /\ Len(toHost) = 0
      BY InReadyState
  <2> QED BY <2>1 DEF InReady, Ready, IsIdle
<1> QED BY <1>1, InvTheorem, PTL

(* availableAtLeast() promises nothing that the host does not have.        *)
THEOREM PromiseTheorem == Spec => []PromisedInputIsThere
<1>1. IInv => PromisedInputIsThere
    BY InReadyState DEF IInv, PromisedInputIsThere, InReady
<1> QED BY <1>1, InvTheorem, PTL

(* What was typed reaches the program in order, and all of it as long as   *)
(* there is no fault and no answer is larger than the buffer of the board. *)
THEOREM InputTheorem == AnswersFit => (Spec => []InputInOrder)
<1> SUFFICES ASSUME AnswersFit PROVE Spec => []InputInOrder
    OBVIOUS
<1>1. IInv => InputInOrder
  <2> SUFFICES ASSUME IInv PROVE InputInOrder
      OBVIOUS
  <2>1. PICK F : Inv(F)
      BY DEF IInv
  <2>2. Streams(Rest, host.inputData, inputQueue, taken, typed, faults)
      BY <2>1 DEF Inv, Stream
  <2> DEFINE r == Rest
  <2>3. /\ Len(r) \in Nat /\ r \in Seq(Byte)
        /\ \A i \in 1 .. Len(r) : r[i] > taken /\ r[i] <= typed
        /\ \A i, j \in 1 .. Len(r) : i < j => r[i] < r[j]
        /\ faults = 0 => Len(r) = typed - taken
      BY <2>2 DEF Streams, Rising, Numbered
  <2> HIDE DEF r
  <2>4. ASSUME NEW i \in DOMAIN r PROVE r[i] > (IF i = 1 THEN taken ELSE r[i - 1])
    <3>1. i \in 1 .. Len(r) /\ (i # 1 => i - 1 \in 1 .. Len(r) /\ i - 1 < i)
        BY <2>3
    <3>2. CASE i = 1
        BY <2>3, <3>1, <3>2
    <3>3. CASE i # 1
      <4>1. r[i - 1] < r[i]
          BY <2>3, <3>1, <3>3
      <4>2. r[i] \in Nat /\ r[i - 1] \in Nat
          BY <2>3, <3>1, <3>3, Element
      <4> QED BY <3>3, <4>1, <4>2
    <3> QED BY <3>2, <3>3
  <2> QED BY <2>3, <2>4 DEF r, Rest, InputInOrder
<1> QED BY <1>1, InvTheorem, PTL

-----------------------------------------------------------------------------
(* The refinement: the pool that the program sees is the one that the host *)
(* has when it has taken in everything that is on its way.                 *)

Mem == IF Started THEN Settled.pool ELSE <<>>
MemIs(m, ph, w, F) == m = IF ph \in Startup THEN <<>> ELSE PoolAfter(w, F)

(* The pool the program sees is the one at the end of the trace.           *)
LEMMA MemNow ==
  ASSUME NEW F, Inv(F)
  PROVE  MemIs(Mem, phase, toHost, F)
<1>1. Settled = F[Len(toHost)]
    BY AfterIs DEF Settled, Inv
<1>2. Started <=> ~(phase \in Startup)
    BY DEF Started, Startup
<1> QED BY <1>1, <1>2 DEF Mem, MemIs, PoolAfter

(* And so in the next state.                                               *)
LEMMA MemNext ==
  ASSUME NEW J, Inv(J)'
  PROVE  MemIs(Mem', phase', toHost', J)
<1>0. Trace(host', toHost', J)
    BY DEF Inv
<1>1. Settled' = J[Len(toHost')]
    BY <1>0, AfterIs DEF Settled
<1>2. Started' <=> ~(phase' \in Startup)
    BY DEF Started, Startup
<1> QED BY <1>1, <1>2 DEF Mem, MemIs, PoolAfter

(* While the board starts there is none.                                   *)
LEMMA MemFresh ==
  ASSUME phase' \in Startup
  PROVE  Mem' = <<>>
BY DEF Mem, Started, Startup

(* start() goes on, or begins. *)
LEMMA StartupSteps ==
  ASSUME SendInit \/ Handshake \/ Purge
  PROVE  phase \in Startup /\ phase' \in Startup /\ call' = NoCall
BY DEF SendInit, Handshake, WaitForCommand, Purge, boardVars, Startup

(* Of these steps only the last byte of a block ends a call.               *)
LEMMA SteadyCall ==
  ASSUME Steady
  PROVE  /\ phase \in Startup <=> phase' \in Startup
         /\ call' = NoCall \/ ReceiveByte
<1> DEFINE Good == (phase \in Startup <=> phase' \in Startup) /\ (call' = NoCall \/ ReceiveByte)
<1>1. ASSUME HostReceives PROVE Good
    BY <1>1 DEF HostReceives, boardVars
<1>2. ASSUME HostTakesInput PROVE Good
    BY <1>2 DEF HostTakesInput, boardVars
<1>3. ASSUME Type PROVE Good
    BY <1>3 DEF Type, boardVars
<1>4. ASSUME PrintText PROVE Good
    BY <1>4 DEF PrintText, boardVars
<1>5. ASSUME NEW kind, NEW p, NEW n, NEW bytes, NEW next, Ask(kind, p, n, bytes, next), ~(next \in Startup) PROVE Good
    BY <1>5 DEF Ask, Startup
<1>6. ASSUME ReceiveByte PROVE Good
    BY <1>6 DEF ReceiveByte, Awaits, Receives, Startup
<1>7. ASSUME Pong PROVE Good
    BY <1>7 DEF Pong, WaitForCommand, Startup
<1>8. ASSUME ReceiveCount PROVE Good
    BY <1>8 DEF ReceiveCount, Awaits, Receives, Startup
<1>9. ASSUME ReceiveGrant PROVE Good
    BY <1>9 DEF ReceiveGrant, Awaits, Receives, Startup
<1>10. ASSUME ReceiveInput PROVE Good
    BY <1>10 DEF ReceiveInput, Awaits, Receives, Startup
<1>11. ~("bytes" \in Startup) /\ ~("pong" \in Startup) /\ ~("count" \in Startup) /\ ~("granted" \in Startup)
    BY DEF Startup
<1> HIDE DEF Good
<1>12. ASSUME Ping \/ Available \/ AvailableAtLeast PROVE Good
    BY <1>5, <1>11, <1>12 DEF Ping, Available, AvailableAtLeast
<1>13. ASSUME NEW p \in 0 .. PoolSize - 1, NEW n \in 1 .. PoolSize, DoRead(p, n) PROVE Good
    BY <1>5, <1>11, <1>13 DEF DoRead
<1>14. ASSUME NEW n \in 1 .. MaxTyped, ReadInput(n) PROVE Good
    BY <1>5, <1>11, <1>14 DEF ReadInput
<1>15. Good
    BY <1>1, <1>2, <1>3, <1>4, <1>6, <1>7, <1>8, <1>9, <1>10, <1>12, <1>13, <1>14 DEF Steady, HostStep, Answered
<1> QED BY <1>15 DEF Good

(* And none of them changes the pool.                                      *)
LEMMA SteadyMem ==
  ASSUME NEW F, Inv(F), Steady
  PROVE  Mem' = Mem
<1>1. PICK J : Keeps(F, J)
    BY SteadyInv
<1>2. Inv(J)' /\ PoolAfter(toHost', J) = PoolAfter(toHost, F)
    BY <1>1 DEF Keeps
<1>3. MemIs(Mem, phase, toHost, F) /\ MemIs(Mem', phase', toHost', J)
    BY <1>2, MemNow, MemNext
<1>4. phase \in Startup <=> phase' \in Startup
    BY SteadyCall
<1> QED BY <1>2, <1>3, <1>4 DEF MemIs

(* doRead() has the whole block, that of the address and size it asked for. *)
LEMMA ReadImplements ==
  ASSUME NEW F, Inv(F), ReceiveByte, call' # NoCall
  PROVE  \E p \in 0 .. PoolSize, n \in 1 .. PoolSize : Remote!Read(p, n)
<1> DEFINE block == Append(got, Head(toBoard))
           p == op.p
           n == op.n
           pool == host.pool
<1>1. Awaits("bytes") /\ phase = "bytes" /\ Len(block) = n /\ call' = <<"read", p, n, block>>
    BY DEF ReceiveByte, Awaits
<1>2. Takes(F) /\ GotBlock(block, pool, p, n)
    BY <1>1, BlockGrows
<1>3. pool \in Seq(Byte) /\ Len(pool) = PoolSize /\ p \in Nat /\ n \in Nat /\ PoolSize \in Nat
    BY <1>2, Constants DEF Takes, Ready
<1>4. Mem = pool
  <2>1. MemIs(Mem, phase, toHost, F) /\ F[0] = host /\ Len(toHost) = 0
      BY <1>2, MemNow DEF Takes
  <2> QED BY <1>1, <2>1 DEF MemIs, PoolAfter, Startup
<1>5. Mem' = Mem
  <2>1. Steady
      BY DEF Steady, Answered
  <2> QED BY <2>1, SteadyMem
<1> HIDE DEF block, pool, p, n
<1>6. block \in Seq(Byte) /\ n >= 1 /\ p + n <= PoolSize /\ \A i \in 1 .. n : block[i] = pool[p + i]
    BY <1>1, <1>2 DEF GotBlock
<1>7. block = SubSeq(pool, p + 1, p + n)
  <2> DEFINE s == SubSeq(pool, p + 1, p + n)
  <2>1. IsPart(s, pool, p, n)
      BY <1>3, <1>6, PoolPart
  <2> HIDE DEF s
  <2>2. block = s
      BY <1>1, <1>6, <2>1, SeqEqual DEF IsPart
  <2> QED BY <2>2 DEF s
<1>8. pool # <<>>
  <2>1. Len(<<>>) = 0 /\ Len(pool) # 0
      BY <1>3, <1>6
  <2> QED BY <2>1
<1>9. p \in 0 .. PoolSize /\ n \in 1 .. PoolSize
    BY <1>3, <1>6
<1>10. Remote!Read(p, n)
  <2>1. Mem # <<>> /\ Mem' = Mem /\ call' = <<"read", p, n, SubSeq(Mem, p + 1, p + n)>>
      BY <1>1, <1>4, <1>5, <1>7, <1>8
  <2>2. Remote!IsBlock(p, n)
      BY <1>3, <1>6 DEF Remote!IsBlock
  <2> QED BY <2>1, <2>2 DEF Remote!Read, Mem
<1> QED BY <1>9, <1>10

(* doWrite() has sent the block. *)
LEMMA WriteImplements ==
  ASSUME NEW F, Inv(F), NEW p \in 0 .. PoolSize - 1, NEW n \in 1 .. PoolSize, NEW d \in [1 .. n -> Val],
         DoWrite(p, d)
  PROVE  Remote!Write(p, n) /\ p \in 0 .. PoolSize
<1>1. PICK J : /\ Inv(J)' /\ Overwritten(PoolAfter(toHost', J), PoolAfter(toHost, F), p, n, d)
               /\ Len(PoolAfter(toHost, F)) = PoolSize
    BY DoWriteInv
<1>2. phase = "ready" /\ phase' = "ready" /\ p + Len(d) <= PoolSize /\ call' = <<"write", p, d>>
    BY DEF DoWrite, boardVars
<1>3. p \in Nat /\ n \in Nat /\ n >= 1 /\ PoolSize \in Nat /\ p \in 0 .. PoolSize
    BY Constants
<1>4. d \in Seq(Byte) /\ Len(d) = n
  <2>1. \A i \in 1 .. n : d[i] \in Byte
      BY Constants
  <2> QED BY <1>3, <2>1
<1>5. Mem = PoolAfter(toHost, F) /\ Mem' = PoolAfter(toHost', J)
  <2>1. MemIs(Mem, phase, toHost, F) /\ MemIs(Mem', phase', toHost', J)
      BY <1>1, MemNow, MemNext
  <2> QED BY <1>2, <2>1 DEF MemIs, Startup
<1>6. Len(Mem) = PoolSize /\ Len(Mem') = PoolSize /\ Mem' \in Seq(Byte)
      /\ \A i \in 1 .. PoolSize : Mem'[i] = IF i - p \in 1 .. n THEN d[i - p] ELSE Mem[i]
    BY <1>1, <1>5 DEF Overwritten
<1>7. Mem # <<>>
  <2>1. Len(<<>>) = 0 /\ Len(Mem) # 0
      BY <1>3, <1>6, Constants
  <2> QED BY <2>1
<1>8. p + n <= PoolSize
    BY <1>2, <1>4
<1>9. d = SubSeq(Mem', p + 1, p + n)
  <2> DEFINE q == Mem'
             s == SubSeq(q, p + 1, p + n)
  <2>1. q \in Seq(Byte) /\ Len(q) = PoolSize
        /\ \A i \in 1 .. PoolSize : i - p \in 1 .. n => q[i] = d[i - p]
      BY <1>6
  <2> HIDE DEF q
  <2>0. IsPart(s, q, p, n)
      BY <1>3, <1>8, <2>1, PoolPart
  <2>2. s \in Seq(Byte) /\ Len(s) = n /\ \A i \in 1 .. n : s[i] = q[p + i]
      BY <2>0 DEF IsPart
  <2>3. ASSUME NEW i \in 1 .. n PROVE s[i] = d[i]
    <3>1. p + i \in 1 .. PoolSize /\ (p + i) - p = i /\ (p + i) - p \in 1 .. n
        BY <1>3, <1>8
    <3> QED BY <2>1, <2>2, <3>1
  <2> HIDE DEF s
  <2>4. d = s
      BY <1>4, <2>2, <2>3, SeqEqual
  <2> QED BY <2>4 DEF s, q
<1>10. ASSUME NEW i \in 1 .. PoolSize
       PROVE  IF i - p \in 1 .. n THEN Mem'[i] \in Val ELSE Mem'[i] = Mem[i]
  <2>1. i - p \in 1 .. n => d[i - p] \in Val
      OBVIOUS
  <2> QED BY <1>6, <2>1
<1>11. Remote!IsBlock(p, n)
    BY <1>3, <1>8 DEF Remote!IsBlock
<1>12. call' = <<"write", p, SubSeq(Mem', p + 1, p + n)>>
    BY <1>2, <1>9
<1> QED BY <1>3, <1>6, <1>7, <1>10, <1>11, <1>12 DEF Remote!Write, Mem

(* The serial allocator is a pool that keeps what was written to it and    *)
(* gives back what is in it, whatever faults there were before.            *)
THEOREM RefinementTheorem == Spec => ImplementsRemotePool
<1>1. Init => Remote!Init
    BY DEF Init, Remote!Init, Started, NoCall, Remote!NoCall
<1>2. IInv /\ [Next]_vars => [Remote!Next]_Remote!remoteVars
  <2> SUFFICES ASSUME NEW F, Inv(F), [Next]_vars
               PROVE  Remote!Next \/ UNCHANGED Remote!remoteVars
      BY DEF IInv
  <2>0. NoCall = Remote!NoCall
      BY DEF NoCall, Remote!NoCall
  <2>1. ASSUME Mem' = Mem, call' = NoCall PROVE Remote!Next
      BY <2>0, <2>1 DEF Remote!Next, Remote!Other, Mem
  <2>2. ASSUME Mem' = <<>>, call' = NoCall PROVE Remote!Next
      BY <2>0, <2>2 DEF Remote!Next, Remote!Reset, Mem
  <2>3. CASE Steady
    <3>1. CASE call' = NoCall
        BY <2>1, <2>3, <3>1, SteadyMem
    <3>2. CASE call' # NoCall
      <4>1. \E p \in 0 .. PoolSize, n \in 1 .. PoolSize : Remote!Read(p, n)
          BY <2>3, <3>2, SteadyCall, ReadImplements
      <4> QED BY <4>1 DEF Remote!Next
    <3> QED BY <3>1, <3>2
  <2>4. CASE SendInit \/ Handshake \/ Purge
      BY <2>2, <2>4, StartupSteps, MemFresh
  <2>5. CASE SendInitPool
    <3>1. PICK G : Trace(host', toHost', G) /\ Len(toHost') = 3 /\ G[3].pool = Zeros(PoolSize)
        BY <2>5, SendInitPoolTrace
    <3>2. phase = "purge" /\ phase' = "ready" /\ call' = NoCall
        BY <2>5 DEF SendInitPool
    <3>3. Settled' = G[3]
        BY <3>1, AfterIs DEF Settled
    <3>4. Mem = <<>> /\ Mem' = Zeros(PoolSize)
        BY <3>1, <3>2, <3>3 DEF Mem, Started
    <3>5. Remote!Start
        BY <2>0, <3>2, <3>4 DEF Remote!Start, Mem
    <3> QED BY <3>5 DEF Remote!Next
  <2>6. CASE ResetBoard \/ Disconnect
    <3>1. phase' \in Startup /\ call' = NoCall
        BY <2>6 DEF ResetBoard, Disconnect, BoardRestarts, Startup
    <3> QED BY <2>2, <3>1, MemFresh
  <2>7. CASE \E p \in 0 .. PoolSize - 1 : \E n \in 1 .. PoolSize : \E d \in [1 .. n -> Val] : DoWrite(p, d)
    <3>1. PICK p \in 0 .. PoolSize - 1, n \in 1 .. PoolSize : \E d \in [1 .. n -> Val] : DoWrite(p, d)
        BY <2>7
    <3>2. Remote!Write(p, n) /\ p \in 0 .. PoolSize
        BY <3>1, WriteImplements
    <3> QED BY <3>2 DEF Remote!Next
  <2>8. CASE UNCHANGED vars
    <3>1. phase' = phase /\ host' = host /\ toHost' = toHost /\ call' = call
        BY <2>8 DEF vars, boardVars
    <3>2. Mem' = Mem
        BY <3>1 DEF Mem, Started, Settled
    <3> QED BY <3>1, <3>2 DEF Remote!remoteVars, Mem
  <2> QED BY <2>3, <2>4, <2>5, <2>6, <2>7, <2>8, NextCases DEF Starting
<1> QED BY <1>1, <1>2, InvTheorem, PTL DEF Spec, Remote!Spec, ImplementsRemotePool
=============================================================================
