------------------------------ MODULE RemotePool ------------------------------
(***************************************************************************)
(* What an allocator whose pool is on another device promises to the page  *)
(* manager once start() has returned: a pool that keeps every block        *)
(* written to it until the board is reset.  Nothing of the device, of      *)
(* protocols and wires is visible here.  SerialLink and SpiChips refine    *)
(* this module.                                                            *)
(***************************************************************************)
EXTENDS Integers, Sequences

CONSTANTS PoolSize,   \* bytes in the pool
          Val,        \* the values of a byte
          Fresh       \* what the pool may hold when it is started

VARIABLES mem,        \* the pool; empty before start() has returned
          call        \* the last call: what was asked, and the block read or written

remoteVars == <<mem, call>>

NoCall == <<"none", <<>>>>
IsBlock(p, n) == p >= 0 /\ n >= 1 /\ p + n <= PoolSize

Init == mem = <<>> /\ call = NoCall

Start == mem = <<>> /\ mem' \in Fresh /\ call' = NoCall
Reset == mem' = <<>> /\ call' = NoCall

(* A block is written, and no other byte changes.                          *)
Write(p, n) ==
    /\ mem # <<>> /\ IsBlock(p, n)
    /\ Len(mem') = PoolSize
    /\ \A i \in 1 .. PoolSize : IF i - p \in 1 .. n THEN mem'[i] \in Val ELSE mem'[i] = mem[i]
    /\ call' = <<"write", p, SubSeq(mem', p + 1, p + n)>>

(* The answer is the block that was asked for.                             *)
Read(p, n) ==
    /\ mem # <<>> /\ IsBlock(p, n)
    /\ call' = <<"read", p, n, SubSeq(mem, p + 1, p + n)>>
    /\ UNCHANGED mem

Other == call' = NoCall /\ UNCHANGED mem

Next == \/ Start
        \/ Reset
        \/ Other
        \/ \E p \in 0 .. PoolSize, n \in 1 .. PoolSize : Read(p, n) \/ Write(p, n)

Spec == Init /\ [][Next]_remoteVars
=============================================================================
