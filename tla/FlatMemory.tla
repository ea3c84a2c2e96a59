----------------------------- MODULE FlatMemory -----------------------------
(***************************************************************************)
(* What BaseVAlloc promises to the code that uses it: a flat array of      *)
(* bytes.  A write changes the bytes it names, to the values it names, and *)
(* no other; a read returns what was written last.  Nothing of pages,      *)
(* swapping, dirty flags or locks is visible here.  BaseVAlloc and         *)
(* PageLocks refine this module.                                           *)
(***************************************************************************)
EXTENDS Integers

CONSTANTS Addr,     \* the addresses of the virtual memory
          Val,      \* the values of a byte
          MaxIO     \* the largest block one call reads or writes

VARIABLES mem,      \* the contents of the virtual memory
          call      \* the last call, with the block it read or wrote

flatVars == <<mem, call>>

Span(p, n) == p .. (p + n - 1)

(* f with the bytes of d over it; the domain of f stays. *)
Patch(f, d) == [a \in DOMAIN f |-> IF a \in DOMAIN d THEN d[a] ELSE f[a]]

(* The blocks one call may name: not at the null pointer, within the pool. *)
IsBlock(p, n) == p # 0 /\ n \in 1 .. MaxIO /\ Span(p, n) \subseteq Addr

NoCall == <<"none", <<>>>>

Init == mem \in [Addr -> Val] /\ call = NoCall

(* A read of the block returns d. *)
Read(p, n, d) ==
    /\ IsBlock(p, n)
    /\ call' = <<"read", d>>
    /\ \A a \in Span(p, n) : d[a] = mem[a]
    /\ UNCHANGED mem

Write(p, n, d) ==
    /\ IsBlock(p, n)
    /\ call' = <<"write", d>>
    /\ mem' = Patch(mem, d)

(* A call that neither reads nor writes. *)
Other == call' = NoCall /\ UNCHANGED mem

Next == \/ Other
        \/ \E p \in Addr, n \in 1 .. MaxIO : \E d \in [Span(p, n) -> Val] :
              Read(p, n, d) \/ Write(p, n, d)

Spec == Init /\ [][Next]_flatVars
=============================================================================
