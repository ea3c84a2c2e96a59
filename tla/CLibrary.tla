------------------------------ MODULE CLibrary ------------------------------
(***************************************************************************)
(* What the C functions on memory and strings do, each in one step and on  *)
(* any memory: the promise of the overloads of vptr_utils.hpp, which take  *)
(* virtual pointers for the same parameters.  Nothing of pages, locks or   *)
(* pieces is visible here.  COverloads refines this module.                *)
(*                                                                         *)
(* A call names two operands p and q and a size n.  Functions with one     *)
(* operand have p = q; those that only end at the end of a string have the *)
(* size MaxSize, which is no size any memory has.                          *)
(***************************************************************************)
EXTENDS Integers

CONSTANTS Virtual,   \* addresses of the virtual memory
          Regular,   \* addresses of regular memory
          Val,       \* the values of a byte
          MaxSize,   \* (VPtrSize)-1
          Sizes      \* a bound: the sizes that are passed

VARIABLES mem,       \* all memory a call can reach
          call,      \* the call that has not returned yet
          result     \* of the last function that returned a number

cVars == <<mem, call, result>>

Addr == Virtual \cup Regular
Copying == {"memcpy", "strncpy", "strcpy"}
Comparing == {"memcmp", "strncmp", "strcmp"}
Endless == {"strcpy", "strcmp", "strlen"}
Function == Copying \cup Comparing \cup {"memset", "strlen"}
Call == {c \in [fn : Function, p : Addr, q : Addr, n : Sizes \cup {MaxSize}, c : Val] :
            /\ c.fn \in Endless => c.n = MaxSize
            /\ c.fn \in {"memset", "strlen"} => c.p = c.q
            /\ c.fn # "memset" => c.c = 0}
NoCall == [fn |-> "none"]

Span(p, n) == p .. (p + n - 1)
InOne(p, n) == Span(p, n) \subseteq Virtual \/ Span(p, n) \subseteq Regular
Sign(v, w) == IF v < w THEN -1 ELSE IF v > w THEN 1 ELSE 0

-----------------------------------------------------------------------------
(* Byte k is part of the string at p, its terminator included. *)
InString(m, p, k) == \A j \in 0 .. k - 1 : m[p + j] # 0

MemCpy(m, p, q, n) ==
    [a \in DOMAIN m |-> IF a \in Span(p, n) THEN m[q + (a - p)] ELSE m[a]]
StrNCpy(m, p, q, n) ==
    [a \in DOMAIN m |->
        IF a \in Span(p, n) THEN IF InString(m, q, a - p) THEN m[q + (a - p)] ELSE 0 ELSE m[a]]
StrCpy(m, p, q, n) ==
    [a \in DOMAIN m |->
        IF a \in Span(p, n) /\ InString(m, q, a - p) THEN m[q + (a - p)] ELSE m[a]]
MemSet(m, p, c, n) == [a \in DOMAIN m |-> IF a \in Span(p, n) THEN c ELSE m[a]]

(* The memory after the call c. *)
Effect(m, c) ==
    CASE c.fn = "memcpy"  -> MemCpy(m, c.p, c.q, c.n)
      [] c.fn = "strncpy" -> StrNCpy(m, c.p, c.q, c.n)
      [] c.fn = "strcpy"  -> StrCpy(m, c.p, c.q, c.n)
      [] c.fn = "memset"  -> MemSet(m, c.p, c.c, c.n)
      [] OTHER -> m

(* Comparing ends at byte k: the operands differ, or both strings end.     *)
Decides(m, p, q, k, strings) == m[p + k] # m[q + k] \/ (strings /\ m[p + k] = 0)

(* r is the sign of the comparison of n bytes.                             *)
Compares(m, p, q, n, strings, r) ==
    \/ r = 0 /\ \A k \in 0 .. n - 1 : ~Decides(m, p, q, k, strings)
    \/ \E k \in 0 .. n - 1 :
          /\ \A j \in 0 .. k - 1 : ~Decides(m, p, q, j, strings)
          /\ Decides(m, p, q, k, strings)
          /\ r = Sign(m[p + k], m[q + k])

IsResult(m, c, r) ==
    CASE c.fn = "memcmp" -> Compares(m, c.p, c.q, c.n, FALSE, r)
      [] c.fn \in {"strncmp", "strcmp"} -> Compares(m, c.p, c.q, c.n, TRUE, r)
      [] c.fn = "strlen" -> r >= 0 /\ InString(m, c.p, r) /\ m[c.p + r] = 0
      [] OTHER -> r = 0

Results(m, c) == {r \in -1 .. MaxSize : IsResult(m, c, r)}

(* The call looks at no more than k bytes of its operands.                 *)
Enough(m, c, k) ==
    \/ k = c.n
    \/ c.fn \in {"strncpy", "strcpy", "strlen"} /\ \E j \in 0 .. k - 1 : m[c.q + j] = 0
    \/ c.fn \in {"strncmp", "strcmp"} /\ \E j \in 0 .. k - 1 : Decides(m, c.p, c.q, j, TRUE)

Written(c, k) == IF c.fn = "strncpy" THEN c.n ELSE k
Disjoint(p, n, q, k) == Span(p, n) \cap Span(q, k) = {}

(* What C asks of the arguments: memory of the caller, strings that end,   *)
(* and no overlap of what is read with what is written.                    *)
Legal(m, c) ==
    \E k \in 0 .. c.n :
        /\ InOne(c.q, k) /\ InOne(c.p, Written(c, k))
        /\ Enough(m, c, k)
        /\ c.fn \in Copying => \/ Disjoint(c.p, Written(c, k), c.q, k)
                               \/ c.fn = "memcpy" /\ c.p = c.q

LegalCalls(m) == {c \in Call : Legal(m, c)}

-----------------------------------------------------------------------------
Init == mem \in [Addr -> Val] /\ call = NoCall /\ result = 0

Begin ==
    /\ call = NoCall
    /\ call' \in LegalCalls(mem) /\ result' = 0
    /\ UNCHANGED mem

Return ==
    /\ call # NoCall
    /\ mem' = Effect(mem, call)
    /\ result' \in Results(mem, call)
    /\ call' = NoCall

Next == Begin \/ Return

Spec == Init /\ [][Next]_cVars
=============================================================================
