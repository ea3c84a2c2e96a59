----------------------------- MODULE COverloads -----------------------------
(***************************************************************************)
(* The overloads of the C memory and string functions in vptr_utils.hpp.   *)
(* They lock a piece of each operand, call the C function on the pieces,   *)
(* release the locks and go on with the next bytes.  How large a lock gets *)
(* depends on the pages and on the locks the program holds: it is any size *)
(* up to the one asked for (makeFittingLock), and what is locked has the   *)
(* bytes of the memory (PageLocks, of a program whose locks fit).          *)
(*                                                                         *)
(* A pointer is virtual or regular by its address; a virtual pointer that  *)
(* wraps a regular one is unwrapped before anything else is done with it.  *)
(* One step is one piece.  The sizes are those of VirtPageSize, 16 bits    *)
(* wide, which here has LockModulus values.                                *)
(***************************************************************************)
EXTENDS CLibrary

CONSTANTS PageSize,      \* getBigPageSize()
          LockModulus,   \* values of VirtPageSize
          ShortStrings,  \* the functions whose strings may end before the size
          FarApart       \* operands may be a multiple of LockModulus apart

ASSUME AddressAssumption == Virtual \subseteq Nat /\ Regular \subseteq Nat /\ Virtual \cap Regular = {}
ASSUME ValueAssumption == Val \subseteq Nat /\ 0 \in Val
ASSUME SizeAssumption ==
    /\ MaxSize \in Nat /\ Sizes \subseteq 0 .. MaxSize /\ PageSize \in Nat \ {0} /\ LockModulus \in Nat
    /\ PageSize < LockModulus
    /\ \A p \in Addr : ~InOne(p, MaxSize)
ASSUME SwitchAssumption == ShortStrings \subseteq Function /\ FarApart \in BOOLEAN

VARIABLES at,      \* bytes of the operands done so far
          stop,    \* the loop is left before the size is reached
          before   \* the memory when the call began

vars == <<mem, call, result, at, stop, before>>

(* ptrEqual: only rawCopy and rawCompare look.                             *)
PtrEqual(c) == c.fn \in Copying \cup Comparing /\ c.p = c.q
BothRegular(c) == c.p \in Regular /\ c.q \in Regular

(* A destination points to char and a source to const char, so that only   *)
(* the two operands of a comparison have the same type.                    *)
SameType(c) == c.fn \in Comparing /\ c.p \in Virtual /\ c.q \in Virtual
Distance(c) == (IF c.p < c.q THEN c.q - c.p ELSE c.p - c.q) % LockModulus

Smaller(m, n) == IF m < n THEN m ELSE n
PageBytes(p) == IF p \in Virtual THEN PageSize ELSE LockModulus - 1

(* Mutant: the distance is counted in whole pages.                         *)
MaxLockSizePages(c) ==
    LET page == Smaller(PageBytes(c.p), PageBytes(c.q))
    IN  IF SameType(c) THEN Smaller(page, PageSize * (Distance(c) \div PageSize)) ELSE page
(* getMaxLockSize: one piece must not reach the other operand.             *)
MaxLockSize(c) ==
    LET page == Smaller(PageBytes(c.p), PageBytes(c.q))
    IN  IF SameType(c) THEN Smaller(page, Distance(c)) ELSE page

(* The sizes the next piece may have, once the locks it needs are made.    *)
PieceSizes ==
    LET left == call.n - at
        most == Smaller(MaxLockSize(call), left)
    IN  IF BothRegular(call) THEN {left} ELSE IF most = 0 THEN {0} ELSE 1 .. most

(* The call for the next k bytes. *)
Piece(k) == [call EXCEPT !.p = @ + at, !.q = @ + at, !.n = k]

(* The copier returned false: strncpy when the last byte of the piece is a *)
(* terminator, strcpy when there is one in the piece.                      *)
CopierAborts(c, after) ==
    CASE c.fn = "strncpy" -> c.n = 0 \/ after[c.p + c.n - 1] = 0
      [] c.fn = "strcpy"  -> c.n = 0 \/ \E j \in 0 .. c.n - 1 : mem[c.q + j] = 0
      [] OTHER -> FALSE

(* Mutant: the strings are found to be equal, but not that they ended.     *)
NeverDone(c, r) == FALSE
(* strcmp alone tells rawCompare that the strings are equal and ended.     *)
ComparatorDone(c, r) == c.fn = "strcmp" /\ r = 0 /\ \E j \in 0 .. c.n - 1 : mem[c.p + j] = 0

-----------------------------------------------------------------------------
(* What a program may ask for: what is legal in C, in so far as the        *)
(* overloads keep to it.                                                   *)
StringsLast(m, c) ==
    CASE c.fn = "strncpy" -> InString(m, c.q, c.n - 1)
      [] c.fn = "strncmp" -> \A j \in 0 .. c.n - 2 :
              \/ \E i \in 0 .. j - 1 : m[c.p + i] # m[c.q + i]
              \/ m[c.p + j] # 0 \/ m[c.q + j] # 0
      [] OTHER -> TRUE

SupportedCalls(m) ==
    {c \in LegalCalls(m) :
        /\ IF c.fn \in ShortStrings THEN InOne(c.p, c.n) /\ InOne(c.q, c.n) ELSE StringsLast(m, c)
        /\ FarApart \/ (SameType(c) /\ ~PtrEqual(c) => Distance(c) # 0)}

InitOverloads == Init /\ at = 0 /\ stop = FALSE /\ before = mem

(* Mutant: the count begins one too low. *)
BeginCallEarly ==
    /\ call = NoCall /\ call' \in SupportedCalls(mem)
    /\ Begin
    /\ at' = -1 /\ stop' = PtrEqual(call') /\ before' = mem
BeginCall ==
    /\ call = NoCall /\ call' \in SupportedCalls(mem)
    /\ Begin
    /\ at' = 0 /\ stop' = PtrEqual(call') /\ before' = mem

Looping(functions) == call.fn \in functions /\ ~stop /\ at < call.n

(* rawCopy and memset *)
CopyPiece ==
    /\ Looping(Copying \cup {"memset"})
    /\ \E k \in PieceSizes :
          /\ mem' = Effect(mem, Piece(k))
          /\ at' = at + k
          /\ stop' = CopierAborts(Piece(k), mem')
    /\ UNCHANGED <<call, result, before>>

(* rawCompare *)
ComparePiece ==
    /\ Looping(Comparing)
    /\ \E k \in PieceSizes : \E r \in Results(mem, Piece(k)) :
          /\ result' = r
          /\ at' = at + k
          /\ stop' = (r # 0 \/ ComparatorDone(Piece(k), r))
    /\ UNCHANGED <<mem, call, before>>

(* Mutant: the terminator is counted as well. *)
CountByteAndEnd ==
    /\ Looping({"strlen"})
    /\ stop' = (mem[call.p + at] = 0)
    /\ at' = IF stop' THEN at ELSE at + 1
    /\ result' = at + 1
    /\ UNCHANGED <<mem, call, before>>
(* strlen, one virtual read at a time *)
CountByte ==
    /\ Looping({"strlen"})
    /\ stop' = (mem[call.p + at] = 0)
    /\ at' = IF stop' THEN at ELSE at + 1
    /\ result' = at
    /\ UNCHANGED <<mem, call, before>>

ReturnCall ==
    /\ call # NoCall
    /\ stop \/ at = call.n
    /\ call' = NoCall /\ at' = 0 /\ stop' = FALSE /\ before' = mem
    /\ UNCHANGED <<mem, result>>

Work == CopyPiece \/ ComparePiece \/ CountByte \/ ReturnCall
NextOverloads == BeginCall \/ Work

(* The program is single threaded: a function that was called runs on.     *)
SpecOverloads == InitOverloads /\ [][NextOverloads]_vars /\ WF_vars(Work)

-----------------------------------------------------------------------------
(* Properties                                                              *)

TypeOK ==
    /\ mem \in [Addr -> Val] /\ before \in [Addr -> Val]
    /\ call \in Call \cup {NoCall}
    /\ result \in -1 .. MaxSize
    /\ at \in 0 .. MaxSize /\ stop \in BOOLEAN

(* While a function runs, the bytes it did are those C would have done so  *)
(* far, and nothing else of the memory is touched: a comparison that goes  *)
(* on has found no difference and no end, a copy has not passed the end.   *)
DoneSoFar == [call EXCEPT !.n = at]
GoesOn(b, c, u) ==
    CASE c.fn \in {"strncpy", "strcpy"} -> InString(b, c.q, u)
      [] c.fn \in Comparing -> \A j \in 0 .. u - 1 : ~Decides(b, c.p, c.q, j, c.fn # "memcmp")
      [] c.fn = "strlen" -> InString(b, c.p, u)
      [] OTHER -> TRUE
PiecesJoin ==
    call # NoCall =>
        /\ mem = Effect(before, DoneSoFar)
        /\ ~stop /\ at < call.n => GoesOn(before, call, at)

(* A call on virtual pointers has the effect and the result that C gives   *)
(* the function of that name, however its operands are cut into pieces.    *)
C == INSTANCE CLibrary WITH mem <- IF call = NoCall THEN mem ELSE before,
                            result <- IF call = NoCall THEN result ELSE 0
ImplementsCLibrary == C!Spec

(* Every call returns, whatever sizes the locks have. *)
CallsReturn == call # NoCall ~> call = NoCall
=============================================================================
