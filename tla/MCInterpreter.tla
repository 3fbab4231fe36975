--------------------------- MODULE MCInterpreter ---------------------------
(* Instances of Interpreter for TLC.  The integers are scaled down: a uint64 *)
(* has 10 bits, a word 4 bytes and every price is at most 4, in the order    *)
(* the real prices have.                                                     *)
EXTENDS Interpreter, TLC

Prices == [GasQuickStep |-> 1, GasFastestStep |-> 1, GasFastStep |-> 1, GasMidStep |-> 2, GasSlowStep |-> 2,
           GasExtStep |-> 2, Keccak256Gas |-> 1, WarmStorageReadCost |-> 1, ColdAccountAccessCost |-> 2,
           ColdSloadCost |-> 2, JumpdestGas |-> 1, CreateGas |-> 2, Create2Gas |-> 2, SelfdestructGas |-> 2,
           MemoryGas |-> 1, QuadCoeffDiv |-> 8, CopyGas |-> 1, Keccak256WordGas |-> 1, LogGas |-> 1,
           LogTopicGas |-> 1, LogDataGas |-> 1, ExpGas |-> 1, ExpByte |-> 1, InitCodeWordGas |-> 1,
           CreateBySelfdestructGas |-> 2, SstoreSentryGas |-> 2, SstoreSetGas |-> 4, SstoreResetGas |-> 3,
           SstoreClearsScheduleRefund |-> 2, CallNewAccountGas |-> 2, CallValueTransferGas |-> 3, CallStipend |-> 2]

Big == Wrap             \* a 256-bit operand that is no uint64
Most == Wrap - 1
Pieces == {<<0, 0>>, <<0, 1>>, <<1, WordBytes>>, <<Most, 1>>, <<Big, 0>>, <<0, Big>>}
FewPieces == {<<0, 0>>, <<1, WordBytes>>, <<Most, 1>>, <<0, Big>>}

\* The operands of a span, and those of a set of one or two spans.
Piece(s, pieces) == IF s[2] \in {WordLen, ByteLen} THEN {s[1] :> o : o \in {0, 1, Most, Big}}
                    ELSE {(s[1] :> p[1]) @@ (s[2] :> p[2]) : p \in pieces}
Spanned(spans) ==
    IF spans = {} THEN {<<>>}
    ELSE LET s == CHOOSE s \in spans : TRUE
             rest == spans \ {s}
         IN  IF rest = {} THEN Piece(s, Pieces)
             ELSE {a @@ b : a \in Piece(s, FewPieces), b \in UNION {Piece(t, FewPieces) : t \in rest}}

\* Gas, address and value of a call, address of other operations, and values.
Others(op) ==
    CASE op[1] \in {"CALL", "CALLCODE"} -> {(0 :> g) @@ (1 :> a) @@ (2 :> v) : g \in {0, Big}, a \in {Self, Nobody}, v \in {0, 1}}
      [] op[1] \in {"DELEGATECALL", "STATICCALL"} -> {(0 :> g) @@ (1 :> a) : g \in {0, Big}, a \in {Self, Nobody}}
      [] op[1] \in {"BALANCE", "EXTCODESIZE", "EXTCODEHASH", "EXTCODECOPY", "SELFDESTRUCT"} -> {0 :> a : a \in {Self, Nobody}}
      [] op[1] \in {"SSTORE", "EXP"} -> {1 :> v : v \in {0, 1}}
      [] op[1] = "RETURNDATACOPY" -> {1 :> v : v \in {0, 1, Big}}
      [] OTHER -> {<<>>}

Zeros == [n \in 0 .. 6 |-> 0] @@ (WordLen :> WordBytes) @@ (ByteLen :> 1)
AllOperands == [op \in DOMAIN JumpTable |-> {a @@ b @@ Zeros : a \in Others(op), b \in Spanned(execute[op].spans)}]

Slots == {[original |-> 1, current |-> 1], [original |-> 1, current |-> 0]}
Gases == {4, 14}
=============================================================================
