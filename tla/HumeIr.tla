------------------------------- MODULE HumeIr -------------------------------
(***************************************************************************)
(* hume-ir: scalar expressions over columns in SSA form, their verifier,   *)
(* the interpreter, the two passes of the optimiser and the code generator *)
(* of the JIT.  A program is built one instruction at a time, closed with  *)
(* any of its values as the result, and then run by each tier.             *)
(*                                                                         *)
(* An integer wraps at IrBits bits, as i64 does at 64 in a release build;  *)
(* a float is a small number, exact, or NaN.                               *)
(***************************************************************************)
EXTENDS Integers, Sequences, FiniteSets, FiniteSetsExt

CONSTANTS IrBits,      \* width of an integer
          IrMaxInsts,  \* bound: instructions of a program
          IrLiterals,  \* the literals
          IrColumns,   \* the columns: sequences of values, all of one type and one length
          IrOps        \* operations on values, of those of Arith, Compare and Logic

VARIABLES irInsts,  \* Builder::insts: instruction i defines value i, from 0 on
          irFn      \* the Function closed by finish, or NoFn
irVars == <<irInsts, irFn>>

NoFn == [n_columns |-> 0, insts |-> <<>>, ret |-> -1]
Val(ty, v) == [ty |-> ty, v |-> v]
Bool(p) == Val("Bool", IF p THEN 1 ELSE 0)
NaN == 99

Arith == {"add", "sub", "mul"}
Compare == {"gt", "lt", "eq"}
Logic == {"and", "or"}
\* An instruction: the operands of an operation, the index of a column, the literal.
Op(op, a, b, lit) == [op |-> op, a |-> a, b |-> b, lit |-> lit]
operands(x) == CASE x.op \in {"const", "column"} -> {}
                 [] x.op = "not" -> {x.a}
                 [] OTHER -> {x.a, x.b}
Values(f) == 0..(Len(f.insts) - 1)
Inst(f, i) == f.insts[i + 1]
-----------------------------------------------------------------------------
(* The verifier: what each value's type is, "bad" where it has none.       *)

Signature(x, ta, tb) ==
    CASE x.op \in Arith \cup Compare ->
           IF ta # tb \/ ta = "Bool" THEN "bad" ELSE IF x.op \in Arith THEN ta ELSE "Bool"
      [] x.op \in Logic -> IF ta = "Bool" /\ tb = "Bool" THEN "Bool" ELSE "bad"
      [] x.op = "not" -> IF ta = "Bool" THEN "Bool" ELSE "bad"
TypesOf(f) ==
    LET ty[i \in Values(f)] ==
            LET x == Inst(f, i)
            IN  CASE x.op = "const" -> x.lit.ty
                  [] x.op = "column" -> IF x.a >= f.n_columns THEN "bad" ELSE x.lit.ty
                  [] OTHER -> IF \E v \in operands(x) : v >= i \/ ty[v] = "bad" THEN "bad"
                              ELSE Signature(x, ty[x.a], ty[IF x.op = "not" THEN x.a ELSE x.b])
    IN  ty
verify(f) == f.ret \in Values(f) /\ \A i \in Values(f) : TypesOf(f)[i] # "bad"
-----------------------------------------------------------------------------
(* The interpreter, on one row.                                            *)

Signed(n) == LET m == n % 2^IrBits IN IF m >= 2^(IrBits - 1) THEN m - 2^IrBits ELSE m
Unordered(x, y) == x.ty = "F64" /\ NaN \in {x.v, y.v}
Calc(op, m, n) == CASE op = "add" -> m + n [] op = "sub" -> m - n [] op = "mul" -> m * n
arith(op, x, y) == Val(x.ty, IF x.ty = "I64" THEN Signed(Calc(op, x.v, y.v))
                             ELSE IF Unordered(x, y) THEN NaN ELSE Calc(op, x.v, y.v))
Holds(op, m, n) == CASE op = "gt" -> m > n [] op = "lt" -> m < n [] op = "eq" -> m = n
compare(op, x, y) == Bool(~Unordered(x, y) /\ Holds(op, x.v, y.v))
logic(op, x, y) == Bool(IF op = "and" THEN x.v = 1 /\ y.v = 1 ELSE x.v = 1 \/ y.v = 1)
Apply(op, x, y) == CASE op \in Arith -> arith(op, x, y)
                     [] op \in Compare -> compare(op, x, y)
                     [] op \in Logic -> logic(op, x, y)
interpret(f, row) ==
    LET env[i \in Values(f)] ==
            LET x == Inst(f, i)
            IN  CASE x.op = "const" -> x.lit
                  [] x.op = "column" -> IrColumns[x.a + 1][row]
                  [] x.op = "not" -> Bool(env[x.a].v # 1)
                  [] OTHER -> Apply(x.op, env[x.a], env[x.b])
    IN  env[f.ret]
Rows == DOMAIN IrColumns[1]
interpret_mask(f) == {r \in Rows : interpret(f, r) = Bool(TRUE)}
-----------------------------------------------------------------------------
(* The optimiser.                                                          *)

\* Literals of the same type fold to what the interpreter would compute.
fold_binop(op, x, y) == <<Apply(op, x, y)>>
constant_fold(f) ==
    LET known[i \in Values(f)] ==   \* the literal, or <<>>
            LET x == Inst(f, i)
            IN  CASE x.op = "const" -> <<x.lit>>
                  [] x.op = "column" -> <<>>
                  [] x.op = "not" -> IF known[x.a] = <<>> THEN <<>> ELSE <<Bool(known[x.a][1].v # 1)>>
                  [] OTHER -> IF <<>> \in {known[x.a], known[x.b]} THEN <<>>
                              ELSE fold_binop(x.op, known[x.a][1], known[x.b][1])
    IN  [f EXCEPT !.insts = [i \in DOMAIN f.insts |->
            IF known[i - 1] = <<>> THEN f.insts[i] ELSE Op("const", 0, 0, known[i - 1][1])]]

LiveIn(f) == LET live[i \in Values(f)] ==
                     i = f.ret \/ \E j \in (i + 1)..(Len(f.insts) - 1) : live[j] /\ i \in operands(Inst(f, j))
             IN  {i \in Values(f) : live[i]}
Remap(live, i) == Cardinality({j \in live : j < i})
\* (mutant: the operands keep the numbers they had)
remap_op_stale(x, live) == x
remap_op(x, live) ==
    CASE x.op \in {"const", "column"} -> x
      [] x.op = "not" -> [x EXCEPT !.a = Remap(live, @)]
      [] OTHER -> [x EXCEPT !.a = Remap(live, @), !.b = Remap(live, @)]
dead_code_elimination(f) ==
    LET live == LiveIn(f)
        at(k) == CHOOSE i \in live : Remap(live, i) = k - 1
    IN  [f EXCEPT !.insts = [k \in 1..Cardinality(live) |-> remap_op(Inst(f, at(k)), live)],
                  !.ret = Remap(live, f.ret)]
optimize(f) == dead_code_elimination(constant_fold(f))
-----------------------------------------------------------------------------
(* The code the JIT emits, on one row: machine words, without their types. *)

Word(v) == v % 2^IrBits
\* iadd, isub, imul wrap; fadd, fsub, fmul do not.
emit_arith(ty, op, m, n) == IF ty # "F64" THEN Word(Calc(op, m, n))
                            ELSE IF NaN \in {m, n} THEN NaN ELSE Calc(op, m, n)
\* icmp with a signed condition, fcmp with an ordered one; uextend.
emit_cmp(ty, op, m, n) == IF IF ty = "F64" THEN NaN \notin {m, n} /\ Holds(op, m, n)
                             ELSE Holds(op, Signed(m), Signed(n)) THEN 1 ELSE 0
MinOf(m, n) == IF m < n THEN m ELSE n
emit_expr(f, row) ==
    LET ty == TypesOf(f)
        Load(x) == IF x.ty = "I64" THEN Word(x.v) ELSE x.v
        vals[i \in Values(f)] ==
            LET x == Inst(f, i)
            IN  CASE x.op = "const" -> Load(x.lit)
                  [] x.op = "column" -> IF x.lit.ty = "Bool" THEN 0 ELSE Load(IrColumns[x.a + 1][row])
                  [] x.op = "not" -> 1 - vals[x.a]                    \* bxor 1
                  [] x.op \in Arith -> emit_arith(ty[i], x.op, vals[x.a], vals[x.b])
                  [] x.op \in Compare -> emit_cmp(ty[x.a], x.op, vals[x.a], vals[x.b])
                  [] x.op = "and" -> MinOf(vals[x.a], vals[x.b])      \* band, of 0 and 1
                  [] x.op = "or" -> 1 - MinOf(1 - vals[x.a], 1 - vals[x.b])
    IN  vals[f.ret]
\* compile refuses what is not a valid function to Bool.
Compiles(f) == verify(f) /\ TypesOf(f)[f.ret] = "Bool"
run(f) == {r \in Rows : emit_expr(f, r) # 0}
-----------------------------------------------------------------------------
IrInit == irInsts = <<>> /\ irFn = NoFn

\* What the next instruction can be; its operands are any values, its own among them.
Instruction(n) == {Op("const", 0, 0, l) : l \in IrLiterals}
       \cup {Op("column", i - 1, 0, IrColumns[i][1]) : i \in DOMAIN IrColumns}
       \cup {Op("column", Len(IrColumns), 0, IrColumns[1][1])}
       \cup {Op("not", a, 0, Bool(FALSE)) : a \in 0..n}
       \cup {Op(op, a, b, Bool(FALSE)) : op \in IrOps, a \in 0..n, b \in 0..n}
Closed(insts, ret) == [n_columns |-> Len(IrColumns), insts |-> insts, ret |-> ret]

\* Builder::push; once an instruction is wrong nothing more is worth adding.
push ==
    /\ irFn = NoFn /\ Len(irInsts) < IrMaxInsts
    /\ irInsts # <<>> => verify(Closed(irInsts, 0))
    /\ \E x \in Instruction(Len(irInsts)) : irInsts' = Append(irInsts, x)
    /\ UNCHANGED irFn

\* Builder::finish: any value is the result, one that does not exist included;
\* a wrong program, which no tier runs, is closed with the first only.
finish ==
    /\ irFn = NoFn
    /\ \E ret \in 0..Len(irInsts) :
        /\ ret = 0 \/ verify(Closed(irInsts, 0))
        /\ irFn' = Closed(irInsts, ret)
    /\ UNCHANGED irInsts

IrNext == push \/ finish
IrSpec == IrInit /\ [][IrNext]_irVars
-----------------------------------------------------------------------------
(* The tiers agree: for a program the verifier accepts, the optimised one  *)
(* is accepted too and is a result of the same type, nothing in it is dead,*)
(* and the rows the interpreter keeps are those the JIT keeps and those    *)
(* both keep of the optimised program.  ("O resultado e sempre             *)
(* semanticamente equivalente ao original", passes.rs.)                    *)
TiersAgree ==
    irFn # NoFn /\ verify(irFn) =>
        LET opt == optimize(irFn)
        IN  /\ verify(opt)
            /\ TypesOf(opt)[opt.ret] = TypesOf(irFn)[irFn.ret]
            /\ LiveIn(opt) = Values(opt)
            /\ \A r \in Rows : interpret(opt, r) = interpret(irFn, r)
            /\ Compiles(irFn) => /\ run(irFn) = interpret_mask(irFn)
                                 /\ run(opt) = interpret_mask(irFn)
=============================================================================
