------------------------------ MODULE QueryExec ------------------------------
(***************************************************************************)
(* The compiled query pipeline: the planner's expression rewriter          *)
(* (planner/expr_rewriter.go), Optimize (planner/optimizer.go), the         *)
(* executor Builder (executor/builder.go), the Volcano Next of the         *)
(* selection and projection executors and the Eval of the expressions      *)
(* they run (expression/).                                                 *)
(*                                                                         *)
(* Everything here is a pure operator of its inputs: an AST expression and *)
(* the plan's columns, or a logical plan and the rows its MATCH leaf       *)
(* yields.  The AST walk (ast Accept), ResultColumns.FindColumnIndex,      *)
(* Constant, NewBinaryExpr, datum.AsBool and MatchExec are not in the      *)
(* sources and are modelled from their use: Accept calls Leave on every    *)
(* node in post order, a binary expression is always built, AsBool holds   *)
(* of the true Bool only and MatchExec yields its rows one per Next.       *)
(* Datums are Int (of IntBits bits, two's complement), Bool, Null, a       *)
(* string and Vertex; Float, Decimal and Edge are left out.                *)
(***************************************************************************)
EXTENDS Integers, Sequences, SequencesExt

CONSTANTS
    IntBits,    \* the width of datum.Int
    NoErr       \* no error

\* The ops unaryOps maps: opcode.Minus only.
SupportedUnary == {"minus"}

Null == [t |-> "null"]
IntDatum(i) == [t |-> "int", v |-> i]
Ok(d) == [ok |-> TRUE, d |-> d]
Err(e) == [ok |-> FALSE, err |-> e]

\* -x of a two's complement integer of IntBits bits: -MinInt is MinInt.
WrapInt(x) == ((x + 2 ^ (IntBits - 1)) % 2 ^ IntBits) - 2 ^ (IntBits - 1)

-----------------------------------------------------------------------------
(* Rewriting an AST expression against the plan's columns.                 *)

\* ast Accept: the nodes Leave sees, children first, left before right.
RECURSIVE PostOrder(_)
PostOrder(t) ==
    CASE t.k = "unary"  -> PostOrder(t.e) \o << t >>
      [] t.k = "binary" -> PostOrder(t.l) \o PostOrder(t.r) \o << t >>
      [] OTHER          -> << t >>

\* ResultColumns.FindColumnIndex: the first column of the name, or -1.
FindColumnIndex(cols, name) ==
    LET i == SelectInSeq(cols, LAMBDA c : c = name) IN i - 1

Column(cols, name) == [k |-> "col", idx |-> FindColumnIndex(cols, name)]

\* Mutant: a binary expression built from its operands in swapped order.
LeaveBinarySwapped(er, n) ==
    [er EXCEPT !.stack = Append(SubSeq(@, 1, Len(@) - 2),
                  [k |-> "binary", op |-> n.op, l |-> Last(@), r |-> @[Len(@) - 1]])]

\* The binary case: pop the two operands, push NewBinaryExpr of them.
LeaveBinary(er, n) ==
    [er EXCEPT !.stack = Append(SubSeq(@, 1, Len(@) - 2),
                  [k |-> "binary", op |-> n.op, l |-> @[Len(@) - 1], r |-> Last(@)])]

\* NewUnaryExpr: an operator unaryOps lacks is an error.
NewUnaryExpr(op, e) ==
    IF op \in SupportedUnary THEN Ok([k |-> "unary", op |-> op, e |-> e])
    ELSE Err("unsupported")

\* The unary case: pop the operand, then push the expression or set the
\* error.
LeaveUnary(er, u) ==
    IF u.ok THEN [er EXCEPT !.stack = Append(Front(@), u.d)]
    ELSE [stack |-> Front(er.stack), err |-> u.err]

\* exprRewriter.Leave: nothing once an error is set; otherwise each node
\* kind pushes its expression, popping its operands, or sets the error.
Leave(er, n, cols) ==
    IF er.err # NoErr THEN er
    ELSE CASE n.k = "value" ->
                [er EXCEPT !.stack = Append(@, [k |-> "const", d |-> n.d])]
           [] n.k = "binary" -> LeaveBinary(er, n)
           [] n.k = "unary" -> LeaveUnary(er, NewUnaryExpr(n.op, Last(er.stack)))
           [] FindColumnIndex(cols, n.name) = -1 ->
                [er EXCEPT !.err = "unresolved"]
           [] n.k = "var" ->
                [er EXCEPT !.stack = Append(@, Column(cols, n.name))]
           [] n.k = "prop" ->
                [er EXCEPT !.stack = Append(@, [k |-> "prop", e |-> Column(cols, n.name),
                                                 prop |-> n.prop])]

RewriteResult(er) == IF er.err # NoErr THEN Err(er.err) ELSE Ok(er.stack[1])

\* RewriteExpr: walk the expression, then the error or the bottom of the
\* stack.
RewriteExpr(t, cols) ==
    RewriteResult(FoldLeft(LAMBDA er, n : Leave(er, n, cols),
                           [stack |-> << >>, err |-> NoErr], PostOrder(t)))

-----------------------------------------------------------------------------
(* Evaluating an expression on a row.                                      *)

\* unaryMinusOp.Eval: ints negate with wrap-around, anything else cannot.
UnaryEvalOp(op, d) ==
    IF d.t = "int" THEN Ok(IntDatum(WrapInt(-d.v))) ELSE Err("negate")

RECURSIVE EvalExpr(_, _)

\* Column.Eval: the row's datum at the column's index, if the row has it.
EvalColumn(e, row) ==
    IF e.idx >= Len(row) THEN Err("index") ELSE Ok(row[e.idx + 1])

\* PropertyAccess.Eval: an error or Null is passed on; a vertex's property,
\* Null if it has none; anything else is an error.
EvalProperty(e, row) ==
    LET r == EvalExpr(e.e, row)
    IN  IF ~r.ok \/ r.d = Null THEN r
        ELSE IF r.d.t = "vertex"
             THEN Ok(IF e.prop \in DOMAIN r.d.props THEN r.d.props[e.prop] ELSE Null)
        ELSE Err("nonvertex")

\* UnaryExpr.Eval: an error is passed on, and so is a Null operand, since
\* minus is not called on null input.
EvalUnary(e, row) ==
    LET r == EvalExpr(e.e, row)
    IN  IF ~r.ok \/ r.d = Null THEN r ELSE UnaryEvalOp(e.op, r.d)

\* Expression.Eval of each kind; a Constant yields its value.
EvalExpr(e, row) ==
    CASE e.k = "const" -> Ok(e.d)
      [] e.k = "col"   -> EvalColumn(e, row)
      [] e.k = "prop"  -> EvalProperty(e, row)
      [] e.k = "unary" -> EvalUnary(e, row)

\* datum.AsBool.
AsBool(d) == d = [t |-> "bool", b |-> TRUE]

-----------------------------------------------------------------------------
(* Plans and executors.  A logical plan is [k |-> "match"], a projection   *)
(* [k |-> "projection", exprs, child] or a selection [k |-> "selection",   *)
(* cond, child]; physical plans and executors have the same shape.         *)

RECURSIVE Optimize(_)

OptimizeMatch(plan) == [k |-> "physMatch"]

OptimizeProjection(plan) ==
    [k |-> "physProjection", exprs |-> plan.exprs, child |-> Optimize(plan.child)]

OptimizeSelection(plan) ==
    [k |-> "physSelection", cond |-> plan.cond, child |-> Optimize(plan.child)]

\* Optimize: each logical operator becomes its physical one, its child
\* optimized; any other plan is returned as it is.
Optimize(plan) ==
    CASE plan.k = "match"      -> OptimizeMatch(plan)
      [] plan.k = "projection" -> OptimizeProjection(plan)
      [] plan.k = "selection"  -> OptimizeSelection(plan)
      [] OTHER                 -> plan

RECURSIVE Build(_)

BuildMatch(plan) == [k |-> "matchExec"]

BuildProjection(plan) ==
    [k |-> "projectionExec", exprs |-> plan.exprs, child |-> Build(plan.child)]

BuildSelection(plan) ==
    [k |-> "selectionExec", cond |-> plan.cond, child |-> Build(plan.child)]

\* Builder.Build for the query plans: an executor per physical operator,
\* its child built first; an unknown plan builds nothing and sets the
\* builder's error.
Build(plan) ==
    CASE plan.k = "physMatch"      -> BuildMatch(plan)
      [] plan.k = "physProjection" -> BuildProjection(plan)
      [] plan.k = "physSelection"  -> BuildSelection(plan)
      [] OTHER                     -> [k |-> "unknown"]

\* The outcome of one Next: a row, the end (a nil row) or an error, and the
\* position of the MATCH leaf after it.
RowAt(row, pos) == [res |-> "row", row |-> row, pos |-> pos]
EndAt(pos) == [res |-> "end", pos |-> pos]
ErrAt(e, pos) == [res |-> "err", err |-> e, pos |-> pos]

\* ProjectionExec.Next, the loop over its expressions: the first error, or
\* the row of their values.
RECURSIVE EvalRow(_, _)
EvalRow(exprs, row) ==
    IF exprs = << >> THEN Ok(<< >>)
    ELSE LET h == EvalExpr(Head(exprs), row)
             t == EvalRow(Tail(exprs), row)
         IN  IF ~h.ok THEN h ELSE IF ~t.ok THEN t ELSE Ok(<< h.d >> \o t.d)

Project(exprs, c) ==
    IF c.res # "row" THEN c
    ELSE LET r == EvalRow(exprs, c.row)
         IN  IF r.ok THEN RowAt(r.d, c.pos) ELSE ErrAt(r.err, c.pos)

\* Mutant: a selection that gives up at the first row its condition
\* rejects.
SelectOnce(ex, c, rows) ==
    IF c.res # "row" THEN c
    ELSE LET r == EvalExpr(ex.cond, c.row)
         IN  IF ~r.ok THEN ErrAt(r.err, c.pos)
             ELSE IF AsBool(r.d) THEN c ELSE EndAt(c.pos)

\* Executor Next, from the MATCH leaf at position pos of its rows.
RECURSIVE Next(_, _, _), Select(_, _, _)
Next(ex, pos, rows) ==
    CASE ex.k = "matchExec" ->
            IF pos > Len(rows) THEN EndAt(pos) ELSE RowAt(rows[pos], pos + 1)
      [] ex.k = "projectionExec" -> Project(ex.exprs, Next(ex.child, pos, rows))
      [] ex.k = "selectionExec" -> Select(ex, Next(ex.child, pos, rows), rows)

\* SelectionExec.Next: pull from the child until the condition holds of a
\* row; the end and any error are passed on.
Select(ex, c, rows) ==
    IF c.res # "row" THEN c
    ELSE LET r == EvalExpr(ex.cond, c.row)
         IN  IF ~r.ok THEN ErrAt(r.err, c.pos)
             ELSE IF AsBool(r.d) THEN c
             ELSE Select(ex, Next(ex.child, c.pos, rows), rows)

\* The result set: Next until the end or an error, collecting the rows.
RECURSIVE Drain(_, _, _, _)
Drain(ex, pos, rows, acc) ==
    LET n == Next(ex, pos, rows)
    IN  IF n.res = "row" THEN Drain(ex, n.pos, rows, Append(acc, n.row))
        ELSE [rows |-> acc, err |-> IF n.res = "err" THEN n.err ELSE NoErr]

\* Compile's last two steps and the query run on the rows MATCH yields.
RunQuery(plan, rows) ==
    LET ex == Build(Optimize(plan))
    IN  IF ex.k = "unknown" THEN [rows |-> << >>, err |-> "unknown plan"]
        ELSE Drain(ex, 1, rows, << >>)

=============================================================================
