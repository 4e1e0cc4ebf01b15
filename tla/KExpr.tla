------------------------------- MODULE KExpr -------------------------------
(* The dependency expressions of the configurator (scripts/kconfig/expr.c): *)
(* how they are rewritten when the Kconfig files are read, and what they    *)
(* evaluate to.  An expression is a tuple <<type, left, right>>; Null is    *)
(* the NULL pointer.  Symbols are strings; "y", "m" and "n" are the three   *)
(* constants.  Symbols of type int, hex and string are left out.            *)
EXTENDS Naturals, Sequences

CONSTANT SymType   \* the type of every symbol that is not a constant

no == 0
mod == 1
yes == 2
Tristate == {no, mod, yes}

Null == <<>>
Sym(s) == <<"sym", s>>
Not(e) == <<"not", e>>
TypeOf(s) == IF s \in DOMAIN SymType THEN SymType[s] ELSE "unknown"
Relations == {"=", "!=", "<", "<=", ">", ">="}

expr_alloc_and(e1, e2) == IF e1 = Null THEN e2 ELSE IF e2 = Null THEN e1 ELSE <<"and", e1, e2>>
expr_alloc_or(e1, e2) == IF e1 = Null THEN e2 ELSE IF e2 = Null THEN e1 ELSE <<"or", e1, e2>>

EXPR_AND(a, b) == IF a < b THEN a ELSE b
EXPR_OR(a, b) == IF a > b THEN a ELSE b
EXPR_NOT(a) == 2 - a

(* The constant that decides an operator, and the one it ignores. *)
Zero(type) == IF type = "and" THEN "n" ELSE "y"
Unit(type) == IF type = "and" THEN "y" ELSE "n"

RECURSIVE expr_eliminate_yn(_)
expr_eliminate_yn(e) ==
  IF e = Null \/ e[1] \notin {"and", "or"} THEN e
  ELSE LET l == expr_eliminate_yn(e[2])
           r == expr_eliminate_yn(e[3])
       IN IF Sym(Zero(e[1])) \in {l, r} THEN Sym(Zero(e[1]))
          ELSE IF l = Sym(Unit(e[1])) THEN r
          ELSE IF r = Sym(Unit(e[1])) THEN l
          ELSE <<e[1], l, r>>

(* A pointer to a subexpression is the path of fields that leads to it. *)
RECURSIVE At(_, _)
At(e, p) == IF p = <<>> THEN e ELSE At(e[Head(p)], Tail(p))
RECURSIVE Put(_, _, _)
Put(e, p, new) == IF p = <<>> THEN new ELSE [e EXCEPT ![Head(p)] = Put(@, Tail(p), new)]
Left(p) == Append(p, 2)
Right(p) == Append(p, 3)

RECURSIVE expr_eq(_, _)
RECURSIVE ExprEliminateEq(_, _, _, _)

(* __expr_eliminate_eq(): es holds the two trees, p and q point into them. *)
ExprEliminateEq(type, es, p, q) ==
  LET e1 == At(es[1], p)
      e2 == At(es[2], q)
      unit == Sym(Unit(type))
  IN IF e1[1] = type THEN ExprEliminateEq(type, ExprEliminateEq(type, es, Left(p), q), Right(p), q)
     ELSE IF e2[1] = type THEN ExprEliminateEq(type, ExprEliminateEq(type, es, p, Left(q)), p, Right(q))
     ELSE IF (e1 = e2 /\ e1 \in {Sym("y"), Sym("n")}) \/ ~expr_eq(e1, e2) THEN es
     ELSE <<Put(es[1], p, unit), Put(es[2], q, unit)>>

Eliminated(es) == <<expr_eliminate_yn(es[1]), expr_eliminate_yn(es[2])>>
Operands(es, i) == IF es[i][1] \in {"and", "or"} THEN ExprEliminateEq(es[i][1], es, <<>>, <<>>) ELSE es
Others(es) == IF es[1][1] # es[2][1] THEN Operands(es, 2) ELSE es
expr_eliminate_eq(e1, e2) == IF Null \in {e1, e2} THEN <<e1, e2>> ELSE Eliminated(Others(Operands(<<e1, e2>>, 1)))

SameSymbol(es) == es[1][1] = "sym" /\ es[1] = es[2]
expr_eq(e1, e2) ==
  /\ e1[1] = e2[1]
  /\ CASE e1[1] \in Relations \union {"sym"} -> e1 = e2
       [] e1[1] = "not" -> expr_eq(e1[2], e2[2])
       [] OTHER -> SameSymbol(expr_eliminate_eq(e1, e2))

RECURSIVE expr_trans_bool(_)
expr_trans_bool(e) ==
  IF e = Null THEN e
  ELSE IF e[1] \in {"and", "or"} THEN <<e[1], expr_trans_bool(e[2]), expr_trans_bool(e[3])>>
  ELSE IF e[1] = "not" THEN Not(expr_trans_bool(e[2]))
  ELSE IF e[1] = "!=" /\ TypeOf(e[2]) = "tristate" /\ e[3] = "n" THEN Sym(e[2])
  ELSE e

(* The symbol an operand of expr_join_or() and expr_join_and() is about.    *)
(* The two operands are not treated alike: only the first may negate a      *)
(* comparison.                                                              *)
About(e, under) ==
  IF e[1] \in {"=", "!=", "sym"} THEN e[2]
  ELSE IF e[1] = "not" /\ e[2][1] \in under THEN e[2][2]
  ELSE "none"
Joined(e1, e2) ==
  LET s == About(e1, {"=", "!=", "sym"})
  IN IF s # "none" /\ s = About(e2, {"sym"}) /\ TypeOf(s) \in {"bool", "tristate"} THEN s ELSE "none"

(* The operands are, in some order, s related by r1 to t1 and by r2 to t2. *)
Pair(e1, e2, a, b) == <<e1, e2>> \in {<<a, b>>, <<b, a>>}

JoinOr(e1, e2, s) ==
  LET both(t1, t2) == TypeOf(s) = "tristate" /\ Pair(e1, e2, <<"=", s, t1>>, <<"=", s, t2>>)
  IN IF s = "none" THEN Null
     ELSE IF both("y", "m") THEN <<"!=", s, "n">>
     ELSE IF both("y", "n") THEN <<"!=", s, "m">>
     ELSE IF both("m", "n") THEN <<"!=", s, "y">>
     ELSE IF TypeOf(s) = "bool" /\ Pair(e1, e2, Not(Sym(s)), Sym(s)) THEN Sym("y")
     ELSE Null
expr_join_or(e1, e2) == IF expr_eq(e1, e2) THEN e1 ELSE JoinOr(e1, e2, Joined(e1, e2))

Excluded(equal, other) ==
  IF {equal[3], other[3]} \subseteq {"y", "m", "n"}
  THEN IF equal[3] # other[3] THEN equal ELSE Sym("n")
  ELSE Null
JoinAnd_keep(e1, e2, s) ==
  IF s # "none" /\ Pair(e1, e2, Sym(s), <<"!=", s, "m">>) THEN Sym(s) ELSE Null
JoinAnd(e1, e2, s) ==
  LET with(rel, t) == Pair(e1, e2, Sym(s), <<rel, s, t>>)
      both(t1, t2) == Pair(e1, e2, <<"!=", s, t1>>, <<"!=", s, t2>>)
  IN IF s = "none" THEN Null
     ELSE IF with("=", "y") THEN <<"=", s, "y">>
     ELSE IF with("!=", "n") THEN Sym(s)
     ELSE IF with("!=", "m") THEN <<"=", s, "y">>
     ELSE IF TypeOf(s) # "tristate" THEN Null
     ELSE IF e1[1] = "=" /\ e2[1] = "!=" THEN Excluded(e1, e2)
     ELSE IF e1[1] = "!=" /\ e2[1] = "=" THEN Excluded(e2, e1)
     ELSE IF both("y", "n") THEN <<"=", s, "m">>
     ELSE IF both("y", "m") THEN <<"=", s, "n">>
     ELSE IF both("m", "n") THEN <<"=", s, "y">>
     ELSE Null
expr_join_and(e1, e2) == IF expr_eq(e1, e2) THEN e1 ELSE JoinAnd(e1, e2, Joined(e1, e2))

(* expr_eliminate_dups1(): t is the tree with trans_count; p and q point    *)
(* into the same tree.                                                      *)
Replaced(type, t, p, q, tmp) ==
  IF tmp = Null THEN t
  ELSE [e |-> Put(Put(t.e, p, Sym(Unit(type))), q, tmp), trans_count |-> t.trans_count + 1]
Join(type, t, p, q) ==
  Replaced(type, t, p, q, IF type = "or" THEN expr_join_or(At(t.e, p), At(t.e, q))
                                         ELSE expr_join_and(At(t.e, p), At(t.e, q)))
RECURSIVE expr_eliminate_dups1(_, _, _, _)
expr_eliminate_dups1(type, t, p, q) ==
  LET e1 == At(t.e, p)
      e2 == At(t.e, q)
  IN IF e1[1] = type THEN expr_eliminate_dups1(type, expr_eliminate_dups1(type, t, Left(p), q), Right(p), q)
     ELSE IF e2[1] = type THEN expr_eliminate_dups1(type, expr_eliminate_dups1(type, t, p, Left(q)), p, Right(q))
     ELSE IF p = q THEN t
     ELSE Join(type, IF e1[1] \in {"and", "or"} THEN expr_eliminate_dups1(e1[1], t, p, p) ELSE t, p, q)

RECURSIVE expr_eliminate_dups(_)
Again(t) == IF t.trans_count = 0 THEN t.e ELSE expr_eliminate_dups(expr_eliminate_yn(t.e))
expr_eliminate_dups(e) ==
  IF e = Null \/ e[1] \notin {"and", "or"} THEN e
  ELSE Again(expr_eliminate_dups1(e[1], [e |-> e, trans_count |-> 0], <<>>, <<>>))

(* What a comparison of a boolean symbol with a constant becomes. *)
TransformEqual(s, t) ==
  IF TypeOf(s) # "bool" THEN <<"=", s, t>>
  ELSE IF t = "n" THEN Not(Sym(s))
  ELSE IF t = "m" THEN Sym("n")
  ELSE IF t = "y" THEN Sym(s)
  ELSE <<"=", s, t>>
TransformUnequal(s, t) ==
  IF TypeOf(s) # "bool" THEN <<"!=", s, t>>
  ELSE IF t = "n" THEN Sym(s)
  ELSE IF t = "m" THEN Sym("y")
  ELSE IF t = "y" THEN Not(Sym(s))
  ELSE <<"!=", s, t>>

Opposite == [r \in Relations |-> CASE r = "=" -> "!=" [] r = "!=" -> "=" [] r = "<=" -> ">"
                                   [] r = ">=" -> "<" [] r = "<" -> ">=" [] r = ">" -> "<="]
Negated == [s \in {"y", "m", "n"} |-> CASE s = "y" -> "n" [] s = "m" -> "m" [] s = "n" -> "y"]

RECURSIVE expr_transform(_)
TransformNot(f) ==
  IF f[1] = "not" THEN expr_transform(f[2])
  ELSE IF f[1] \in Relations THEN <<Opposite[f[1]], f[2], f[3]>>
  ELSE IF f[1] = "or" THEN expr_transform(<<"and", Not(f[2]), Not(f[3])>>)
  ELSE IF f[1] = "and" THEN expr_transform(<<"or", Not(f[2]), Not(f[3])>>)
  ELSE IF f[2] \in DOMAIN Negated THEN Sym(Negated[f[2]])
  ELSE Not(f)
expr_transform(e) ==
  IF e = Null THEN e
  ELSE IF e[1] = "=" THEN TransformEqual(e[2], e[3])
  ELSE IF e[1] = "!=" THEN TransformUnequal(e[2], e[3])
  ELSE IF e[1] \in {"and", "or"} THEN <<e[1], expr_transform(e[2]), expr_transform(e[3])>>
  ELSE IF e[1] = "not" THEN TransformNot(expr_transform(e[2]))
  ELSE e

RECURSIVE expr_contains_symbol(_, _)
expr_contains_symbol(e, s) ==
  /\ e # Null
  /\ CASE e[1] \in {"and", "or"} -> expr_contains_symbol(e[2], s) \/ expr_contains_symbol(e[3], s)
       [] e[1] = "not" -> expr_contains_symbol(e[2], s)
       [] e[1] = "sym" -> e[2] = s
       [] OTHER -> s \in {e[2], e[3]}

RECURSIVE expr_depends_symbol(_, _)
expr_depends_symbol(e, s) ==
  /\ e # Null
  /\ \/ e[1] = "and" /\ (expr_depends_symbol(e[2], s) \/ expr_depends_symbol(e[3], s))
     \/ e = Sym(s)
     \/ e \in {<<"=", s, "y">>, <<"=", s, "m">>, <<"!=", s, "n">>}

RECURSIVE expr_trans_compare(_, _, _)
expr_trans_compare(e, type, s) ==
  LET signed(f) == IF type = "!=" THEN Not(f) ELSE f
      operands == <<expr_trans_compare(e[2], "=", s), expr_trans_compare(e[3], "=", s)>>
      dual == IF e[1] = "and" THEN "or" ELSE "and"
  IN IF e = Null THEN signed(Sym(s))
     ELSE CASE e[1] \in {"and", "or"} ->
                 signed(IF s = "y" THEN <<e[1]>> \o operands
                        ELSE IF s = "n" THEN <<dual>> \o operands ELSE e)
            [] e[1] = "not" -> expr_trans_compare(e[2], IF type = "=" THEN "!=" ELSE "=", s)
            [] e[1] = "sym" -> <<type, e[2], s>>
            [] OTHER -> IF s = "m" THEN Sym(IF type = "=" THEN "n" ELSE "y")
                        ELSE IF (type = "=") = (s = "y") THEN e ELSE Not(e)

(* menu.c: 'm' stands for 'm' && MODULES. *)
RECURSIVE rewrite_m(_, _)
rewrite_m(e, modules_sym) ==
  IF e = Null THEN e
  ELSE IF e[1] = "not" THEN Not(rewrite_m(e[2], modules_sym))
  ELSE IF e[1] \in {"and", "or"} THEN <<e[1], rewrite_m(e[2], modules_sym), rewrite_m(e[3], modules_sym)>>
  ELSE IF e = Sym("m") THEN expr_alloc_and(e, Sym(modules_sym))
  ELSE e

(* menu_finalize(): a condition below the condition of its parent.          *)
Propagated(parentdep, e, modules_sym) ==
  expr_eliminate_dups(expr_alloc_and(parentdep, expr_transform(rewrite_m(e, modules_sym))))

(* menu_finalize(): whether an entry with condition dep that follows symbol *)
(* s, whose prompt has condition base, goes into the submenu of s.          *)
Compared(e) == expr_eliminate_dups(expr_transform(expr_trans_compare(e, "!=", "n")))
InSubmenu(dep, s, base) ==
  /\ expr_contains_symbol(dep, s)
  /\ \/ expr_depends_symbol(dep, s)
     \/ expr_eliminate_eq(Compared(dep), Compared(base))[2] \in {Null, Sym("y")}

(* expr_calc_value() of a comparison, given the values of both sides and    *)
(* whether modules are enabled.  Two symbols compare as numbers; a constant *)
(* has no type, so that it compares as a string.                            *)
Name(v, modules) == CASE v = no -> "n" [] v = yes -> "y" [] v = mod -> IF modules = no THEN "n" ELSE "m"
Text(s, v, modules) == IF TypeOf(s) = "unknown" THEN s ELSE Name(v, modules)
AsNumber == [s \in {"n", "m", "y"} |-> CASE s = "n" -> 0 [] s = "m" -> 1 [] s = "y" -> 2]
AsString == [s \in {"n", "m", "y"} |-> CASE s = "m" -> 0 [] s = "n" -> 1 [] s = "y" -> 2]
Compare(e, v1, v2, modules) ==
  LET rank == IF "unknown" \in {TypeOf(e[2]), TypeOf(e[3])} THEN AsString ELSE AsNumber
      a == rank[Text(e[2], v1, modules)]
      b == rank[Text(e[3], v2, modules)]
      holds == CASE e[1] = "=" -> a = b [] e[1] = "!=" -> a # b [] e[1] = "<" -> a < b
                 [] e[1] = "<=" -> a <= b [] e[1] = ">" -> a > b [] e[1] = ">=" -> a >= b
  IN IF holds THEN yes ELSE no
Constant == [s \in {"n", "m", "y"} |-> CASE s = "n" -> no [] s = "m" -> mod [] s = "y" -> yes]


(* expr_calc_value(): env has the values of the symbols. *)
RECURSIVE Value(_, _, _)
Value(e, env, modules) ==
  LET of(s) == IF s \in DOMAIN env THEN env[s] ELSE Constant[s]
  IN IF e = Null THEN yes
     ELSE CASE e[1] = "sym" -> of(e[2])
            [] e[1] = "not" -> EXPR_NOT(Value(e[2], env, modules))
            [] e[1] = "and" -> EXPR_AND(Value(e[2], env, modules), Value(e[3], env, modules))
            [] e[1] = "or" -> EXPR_OR(Value(e[2], env, modules), Value(e[3], env, modules))
            [] OTHER -> Compare(e, of(e[2]), of(e[3]), modules)

-----------------------------------------------------------------------------
(* The values symbols can have together: m only for tristates, and only     *)
(* with modules.                                                            *)
Environments(symbols, modules) ==
  {env \in [symbols -> Tristate] :
     \A s \in symbols : env[s] = mod => SymType[s] = "tristate" /\ modules # no}

(* Everything expr.c may do to e, against the values of e: exact for the    *)
(* rewriting of conditions; up to m and y for expr_trans_bool(), used only  *)
(* where m counts as y; without m for expr_trans_compare().                 *)
SameValues(e, fs, symbols) ==
  \A modules \in {no, yes} : \A env \in Environments(symbols, modules) :
    \A i \in DOMAIN fs : Value(fs[i], env, modules) = Value(e, env, modules)
SameSets(e, f, symbols) ==
  \A modules \in {no, yes} : \A env \in Environments(symbols, modules) :
    (Value(f, env, modules) = no) <=> (Value(e, env, modules) = no)
TwoValued(env, e) == (\A s \in DOMAIN env : env[s] # mod) /\ ~expr_contains_symbol(e, "m")
ComparedRight(e, ne, symbols) ==
  \A env \in Environments(symbols, no) :
    TwoValued(env, e) => Value(ne, env, no) = IF Value(e, env, no) = no THEN no ELSE yes
SymbolsRight(e, symbols) ==
  \A modules \in {no, yes} : \A env \in Environments(symbols, modules), s \in symbols :
    /\ expr_depends_symbol(e, s) /\ env[s] = no => Value(e, env, modules) = no
    /\ ~expr_contains_symbol(e, s) =>
         \A other \in Environments(symbols, modules) :
           (\A t \in symbols \ {s} : other[t] = env[t]) => Value(e, other, modules) = Value(e, env, modules)
TransformedRight(e, d, symbols) ==
  SameValues(e, <<d, expr_transform(e), expr_eliminate_dups(e)>>, symbols) /\ SameSets(e, expr_trans_bool(d), symbols)
RewriteRight(e, symbols) ==
  /\ TransformedRight(e, expr_eliminate_dups(expr_transform(e)), symbols)
  /\ ComparedRight(e, expr_trans_compare(e, "!=", "n"), symbols)
  /\ SymbolsRight(e, symbols)

(* Two expressions: equal ones have equal values, a condition below another *)
(* is their conjunction, and an entry put into the submenu of a symbol      *)
(* without depending on it is never reachable where the symbol is not.      *)
PairRight(e1, e2, symbols) ==
  /\ expr_eq(e1, e2) => SameValues(e1, <<e2>>, symbols)
  /\ SameValues(<<"and", e1, rewrite_m(e2, "n")>>, <<Propagated(e1, e2, "n")>>, symbols)
  /\ \A s \in symbols : InSubmenu(e1, s, e2) /\ ~expr_depends_symbol(e1, s) =>
       \A env \in Environments(symbols, no) :
         TwoValued(env, e1) /\ TwoValued(env, e2) /\ Value(e1, env, no) # no => Value(e2, env, no) # no
=============================================================================
