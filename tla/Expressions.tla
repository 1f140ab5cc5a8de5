------------------------------ MODULE Expressions -----------------------------
(***************************************************************************)
(* Variables of a kernel and the evaluation of expressions.  A string is a *)
(* sequence of tokens: a dollar, a backslash, digits, names, and other     *)
(* characters; names and digits are what variable names are made of.       *)
(***************************************************************************)
EXTENDS Integers, Sequences

CONSTANTS
  Names,  \* the names of variables, parameters and environment variables
  rank    \* of this process

Digit == << "0", "1", "2", "3", "4", "5", "6", "7", "8", "9" >>
Digits == {Digit[i] : i \in DOMAIN Digit}
\* Names that variables.c and expressions.c know; rand and crand draw numbers and are
\* in no kernel of the model.
Internal == {"rank", "env"}
IsNameChar(token) == token \in Names \cup Digits \cup Internal

RECURSIVE Numeral(_)
Numeral(n) ==
  IF n < 0 THEN << "-" >> \o Numeral(-n)
  ELSE IF n < 10 THEN << Digit[n + 1] >>
  ELSE Numeral(n \div 10) \o << Digit[(n % 10) + 1] >>

\* %lu of a negative number is a large one: its complement, in one token.
Unsigned(n) == IF n < 0 THEN << "2^64" >> \o Numeral(n) ELSE Numeral(n)

\* The length of the longest beginning of s of which every token satisfies P.
Prefix(s, P(_)) == CHOOSE n \in 0 .. Len(s) :
  /\ \A i \in 1 .. n : P(s[i])
  /\ n < Len(s) => ~P(s[n + 1])

IsDigit(token) == token \in Digits
\* atol: the number a string begins with, or 0.
RECURSIVE ValueOf(_)
ValueOf(s) ==
  IF s = << >> THEN 0
  ELSE 10 * ValueOf(SubSeq(s, 1, Len(s) - 1)) + (CHOOSE d \in 0 .. 9 : Digit[d + 1] = s[Len(s)])
atol(s) ==
  IF s # << >> /\ s[1] = "-" THEN -ValueOf(SubSeq(s, 2, 1 + Prefix(Tail(s), IsDigit)))
                             ELSE ValueOf(SubSeq(s, 1, Prefix(s, IsDigit)))

IntValue(n) == [type |-> "VAR_INT", num |-> n, str |-> << >>]
StringValue(s) == [type |-> "VAR_STRING", num |-> 0, str |-> s]

\* The value of an evaluation and its status.
OK == "STATUS_EVAL_OK"
Value(v) == [value |-> v, status |-> OK]
Failed(default, status) == [value |-> default, status |-> status]

\* C's division and remainder go towards zero.
Quotient(a, b) ==
  LET Abs(n) == IF n < 0 THEN -n ELSE n
      q == Abs(a) \div Abs(b)
  IN  IF (a < 0) = (b < 0) THEN q ELSE -q

\* pow in doubles, cut off to an integer; 0 to a negative power, an infinity that no
\* integer is made of, is in no kernel of the model.
Power(a, b) ==
  CASE b >= 0 -> a ^ b
    [] b < 0 /\ a \in {1, -1} -> IF b % 2 = 0 THEN 1 ELSE a
    [] b < 0 /\ a \notin -1 .. 1 -> 0

\* The operators of the grammar.
Apply(op, a, b) ==
  CASE op = "+" -> Value(a + b)
    [] op = "-" -> Value(a - b)
    [] op = "*" -> Value(a * b)
    [] op = "^" -> Value(Power(a, b))
    [] op \in {"/", "%"} /\ b = 0 -> Failed(0, "STATUS_DIVISION_BY_ZERO")
    [] op = "/" /\ b # 0 -> Value(Quotient(a, b))
    [] op = "%" /\ b # 0 -> Value(a - b * Quotient(a, b))

\* Expressions: [form |-> "int", num], [form |-> "string", str], [form |-> "var", name]
\* or [form |-> "rich", op, left, right]; $$rank is the variable named "$rank".
RECURSIVE expr_evaluate_to_int(_, _)
expr_evaluate_to_int(e, varmap) ==
  CASE e.form = "int" -> Value(e.num)
    [] e.form = "string" -> Failed(0, "STATUS_INVALID_EXPRESSION")
    [] e.form = "var" ->
         IF e.name \in DOMAIN varmap
         THEN IF varmap[e.name].type = "VAR_INT" THEN Value(varmap[e.name].num)
                                                 ELSE Value(atol(varmap[e.name].str))
         ELSE IF e.name = "$rank" THEN Value(rank) ELSE Failed(0, "STATUS_INVALID_VARIABLE")
    [] e.form = "rich" ->
         LET left == expr_evaluate_to_int(e.left, varmap)
             right == expr_evaluate_to_int(e.right, varmap)
         IN  \* The status of the right side counts only if the left side has failed too.
             IF left.status = OK THEN Apply(e.op, left.value, right.value)
             ELSE Failed(0, IF right.status # OK THEN right.status ELSE left.status)

expr_evaluate_to_string(e, varmap) ==
  CASE e.form = "int" -> Value(Numeral(e.num))
    [] e.form = "string" -> Value(e.str)
    [] e.form = "var" ->
         IF e.name \in DOMAIN varmap
         THEN Value(IF varmap[e.name].type = "VAR_INT" THEN Numeral(varmap[e.name].num)
                                                       ELSE varmap[e.name].str)
         ELSE IF e.name = "$rank" THEN Value(Numeral(rank))
         ELSE Failed(<< >>, "STATUS_INVALID_VARIABLE")
    [] e.form = "rich" ->
         LET number == expr_evaluate_to_int(e, varmap) IN
         IF number.status = OK THEN Value(Numeral(number.value))
                               ELSE Failed(<< >>, number.status)

\* A parameter that is not there; READ and WRITE have one that need not be.
param_int_get(params, i, varmap) ==
  IF i \in DOMAIN params THEN expr_evaluate_to_int(params[i], varmap)
                         ELSE Failed(0, "STATUS_INVALID_EXPRESSION")
param_int_get_optional(params, i, varmap, default) ==
  IF i \in DOMAIN params THEN expr_evaluate_to_int(params[i], varmap) ELSE Value(default)
===============================================================================
