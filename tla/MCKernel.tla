------------------------------- MODULE MCKernel -------------------------------
(* Kernel and its reference for TLC. *)
EXTENDS Meaning

CONSTANTS
  MaxLength,  \* of a kernel
  EnvTail     \* whether text follows an environment variable

Num(n) == [form |-> "int", num |-> n]
Str(s) == [form |-> "string", str |-> s]
Var(v) == [form |-> "var", name |-> v]
Rich(op, l, r) == [form |-> "rich", op |-> op, left |-> l, right |-> r]

Empty == [kind |-> "empty"]
Say(e) == [kind |-> "print", params |-> << e >>]
Set(v, e) == [kind |-> "assign", var |-> v, expr |-> e]
Loop(v, n, body) == [kind |-> "repeat", var |-> v, count |-> n, braces |-> TRUE, body |-> body]
Short(v, n, s) == [kind |-> "repeat", var |-> v, count |-> n, braces |-> FALSE, body |-> << s >>]

\* x holds the parameter, y what is made of it, z is never set; i counts.
Basis ==
  { Empty,
    Set("x", Num(2)),
    Set("y", Str(<< "$", "x", "-" >>)),
    Set("y", Str(<< "\\", "$", "x" >>)),
    Set("y", Str(<< "\\", "$", "y" >>)),
    Set("y", Rich("-", Num(1), Var("x"))),
    Set("y", Var("x")),
    Set("x", Rich("/", Var("x"), Var("z"))),
    Say(Str(<< "$", "x", "$", "y" >>)),
    Say(Str(<< "-", "\\", "$", "x", "$", "$", "rank" >>)),
    [kind |-> "print", params |-> << Var("y"), Rich("+", Var("$rank"), Var("z")) >>],
    [kind |-> "write", params |-> << Var("x"), Rich("*", Num(3), Var("z")) >>],
    [kind |-> "write", params |-> << Num(4), Var("z") >>],
    [kind |-> "read", params |-> << Num(5), Var("z") >>],
    Loop("i", Var("x"), << Say(Str(<< "$", "i" >>)), Set("x", Rich("+", Var("i"), Num(1))) >>),
    Loop("i", Num(2), << Empty, Say(Num(1)) >>),
    Loop("i", Num(1), << >>),
    Short("x", Num(2), Short("i", Num(2), Say(Str(<< "$", "x", "$", "i" >>)))),
    Short("i", Num(2), Empty) }

EnvStrings ==
  IF EnvTail THEN {<< "$", "$", "env", "(", "home", ")", "-" >>}
  ELSE {<< "-", "$", "$", "env", "(", "home", ")" >>, << "$", "$", "env", "-" >>,
        << "$", "$", "env", "(", "x", ")" >>, << "$", "$", "x" >>}

MCTexts ==
  IF EnvTail THEN {<< Say(Str(s)) >> : s \in EnvStrings}
  ELSE (UNION {[1 .. n -> Basis] : n \in 0 .. MaxLength})
         \cup {<< Say(Str(s)), Say(Num(0)) >> : s \in EnvStrings}
         \cup {<< Set("y", Rich("%", Rich("-", Num(2), Var("x")), Num(3))),
                  Say(Rich("^", Num(n), Var("y"))) >> : n \in {-2, -1, 2}}

MCParams == << [param |-> "p", var |-> "x", default |-> << "1" >>] >>
MCEnvironments == {[n \in {"home"} |-> << "$", "h" >>], [n \in {"home", "p"} |-> << "1", "0" >>]}
Arg(p, v) == [param |-> p, value |-> v]
MCArguments ==
  { << >>, << Arg("p", << "3" >>), Arg("p", << "2", "-" >>) >>, << Arg("p", << "$", "x" >>) >>,
    << Arg("p", << "-" >>), Arg("q", << "1" >>) >> }
===============================================================================
