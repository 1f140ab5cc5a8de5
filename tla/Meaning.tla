------------------------------- MODULE Meaning --------------------------------
(***************************************************************************)
(* What the text of a kernel says, read without the parser, the stack or   *)
(* the pieces: the reference Kernel is checked against.                    *)
(***************************************************************************)
EXTENDS Kernel

\* The values of an integer expression: one, or none if it has none.  A right side
\* without a value counts as 0 (expressions.c:105).
RECURSIVE Numbers(_, _)
Numbers(e, env) ==
  CASE e.form = "int" -> {e.num}
    [] e.form = "string" -> {}
    [] e.form = "var" /\ e.name \in DOMAIN env ->
         {IF env[e.name].type = "VAR_INT" THEN env[e.name].num ELSE atol(env[e.name].str)}
    [] e.form = "var" /\ e.name \notin DOMAIN env -> IF e.name = "$rank" THEN {rank} ELSE {}
    [] e.form = "rich" ->
         LET rights == Numbers(e.right, env)
             pairs == Numbers(e.left, env) \X (IF rights = {} THEN {0} ELSE rights)
         IN  CASE e.op = "+" -> {p[1] + p[2] : p \in pairs}
               [] e.op = "-" -> {p[1] - p[2] : p \in pairs}
               [] e.op = "*" -> {p[1] * p[2] : p \in pairs}
               [] e.op = "^" ->
                    {IF p[2] < 0 THEN Quotient(1, p[1] ^ (-p[2])) ELSE p[1] ^ p[2] : p \in pairs}
               [] e.op \in {"/", "%"} ->
                    {IF e.op = "/" THEN Quotient(p[1], p[2]) ELSE p[1] - p[2] * Quotient(p[1], p[2]) :
                       p \in {p \in pairs : p[2] # 0}}

\* A piece of text, and whether substitution goes on behind it.
Plain(s) == [text |-> s, end |-> ""]
Ending(how) == [text |-> << >>, end |-> how]
Then(a, b) == IF a.end # "" THEN a ELSE [text |-> a.text \o b.text, end |-> b.end]

\* A string with its variables replaced, those in the values of string variables too.  A
\* variable whose value leads back to it has no end.
RECURSIVE Expand(_, _, _)
Expand(s, env, seen) ==
  LET name == SubSeq(s, 2, 1 + Prefix(Tail(s), IsNameChar))
      global == SubSeq(s, 3, 2 + Prefix(Cut(s, 2), IsNameChar))
  IN
  IF s = << >> THEN Plain(s)
  ELSE IF Len(s) > 1 /\ s[1] = "\\" /\ s[2] = "$" THEN Then(Plain(<< "$" >>), Expand(Cut(s, 2), env, seen))
  ELSE IF s[1] # "$" THEN Then(Plain(<< s[1] >>), Expand(Tail(s), env, seen))
  ELSE IF Len(s) > 1 /\ s[2] = "$" THEN
    IF "rank" \in ToSet(global)
    THEN Then(Plain(Numeral(rank)), Expand(Cut(s, 2 + Len(global)), env, seen))
    ELSE IF global = << "env" >> /\ Len(s) > 5 /\ s[4] = "(" /\ s[6] = ")" /\ s[5] \in DOMAIN environment
    THEN Then(Plain(environment[s[5]]), Expand(Cut(s, 6), env, seen))
    ELSE Ending("exit")
  ELSE IF Len(name) # 1 \/ name[1] \notin DOMAIN env THEN Ending("exit")
  ELSE Then(IF env[name[1]].type = "VAR_INT" THEN Plain(Unsigned(env[name[1]].num))
            ELSE IF name[1] \in seen THEN Ending("loops")
            ELSE Expand(env[name[1]].str, env, seen \cup {name[1]}),
            Expand(Cut(s, 2), env, seen))

\* What running has come to.
State(env, lines, end) == [vars |-> env, out |-> lines, end |-> end]
Stopped(st, how) == [st EXCEPT !.end = how]

\* A parameter as print shows it: {} if it has no value.
Shown(e, env) ==
  IF e.form = "string" THEN {e.str}
  ELSE IF e.form = "var" /\ e.name \in DOMAIN env /\ env[e.name].type = "VAR_STRING"
  THEN {env[e.name].str}
  ELSE {Numeral(n) : n \in Numbers(e, env)}
RECURSIVE Line(_, _)
Line(params, env) ==
  IF Len(params) = 1 THEN Shown(params[1], env)
  ELSE {a \o << " " >> \o b : a \in Shown(params[1], env), b \in Line(Tail(params), env)}
TheNumber(set) == CHOOSE n \in set : TRUE
Optional(params, i, env, default) ==
  IF i \notin DOMAIN params THEN {default} ELSE Numbers(params[i], env)

RECURSIVE Does(_, _)
Runs(ss, st) ==
  FoldLeft(LAMBDA acc, s : IF acc.end = "" /\ s.kind # "empty" THEN Does(s, acc) ELSE acc, st, ss)

Does(s, st) ==
  CASE s.kind = "print" ->
         IF Line(s.params, st.vars) = {} THEN Stopped(st, "abort")
         ELSE LET line == Expand(CHOOSE l \in Line(s.params, st.vars) : TRUE, st.vars, {}) IN
              IF line.end # "" THEN Stopped(st, line.end)
              ELSE [st EXCEPT !.out = Append(@, << "print", line.text >>)]
    [] s.kind = "assign" /\ s.expr.form = "string" ->
         LET value == Expand(s.expr.str, st.vars, {}) IN
         IF value.end # "" THEN Stopped(st, value.end)
         ELSE [st EXCEPT !.vars = (s.var :> StringValue(value.text)) @@ @]
    [] s.kind = "assign" /\ s.expr.form # "string" ->
         IF s.expr.form = "var" \/ Numbers(s.expr, st.vars) = {} THEN Stopped(st, "abort")
         ELSE [st EXCEPT !.vars = (s.var :> IntValue(TheNumber(Numbers(s.expr, st.vars)))) @@ @]
    [] s.kind \in {"write", "read"} ->
         LET size == IF s.kind = "write" THEN Optional(s.params, 1, st.vars, 0)
                                         ELSE Optional(s.params, 1, st.vars, READALL)
             offset == Optional(s.params, 2, st.vars, 0)
         IN  \* Only a read goes on without its offset.
             IF size = {} \/ (s.kind = "write" /\ offset = {}) THEN Stopped(st, "abort")
             ELSE [st EXCEPT !.out = Append(@, << s.kind, TheNumber(size),
                                                 IF offset = {} THEN 0 ELSE TheNumber(offset) >>)]
    [] s.kind = "repeat" ->
         LET counts == Numbers(s.count, st.vars)
             \* The loop variable has the number of the round, whatever the body did to it,
             \* and is gone afterwards, also if there was one of that name before.
             round(acc, i) ==
               IF acc.end # "" THEN acc
               ELSE Runs(s.body, [acc EXCEPT !.vars = (s.var :> IntValue(i)) @@ @])
             after == FoldLeft(round, st, [i \in 1 .. TheNumber(counts) |-> i - 1])
         IN  IF counts = {} \/ TheNumber(counts) < 0 THEN Stopped(st, "abort")
             ELSE IF after.end # "" THEN after
             ELSE [after EXCEPT !.vars = [v \in DOMAIN @ \ {s.var} |-> @[v]]]

\* The last argument for a parameter counts, else the environment, else the default.
Given(p) ==
  LET mine == {i \in DOMAIN args : args[i].param = p.param} IN
  IF mine # {} THEN args[CHOOSE i \in mine : \A j \in mine : j <= i].value
  ELSE IF p.param \in DOMAIN environment THEN environment[p.param] ELSE p.default

Meaning ==
  LET vars0 == [v \in {Params[i].var : i \in DOMAIN Params} |->
                  StringValue(Given(Params[CHOOSE i \in DOMAIN Params : Params[i].var = v]))]
  IN  IF \E i \in DOMAIN args : \A j \in DOMAIN Params : args[i].param # Params[j].param
      THEN State(<< >>, << >>, "exit")
      ELSE Runs(text, State(vars0, << >>, ""))

\* Texts the grammar's actions can cope with: no block is empty, no list begins with a
\* semicolon.
RECURSIVE Readable(_)
Readable(ss) ==
  /\ ss # << >> => ss[1].kind # "empty"
  /\ \A i \in DOMAIN ss : ss[i].kind = "repeat" =>
       IF ss[i].braces THEN ss[i].body # << >> /\ Readable(ss[i].body)
       ELSE ss[i].body[1].kind = "empty" \/ Readable(ss[i].body)

-------------------------------------------------------------------------------
(* Properties.                                                                   *)

TypeOK ==
  /\ stage \in {"parse", "defaults", "arguments", "run", "substitute", "ended", "exit", "abort", "crash"}
  /\ taken \in 0 .. Len(args)
  /\ DOMAIN varmap \subseteq Names
  /\ \A v \in DOMAIN varmap : varmap[v].type \in {"VAR_INT", "VAR_STRING"}
  /\ \A i \in DOMAIN stack :
       /\ stack[i].at \in 1 .. Len(stack[i].node.kids) + 1
       /\ stack[i].round \in 0 .. stack[i].rounds - 1
  /\ stage \in {"run", "substitute"} => stack # << >>
  /\ Len(toProcess) <= MaxPieces
  /\ stage = "run" => toProcess = << >>

\* What a kernel prints, reads and writes, the variables it ends with and whether it ends
\* at all is what its text says, whatever it is nested in and however often it is
\* substituted: the tree is built backwards and reversed, loop variables come and go,
\* parameters have three sources, values of variables are substituted again.  A text that
\* begins with a semicolon, or has a block that does, executes nothing.
PrintsAsWritten ==
  Over \/ AtBound =>
    IF Readable(text)
    THEN /\ out = Meaning.out
         /\ stage = "ended" => Meaning.end = "" /\ varmap = Meaning.vars
         /\ stage \in {"exit", "abort", "crash"} => Meaning.end = stage
         /\ AtBound => Meaning.end = "loops"
    ELSE out = << >> /\ stage \in {"ended", "exit", "crash"}

\* variables.c:207 says of the string behind a variable "add post variable data": what
\* follows $$env(ARG) is part of the string.
PostDataKept == stage = "ended" /\ Readable(text) => out = Meaning.out

\* Every kernel comes to an end, unless a variable's value leads back to it.
Ends == <>(Over \/ AtBound)
===============================================================================
