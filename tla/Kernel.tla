-------------------------------- MODULE Kernel --------------------------------
(***************************************************************************)
(* A kernel on one process, from its text to its end: the parser builds    *)
(* the tree, the parameters get their values, and ExecuteStatement walks   *)
(* the tree, with the substitution of variables in strings                 *)
(* (var_replace_substrings) piece by piece.  What processes do together is *)
(* in Interp; here are the values.                                         *)
(***************************************************************************)
EXTENDS Parser, Expressions, TLC

CONSTANTS
  Texts,        \* kernels: sequences of statements
  Params,       \* "define param" lines, in order: [param, var, default]
  Environments, \* functions from names that are set to strings
  Arguments,    \* argument lists after the file name: sequences of [param, value]
  MaxPieces     \* bound: unprocessed pieces of a string; only an endless one has more

ASSUME PiecesAssumption == MaxPieces \in Nat
ASSUME ParamsAssumption == \A i, j \in DOMAIN Params :
  i # j => Params[i].param # Params[j].param /\ Params[i].var # Params[j].var

VARIABLES
  text, environment, args, \* what the run is given
  taken,     \* how many of the arguments have been set
  stage,     \* "parse", "defaults", "arguments", "run", "substitute"; then how it ended:
             \* "ended", "exit", "abort" or "crash"
  ast,       \* the tree
  varmap,    \* the variables that are set
  stack,     \* frames of ExecuteStatement and iiStart, innermost first
  toProcess, \* the pieces of the string being substituted
  result,    \* what has been substituted
  out        \* the lines printed and the I/O calls made

given == << text, environment, args >>
vars == << given, taken, stage, ast, varmap, stack, toProcess, result, out >>

Init ==
  /\ text \in Texts /\ environment \in Environments /\ args \in Arguments
  /\ stage = "parse"
  /\ ast = NULL
  /\ taken = 0
  /\ varmap = << >>
  /\ stack = << >> /\ toProcess = << >> /\ result = << >> /\ out = << >>

-------------------------------------------------------------------------------
(* iiParse and iiSetParameters.                                                  *)

Parse ==
  /\ stage = "parse"
  /\ ast' = Program(text)
  /\ stage' = IF ast' = CRASH THEN "crash" ELSE "defaults"
  /\ UNCHANGED << given, taken, varmap, stack, toProcess, result, out >>

var_set_value(name, value) == varmap' = (name :> value) @@ varmap
var_destroy(name) == varmap' = [v \in DOMAIN varmap \ {name} |-> varmap[v]]

\* The environment variable PARABENCH_<param> goes before the default.
SetDefaults ==
  /\ stage = "defaults"
  /\ varmap' = [v \in {Params[i].var : i \in DOMAIN Params} |->
       LET p == Params[CHOOSE i \in DOMAIN Params : Params[i].var = v] IN
       StringValue(IF p.param \in DOMAIN environment THEN environment[p.param] ELSE p.default)]
  /\ stage' = "arguments"
  /\ UNCHANGED << given, taken, ast, stack, toProcess, result, out >>

\* An argument without "=" or for no parameter ends the program.
SetArgument ==
  /\ stage = "arguments" /\ taken < Len(args)
  /\ LET arg == args[taken + 1]
         known == {i \in DOMAIN Params : Params[i].param = arg.param}
     IN
     \/ known = {} /\ stage' = "exit" /\ UNCHANGED << taken, varmap >>
     \/ \E i \in known :
          /\ var_set_value(Params[i].var, StringValue(arg.value))
          /\ taken' = taken + 1
          /\ UNCHANGED stage
  /\ UNCHANGED << given, ast, stack, toProcess, result, out >>

\* Frames: the node whose children are executed, the place of the current one, the
\* round and the number of rounds.
Frame(node, n) == [node |-> node, at |-> 1, round |-> 0, rounds |-> n]

\* Without a tree there is nothing to execute.
Start ==
  /\ stage = "arguments" /\ taken = Len(args)
  /\ stage' = IF ast = NULL THEN "ended" ELSE "run"
  /\ stack' = IF ast = NULL THEN << >> ELSE << Frame(ast, 1) >>
  /\ UNCHANGED << given, taken, ast, varmap, toProcess, result, out >>

-------------------------------------------------------------------------------
(* ExecuteStatement.                                                             *)

Top == stack[1]
AtEnd == Top.at > Len(Top.node.kids)
stmt == Top.node.kids[Top.at].stmt
Running(kind) == stage = "run" /\ ~AtEnd /\ stmt.kind = kind
Step == stack' = [stack EXCEPT ![1].at = @ + 1]

\* Error: MPI_Abort.  A g_assert that fails ends the process as well.
Abort ==
  /\ stage' = "abort"
  /\ UNCHANGED << given, taken, ast, varmap, stack, toProcess, result, out >>

Substitute(string) ==
  /\ stage' = "substitute"
  /\ toProcess' = << string >> /\ result' = << >>
  /\ UNCHANGED << given, taken, ast, varmap, stack, out >>

\* The parameters of a print statement are put together, then substituted.
PrintLine ==
  /\ Running("print")
  /\ LET strings == [i \in DOMAIN stmt.params |-> expr_evaluate_to_string(stmt.params[i], varmap)] IN
     \/ (\E i \in DOMAIN strings : strings[i].status # OK) /\ Abort
     \/ /\ \A i \in DOMAIN strings : strings[i].status = OK
        /\ Substitute(FlattenSeq([i \in DOMAIN strings |->
             strings[i].value \o (IF i < Len(strings) THEN << " " >> ELSE << >>)]))

AssignInt ==
  /\ Running("assign") /\ stmt.expr.form \in {"rich", "int"}
  /\ LET number == expr_evaluate_to_int(stmt.expr, varmap) IN
     \/ number.status # OK /\ Abort
     \/ /\ number.status = OK
        /\ var_set_value(stmt.var, IntValue(number.value)) /\ Step
        /\ UNCHANGED << given, taken, stage, ast, toProcess, result, out >>

AssignString == Running("assign") /\ stmt.expr.form = "string" /\ Substitute(stmt.expr.str)

\* "not supported in assign statement".
AssignVariable == Running("assign") /\ stmt.expr.form = "var" /\ Abort

\* Of the file name no more is said than that it can be evaluated.  Reading tests the
\* status of the size only; what cannot be evaluated is 0.
READALL == -1
Call(name, size, offset, tested) ==
  \/ (\E i \in DOMAIN tested : tested[i].status # OK) /\ Abort
  \/ /\ \A i \in DOMAIN tested : tested[i].status = OK
     /\ out' = Append(out, << name, size.value, offset.value >>)
     /\ Step
     /\ UNCHANGED << given, taken, stage, ast, varmap, toProcess, result >>

Write ==
  /\ Running("write")
  /\ LET size == param_int_get(stmt.params, 1, varmap)
         offset == param_int_get_optional(stmt.params, 2, varmap, 0)
     IN  Call("write", size, offset, << size, offset >>)

Read ==
  /\ Running("read")
  /\ LET size == param_int_get_optional(stmt.params, 1, varmap, READALL)
         offset == param_int_get_optional(stmt.params, 2, varmap, 0)
     IN  Call("read", size, offset, << size >>)

Repeat ==
  /\ Running("repeat")
  /\ LET count == expr_evaluate_to_int(stmt.count, varmap) IN
     \/ (count.value < 0 \/ count.status # OK) /\ Abort
     \/ /\ count.value = 0 /\ count.status = OK
        /\ var_destroy(stmt.var) /\ Step
        /\ UNCHANGED << given, taken, stage, ast, toProcess, result, out >>
     \/ /\ count.value > 0 /\ count.status = OK
        /\ var_set_value(stmt.var, IntValue(0))
        /\ stack' = << Frame(Top.node.kids[Top.at], count.value) >> \o stack
        /\ UNCHANGED << given, taken, stage, ast, toProcess, result, out >>

\* Mutants: one round more; the rounds are not counted.
RepeatEnd_OneMore ==
  /\ stage = "run" /\ AtEnd /\ Len(stack) > 1
  /\ IF Top.round < Top.rounds
     THEN /\ var_set_value(Top.node.stmt.var, IntValue(Top.round + 1))
          /\ stack' = [stack EXCEPT ![1].at = 1, ![1].round = @ + 1]
     ELSE /\ var_destroy(Top.node.stmt.var)
          /\ stack' = [Tail(stack) EXCEPT ![1].at = @ + 1]
  /\ UNCHANGED << given, taken, stage, ast, toProcess, result, out >>
RepeatEnd_NoCount ==
  /\ stage = "run" /\ AtEnd /\ Len(stack) > 1
  /\ IF Top.round + 1 < Top.rounds
     THEN stack' = [stack EXCEPT ![1].at = 1] /\ UNCHANGED varmap
     ELSE /\ var_destroy(Top.node.stmt.var)
          /\ stack' = [Tail(stack) EXCEPT ![1].at = @ + 1]
  /\ UNCHANGED << given, taken, stage, ast, toProcess, result, out >>

\* A round is over: the next one, or the variable goes.
RepeatEnd ==
  /\ stage = "run" /\ AtEnd /\ Len(stack) > 1
  /\ IF Top.round + 1 < Top.rounds
     THEN /\ var_set_value(Top.node.stmt.var, IntValue(Top.round + 1))
          /\ stack' = [stack EXCEPT ![1].at = 1, ![1].round = @ + 1]
     ELSE /\ var_destroy(Top.node.stmt.var)
          /\ stack' = [Tail(stack) EXCEPT ![1].at = @ + 1]
  /\ UNCHANGED << given, taken, stage, ast, toProcess, result, out >>

End ==
  /\ stage = "run" /\ AtEnd /\ Len(stack) = 1
  /\ stage' = "ended"
  /\ UNCHANGED << given, taken, ast, varmap, stack, toProcess, result, out >>

-------------------------------------------------------------------------------
(* var_replace_substrings: the first piece is taken up to its first dollar, what is  *)
(* behind the variable there goes back to the pieces, and a string value before it.  *)

IsNoDollar(token) == token # "$"
Cut(s, n) == SubSeq(s, n + 1, Len(s))

\* One round: text goes to the result, pieces take the place of the first.
Replaced(extra, pieces) ==
  /\ result' = result \o extra
  /\ toProcess' = pieces \o Tail(toProcess)
  /\ UNCHANGED << given, taken, stage, ast, varmap, stack, out >>

Exit ==
  /\ stage' = "exit"
  /\ UNCHANGED << given, taken, ast, varmap, stack, toProcess, result, out >>

Replace ==
  /\ stage = "substitute" /\ toProcess # << >> /\ Len(toProcess) < MaxPieces
  /\ LET cur == Head(toProcess)
         before == Prefix(cur, IsNoDollar)
         head == SubSeq(cur, 1, before)
         behind == Cut(cur, before + 1)
         nameOf(s) == SubSeq(s, 1, Prefix(s, IsNameChar))
     IN
     \/ before = Len(cur) /\ Replaced(cur, << >>)
     \/ \* the dollar is escaped
        /\ before < Len(cur) /\ before > 0 /\ cur[before] = "\\"
        /\ Replaced(SubSeq(cur, 1, before - 1) \o << "$" >>, << behind >>)
     \/ \* $$rank; $$env is below
        /\ before < Len(cur) /\ ~(before > 0 /\ cur[before] = "\\")
        /\ behind # << >> /\ behind[1] = "$"
        /\ LET name == nameOf(Tail(behind))
               rest == Cut(Tail(behind), Len(name))
               stop == Prefix(rest, LAMBDA t : t # ")")
           IN
           \/ /\ name # << >> /\ name[1] = "env"
              /\ \/ (rest = << >> \/ rest[1] # "(" \/ stop = Len(rest)) /\ Exit
                 \/ /\ rest # << >> /\ rest[1] = "(" /\ stop < Len(rest)
                    /\ LET arg == SubSeq(rest, 2, stop) IN
                       \/ (Len(arg) # 1 \/ arg[1] \notin DOMAIN environment) /\ Exit
                       \/ \* the end of the argument has become the end of the string
                          /\ Len(arg) = 1 /\ arg[1] \in DOMAIN environment
                          /\ Replaced(head \o environment[arg[1]] \o
                               (IF "rank" \in ToSet(name) THEN Numeral(rank) ELSE << >>), << << >> >>)
           \/ /\ name = << >> \/ name[1] # "env"
              /\ \/ "rank" \in ToSet(name) /\ Replaced(head \o Numeral(rank), << rest >>)
                 \/ "rank" \notin ToSet(name) /\ Exit
     \/ \* a variable
        /\ before < Len(cur) /\ ~(before > 0 /\ cur[before] = "\\")
        /\ behind = << >> \/ behind[1] # "$"
        /\ LET name == nameOf(behind)
               rest == Cut(behind, Len(name))
           IN
           \/ (Len(name) # 1 \/ name[1] \notin DOMAIN varmap) /\ Exit
           \/ /\ Len(name) = 1 /\ name[1] \in DOMAIN varmap
              /\ LET var == varmap[name[1]] IN
                 IF var.type = "VAR_STRING" THEN Replaced(head, << var.str, rest >>)
                                            ELSE Replaced(head \o Unsigned(var.num), << rest >>)

\* The statement goes on with the result.
Substituted ==
  /\ stage = "substitute" /\ toProcess = << >>
  /\ stage' = "run"
  /\ IF stmt.kind = "print" THEN out' = Append(out, << "print", result >>) /\ UNCHANGED varmap
                            ELSE var_set_value(stmt.var, StringValue(result)) /\ UNCHANGED out
  /\ Step
  /\ UNCHANGED << given, taken, ast, toProcess, result >>

-------------------------------------------------------------------------------

Over == stage \in {"ended", "exit", "abort", "crash"}
AtBound == Len(toProcess) = MaxPieces
Terminated == (Over \/ AtBound) /\ UNCHANGED vars

ExecuteStatement ==
  \/ PrintLine \/ AssignInt \/ AssignString \/ AssignVariable \/ Write \/ Read
  \/ Repeat \/ RepeatEnd \/ Substituted \/ Replace
main == Parse \/ SetDefaults \/ SetArgument \/ Start \/ ExecuteStatement \/ End

Next == main \/ Terminated
Spec == Init /\ [][Next]_vars
\* The process runs on.
FairSpec == Spec /\ WF_vars(main)
===============================================================================
