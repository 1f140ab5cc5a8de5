-------------------------------- MODULE Parser --------------------------------
(***************************************************************************)
(* What the rules of parser.y build from a kernel: the tree ExecuteStatement *)
(* walks.  A statement of the text is a record with its kind; a loop also  *)
(* has its body, a sequence of statements, and whether that is in braces.  *)
(* A node of the tree is the statement with the sequence of its children.  *)
(***************************************************************************)
EXTENDS Integers, Sequences, SequencesExt

\* No node; and a dereferenced null pointer on the way.
NULL == [kind |-> "null"]
CRASH == [kind |-> "crash"]

Node(stmt, kids) == [stmt |-> stmt, kids |-> kids, kind |-> "node"]

\* StatementList: the first statement makes the node and the others are put before it.
\* If the first one is empty there is no node, and glib refuses to add to none.
\* Mutant: statements are added at the end, and still reversed afterwards.
Added_Append(list, node) ==
  IF list = CRASH \/ node = CRASH THEN CRASH
  ELSE IF list = NULL \/ node = NULL THEN list
  ELSE [list EXCEPT !.kids = Append(@, node)]

Added(list, node) ==
  IF list = CRASH \/ node = CRASH THEN CRASH
  ELSE IF list = NULL \/ node = NULL THEN list
  ELSE [list EXCEPT !.kids = << node >> \o @]

FirstOf(node) == IF node \in {NULL, CRASH} THEN node ELSE Node("block", << node >>)

\* A block in braces becomes the loop: the block's node gets the loop as its statement.
\* A block of which there is no node is dereferenced all the same.
Merged(stmt, block) == IF block \in {NULL, CRASH} THEN CRASH ELSE Node(stmt, block.kids)
\* A single statement becomes the only child, unless it is empty.
Wrapped(stmt, node) ==
  IF node = CRASH THEN CRASH ELSE Node(stmt, IF node = NULL THEN << >> ELSE << node >>)

RECURSIVE Statement(_)
StatementList(ss) ==
  FoldLeft(LAMBDA list, s : Added(list, Statement(s)), FirstOf(Statement(ss[1])), Tail(ss))
Block(ss) == IF ss = << >> THEN NULL ELSE StatementList(ss)

Statement(s) ==
  CASE s.kind = "empty" -> NULL
    [] s.kind = "repeat" /\ s.braces -> Merged(s, Block(s.body))
    [] s.kind = "repeat" /\ ~s.braces -> Wrapped(s, Statement(s.body[1]))
    [] OTHER -> Node(s, << >>)

\* The children of all nodes are put into the order of the text.
RECURSIVE Reversed(_)
Reversed(node) == [node EXCEPT !.kids = Reverse([i \in DOMAIN @ |-> Reversed(@[i])])]

\* An empty kernel has no tree; one that begins with a semicolon has none either, and
\* g_node_traverse refuses it with a warning.
Program(ss) ==
  IF ss = << >> THEN NULL
  ELSE LET list == StatementList(ss) IN IF list \in {NULL, CRASH} THEN list ELSE Reversed(list)
===============================================================================
