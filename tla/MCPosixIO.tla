------------------------------- MODULE MCPosixIO -------------------------------
(* PosixIO for TLC.                                                             *)
EXTENDS PosixIO

S(op, path, amount, offset) ==
  [op |-> op, path |-> path, to |-> path, mode |-> "w+", amount |-> amount, offset |-> offset]
Open(path, mode) == [S("fopen", path, 0, 0) EXCEPT !.mode = mode]
Rename(path, to) == [S("rename", path, 0, 0) EXCEPT !.to = to]

\* Rank 1's programs on its own file: one-shot statements, and sequences on a handle.
Writing == {S("write", "a", n, o) : n \in 0 .. 2, o \in 0 .. 1}
OneShots == {S("write", "a", 1, 1), S("append", "a", 2, 0), S("read", "a", READALL, 0),
             S("read", "a", READALL, 1), S("read", "a", 1, 1), S("read", "a", 1, OFFSET_CUR),
             S("stat", "a", 0, 0)}
Handled == {S("fwrite", "a", 1, OFFSET_CUR), S("fwrite", "a", 2, 1), S("fwrite", "a", 0, 1),
            S("fread", "a", READALL, OFFSET_CUR), S("fread", "a", 1, OFFSET_CUR),
            S("fread", "a", 2, 0), S("fseek", "a", 0, 1), S("fsync", "a", 0, 0)}
Close == S("fclose", "a", 0, 0)
Own == {<< w, x, y >> : w \in Writing, x \in OneShots, y \in OneShots}
         \cup {<< w, Open("a", m), x, y, Close >> : w \in {S("write", "a", 2, 0)}, m \in {"w+", "r+"},
                                                  x \in Handled, y \in Handled}
\* What rank 2 does meanwhile to other names.
Others == {<< S("write", "b", 1, 0), Rename("b", "c"), S("delete", "c", 0, 0) >>,
           << S("mkdir", "b", 0, 0), S("read", "b", 1, 0), S("rmdir", "b", 0, 0) >>}

\* Both on one file: appends; writes, reads, handles and removals in any order.
Appends == {<< S("append", "a", n, 0), S("append", "a", m, 0) >> : n \in 0 .. 2, m \in 1 .. 2}
Shared == {S("write", "a", 1, 1), S("append", "a", 1, 0), S("read", "a", READALL, 0), S("delete", "a", 0, 0),
           S("create", "a", 0, 0), Rename("a", "b"), S("lookup", "a", 0, 0)}
Handles == {<< Open("a", m), S("fwrite", "a", 1, OFFSET_CUR), S("fread", "a", READALL, OFFSET_CUR), Close >> :
              m \in {"r", "w", "a", "a+"}}
             \cup {<< S("fcreat", "a", 0, 0), S("fseek", "a", 0, OFFSET_CUR), Close, Close >>,
                   << S("fcreat", "a", 0, 0), Close, S("fwrite", "a", 1, 0) >>,
                   << Open("a", "w+"), S("fwrite", "a", 1, 1), S("fread", "a", READALL, 0), Close >>}
             \cup {<< S("fcreat", "a", 0, 0), Close, S("fread", "a", READALL, o) >> : o \in {0, OFFSET_CUR}}

MCPrograms ==
  {[stmts |-> << own, other >>, faulty |-> FALSE] : own \in Own, other \in Others}
    \cup {[stmts |-> << x, y >>, faulty |-> f] : x, y \in Appends, f \in BOOLEAN}
    \cup {[stmts |-> << << x, y >>, << z >> >>, faulty |-> f] : x, y, z \in Shared, f \in BOOLEAN}
    \cup {[stmts |-> << h, << x >> >>, faulty |-> f] : h \in Handles, x \in Shared, f \in BOOLEAN}
===============================================================================
