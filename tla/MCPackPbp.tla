------------------------------ MODULE MCPackPbp ------------------------------
(***************************************************************************)
(* PackPbp with three sections; chunks of two bytes, a header of three and *)
(* words of sixteen values.                                                *)
(***************************************************************************)
EXTENDS PackPbp

MCPaths == {"a", "b", "o"}

F(n) == [ver |-> 0, size |-> n]

(* Files below, at and above a chunk, and one too large; an output from   *)
(* an earlier build or none.                                               *)
MCDisks ==
  {[p \in MCPaths |-> CASE p = "a" -> x [] p = "b" -> y [] OTHER -> o] :
     x, y \in {Null, F(0), F(1), F(2), F(5), F(9)}, o \in {Null, F(4)}}

(* Files that have no int and offsets that have no u32.                    *)
LargeDisks ==
  {[p \in MCPaths |-> CASE p = "a" -> x [] p = "b" -> y [] OTHER -> Null] :
     x, y \in {F(2), F(7), F(9), F(17)}}

Args(to, x, y, z) ==
  [usage |-> FALSE, output |-> to, path |-> [j \in 0 .. 2 |-> <<x, y, z>>[j + 1]]]

(* Every choice of files, the same one twice and the output among them;    *)
(* the arguments main refuses.                                             *)
MCArguments ==
  {Args("o", x, y, z) : x \in {"a", "b"}, y \in {Null, EmptyName, "a", "o"}, z \in {Null, "b"}}
  \cup {Args("o", "o", "a", Null), Args("o", Null, "a", "b"), Args("o", EmptyName, "a", "b"),
        Args(EmptyName, "a", "b", Null)}
  \cup {[Args("o", "a", "b", Null) EXCEPT !.usage = TRUE]}
=============================================================================
