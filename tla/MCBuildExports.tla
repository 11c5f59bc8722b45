--------------------------- MODULE MCBuildExports ---------------------------
(***************************************************************************)
(* Inputs for BuildExports.                                                *)
(***************************************************************************)
EXTENDS ExportsRefinement

MCLibNames == {"A", "B", "syslib"}
MCNames    == {"f", "g", "h"}
MCNids     == {"nf", "ng"}

S(l)    == [kind |-> "start", lib |-> l]
Func(n) == [kind |-> "func", export |-> [nid |-> "nf", name |-> n]]
Var(n)  == [kind |-> "var", export |-> [nid |-> "ng", name |-> n]]
As(a, b) == [kind |-> "alias", alias |-> [name |-> a, alias |-> b]]
Plain(k) == [kind |-> k]
End == Plain("end")

(* Every file of up to three lines, of four with a library open, and files *)
(* of three libraries whose bodies have up to three lines.                 *)
AnyLine == {S("A"), S("syslib"), Func("f"), Var("g"), As("f", "h"), End, Plain("other"), Plain("bad")}
ShortFiles == UNION {[1 .. n -> AnyLine] : n \in 0 .. 3}
  \cup {<<S("A")>> \o f : f \in [1 .. 3 -> AnyLine]}
Bodies == {<<>>, <<Func("f")>>, <<Var("g"), Func("f")>>, <<Func("f"), Var("g"), Func("g")>>,
           <<As("f", "h"), Func("f"), As("f", "g")>>, <<Func("f"), Func("g"), Func("h")>>,
           <<Var("f"), Var("g")>>}
LongFiles ==
  {<<S(x)>> \o a \o <<End, S(y)>> \o b \o <<End, S("A"), Func("g"), End>> :
     x, y \in MCLibNames, a, b \in Bodies}

MCExpFiles == ShortFiles \cup LongFiles
MCRefused  == {{}, {"A"}}
=============================================================================
