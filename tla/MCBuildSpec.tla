----------------------------- MODULE MCBuildSpec -----------------------------
(***************************************************************************)
(* Manifests of up to three lines over sources a, b and c, of which c is   *)
(* C++, and every graph of three tasks with good and bad deps.             *)
(***************************************************************************)
EXTENDS BuildSpec

Line(d, w) == [d |-> d, w |-> w]

MCLines ==
  {Line("lib", <<"x", "a">>), Line("lib", <<"x", "*">>), Line("lib", <<"y", "b", "c">>),
   Line("lib", <<"y", "a", ":", "x">>), Line("lib", <<"x">>),
   Line("bin", <<"p", "a", ":", "x">>), Line("bin", <<"p", "b", ":", "x", "y">>),
   Line("bin", <<"p", "*", "a">>), Line("bin", <<"q", "c", ":", "x", "x">>),
   Line("bin", <<"q", ":", "x">>), Line("bin", <<"x", "c">>), Line("bin", <<"q", "none*">>),
   Line("bin", <<"q", "b", ":", "p">>),
   Line("cc", <<>>), Line("cxx", <<"clang++">>), Line("ldflags", <<"-lm">>),
   Line("cflags", <<"-Iinc", "-O2", "-I">>), Line("cflags", <<"-I", "-I", "-g">>),
   Line("include", <<"x">>)}

MCExpand == [w \in {"a", "b", "c", "*", "none*"} |->
  CASE w = "*" -> <<"a", "b">> [] w = "none*" -> <<>> [] OTHER -> <<w>>]

MCText == {"t1", "t2", "t3"}
MCCost == [k \in MCText |-> IF k = "t1" THEN 2 ELSE 0]

DepLists == {<<>>, <<1>>, <<2>>, <<3>>, <<1, 2>>, <<1, 3>>, <<3, 2>>, <<1, 1>>, <<0>>, <<4>>}

Foreigner(kinds, costs, deps, id, what) ==
  [i \in 1 .. 3 |-> Task(IF i = 3 THEN id ELSE i, kinds[i], what, costs[i], deps[i], "gcc")]

MCForeign ==
  {Foreigner(kinds, costs, deps, 3, "t1") :
     kinds \in [1 .. 3 -> {"compile", "archive", "link"}],
     costs \in {<<1, 1, 1>>, <<1, 2, 3>>}, deps \in [1 .. 3 -> DepLists]}
  \cup {Foreigner(<<"compile", "compile", "link">>, <<1, 1, 1>>, <<<<>>, <<>>, <<1, 2>>>>, id, what) :
          id \in {2, 3}, what \in {"t1", NoText}}
=============================================================================
