----------------------------- MODULE MCBreakpoints -----------------------------
(* Two small source maps for Breakpoints.  In the first an expression of   *)
(* three lines holds one of a closure, and two expressions share a line of *)
(* C++; in the second a Haxe path is the end of another.                   *)
EXTENDS Breakpoints, TLC

CONSTANTS n1, n2, n3

MCNativeIds == {n1, n2, n3}
MCSymmetry  == Permutations(MCNativeIds)

Expr(l1, c1, l2, c2, cpp) ==
    [first |-> [line |-> l1, col |-> c1], last |-> [line |-> l2, col |-> c2], cpp |-> cpp]
Rel(name) == [abs |-> FALSE, name |-> name]

Main(haxe, cpp) ==
    [haxe |-> Rel(haxe), cpp |-> Rel(cpp), functions |->
        <<[exprs    |-> <<Expr(1, 1, 3, 2, 5), Expr(2, 1, 2, 3, 6)>>,
           closures |-> <<<<>>, <<Expr(2, 2, 2, 3, 8)>>>>],
          [exprs    |-> <<Expr(4, 1, 4, 2, 10), Expr(4, 3, 4, 4, 10)>>,
           closures |-> <<>>]>>]

MCMaps ==
    { <<Main(<<"Main.hx">>, <<"Main.cpp">>)>>,
      <<Main(<<"Main.hx">>, <<"Main.cpp">>),
        [Main(<<"pkg/", "Main.hx">>, <<"pkg/", "Other.cpp">>) EXCEPT
            !.functions = <<[exprs |-> <<Expr(2, 1, 2, 3, 5)>>, closures |-> <<>>]>>]>> }

MCPaths == { Rel(<<"Main.hx">>), Rel(<<"pkg/", "Main.hx">>),
             [abs |-> TRUE, name |-> <<"/", "src/", "pkg/", "Main.hx">>] }
=============================================================================
