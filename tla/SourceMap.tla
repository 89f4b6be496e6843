------------------------------- MODULE SourceMap -------------------------------
(***************************************************************************)
(* The source map of a generated program and the two ways it is read: from *)
(* a position in a Haxe file to lines of C++ files, to set breakpoints,    *)
(* and from a native frame back to a Haxe expression.                      *)
(*                                                                         *)
(* A source map is a sequence of files                                     *)
(*    [cpp, haxe : path, functions : Seq([exprs, closures])]               *)
(* where exprs is a sequence of [first, last : [line, col], cpp : line]    *)
(* and closures one of such sequences.  A path is [abs, name], its name a  *)
(* sequence of pieces, a piece being text that no suffix ends inside of.   *)
(***************************************************************************)
EXTENDS Naturals, Sequences, SequencesExt, Functions

IsSequence(s) == s \in Seq(Range(s))

(* Path.matches: equal, or one is the end of the other, which the absolute *)
(* one of two cannot be.                                                   *)
Matches(path, other) ==
    \/ path.name = other.name
    \/ ~other.abs /\ IsSuffix(other.name, path.name)
    \/ ~path.abs /\ IsSuffix(path.name, other.name)

(* filter(): the elements of a sequence that pass a test, in their order. *)
Filter(seq, Test(_)) ==
    FlattenSeq([i \in DOMAIN seq |-> IF Test(seq[i]) THEN <<seq[i]>> ELSE <<>>])

(* The files of the map a Haxe path may mean. *)
FilesOf(map, path) == Filter(map, LAMBDA f : Matches(f.haxe, path))

(* isValidExprRange: a character is compared with the start on the first   *)
(* line, with the end on the last line only of a range of several, and 0   *)
(* is any character.                                                       *)
Covers(expr, line, char) ==
    /\ line \in expr.first.line .. expr.last.line
    /\ \/ char = 0
       \/ line = expr.first.line /\ char >= expr.first.col
       \/ line \notin {expr.first.line, expr.last.line}
       \/ /\ line # expr.first.line
          /\ line = expr.last.line
          /\ char < expr.last.col

(* takeMostSpecificExpr: fewer lines, or as many lines and fewer columns. *)
MoreSpecific(expr, best) ==
    LET Height(e) == e.last.line - e.first.line
    IN \/ Height(expr) < Height(best)
       \/ /\ Height(expr) = Height(best)
          /\ expr.last.col + best.first.col < best.last.col + expr.first.col

ClosuresOf(func) == FlattenSeq(func.closures)

(* findExprs: the places of the expressions, closures before the function  *)
(* they are in.                                                            *)
FindExprs(files, line, char) ==
    LET Places(f, exprs) == [i \in DOMAIN exprs |-> [file |-> f.cpp, expr |-> exprs[i]]]
        InFunction(f, func) == Places(f, Filter(ClosuresOf(func) \o func.exprs,
                                                LAMBDA e : Covers(e, line, char)))
        InFile(f) == FlattenSeq([i \in DOMAIN f.functions |-> InFunction(f, f.functions[i])])
    IN FlattenSeq([i \in DOMAIN files |-> InFile(files[i])])

Native == [kind |-> "native"]

(* A mutant of InOrder: the expressions of closures are not looked at. *)
InOrderNoClosures(file) ==
    FlattenSeq([i \in DOMAIN file.functions |-> file.functions[i].exprs])

(* The expressions of a file in the order mapNativeFrame looks at them. *)
InOrder(file) ==
    FlattenSeq([i \in DOMAIN file.functions |->
                  file.functions[i].exprs \o ClosuresOf(file.functions[i])])

(* mapNativeFrame: the first file of that name, and in it the first        *)
(* expression of that line or, as a return address may be past its call,   *)
(* of the line before.                                                     *)
MapNativeFrame(map, frame) ==
    LET files   == Filter(map, LAMBDA f : Matches(frame.file, f.cpp))
        file    == Head(files)
        At(line) == Filter(InOrder(file), LAMBDA e : e.cpp = line)
        Haxe(found) == [kind |-> "haxe", file |-> file.haxe, expr |-> Head(found)]
    IN IF files = <<>> THEN Native
       ELSE IF At(frame.line) # <<>> THEN Haxe(At(frame.line))
       ELSE IF frame.line > 0 /\ At(frame.line - 1) # <<>> THEN Haxe(At(frame.line - 1))
       ELSE Native
=============================================================================
