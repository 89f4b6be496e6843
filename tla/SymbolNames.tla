------------------------------ MODULE SymbolNames ------------------------------
(***************************************************************************)
(* The names the two engines give to the functions of a call stack, and    *)
(* what the drivers make of them.  A name is a sequence of tokens: parts   *)
(* of a path, "::", "open" and "close" for brackets, "tick" and "quote"    *)
(* for the marks of dbgeng, "anonymous" for the name an engine gives to an *)
(* anonymous namespace with the "::" behind it, and words of arguments.    *)
(***************************************************************************)
EXTENDS Naturals, Sequences, SequencesExt

CONSTANTS
    Words,      \* identifiers of the program and its compiler
    Symbols     \* the functions considered

(* What stands for something else in a name. *)
Marks == {"::", "!", "open", "close", "tick", "quote", "2", "anonymous", "operator", "operator()"}

(* No word is a mark, nor does one end with "operator". *)
ASSUME WordsAssumption == Words \intersect Marks = {}

(***************************************************************************)
(* A function has a path, which may lead through an anonymous namespace    *)
(* and may end in an operator(); if it is a closure there are others it is *)
(* within; and it has arguments, which for LLDB are part of the name, and  *)
(* for dbgeng of some names.  There are no brackets in them.               *)
(***************************************************************************)
AnySymbol == [path : Seq(Words \union {"anonymous", "operator()"}) \ {<<>>},
              closures : Seq(Words), arguments : Seq(Words \union {"::"})]

ASSUME SymbolsAssumption == Symbols \subseteq AnySymbol

VARIABLE symbol     \* the function that is shown

NamesInit == symbol \in Symbols
NamesSpec == NamesInit /\ [][UNCHANGED symbol]_symbol

-----------------------------------------------------------------------------
(* endsWith(buffer, "operator"). *)
AfterOperator(seen) == seen.buffer # <<>> /\ Last(seen.buffer) = "operator"

Push(seen, token) == [seen EXCEPT !.buffer = Append(@, token)]

Nothing == [buffer |-> <<>>, skip |-> FALSE]

(* A mutant of LLDBStep: the brackets of operator() go for arguments. *)
LLDBStepAnyBracket(seen, token) ==
    CASE token = "anonymous"           -> seen
      [] token = "open"                -> [seen EXCEPT !.skip = TRUE]
      [] token = "close" /\ seen.skip  -> [seen EXCEPT !.skip = FALSE]
      [] token \notin {"anonymous", "open", "close"} /\ seen.skip -> seen
      [] OTHER -> Push(seen, token)

(* LLDBContext::getStackFrame: arguments are left out up to the first      *)
(* closing bracket, the brackets of operator() are kept, and the anonymous *)
(* namespace goes.                                                         *)
LLDBStep(seen, token) ==
    CASE token = "anonymous" /\ ~AfterOperator(seen) -> seen
      [] token = "open" /\ ~AfterOperator(seen)      -> [seen EXCEPT !.skip = TRUE]
      [] token = "close" /\ seen.skip                -> [seen EXCEPT !.skip = FALSE]
      [] token \notin {"anonymous", "open", "close"} /\ seen.skip -> seen
      [] OTHER -> Push(seen, token)

CleanLLDB(name) ==
    LET seen[n \in 0 .. Len(name)] == IF n = 0 THEN Nothing ELSE LLDBStep(seen[n - 1], name[n])
    IN seen[Len(name)].buffer

(* DbgEngSession::backtickCount. *)
BacktickCount(name) ==
    LET others == {i \in DOMAIN name : name[i] # "tick"}
    IN IF others = {} THEN Len(name)
       ELSE (CHOOSE i \in others : \A j \in others : i <= j) - 1

(* find_first_of('!') *)
WithoutModule(name) ==
    LET pivots == {i \in DOMAIN name : name[i] = "!"}
    IN IF pivots = {} THEN name
       ELSE SubSeq(name, 1 + (CHOOSE i \in pivots : \A j \in pivots : i <= j), Len(name))

(* The loop of DbgEngSession::cleanFunctionName: the quotes go, what is    *)
(* between them stays, and so do arguments: the break at a bracket leaves  *)
(* the switch, not the loop.                                               *)
DbgEngStep(seen, token) ==
    CASE token = "anonymous" /\ ~seen.skip      -> seen
      [] token = "anonymous" /\ seen.skip       -> [Push(seen, token) EXCEPT !.skip = FALSE]
      [] token = "quote"                        -> [seen EXCEPT !.skip = ~@]
      [] token = "open" /\ ~AfterOperator(seen) -> seen
      [] token = "tick" /\ ~seen.skip           -> seen
      [] OTHER -> Push(seen, token)

(* Without the module and the leading backticks. *)
Stripped(name) ==
    LET plain == WithoutModule(name)
    IN SubSeq(plain, BacktickCount(plain) + 1, Len(plain))

CleanDbgEng(name) ==
    LET from == Stripped(name)
        seen[n \in 0 .. Len(from)] == IF n = 0 THEN Nothing ELSE DbgEngStep(seen[n - 1], from[n])
    IN seen[Len(from)].buffer

-----------------------------------------------------------------------------
(* What a name is made of, to say what should be left of it: a path, of    *)
(* which the first part may be an anonymous namespace, the closures in it, *)
(* each with the number of its frame, and arguments in brackets.           *)
PathTokens(part, last) ==
    CASE part = "anonymous"  -> <<"anonymous">>
      [] part = "operator()" -> <<"operator", "open", "close">>
      [] OTHER -> IF last THEN <<part>> ELSE <<part, "::">>

JoinPath(path) == FlattenSeq([i \in DOMAIN path |-> PathTokens(path[i], i = Len(path))])

ClosureTokens(closure) == <<"quote", "::", "tick", "2", "quote", "::", closure>>

Bracketed(arguments) == <<"open">> \o arguments \o <<"close">>

DbgEngPath(path, closures) ==
    <<"module", "!">> \o [i \in DOMAIN closures |-> "tick"] \o JoinPath(path)
    \o FlattenSeq([i \in DOMAIN closures |-> ClosureTokens(closures[i])])

(* A name of dbgeng, when it has arguments. *)
DbgEngName(path, closures, arguments) == DbgEngPath(path, closures) \o Bracketed(arguments)

LLDBName(path, arguments) == JoinPath(path) \o Bracketed(arguments)

Without(name, tokens) ==
    FlattenSeq([i \in DOMAIN name |-> IF name[i] \in tokens THEN <<>> ELSE <<name[i]>>])

Visible(path) == Without(JoinPath(path), {"anonymous"})

Parts(name) == Without(name, {"::", "tick", "2", "anonymous"})

(* The name that is left of a function is its path, with nothing of its    *)
(* module; for a closure it has all parts of the path and of the closures  *)
(* in their order.  LLDB's arguments, which have no brackets in them, are  *)
(* gone.  Those of dbgeng are not, whatever the comment in the loop says:  *)
(* they stay behind the name with the closing bracket, and only the        *)
(* opening one is lost (DbgEngSession::cleanFunctionName,                  *)
(* LLDBContext::getStackFrame).                                            *)
NameKept(path, closures, arguments) ==
    /\ CleanLLDB(LLDBName(path, arguments)) = Visible(path)
    /\ CleanDbgEng(DbgEngPath(path, <<>>)) = Visible(path)
    /\ Parts(CleanDbgEng(DbgEngPath(path, closures))) = Parts(JoinPath(path) \o closures)
    /\ CleanDbgEng(DbgEngName(path, closures, arguments))
       = CleanDbgEng(DbgEngPath(path, closures)) \o arguments \o <<"close">>

(* Every function of a call stack is shown by its own name, whatever its   *)
(* path and closures, and by dbgeng with the arguments its symbol has      *)
(* (DbgEngSession::cleanFunctionName, LLDBContext::getStackFrame).         *)
NamesKept == NameKept(symbol.path, symbol.closures, symbol.arguments)
=============================================================================
