----------------------------- MODULE MCScript -----------------------------
EXTENDS ScriptEval, TLC

Variable(n) == << <<"var", n>> >>
Plain == << <<"plain">> >>
BlockOf == << <<"function">> >>
StdCall(f, args) == << <<"std", f>>, <<"call", args>> >>

(* What may stand for a value: anything at hand, and every way to make one.*)
Simple == {Plain, BlockOf} \cup {Variable(n) : n \in Vars}
Results == {Append(Variable(n), <<"call", <<>> >>) : n \in Vars}
AllExpressions == Simple \cup Results
Values == AllExpressions
          \cup {Append(Variable(n), <<"member">>) : n \in Vars}
          \cup {Append(Variable(n), <<"entry", k>>) : n \in Vars, k \in Keys}
          \cup {StdCall("newDict", <<>>), StdCall("library", <<>>)}

IfPlain == StdCall("if", <<Plain, BlockOf>>)
Loops == {StdCall("while", <<Variable(n), BlockOf>>) : n \in Vars}
Leaves == {StdCall(f, <<>>) : f \in {"exit"} \cup (Features \cap {"break"})}

(* Every kind of statement, with the values that tell them apart. *)
AllStatements ==
    {<< <<"setVar", n>> >> \o v : n \in Vars, v \in Values}
    \cup {Append(Variable(n), <<"setEntry", k>>) \o v : n \in Vars, k \in Keys, v \in Simple}
    \cup {Append(Variable(n), <<"setIndex", Plain>>) \o Variable(m) : n \in Vars, m \in Vars}
    \cup {Append(Variable(n), <<"callMember", <<v>> >>) : n \in Vars, v \in AllExpressions}
    \cup {Append(Variable(n), <<"callEntry", k, <<>> >>) : n \in Vars, k \in Keys}
    \cup {Append(Variable(n), <<"index", Variable(m)>>) : n \in Vars, m \in Vars}
    \cup {Append(Variable(n), <<"not">>) : n \in Vars}
    \cup {Variable(n) \o << <<"op">>, <<"brackets", v>> >> : n \in Vars, v \in {Plain} \cup Results}
    \cup {Variable(n) \o v : n \in Vars, v \in {Plain, << <<"op">>, <<"op">> >>}}
    \cup {IfPlain, Append(IfPlain, <<"callMember", <<BlockOf>> >>)}
    \cup Loops \cup Leaves

(* Just enough for two loops without an end, one after the other. *)
LoopStatements == {StdCall("while", <<Plain, BlockOf>>)} \cup Leaves

Symmetry == Permutations(Vars)
=============================================================================
