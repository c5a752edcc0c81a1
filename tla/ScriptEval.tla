----------------------------- MODULE ScriptEval -----------------------------
(***************************************************************************)
(* The evaluator of TegraExplorer's script language (source/script): eval  *)
(* walks the operators of a statement, opToVar evaluates one operand with  *)
(* the members, indexes and calls behind it, and every value is a          *)
(* Variable_t on the heap that lives as long as its tagCount says.         *)
(*                                                                         *)
(* A script is not fixed: each time a script, or a block or function of    *)
(* it, comes to its next statement, that is any one of "Statements", or    *)
(* none.  A statement is the sequence of operators the parser makes of it: *)
(*   <<"plain">> <<"function">> <<"std", f>> <<"var", n>> <<"brackets", e>>*)
(*        begin an operand: an int or string, a function of the script, a  *)
(*        standard function, a variable, an expression in brackets;        *)
(*   <<"member">> <<"entry", k>> <<"index", e>> <<"call", args>>           *)
(*   <<"callMember", args>> <<"callEntry", k, args>> <<"not">>             *)
(*        follow it: a built-in function of it, an entry of a dictionary,  *)
(*        an index, a call, a call of a member, a negation;                *)
(*   <<"setVar", n>> <<"setEntry", k>> <<"setIndex", e>> <<"op">>          *)
(*        "n =", ".k =", "[e] =", and an operator.                         *)
(*                                                                         *)
(* The C stack is the sequence "stack" of frames: an eval, the arguments   *)
(* of a built-in function, an if or else block, a loop, the call of a      *)
(* script function, an index.  "val" is what a frame that returned gives   *)
(* to the one below it.                                                    *)
(*                                                                         *)
(* What a value holds is left out, except the values it refers to: ints    *)
(* and strings are "plain", a condition is a choice, and so is which of    *)
(* its class's functions a member is. Arguments that are literals of such  *)
(* functions (the ints of a slice, the name in set("k", v)) are left out.  *)
(***************************************************************************)
EXTENDS Integers, Sequences, FiniteSets

CONSTANTS
    Vars,       \* names of script variables
    Keys,       \* names of dictionary entries
    Statements, \* the statements that a script is made of
    Expressions,\* what stands in brackets, as an index, as an argument in them
    Cells,      \* how many Variable_t fit on the heap
    TagLimit,   \* tagCount is a u8: 256
    MaxTags,    \* bound on the references to a value
    MaxFrames,  \* bound on the depth of the C stack
    MaxLength,  \* bound on the statements that are run
    Features    \* functions that may be used: "break", "foreach", "project"

ASSUME SizesAssumption == /\ Cells \in Nat \ {0}
                          /\ TagLimit \in Nat \ {0, 1}
                          /\ MaxTags \in Nat
                          /\ MaxFrames \in Nat \ {0}
                          /\ MaxLength \in Nat
                          /\ IsFiniteSet(Vars) /\ IsFiniteSet(Keys)
ASSUME FeaturesAssumption == Features \subseteq {"break", "foreach", "project"}

VARIABLES
    heap,       \* the Variable_t of each cell
    vars,       \* runtimeVars
    stack,      \* the C stack, the innermost call last
    val,        \* what the call that just returned gives back
    broke,      \* scriptLastError = SCRIPT_BREAK
    exited,     \* history: stdExit was called
    lost,       \* history: cells of which a reference was dropped, not released
    length      \* how many statements were begun, for MaxLength

evars == <<heap, vars, stack, val, broke, exited, lost, length>>

-----------------------------------------------------------------------------
(* Values: a cell, or one of the values that the collector leaves alone.   *)

Ids == 1 .. Cells
Null == 0           \* NULL
Empty == -1         \* emptyClass
Function == -2      \* a function of the script: static, gcDoNotFree
Running == -9       \* no call is returning

Value == Ids \cup {Null, Empty, Function}
Std == {"if", "while", "newDict", "exit", "library"} \cup (Features \cap {"break"})
Kinds == {"plain", "array", "dict", "slice", "view", "member", "then", "else"} \cup Std
NoEntries == [k \in Keys |-> Null]

(* What statements and expressions are made of. *)
Tokens == { <<"plain">>, <<"function">>, <<"member">>, <<"not">>, <<"op">> }
          \cup ({"std"} \X Std) \cup ({"var", "setVar"} \X Vars) \cup ({"entry", "setEntry"} \X Keys)
          \cup ({"brackets", "index", "setIndex"} \X Expressions)
          \cup ({"call", "callMember"} \X Seq(Expressions))
          \cup ({"callEntry"} \X Keys \X Seq(Expressions))
ASSUME ScriptsAssumption == Statements \cup Expressions \subseteq Seq(Tokens)

Free == [kind |-> "none", tags |-> 0, pinned |-> FALSE, base |-> Null, entries |-> NoEntries]

(* A value fresh from copyVariableToPtr: one reference, held by whoever asked. *)
Fresh(kind, base) == [kind |-> kind, tags |-> 1, pinned |-> FALSE, base |-> base, entries |-> NoEntries]

KindOf(h, v) == CASE v \in Ids -> h[v].kind
                  [] v = Function -> "function"
                  [] v = Empty -> "empty"
                  [] OTHER -> "null"

HasRoom(h) == \E i \in Ids : h[i].kind = "none"
Place(h) == CHOOSE i \in Ids : h[i].kind = "none" /\ \A j \in 1 .. i - 1 : h[j].kind # "none"

Counted(h, v) == v \in Ids /\ ~h[v].pinned

MayHold(h, v) == Counted(h, v) => h[v].tags < MaxTags     \* a bound
Retain(h, v) == IF Counted(h, v) THEN [h EXCEPT ![v].tags = (@ + 1) % TagLimit] ELSE h

(* A new value; a member or a slice keeps the value it is taken from.      *)
(* Mutation: a built-in function does not keep the value it belongs to. *)
KeepsNoOrigin(kind) == kind = "slice"
Keeps(kind) == kind \in {"member", "slice"}
New(h, kind, base) == LET kept == IF Keeps(kind) THEN Retain(h, base) ELSE h
                      IN  [kept EXCEPT ![Place(h)] = Fresh(kind, base)]

(* How many references to i the values vs are, and how many the cells C     *)
(* let go of when they are freed: a member or a slice its origin, a        *)
(* dictionary its entries.  A view holds no reference.                     *)
Count(vs, i) == Cardinality({x \in DOMAIN vs : vs[x] = i})
Origins(h, C, i) == Cardinality({c \in C : Keeps(h[c].kind) /\ h[c].base = i})
Entries(h, C, i) == Cardinality({p \in C \X Keys : h[p[1]].entries[p[2]] = i})
(* Mutation: the origin of a member or slice is not released with it. *)
OwnedEntries(h, C, i) == Entries(h, C, i)
Owned(h, C, i) == Origins(h, C, i) + Entries(h, C, i)

(* The values vs are released (a sequence, or a function).  A value whose  *)
(* last reference goes is freed, and then lets go of those it refers to:   *)
(* the freed cells are the smallest set that is closed under this.         *)
Released(h, vs, C, i) == Count(vs, i) + Owned(h, C, i)
LastTag(h, vs, C, i) == Counted(h, i) /\ h[i].tags \in 1 .. Released(h, vs, C, i)
Garbage(h, vs) == {i \in Ids : \A C \in SUBSET Ids : {j \in Ids : LastTag(h, vs, C, j)} \subseteq C => i \in C}

ReleaseAll(h, vs) ==
    LET gone == Garbage(h, vs)
    IN  [i \in Ids |-> IF i \in gone THEN Free
                      ELSE IF Counted(h, i) /\ h[i].kind # "none"
                      THEN [h[i] EXCEPT !.tags = (@ - Released(h, vs, gone, i)) % TagLimit]
                      ELSE h[i]]
Release(h, v) == ReleaseAll(h, <<v>>)

-----------------------------------------------------------------------------
(* Frames.                                                                 *)

NoSet == [to |-> "none", on |-> Null, name |-> <<>>]

(* eval(ops, len, ret): the operators of the statement that are left, and  *)
(* whether other statements may follow; curRes and whether curOp is set;   *)
(* the operand opToVar is at; the set that the statement is about.         *)
Eval(ops, body, ret) == [k |-> "eval", ops |-> ops, body |-> body, ret |-> ret,
                         cur |-> Null, op |-> FALSE, opd |-> Null, set |-> NoSet]
Expression(ops) == Eval(ops, FALSE, TRUE)
Body(ret) == Eval(<<>>, TRUE, ret)

(* genericCall of a built-in function of class "class" on the value "of":  *)
(* the arguments so far, those left, and whether the function runs a block *)
(* now. The condition of a while is not evaluated.                         *)
Args(class, of, args) ==
    LET cond == IF class = "while" /\ args # <<>> THEN <<Head(args)>> ELSE <<>>
    IN  [k |-> "args", class |-> class, of |-> of, cond |-> cond, got |-> <<>>,
         todo |-> SubSeq(args, Len(cond) + 1, Len(args)), runs |-> FALSE]

Top == stack[Len(stack)]
Below == SubSeq(stack, 1, Len(stack) - 1)
WithTop(f) == Append(Below, f)
At(kind) == stack # <<>> /\ Top.k = kind
Idle == val = Running
Deeper == Len(stack) < MaxFrames

(* The references a frame holds.                                           *)
Holds(f) == CASE f.k = "eval" -> <<f.cur, f.opd, f.set.on>>
              [] f.k = "args" -> f.got
              [] OTHER -> <<>>
CountedIn(h, vs) == {v \in {vs[i] : i \in DOMAIN vs} : Counted(h, v)}

(* The top frame returns v.                                                *)
Return(v) == stack' = Below /\ val' = v

(* The top frame returns NULL and forgets what it holds. *)
GiveUp == /\ Return(Null)
          /\ lost' = lost \cup CountedIn(heap, Holds(Top))
          /\ UNCHANGED <<heap, vars, exited, length>>

(* SCRIPT_FATAL_ERR prints, which sets scriptLastError, and returns NULL.   *)
Error == GiveUp /\ broke' = FALSE

(* The top frame becomes f, with the heap h.                               *)
Becomes(h, f) == heap' = h /\ stack' = WithTop(f) /\ val' = Running


(***************************************************************************)
(* opToVar: the operand.                                                   *)
(***************************************************************************)
EvalIdle == At("eval") /\ Idle
Comes(token) == Top.ops # <<>> /\ Head(Top.ops)[1] = token
Token == Head(Top.ops)
Behind == [Top EXCEPT !.ops = Tail(@)]      \* the frame behind its next token

Same == UNCHANGED <<vars, broke, exited, length, lost>>
Calls(frames) == stack' = WithTop(Behind) \o frames /\ Len(stack) + Len(frames) =< MaxFrames

(* An operand may begin where there is no value yet, and behind an operator. *)
Open == Top.cur = Null \/ Top.op
StartsWith(token) == EvalIdle /\ Top.opd = Null /\ Open /\ Comes(token)
GoesOn(token) == EvalIdle /\ Top.opd # Null /\ Comes(token)

(* A literal, a function of the script, a standard function.               *)
Literal ==
    /\ StartsWith("plain") /\ HasRoom(heap)
    /\ Becomes(New(heap, "plain", Null), [Behind EXCEPT !.opd = Place(heap)]) /\ Same

ScriptFunction == StartsWith("function") /\ Becomes(heap, [Behind EXCEPT !.opd = Function]) /\ Same

StdFunction ==
    /\ StartsWith("std") /\ HasRoom(heap)
    /\ Becomes(New(heap, Token[2], Null), [Behind EXCEPT !.opd = Place(heap)]) /\ Same

(* A variable: the operand is a reference of its own. *)
Lookup ==
    /\ StartsWith("var")
    /\ LET v == vars[Token[2]]
       IN  IF v = Null THEN Error
           ELSE MayHold(heap, v) /\ Becomes(Retain(heap, v), [Behind EXCEPT !.opd = v]) /\ Same

(* An expression in brackets. *)
Brackets ==
    /\ StartsWith("brackets") /\ Calls(<<Expression(Token[2])>>)
    /\ UNCHANGED <<heap, val>> /\ Same

(* A set: eval notes it at the beginning of its statement; anywhere else   *)
(* there is no operand, and the eval gives up.                             *)
Notes == IF Top.cur = Null /\ Top.set.to = "none"
         THEN /\ Becomes(heap, [Behind EXCEPT !.opd = Null, !.set = [to |-> Token[1], on |-> Top.opd, name |-> Token[2]]])
              /\ Same
         ELSE GiveUp /\ UNCHANGED broke

SetVariable == StartsWith("setVar") /\ Notes

(* ".k =" and "[e] =": the set keeps the reference to what it is set on.   *)
(* A string may be set on, an int not.                                     *)
MayBeReadOnly(v) == v \in Ids => heap[v].kind \notin {"array", "dict", "slice"}
MayBeWritable(v) == v \in Ids /\ heap[v].kind \in {"plain", "array", "dict", "slice"}

SetMember ==
    /\ GoesOn("setEntry") \/ GoesOn("setIndex")
    /\ \/ MayBeReadOnly(Top.opd) /\ Error
       \/ MayBeWritable(Top.opd) /\ Notes

(* genericGet of a member: the entry of a dictionary, or a built-in        *)
(* function that keeps its origin. The origin itself is released then.     *)
Class(v) == IF KindOf(heap, v) = "view" THEN "array" ELSE KindOf(heap, v)
HasMembers(v) == Class(v) \in {"plain", "array", "dict", "slice", "then", "else"}
EntryOf(v, k) == IF KindOf(heap, v) = "dict" THEN heap[v].entries[k] ELSE Null

Entry ==
    /\ GoesOn("entry")
    /\ LET e == EntryOf(Top.opd, Token[2])
       IN  IF e = Null THEN Error
           ELSE /\ MayHold(heap, e)
                /\ Becomes(Release(Retain(heap, e), Top.opd), [Behind EXCEPT !.opd = e]) /\ Same

Member ==
    /\ GoesOn("member")
    /\ IF HasMembers(Top.opd)
       THEN /\ HasRoom(heap) /\ MayHold(heap, Top.opd)
            /\ Becomes(Release(New(heap, "member", Top.opd), Top.opd), [Behind EXCEPT !.opd = Place(heap)])
            /\ Same
       ELSE Error

(* genericGet of an index: the index is an expression, its value released  *)
(* when it is an integer. An index that is NULL is read through, and taken *)
(* for another kind of value.                                              *)
Index ==
    /\ GoesOn("index") /\ Calls(<<[k |-> "index", of |-> Top.opd], Expression(Token[2])>>)
    /\ UNCHANGED <<heap, val>> /\ Same

Indexed ==
    /\ At("index") /\ ~Idle
    /\ \/ /\ KindOf(heap, val) # "plain"
          /\ Return(Null) /\ broke' = FALSE
          /\ lost' = lost \cup CountedIn(heap, <<val>>)
          /\ UNCHANGED heap
       \/ /\ KindOf(heap, val) = "plain"
          /\ heap' = Release(heap, val) /\ Return(Null) /\ broke' = FALSE
          /\ UNCHANGED lost
       \/ /\ KindOf(heap, val) = "plain" /\ Class(Top.of) \in {"plain", "array"} /\ HasRoom(heap)
          /\ heap' = Release(New(heap, "plain", Null), val) /\ Return(Place(heap))
          /\ UNCHANGED <<broke, lost>>
    /\ UNCHANGED <<vars, exited, length>>

(* genericCall: a built-in function has its arguments evaluated, all but   *)
(* the condition of a while; a function of the script has them evaluated   *)
(* for nothing, and then its body.                                         *)
Callable(f) == KindOf(heap, f) \in Std \cup {"member", "function"}
CallFrames(f, args) ==
    CASE KindOf(heap, f) \in Std -> <<Args(KindOf(heap, f), Null, args)>>
      [] KindOf(heap, f) = "member" -> <<Args(Class(heap[f].base), heap[f].base, args)>>
      [] f = Function -> <<[k |-> "call", body |-> args = <<>>],
                           IF args = <<>> THEN Body(FALSE) ELSE Eval(args[1], FALSE, FALSE)>>

Call ==
    /\ GoesOn("call")
    /\ IF Callable(Top.opd) THEN Calls(CallFrames(Top.opd, Token[2])) /\ UNCHANGED <<heap, val>> /\ Same
       ELSE Error

CallMember ==
    /\ GoesOn("callMember")
    /\ IF HasMembers(Top.opd)
       THEN Calls(<<Args(Class(Top.opd), Top.opd, Token[2])>>) /\ UNCHANGED <<heap, val>> /\ Same
       ELSE Error

(* callMemberFunction of an entry: called with a reference that nobody     *)
(* releases.                                                               *)
CallEntry ==
    /\ GoesOn("callEntry")
    /\ LET e == EntryOf(Top.opd, Token[2])
       IN  /\ MayHold(heap, e)
           /\ heap' = Retain(heap, e)
           /\ IF Callable(e)
              THEN Calls(CallFrames(e, Token[3])) /\ lost' = lost \cup CountedIn(heap, <<e>>) /\ UNCHANGED <<val, broke>>
              ELSE Return(Null) /\ lost' = lost \cup CountedIn(heap, Append(Holds(Top), e)) /\ broke' = FALSE
    /\ UNCHANGED <<vars, exited, length>>

(* "!": the value of "not", or no operand at all. *)
Negate ==
    /\ GoesOn("not")
    /\ IF KindOf(heap, Top.opd) = "plain"
       THEN /\ HasRoom(heap)
            /\ Becomes(Release(New(heap, "plain", Null), Top.opd), [Behind EXCEPT !.opd = Place(heap)])
            /\ UNCHANGED <<broke, lost>>
       ELSE /\ heap' = Release(heap, Top.opd) /\ Return(Null) /\ broke' = FALSE
            /\ lost' = lost \cup CountedIn(heap, <<Top.cur, Top.set.on>>)
    /\ UNCHANGED <<vars, exited, length>>

(* The call behind an operand returned, or the expression in brackets.     *)
Resume ==
    /\ At("eval") /\ ~Idle
    /\ IF val = Null THEN GiveUp /\ UNCHANGED broke
       ELSE Becomes(Release(heap, Top.opd), [Top EXCEPT !.opd = val]) /\ Same

(* The arguments of a script function, or its body, were evaluated.        *)
Called ==
    /\ At("call") /\ ~Idle
    /\ IF val = Null \/ Top.body THEN Return(val)
       ELSE stack' = Append(WithTop([Top EXCEPT !.body = TRUE]), Body(FALSE)) /\ val' = Running
    /\ UNCHANGED heap /\ Same

-----------------------------------------------------------------------------
(***************************************************************************)
(* genericCall of a built-in function.                                     *)
(***************************************************************************)

(* The next argument is evaluated. *)
NextArg ==
    /\ At("args") /\ Idle /\ Top.todo # <<>> /\ Len(stack) < MaxFrames
    /\ stack' = Append(WithTop([Top EXCEPT !.todo = Tail(@)]), Expression(Head(Top.todo)))
    /\ UNCHANGED <<heap, val>> /\ Same

(* An argument that fails ends the call: those before it are not freed.    *)
ArgGot ==
    /\ At("args") /\ ~Idle /\ ~Top.runs
    /\ IF val = Null THEN GiveUp /\ UNCHANGED broke
       ELSE Becomes(heap, [Top EXCEPT !.got = Append(@, val)]) /\ Same

Given(class, n) == At("args") /\ Idle /\ Top.todo = <<>> /\ Top.class = class /\ Len(Top.got) = n

(* The function returns v with the heap h, and the arguments are released. *)
Gives(h, v) == heap' = ReleaseAll(h, Top.got) /\ Return(v)
GivesNew(kind, base) == HasRoom(heap) /\ MayHold(heap, base) /\ Gives(New(heap, kind, base), Place(heap))

(* The functions that only compute something, and what they may return.    *)
Outcomes(class) ==
    CASE class \in {"library", "plain"} -> {"plain", "array", "empty", "error"}
      [] class = "array" -> {"plain", "array", "slice", "empty", "error"}
      [] class = "slice" -> {"error"} \cup {"view" : f \in Features \cap {"project"}}
      [] OTHER           -> {"error"}

Compute ==
    /\ At("args") /\ Idle /\ Top.todo = <<>>
    /\ \E out \in Outcomes(Top.class) :
         LET base == CASE out = "slice" -> Top.of [] out = "view" -> heap[Top.of].base [] OTHER -> Null
         IN  /\ CASE out = "error" -> Gives(heap, Null)
                  [] out = "empty" -> Gives(heap, Empty)
                  [] OTHER         -> GivesNew(out, base)
             /\ broke' = (broke /\ out # "error")
    /\ UNCHANGED <<vars, exited, length, lost>>

NewDict == Given("newDict", 0) /\ GivesNew("dict", Null) /\ Same

(* dictSet: the entry refers to the value; what the entry referred to      *)
(* before is forgotten.                                                    *)
PutEntry(h, d, k, v) == [Retain(h, v) EXCEPT ![d].entries[k] = v]

DictSet(k) ==
    /\ Given("dict", 1) /\ MayHold(heap, Top.got[1])
    /\ Gives(PutEntry(heap, Top.of, k, Top.got[1]), Empty)
    /\ lost' = lost \cup CountedIn(heap, <<heap[Top.of].entries[k]>>)
    /\ UNCHANGED <<vars, broke, exited, length>>

(* stdExit, and stdBreak: both return NULL. *)
Exit ==
    /\ \E f \in {"exit"} \cup (Features \cap {"break"}) :
         /\ Given(f, 0)
         /\ broke' = (broke \/ f = "break")
         /\ exited' = (exited \/ f = "exit")
    /\ Gives(heap, Null)
    /\ UNCHANGED <<vars, lost, length>>

(* A function that runs a block (genericCallDirect without arguments).     *)
Block(f) == IF f = Function THEN Body(TRUE) ELSE CallFrames(f, <<>>)[1]
Runs(h, frames) == /\ Len(stack) + Len(frames) =< MaxFrames
                   /\ heap' = h
                   /\ stack' = WithTop([Top EXCEPT !.runs = TRUE]) \o frames
                   /\ UNCHANGED val

(* stdIf: the block runs, or not; the value is there for an else. *)
If ==
    /\ Given("if", 2) /\ KindOf(heap, Top.got[1]) = "plain" /\ Callable(Top.got[2])
    /\ \/ Runs(heap, <<[k |-> "block", gives |-> "then"], Block(Top.got[2])>>)
       \/ GivesNew("else", Null)
    /\ Same

(* scriptElse: its block runs when the block of the if did not. *)
Else ==
    /\ \E ran \in {"then", "else"} :
         /\ Given(ran, 1) /\ Callable(Top.got[1])
         /\ IF ran = "else" THEN Runs(heap, <<[k |-> "block", gives |-> "empty"], Block(Top.got[1])>>)
            ELSE Gives(heap, Empty)
    /\ Same

(* Mutation: what a block returns is not looked at. *)
BlockNeverFails == FALSE
BlockFails == val = Null

(* The block ended: what it returned is released. *)
BlockEnded ==
    /\ At("block") /\ ~Idle
    /\ IF BlockFails THEN Return(Null) /\ UNCHANGED heap
       ELSE LET h == Release(heap, val)
            IN  IF Top.gives = "empty" THEN heap' = h /\ Return(Empty)
                ELSE HasRoom(h) /\ heap' = New(h, Top.gives, Null) /\ Return(Place(h))
    /\ Same

(* stdWhile: the condition is evaluated, then the block runs, in turn.     *)
While ==
    /\ Given("while", 1) /\ Top.cond # <<>> /\ Callable(Top.got[1])
    /\ Runs(heap, <<[k |-> "loop", f |-> Top.got[1], cond |-> Top.cond, asks |-> TRUE, result |-> Null],
                    Expression(Top.cond[1])>>)
    /\ UNCHANGED vars

(* arrayForEach: a variable of the script is made the iterator; the        *)
(* collector may not touch it.                                             *)
ForEach(n) ==
    /\ Given("array", 1) /\ Callable(Top.got[1]) /\ HasRoom(heap)
    /\ LET i == Place(heap)
       IN  /\ Runs(Release([heap EXCEPT ![i] = [Fresh("plain", Null) EXCEPT !.pinned = TRUE]], vars[n]),
                   <<[k |-> "loop", f |-> Top.got[1], cond |-> <<>>, asks |-> FALSE, result |-> i], Block(Top.got[1])>>)
           /\ vars' = [vars EXCEPT ![n] = i]

Loop == /\ \E f \in {"while"} \cup (Features \cap {"foreach"}) :
             IF f = "while" THEN While ELSE \E n \in Vars : ForEach(n)
        /\ UNCHANGED <<broke, exited, lost, length>>

(* The condition: an integer, which is released at the top of the loop.    *)
Condition ==
    /\ At("loop") /\ ~Idle /\ Top.asks
    /\ IF KindOf(heap, val) = "plain"
       THEN /\ heap' = Release(heap, val)
            /\ UNCHANGED lost
            /\ \/ Return(Empty)
               \/ /\ stack' = Append(WithTop([Top EXCEPT !.asks = FALSE, !.result = val]), Block(Top.f))
                  /\ val' = Running
       ELSE /\ Return(Null)
            /\ lost' = lost \cup CountedIn(heap, <<val>>)
            /\ UNCHANGED heap
    /\ UNCHANGED <<vars, broke, exited, length>>

(* The block ended. A break ends the loop, which releases the condition    *)
(* once more; any other NULL is passed on.                                 *)
Each == Top.cond = <<>>
AfterLoop(h) == IF Each THEN [h EXCEPT ![Top.result] = Free] ELSE Release(h, Top.result)
LoopBody ==
    /\ At("loop") /\ ~Idle /\ ~Top.asks
    /\ IF val = Null
       THEN IF broke THEN heap' = AfterLoop(heap) /\ Return(Empty)
            ELSE heap' = heap /\ Return(Null)
       ELSE IF ~Each
            THEN /\ heap' = Release(heap, val) /\ val' = Running
                 /\ stack' = Append(WithTop([Top EXCEPT !.asks = TRUE, !.result = Null]), Expression(Top.cond[1]))
            ELSE \E more \in BOOLEAN :
                   IF more THEN heap' = heap /\ val' = Running /\ stack' = Append(stack, Block(Top.f))
                   ELSE heap' = AfterLoop(heap) /\ Return(Empty)
    /\ Same

(* The function ended that had a block to run. *)
CallEnded == At("args") /\ ~Idle /\ Top.runs /\ Gives(heap, val) /\ Same

-----------------------------------------------------------------------------
(***************************************************************************)
(* eval: statements and operators.                                         *)
(***************************************************************************)

(* The next statement of a script, a block or a function. *)
AtStart == EvalIdle /\ Top.body /\ Top = Body(Top.ret)
Begin(s) ==
    /\ AtStart /\ length < MaxLength
    /\ length' = length + 1
    /\ Becomes(heap, [Top EXCEPT !.ops = s])
    /\ UNCHANGED <<vars, broke, exited, lost>>

Operator ==
    /\ EvalIdle /\ Top.opd = Null /\ Comes("op")
    /\ \/ Top.cur = Null /\ Error
       \/ Top.cur # Null /\ Top.op /\ GiveUp /\ UNCHANGED broke
       \/ ~Open /\ Becomes(heap, [Behind EXCEPT !.op = TRUE]) /\ Same

ExpectedOperator == EvalIdle /\ Top.opd = Null /\ ~Open /\ Top.ops # <<>> /\ ~Comes("op") /\ Error

(* The operand is complete: it is the first of its statement, or the right *)
(* side of an operator, which both values are released after. A NULL that  *)
(* an operator gives is not looked at.                                     *)
Ahead == {"plain", "function", "std", "var", "brackets", "setVar", "op"}
Complete == EvalIdle /\ Top.opd # Null /\ (Top.ops # <<>> => Token[1] \in Ahead)

FirstOperand ==
    /\ Complete /\ Top.cur = Null
    /\ Becomes(heap, [Top EXCEPT !.cur = Top.opd, !.opd = Null]) /\ Same

Operate ==
    /\ Complete /\ Top.cur # Null /\ Top.op
    /\ \E out \in Outcomes(Class(Top.cur)) \ {"slice", "view"} :
         LET made == out \in {"plain", "array"}
             h == IF made THEN New(heap, out, Null) ELSE heap
             result == CASE made -> Place(heap) [] out = "empty" -> Empty [] OTHER -> Null
         IN  /\ made => HasRoom(heap)
             /\ broke' = (broke /\ out # "error")
             /\ Becomes(ReleaseAll(h, <<Top.cur, Top.opd>>), [Top EXCEPT !.cur = result, !.opd = Null, !.op = FALSE])
    /\ UNCHANGED <<vars, exited, length, lost>>

(* The statement is over: the eval returns v, or goes on with the next.    *)
AtEnd(last) == EvalIdle /\ Top.ops = <<>> /\ Top.opd = Null /\ (last \/ Top.body)
StatementDone(h, last, v) == IF last THEN heap' = h /\ Return(v) ELSE Becomes(h, Body(Top.ret))

(* Nothing was set: the value is dropped, or is what the eval returns.     *)
Drop(last) ==
    /\ AtEnd(last) /\ Top.set.to = "none" /\ (AtStart => last)
    /\ IF last /\ Top.ret THEN StatementDone(heap, last, Top.cur)
       ELSE StatementDone(Release(heap, Top.cur), last, Empty)
    /\ Same

(* runtimeVariableEdit of a variable: the old value is released, the       *)
(* reference to the new one moves from the eval to the variable.           *)
(* Mutation: the variable gets what returned last, not the result of the statement. *)
LastReturned == val
Assigned == Top.cur
Assign(last) ==
    /\ AtEnd(last) /\ Top.set.to = "setVar"
    /\ vars' = [vars EXCEPT ![Top.set.name] = Assigned]
    /\ StatementDone(Release(heap, vars[Top.set.name]), last, Empty)
    /\ UNCHANGED <<broke, exited, length, lost>>

(* runtimeVariableEdit of an entry, named or given by an index: "set" of a *)
(* dictionary; on any other value it fails, which nobody looks at.         *)
SetEntry(f, k, index) ==
    LET d == f.set.on
        put == KindOf(heap, d) = "dict"
        h == IF put THEN PutEntry(heap, d, k, f.cur) ELSE heap
    IN  /\ put => MayHold(heap, f.cur)
        /\ broke' = (broke /\ put)
        /\ lost' = lost \cup (IF put THEN CountedIn(heap, <<heap[d].entries[k]>>) ELSE {})
        /\ heap' = ReleaseAll(h, <<index, f.cur, d>>)

AssignEntry(last) ==
    /\ AtEnd(last) /\ Top.set.to = "setEntry"
    /\ SetEntry(Top, Top.set.name, Null)
    /\ IF last THEN Return(Empty) ELSE stack' = WithTop(Body(Top.ret)) /\ UNCHANGED val
    /\ UNCHANGED <<vars, exited, length>>

AssignIndex(last) ==
    /\ AtEnd(last) /\ Top.set.to = "setIndex" /\ Len(stack) + 1 < MaxFrames
    /\ stack' = stack \o <<[k |-> "setindex", last |-> last], Expression(Top.set.name)>>
    /\ UNCHANGED <<heap, val>> /\ Same

(* An index that is NULL is read through: such scripts are left out. An    *)
(* array takes any integer for an index, a dictionary any string.          *)
IndexSet ==
    /\ At("setindex") /\ ~Idle /\ val # Null
    /\ LET f == stack[Len(stack) - 1]
           up == SubSeq(stack, 1, Len(stack) - 2)
       IN  /\ \/ \E k \in Keys : KindOf(heap, val) = "plain" /\ KindOf(heap, f.set.on) = "dict" /\ SetEntry(f, k, val)
              \/ /\ heap' = ReleaseAll(heap, <<val, f.cur, f.set.on>>)
                 /\ broke' \in {broke, FALSE}
                 /\ UNCHANGED lost
           /\ IF Top.last THEN stack' = up /\ val' = Empty
              ELSE stack' = Append(up, Body(f.ret)) /\ val' = Running
    /\ UNCHANGED <<vars, exited, length>>

(* exitRuntimeVars, when the script is over.                               *)
ExitRuntimeVars ==
    /\ stack = <<>> /\ ~Idle
    /\ heap' = ReleaseAll(heap, vars)
    /\ vars' = [n \in Vars |-> Null]
    /\ lost' = lost \cup CountedIn(heap, <<val>>)
    /\ val' = Running
    /\ UNCHANGED <<stack, broke, exited, length>>

-----------------------------------------------------------------------------
(* RunScript evaluates a script for its value, RunScriptString does not.   *)
(* scriptLastError is what the script before has left.                     *)
Init == /\ heap = [i \in Ids |-> Free]
        /\ vars = [n \in Vars |-> Null]
        /\ stack \in {<<Body(ret)>> : ret \in BOOLEAN}
        /\ val = Running
        /\ broke \in {b \in BOOLEAN : b => "break" \in Features}
        /\ exited = FALSE /\ lost = {} /\ length = 0

Operand == Literal \/ ScriptFunction \/ StdFunction \/ Lookup \/ Brackets \/ SetVariable \/ SetMember
           \/ Entry \/ Member \/ Index \/ Indexed \/ Call \/ CallMember \/ CallEntry \/ Negate \/ Resume \/ Called
BuiltIn == NextArg \/ ArgGot \/ Compute \/ NewDict \/ (\E k \in Keys : DictSet(k)) \/ Exit
           \/ If \/ Else \/ BlockEnded \/ Loop \/ Condition \/ LoopBody \/ CallEnded
Statement == \/ \E s \in Statements : Begin(s)
             \/ Operator \/ ExpectedOperator \/ FirstOperand \/ Operate \/ IndexSet
             \/ \E last \in BOOLEAN : Drop(last) \/ Assign(last) \/ AssignEntry(last) \/ AssignIndex(last)

Next == Operand \/ BuiltIn \/ Statement \/ ExitRuntimeVars
Spec == Init /\ [][Next]_evars

-----------------------------------------------------------------------------
(***************************************************************************)
(* Properties.                                                             *)
(***************************************************************************)
Frames == DOMAIN stack
Cell == [kind : Kinds \cup {"none"}, tags : 0 .. TagLimit - 1, pinned : BOOLEAN, base : Value, entries : [Keys -> Value]]

(* Every variable holds values of its type, and a frame waits on a value   *)
(* only while there is one to come.                                        *)
TypeOK == /\ heap \in [Ids -> Cell]
          /\ vars \in [Vars -> Value]
          /\ Len(stack) =< MaxFrames
          /\ \A f \in Frames : stack[f].k \in {"eval", "index", "setindex", "call", "args", "block", "loop"}
          /\ val \in Value \cup {Running}
          /\ {broke, exited} \subseteq BOOLEAN
          /\ lost \subseteq Ids
          /\ length \in 0 .. MaxLength

(* The places that refer to cell i: variables, dictionary entries, origins *)
(* of members and slices, what the frames hold, the value being returned.  *)
Refs(i) == Cardinality({n \in Vars : vars[n] = i})
           + Cardinality({c \in Ids : Keeps(heap[c].kind) /\ heap[c].base = i})
           + Cardinality({p \in Ids \X Keys : heap[p[1]].entries[p[2]] = i})
           + Cardinality({p \in UNION {{f} \X DOMAIN Holds(stack[f]) : f \in Frames} : Holds(stack[p[1]])[p[2]] = i})
           + (IF val = i THEN 1 ELSE 0)

Live(v) == v \in Ids => heap[v].kind # "none"

(* No value that a script can still reach has been freed: not through a    *)
(* variable, an entry, the origin of a function or slice, an argument, the *)
(* value a built-in function works on.                                     *)
NoDangling == /\ \A n \in Vars : Live(vars[n])
              /\ \A c \in Ids : Live(heap[c].base) /\ \A k \in Keys : Live(heap[c].entries[k])
              /\ \A f \in Frames : /\ \A j \in DOMAIN Holds(stack[f]) : Live(Holds(stack[f])[j])
                                   /\ stack[f].k = "args" => Live(stack[f].of)
              /\ val # Running => Live(val)

(* tagCount is the number of references to the value; it may be larger     *)
(* only for a value of which the code has dropped a reference.             *)
CountsExact == \A i \in Ids : heap[i].kind # "none" /\ ~heap[i].pinned =>
                 /\ heap[i].tags >= Refs(i)
                 /\ i \notin lost => heap[i].tags = Refs(i)

(* Once exit() was called every frame below returns NULL until the script  *)
(* has ended: no further statement runs.                                   *)
ExitStops == exited /\ stack # <<>> => val = Null
=============================================================================
