----------------------------- MODULE MCDispatcher -----------------------------
(* Tables of four decoders of the first pass and one of the second, each drawn *)
(* from its RulesOf: what layer it accepts, whether it waits for another      *)
(* decoder's mark on it, which layers it adds, whether it fails after it      *)
(* added them.                                                                *)
EXTENDS FrameTree

MCDecoders == <<"a", "b", "c", "d", "s">>
MCExecType(d) == IF d = "s" THEN "serial" ELSE "parallel"

Kinds == {"root", "x", "y", "z"}

Rules(accepts, after, adds, status) ==
    [accepts : accepts, after : after, adds : adds, status : status]

RulesOf(decoder) ==
    CASE decoder = "a" -> Rules({"root"}, {"none", "b"},
                                {<<>>, <<"x">>, <<"x", "y">>}, {"done"})
      [] decoder = "b" -> Rules(Kinds, {"none"}, {<<>>, <<"z">>, <<"x", "y">>},
                                {"done", "error"})
      [] decoder = "c" -> Rules(Kinds \ {"y"}, {"none"}, {<<>>, <<"z">>}, {"done"})
      [] decoder = "d" -> Rules({"root", "z"}, {"none"}, {<<>>, <<"x">>}, {"done"})
      [] decoder = "s" -> Rules({"root", "x"}, {"none", "c"},
                                {<<>>, <<"x", "y">>}, {"done"})

Layer(kind, table) == [kind |-> kind, table |-> table, marks |-> {}]

MCDecode(decoder, stack, parent) ==
    LET rule == parent.table[decoder]
        accepted == /\ rule.accepts = parent.kind
                    /\ rule.after \in parent.marks \union {"none"}
    IN  IF accepted
        THEN [status |-> rule.status,
              parent |-> [parent EXCEPT !.marks = @ \union {decoder}],
              children |-> [i \in DOMAIN rule.adds |->
                               Layer(rule.adds[i], parent.table)]]
        ELSE [status |-> "skip", parent |-> parent, children |-> <<>>]

Init ==
    \E a \in RulesOf("a"), b \in RulesOf("b"), c \in RulesOf("c"),
       d \in RulesOf("d"), s \in RulesOf("s") :
        InitWith(Layer("root",
                 [a |-> a, b |-> b, c |-> c, d |-> d, s |-> s]))

\* The thread that has the frame goes on: nothing in the loops blocks.
Spec == Init /\ [][Next]_vars /\ WF_vars(Next)
=============================================================================
