----------------------------- MODULE MCVerifOps -----------------------------
(***************************************************************************)
(* Tensors of up to 5 elements, in storage of their own or every second    *)
(* element of a larger one, on up to 3 threads that take 2 elements each.  *)
(***************************************************************************)
EXTENDS VerifOps

MCLowest == -100

Dense(s) == [storage |-> s, stride |-> 1, length |-> Len(s)]
\* A column of a matrix with two: what lies between its elements is large.
Column(s) ==
    [storage |-> [i \in 1..(2 * Len(s)) |-> IF i % 2 = 1 THEN s[(i + 1) \div 2] ELSE 90 + i],
     stride |-> 2, length |-> Len(s)]

Compare(of, a, b, floating) ==
    [of |-> of, a |-> a, b |-> b, floating |-> floating, rtol |-> 1, atol |-> 2]

Data == {<<3, -7, 12, 5, 0>>, <<4, -7, 9, 5, -20>>, <<3, -7, 12, 5, 1>>}
Short == {<<<<>>, <<>>>>, <<<<5>>, <<9>>>>, <<<<1, 2, 3>>, <<5, 5, 5>>>>, <<<<2, 8, 3, 3>>, <<1, 4, 7, 2>>>>}
Inputs == (Data \X Data) \cup Short
WithSpecial == {<<<<1, Special, 3, 4, 5>>, <<1, 2, 3, 4, 5>>>>, <<<<1, 2, 3, 4, 5>>, <<1, 2, 3, 4, Special>>>>}

Alike(V(_)) ==
    {Compare(of, V(p[1]), V(p[2]), TRUE) : of \in Functions, p \in Inputs}
    \cup {Compare("all_close", V(p[1]), V(p[2]), FALSE) : p \in Inputs}
    \cup {Compare(of, V(p[1]), V(p[2]), TRUE) :
              of \in {"has_special_values", "all_close"}, p \in WithSpecial}

MCComparisons == Alike(Dense) \cup Alike(Column)
MCMixed == {Compare("max_abs_diff", Column(p[1]), Dense(p[2]), TRUE) : p \in Inputs}
=============================================================================
