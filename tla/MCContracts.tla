---------------------------- MODULE MCContracts ----------------------------
(* Contracts over three components, two words and two tokens.              *)
EXTENDS Contracts

C(n, p, v, A, U) == [name |-> n, path |-> p, variant |-> v, axes |-> A, uses |-> U]
Lib(f) == [comps |-> f, colours |-> {}, tokens |-> [t \in Tokens |-> 0]]

\* A legacy set; a first-class set and a lone component; a set of each kind
\* at one path, with exports; two containers at one path.
MCLibraries ==
    {Lib(<<C(1, 1, 0, {}, {}), C(2, 1, 0, {}, {}), Absent>>),
     Lib(<<C(1, 1, 1, {"size"}, {}), C(2, 1, 1, {}, {"t"}), C(1, 2, 0, {}, {})>>),
     Lib(<<C(1, 1, 1, {"size"}, {}), C(2, 1, 2, {"size"}, {}), Absent>>),
     [Lib(<<C(1, 1, 1, {"size"}, {}), C(2, 1, 0, {}, {}), Absent>>) EXCEPT
        !.colours = {"c"}, !.tokens = [t \in Tokens |-> 1]]}
=============================================================================
