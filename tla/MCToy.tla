------------------------------- MODULE MCToy --------------------------------
(***************************************************************************)
(* Instances of Toy: a matrix, one whose rows are counted at run time, an  *)
(* unranked tensor, a tensor of rank three, a matrix of another element    *)
(* type, a vector and a scalar.                                            *)
(***************************************************************************)
EXTENDS Toy

T(kind, shape, elem) == [kind |-> kind, shape |-> shape, elem |-> elem]

MCType == {T("tensor", <<2, 2>>, "f64"), T("tensor", <<Dynamic, 2>>, "f64"),
           T("unranked", <<>>, "f64"), T("tensor", <<2, 2, 2>>, "f64"),
           T("tensor", <<2, 2>>, "f32"), T("vector", <<2>>, "f64"), T("scalar", <<>>, "f64")}
=============================================================================
