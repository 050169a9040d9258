-------------------------------- MODULE Toy ---------------------------------
(***************************************************************************)
(* The Toy dialect, twice: by hand (mlir_dialect/toy.cpp) and in ODS       *)
(* (mlir_tabgen).  A function body grows by one operation at a time, from  *)
(* a builder call, from the custom syntax, or from MLIR's generic syntax,  *)
(* which can express any operation that has the right number of operands   *)
(* and results.  Whether it verifies, how it prints, and what the printed  *)
(* text parses to are functions of the body.                               *)
(*                                                                         *)
(* A value is the index of the operation that defines it.  Element data    *)
(* is left out.  A tensor may be unranked, or have dimensions known only   *)
(* at run time; the traits of MLIR distinguish compatible from equal types.*)
(***************************************************************************)
EXTENDS Integers, Sequences

CONSTANTS
  Type,       \* [kind, shape, elem]: tensors, vectors, scalars
  Extra,      \* names of attributes beyond "value"
  NoType,     \* the operation has no result, or the syntax no type
  NoAttr,     \* no "value" attribute
  MaxOps      \* operations in a body

\* A dimension known only at run time.
Dynamic == -1

ASSUME ToyAssumption ==
  /\ Type \subseteq [kind : {"tensor", "unranked", "vector", "scalar"},
                     shape : Seq(Nat \cup {Dynamic}), elem : {"f64", "f32"}]
  /\ NoType \notin Type /\ NoAttr \notin Type /\ "value" \notin Extra

VARIABLES
  body,       \* the operations of the function, in order
  parsed      \* which of them came from custom syntax

vars == <<body, parsed>>

Static(type) == type.kind # "unranked" /\ \A i \in DOMAIN type.shape : type.shape[i] # Dynamic

\* An attribute stands for its type: element data of a tensor or vector of
\* static shape, which is a DenseElementsAttr, or a plain number.
Attr == {type \in Type : Static(type)}
Dense(attr) == attr.kind # "scalar"

Op == [name : {"constant", "add", "print"}, uses : Seq(Nat), attrs : SUBSET (Extra \cup {"value"}),
       value : Attr \cup {NoAttr}, result : Type \cup {NoType}]

Value == {i \in DOMAIN body : body[i].result # NoType}

Constant(extra, value, type) ==
  [name |-> "constant", uses |-> <<>>, value |-> value, result |-> type,
   attrs |-> extra \cup (IF value = NoAttr THEN {} ELSE {"value"})]
Add(extra, lhs, rhs, type) ==
  [name |-> "add", uses |-> <<lhs, rhs>>, value |-> NoAttr, result |-> type, attrs |-> extra]
PrintOp(extra, input) ==
  [name |-> "print", uses |-> <<input>>, value |-> NoAttr, result |-> NoType, attrs |-> extra]

TypeOf(v) == body[v].result

-----------------------------------------------------------------------------
(* Builders.                                                               *)

BuildConstant(value) == Constant({}, value, value)

\* Mutant: the result type is not added.
BuildAddUntyped(lhs, rhs) == Add({}, lhs, rhs, NoType)

BuildAdd(lhs, rhs)   == Add({}, lhs, rhs, TypeOf(lhs))
BuildPrint(input)    == PrintOp({}, input)

-----------------------------------------------------------------------------
(* Verifiers.                                                              *)

RankedTensor(t) == t.kind = "tensor"
F64Tensor(t)    == t.kind \in {"tensor", "unranked"} /\ t.elem = "f64"

\* The same element type, and shapes that may turn out to be one at run time.
Compatible(s, t) ==
  /\ s.elem = t.elem
  /\ \/ s.kind = "unranked" \/ t.kind = "unranked"
     \/ /\ Len(s.shape) = Len(t.shape)
        /\ \A i \in DOMAIN s.shape : s.shape[i] = t.shape[i] \/ Dynamic \in {s.shape[i], t.shape[i]}

HandConstant(op) ==
  /\ op.value # NoAttr
  /\ Dense(op.value)
  /\ RankedTensor(op.result)
  /\ op.value = op.result

\* Mutant: only the result is compared.
HandAddOneOperand(op) == op.result = TypeOf(op.uses[1])

HandAdd(op) ==
  /\ TypeOf(op.uses[1]) = TypeOf(op.uses[2])
  /\ op.result = TypeOf(op.uses[1])

\* The hand-written PrintOp has no verifier.
HandVerify(op) ==
  /\ op.name = "constant" => HandConstant(op)
  /\ op.name = "add" => HandAdd(op)

\* The target handles matrices at most.
OdsRank(op) == RankedTensor(op.result) /\ Len(op.result.shape) <= 2

\* F64ElementsAttr, F64Tensor, AllTypesMatch, then the custom verifier.
OdsConstant(op) ==
  /\ op.value # NoAttr
  /\ Dense(op.value)
  /\ op.value.elem = "f64"
  /\ F64Tensor(op.result)
  /\ op.value = op.result
  /\ OdsRank(op)

\* Mutant: the trait is left out; every type is checked on its own.
OdsAddNoTrait(op) ==
  /\ \A i \in 1 .. 2 : F64Tensor(TypeOf(op.uses[i]))
  /\ F64Tensor(op.result)

\* SameOperandsAndResultType.
OdsAdd(op) ==
  /\ \A i \in 1 .. 2 : F64Tensor(TypeOf(op.uses[i])) /\ Compatible(TypeOf(op.uses[i]), op.result)
  /\ F64Tensor(op.result)

OdsPrint(op) == F64Tensor(TypeOf(op.uses[1]))

OdsVerify(op) ==
  /\ op.name = "constant" => OdsConstant(op)
  /\ op.name = "add" => OdsAdd(op)
  /\ op.name = "print" => OdsPrint(op)

HandVerified == \A i \in DOMAIN body : HandVerify(body[i])
OdsVerified  == \A i \in DOMAIN body : OdsVerify(body[i])

-----------------------------------------------------------------------------
(* The custom syntax: the attribute carries its type, add and print name   *)
(* one type for all their values.  The generated parser takes no other     *)
(* text than the hand-written one.                                         *)

Text(name, uses, dict, value, type) ==
  [name |-> name, uses |-> uses, dict |-> dict, value |-> value, type |-> type]

\* Mutant: the dictionary is printed whole.
PrintConstantWhole(op) == Text("constant", <<>>, op.attrs, op.value, NoType)

\* "value" is printed after the dictionary, and elided from it.
PrintConstant(op) == Text("constant", <<>>, op.attrs \ {"value"}, op.value, NoType)

PrintAdd(op)      == Text("add", op.uses, op.attrs, NoAttr, op.result)
PrintPrint(op)    == Text("print", op.uses, op.attrs, NoAttr, TypeOf(op.uses[1]))

PrintText(op) ==
  CASE op.name = "constant" -> PrintConstant(op)
    [] op.name = "add"      -> PrintAdd(op)
    [] op.name = "print"    -> PrintPrint(op)

\* An attribute of another kind, or given twice; an operand of another type.
AttributeRejected(text) ==
  text.name = "constant" /\ (~ Dense(text.value) \/ "value" \in text.dict)
OperandRejected(text) == \E i \in DOMAIN text.uses : TypeOf(text.uses[i]) # text.type

ParseRejects(text) == AttributeRejected(text) \/ OperandRejected(text)

ParseConstant(text) == Constant(text.dict, text.value, text.value)
ParseAdd(text)      == Add(text.dict, text.uses[1], text.uses[2], text.type)
ParsePrint(text)    == PrintOp(text.dict, text.uses[1])

Parse(text) ==
  CASE text.name = "constant" -> ParseConstant(text)
    [] text.name = "add"      -> ParseAdd(text)
    [] text.name = "print"    -> ParsePrint(text)

-----------------------------------------------------------------------------

Init == body = <<>> /\ parsed = {}

More(op) == body' = Append(body, op)

\* Builder calls.
Build ==
  /\ \/ \E value \in Attr : Dense(value) /\ More(BuildConstant(value))
     \/ \E v, w \in Value : More(BuildAdd(v, w))
     \/ \E v \in Value : More(BuildPrint(v))
  /\ UNCHANGED parsed

\* A line of custom syntax.
ParseCustom(text) ==
  /\ ~ ParseRejects(text)
  /\ More(Parse(text))
  /\ parsed' = parsed \cup {Len(body) + 1}

\* A line of generic syntax.
ParseGeneric(op) == More(op) /\ UNCHANGED parsed

\* Attribute dictionaries; one that names "value" is text nobody should write.
Dict    == SUBSET Extra
AnyDict == SUBSET (Extra \cup {"value"})

CustomText ==
  {Text("constant", <<>>, d, a, NoType) : d \in AnyDict, a \in Attr}
    \cup {Text("add", <<v, w>>, d, NoAttr, t) : v, w \in Value, d \in Dict, t \in Type}
    \cup {Text("print", <<v>>, d, NoAttr, t) : v \in Value, d \in Dict, t \in Type}

\* What the generic parser of MLIR lets through: operands that are values, the
\* operand and result counts of the traits, "value" as any attribute or none.
GenericOp ==
  {Constant(d, a, t) : d \in Dict, a \in Attr \cup {NoAttr}, t \in Type}
    \cup {Add(d, v, w, t) : v, w \in Value, d \in Dict, t \in Type}
    \cup {PrintOp(d, v) : v \in Value, d \in Dict}

Next ==
  /\ Len(body) < MaxOps
  /\ \/ Build
     \/ \E text \in CustomText : ParseCustom(text)
     \/ \E op \in GenericOp : ParseGeneric(op)

Spec == Init /\ [][Next]_vars

TypeOK ==
  /\ body \in Seq(Op)
  /\ \A i \in DOMAIN body :
       /\ body[i].name = "print" <=> body[i].result = NoType
       /\ \A n \in DOMAIN body[i].uses : body[i].uses[n] \in Value /\ body[i].uses[n] < i
  /\ parsed \subseteq DOMAIN body

-----------------------------------------------------------------------------
(* Properties.                                                             *)

RoundTrip(op) == ~ ParseRejects(PrintText(op)) /\ Parse(PrintText(op)) = op

StaticShapes == \A v \in Value : Static(TypeOf(v))

\* "to prove the custom parser and printer round-trip": what a verifier
\* accepts prints as text that parses, and parses back to the same operations.
\* The syntax names one type where the operation has several, so it is the
\* verifier that makes this so: the hand-written one on every body, the
\* TableGen one where shapes are static, as compatible types need not be equal.
VerifiedRoundTrips ==
  HandVerified \/ (OdsVerified /\ StaticShapes) => \A i \in DOMAIN body : RoundTrip(body[i])

\* A line of custom syntax prints as a line that reads the same, verified or
\* not and whatever syntax its operands came from: "the custom syntax derives
\* the result type from the attribute, so it cannot express this mistake".
ParsedRoundTrips == \A i \in parsed : RoundTrip(body[i])

\* On static shapes the ODS dialect is the narrower one: the hand-written one
\* verifies whatever it verifies.
OdsIsNarrower == OdsVerified /\ StaticShapes => HandVerified
=============================================================================
