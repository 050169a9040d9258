----------------------------- MODULE ToyProofs ------------------------------
(***************************************************************************)
(* The properties of the Toy dialects for bodies of any length, over any   *)
(* types and attributes.                                                   *)
(***************************************************************************)
EXTENDS Toy, SequenceTheorems, TLAPS

\* An operation as the constructors make it, with operands out of V.
IsOp(op, V) ==
  \/ \E d \in Dict, a \in Attr \cup {NoAttr}, t \in Type : op = Constant(d, a, t)
  \/ \E d \in Dict, v, w \in V, t \in Type : op = Add(d, v, w, t)
  \/ \E d \in Dict, v \in V : op = PrintOp(d, v)

\* Operands come before the operation, and have a type.
Placed == \A i \in 1 .. Len(body) : IsOp(body[i], Value \cap 1 .. (i - 1))

\* The types an operation has agree, as its syntax supposes.
Typed(op) ==
  /\ op.name = "constant" => op.value # NoAttr /\ Dense(op.value) /\ op.value = op.result
  /\ op.name = "add" => \A i \in 1 .. 2 : TypeOf(op.uses[i]) = op.result

IInv ==
  /\ body \in Seq(Op)
  /\ Placed
  /\ parsed \subseteq 1 .. Len(body)
  /\ \A i \in parsed : Typed(body[i])

LEMMA IsOpOp ==
  ASSUME NEW V \in SUBSET Nat, NEW op, IsOp(op, V)
  PROVE  op \in Op
<1>1. CASE \E d \in Dict, a \in Attr \cup {NoAttr}, t \in Type : op = Constant(d, a, t)
  BY <1>1 DEF Constant, Op, Dict
<1>2. CASE \E d \in Dict, v, w \in V, t \in Type : op = Add(d, v, w, t)
  <2>1. PICK d \in Dict, v \in V, w \in V, t \in Type : op = Add(d, v, w, t)
    BY <1>2
  <2>2. <<v, w>> \in Seq(Nat)
    OBVIOUS
  <2> QED
    BY <2>1, <2>2 DEF Add, Op, Dict
<1>3. CASE \E d \in Dict, v \in V : op = PrintOp(d, v)
  <2>1. PICK d \in Dict, v \in V : op = PrintOp(d, v)
    BY <1>3
  <2>2. <<v>> \in Seq(Nat)
    OBVIOUS
  <2> QED
    BY <2>1, <2>2 DEF PrintOp, Op, Dict
<1> QED
  BY <1>1, <1>2, <1>3 DEF IsOp

\* A value has a type.
LEMMA ValueTyped ==
  ASSUME body \in Seq(Op), NEW v \in Value
  PROVE  v \in 1 .. Len(body) /\ TypeOf(v) \in Type
<1>1. v \in DOMAIN body /\ body[v].result # NoType
  BY DEF Value
<1>2. DOMAIN body = 1 .. Len(body)
  BY LenProperties
<1>3. body[v] \in Op
  BY <1>1, <1>2, ElementOfSeq
<1>4. body[v].result \in Type \cup {NoType}
  BY <1>3 DEF Op
<1> QED
  BY <1>1, <1>2, <1>4 DEF TypeOf

LEMMA TextForms ==
  ASSUME NEW text \in CustomText
  PROVE  \/ \E d \in AnyDict, a \in Attr : text = Text("constant", <<>>, d, a, NoType)
         \/ \E v, w \in Value, d \in Dict, t \in Type : text = Text("add", <<v, w>>, d, NoAttr, t)
         \/ \E v \in Value, d \in Dict, t \in Type : text = Text("print", <<v>>, d, NoAttr, t)
  BY DEF CustomText

\* Every step appends one operation, a typed one if it is marked as parsed.
LEMMA StepAppends ==
  ASSUME body \in Seq(Op), Next
  PROVE  \E op : /\ IsOp(op, Value)
                 /\ body' = Append(body, op)
                 /\ \/ parsed' = parsed
                    \/ parsed' = parsed \cup {Len(body) + 1} /\ Typed(op)
<1>1. CASE Build
  <2>1. ASSUME NEW a \in Attr, More(BuildConstant(a)) PROVE IsOp(BuildConstant(a), Value)
    BY DEF IsOp, BuildConstant, Dict, Attr
  <2>2. ASSUME NEW v \in Value, NEW w \in Value, More(BuildAdd(v, w))
        PROVE  IsOp(BuildAdd(v, w), Value)
    BY ValueTyped DEF IsOp, BuildAdd, Dict
  <2>3. ASSUME NEW v \in Value, More(BuildPrint(v)) PROVE IsOp(BuildPrint(v), Value)
    BY DEF IsOp, BuildPrint, Dict
  <2> QED
    BY <1>1, <2>1, <2>2, <2>3 DEF Build, More
<1>2. ASSUME NEW text \in CustomText, ParseCustom(text)
      PROVE  IsOp(Parse(text), Value) /\ Typed(Parse(text))
  <2>1. CASE \E d \in AnyDict, a \in Attr : text = Text("constant", <<>>, d, a, NoType)
    <3>1. PICK d \in AnyDict, a \in Attr : text = Text("constant", <<>>, d, a, NoType)
      BY <2>1
    <3>2. Parse(text) = Constant(d, a, a)
      BY <3>1 DEF Text, Parse, ParseConstant
    <3>0. d \in Dict /\ Dense(a) /\ a # NoAttr /\ a \in Type
      BY ToyAssumption, <1>2, <3>1 DEF ParseCustom, ParseRejects, AttributeRejected, Text, Dict, AnyDict, Attr
    <3>3. IsOp(Parse(text), Value)
      BY <3>2, <3>0 DEF IsOp
    <3>4. Typed(Parse(text))
      BY <3>0, <3>2 DEF Typed, Constant
    <3> QED
      BY <3>3, <3>4
  <2>2. CASE \E v, w \in Value, d \in Dict, t \in Type : text = Text("add", <<v, w>>, d, NoAttr, t)
    <3>1. PICK v \in Value, w \in Value, d \in Dict, t \in Type :
            text = Text("add", <<v, w>>, d, NoAttr, t)
      BY <2>2
    <3>2. Parse(text) = Add(d, v, w, t) /\ text.uses = <<v, w>> /\ text.type = t
      BY <3>1 DEF Text, Parse, ParseAdd
    <3>3. TypeOf(v) = t /\ TypeOf(w) = t
      BY <1>2, <3>2 DEF ParseCustom, ParseRejects, OperandRejected
    <3>4. IsOp(Parse(text), Value)
      BY <3>2 DEF IsOp
    <3>5. /\ Parse(text).name = "add"
          /\ Parse(text).uses[1] = v /\ Parse(text).uses[2] = w
          /\ Parse(text).result = t
      BY <3>2 DEF Add
    <3>6. Typed(Parse(text))
      BY <3>3, <3>5 DEF Typed
    <3> QED
      BY <3>4, <3>6
  <2>3. CASE \E v \in Value, d \in Dict, t \in Type : text = Text("print", <<v>>, d, NoAttr, t)
    BY <2>3 DEF Text, Parse, IsOp, PrintOp, Typed, ParsePrint
  <2>4. \/ \E d \in AnyDict, a \in Attr : text = Text("constant", <<>>, d, a, NoType)
        \/ \E v, w \in Value, d \in Dict, t \in Type : text = Text("add", <<v, w>>, d, NoAttr, t)
        \/ \E v \in Value, d \in Dict, t \in Type : text = Text("print", <<v>>, d, NoAttr, t)
    BY TextForms
  <2> QED
    BY <2>1, <2>2, <2>3, <2>4
<1>3. ASSUME NEW op \in GenericOp PROVE IsOp(op, Value)
  BY DEF GenericOp, IsOp
<1>4. CASE \E text \in CustomText : ParseCustom(text)
  BY <1>2, <1>4 DEF ParseCustom, More
<1>5. CASE \E op \in GenericOp : ParseGeneric(op)
  BY <1>3, <1>5 DEF ParseGeneric, More
<1> QED
  BY <1>1, <1>4, <1>5 DEF Next, Build

-----------------------------------------------------------------------------

LEMMA InitInv == Init => IInv
  BY EmptySeq DEF Init, IInv, Placed

\* What was in the body stays, with its type.
LEMMA AppendKeeps ==
  ASSUME body \in Seq(Op), NEW op \in Op, body' = Append(body, op)
  PROVE  /\ body' \in Seq(Op)
         /\ Len(body') = Len(body) + 1
         /\ \A i \in 1 .. Len(body) : body'[i] = body[i]
         /\ body'[Len(body) + 1] = op
         /\ Value = Value' \cap 1 .. Len(body)
<1>1. /\ body' \in Seq(Op)
      /\ Len(body') = Len(body) + 1
      /\ \A i \in 1 .. Len(body) : body'[i] = body[i]
      /\ body'[Len(body) + 1] = op
  BY AppendProperties
<1>2. DOMAIN body = 1 .. Len(body) /\ DOMAIN body' = 1 .. (Len(body) + 1) /\ Len(body) \in Nat
  BY <1>1, LenProperties
<1>3. Value = Value' \cap 1 .. Len(body)
  BY <1>1, <1>2 DEF Value
<1> QED
  BY <1>1, <1>3

\* Typed, in a body that is given.
TypedIn(b, op) ==
  /\ op.name = "constant" => op.value # NoAttr /\ Dense(op.value) /\ op.value = op.result
  /\ op.name = "add" => \A i \in 1 .. 2 : b[op.uses[i]].result = op.result

\* Whether an operation is typed depends on its operands alone.
LEMMA TypedStays ==
  ASSUME NEW V, NEW op, IsOp(op, V), NEW b, NEW c, \A v \in V : c[v] = b[v], TypedIn(b, op)
  PROVE  TypedIn(c, op)
<1>1. CASE \E d \in Dict, a \in Attr \cup {NoAttr}, t \in Type : op = Constant(d, a, t)
  BY <1>1 DEF TypedIn, Constant
<1>2. CASE \E d \in Dict, v, w \in V, t \in Type : op = Add(d, v, w, t)
  <2>1. PICK d \in Dict, v \in V, w \in V, t \in Type : op = Add(d, v, w, t)
    BY <1>2
  <2>2. op.name = "add" /\ op.uses[1] = v /\ op.uses[2] = w /\ op.result = t
    BY <2>1 DEF Add
  <2>3. b[v].result = t /\ b[w].result = t
    BY <2>2 DEF TypedIn
  <2>4. c[v].result = t /\ c[w].result = t
    BY <2>3
  <2> QED
    BY <2>2, <2>4 DEF TypedIn
<1>3. CASE \E d \in Dict, v \in V : op = PrintOp(d, v)
  BY <1>3 DEF TypedIn, PrintOp
<1> QED
  BY <1>1, <1>2, <1>3 DEF IsOp

LEMMA NextInv == IInv /\ [Next]_vars => IInv'
<1> SUFFICES ASSUME IInv, [Next]_vars PROVE IInv'
  OBVIOUS
<1>1. CASE UNCHANGED vars
  BY <1>1 DEF IInv, vars, Placed, Value, Typed, TypeOf
<1>2. CASE Next
  <2>1. body \in Seq(Op) /\ Placed /\ Len(body) \in Nat /\ DOMAIN body = 1 .. Len(body)
    BY LenProperties DEF IInv
  <2>2. PICK op : /\ IsOp(op, Value)
                  /\ body' = Append(body, op)
                  /\ \/ parsed' = parsed
                     \/ parsed' = parsed \cup {Len(body) + 1} /\ Typed(op)
    BY <1>2, <2>1, StepAppends
  <2>3. Value \in SUBSET Nat
    BY <2>1 DEF Value
  <2>4. op \in Op
    BY <2>2, <2>3, IsOpOp
  <2>5. /\ body' \in Seq(Op)
        /\ Len(body') = Len(body) + 1
        /\ \A i \in 1 .. Len(body) : body'[i] = body[i]
        /\ body'[Len(body) + 1] = op
        /\ Value = Value' \cap 1 .. Len(body)
    BY <2>1, <2>2, <2>4, AppendKeeps
  <2>6. Placed'
    <3> SUFFICES ASSUME NEW i \in 1 .. (Len(body) + 1)
                 PROVE  IsOp(body'[i], Value' \cap 1 .. (i - 1))
      BY <2>5 DEF Placed, IsOp, Constant, Add, PrintOp
    <3>1. CASE i \in 1 .. Len(body)
      <4>1. Value' \cap 1 .. (i - 1) = Value \cap 1 .. (i - 1)
        BY <2>1, <2>5, <3>1
      <4> QED
        BY <2>1, <2>5, <3>1, <4>1 DEF Placed
    <3>2. CASE i = Len(body) + 1
      BY <2>1, <2>2, <2>5, <3>2
    <3> QED
      BY <2>1, <3>1, <3>2
  <2>7. (parsed \subseteq 1 .. Len(body))'
    <3>1. parsed' \subseteq parsed \cup {Len(body) + 1} /\ parsed \subseteq 1 .. Len(body)
      BY <2>2 DEF IInv
    <3>2. parsed' \subseteq 1 .. (Len(body) + 1)
      BY <2>1, <3>1
    <3> QED
      BY <2>5, <3>2
  <2>8. (\A i \in parsed : Typed(body[i]))'
    <3> SUFFICES ASSUME NEW i \in parsed' PROVE TypedIn(body', body'[i])
      BY DEF Typed, TypeOf, TypedIn
    <3>1. i \in 1 .. (Len(body) + 1)
      BY <2>5, <2>7
    <3>2. i \in parsed \/ (i = Len(body) + 1 /\ TypedIn(body, op))
      BY <2>2 DEF Typed, TypeOf, TypedIn
    <3>3. CASE i \in 1 .. Len(body)
      <4>1. IsOp(body[i], Value \cap 1 .. (i - 1))
        BY <2>1, <3>3 DEF Placed
      <4>2. TypedIn(body, body[i])
        BY <2>1, <3>2, <3>3 DEF IInv, Typed, TypeOf, TypedIn
      <4>3. \A v \in Value \cap 1 .. (i - 1) : body'[v] = body[v]
        BY <2>1, <2>5, <3>3
      <4>4. TypedIn(body', body[i])
        BY <4>1, <4>2, <4>3, TypedStays
      <4> QED
        BY <2>5, <3>3, <4>4
    <3>4. CASE i = Len(body) + 1
      <4>1. \A v \in Value : body'[v] = body[v]
        BY <2>1, <2>5 DEF Value
      <4>2. TypedIn(body, op)
        BY <2>1, <3>2, <3>4 DEF IInv
      <4>3. TypedIn(body', op)
        BY <2>2, <4>1, <4>2, TypedStays
      <4> QED
        BY <2>5, <3>4, <4>3
    <3> QED
      BY <2>1, <3>1, <3>3, <3>4
  <2> QED
    BY <2>5, <2>6, <2>7, <2>8 DEF IInv
<1> QED
  BY <1>1, <1>2

LEMMA SpecInv == Spec => []IInv
  BY InitInv, NextInv, PTL DEF Spec

-----------------------------------------------------------------------------

\* What is typed prints as text that parses back to it.
LEMMA TypedRoundTrips ==
  ASSUME NEW V, NEW op, IsOp(op, V), Typed(op)
  PROVE  RoundTrip(op)
<1>1. CASE \E d \in Dict, a \in Attr \cup {NoAttr}, t \in Type : op = Constant(d, a, t)
  <2>1. PICK d \in Dict, a \in Attr \cup {NoAttr}, t \in Type : op = Constant(d, a, t)
    BY <1>1
  <2>2. op.name = "constant" /\ op.value = a /\ op.result = t
    BY <2>1 DEF Constant
  <2>3. a # NoAttr /\ Dense(a) /\ t = a
    BY <2>2 DEF Typed
  <2>4. op.attrs \ {"value"} = d
    BY <2>1, ToyAssumption DEF Constant, Dict
  <2>5. PrintText(op) = Text("constant", <<>>, d, a, NoType)
    BY <2>2, <2>4 DEF PrintText, PrintConstant
  <2>6. ~ ParseRejects(PrintText(op))
    BY <2>3, <2>5, ToyAssumption DEF ParseRejects, AttributeRejected, OperandRejected, Text, Dict
  <2>7. Parse(PrintText(op)) = Constant(d, a, a)
    BY <2>5 DEF Parse, Text, ParseConstant
  <2> QED
    BY <2>1, <2>3, <2>6, <2>7 DEF RoundTrip
<1>2. CASE \E d \in Dict, v, w \in V, t \in Type : op = Add(d, v, w, t)
  <2>1. PICK d \in Dict, v \in V, w \in V, t \in Type : op = Add(d, v, w, t)
    BY <1>2
  <2>2. op.name = "add" /\ op.uses = <<v, w>> /\ op.result = t /\ op.attrs = d
    BY <2>1 DEF Add
  <2>3. TypeOf(v) = t /\ TypeOf(w) = t
    BY <2>2 DEF Typed
  <2>4. PrintText(op) = Text("add", <<v, w>>, d, NoAttr, t)
    BY <2>2 DEF PrintText, PrintAdd
  <2>5. ~ ParseRejects(PrintText(op))
    BY <2>3, <2>4 DEF ParseRejects, AttributeRejected, OperandRejected, Text
  <2>6. Parse(PrintText(op)) = Add(d, v, w, t)
    BY <2>4 DEF Parse, Text, ParseAdd
  <2> QED
    BY <2>1, <2>5, <2>6 DEF RoundTrip
<1>3. CASE \E d \in Dict, v \in V : op = PrintOp(d, v)
  <2>1. PICK d \in Dict, v \in V : op = PrintOp(d, v)
    BY <1>3
  <2>2. op.name = "print" /\ op.uses = <<v>> /\ op.attrs = d
    BY <2>1 DEF PrintOp
  <2>3. PrintText(op) = Text("print", <<v>>, d, NoAttr, TypeOf(v))
    BY <2>2 DEF PrintText, PrintPrint
  <2>4. ~ ParseRejects(PrintText(op))
    BY <2>3 DEF ParseRejects, AttributeRejected, OperandRejected, Text
  <2>5. Parse(PrintText(op)) = PrintOp(d, v)
    BY <2>3 DEF Parse, Text, ParsePrint
  <2> QED
    BY <2>1, <2>4, <2>5 DEF RoundTrip
<1> QED
  BY <1>1, <1>2, <1>3 DEF IsOp

LEMMA HandTyped ==
  ASSUME NEW op, HandVerify(op)
  PROVE  Typed(op)
<1>1. op.name = "constant" => op.value # NoAttr /\ Dense(op.value) /\ op.value = op.result
  BY DEF HandVerify, HandConstant
<1>2. op.name = "add" => \A i \in 1 .. 2 : TypeOf(op.uses[i]) = op.result
  BY DEF HandVerify, HandAdd
<1> QED
  BY <1>1, <1>2 DEF Typed

\* Where nothing is left to the run, compatible tensors of doubles are of one
\* type.
LEMMA StaticCompatible ==
  ASSUME NEW s \in Type, NEW t \in Type, Static(s), Static(t), F64Tensor(s), F64Tensor(t),
         Compatible(s, t)
  PROVE  s = t
<1>1. /\ s \in [kind : {"tensor", "unranked", "vector", "scalar"},
               shape : Seq(Nat \cup {Dynamic}), elem : {"f64", "f32"}]
      /\ t \in [kind : {"tensor", "unranked", "vector", "scalar"},
               shape : Seq(Nat \cup {Dynamic}), elem : {"f64", "f32"}]
  BY ToyAssumption
<1>2. s.kind = t.kind /\ s.elem = t.elem
  BY DEF Static, F64Tensor
<1>3. /\ Len(s.shape) = Len(t.shape)
      /\ \A i \in DOMAIN s.shape : s.shape[i] = t.shape[i] \/ Dynamic \in {s.shape[i], t.shape[i]}
  BY DEF Static, Compatible
<1>4. DOMAIN s.shape = 1 .. Len(s.shape) /\ DOMAIN t.shape = 1 .. Len(t.shape)
  BY <1>1, LenProperties
<1>5. \A i \in 1 .. Len(s.shape) : s.shape[i] = t.shape[i]
  BY <1>3, <1>4 DEF Static
<1>6. s.shape = t.shape
  BY <1>1, <1>3, <1>5, SeqEqual
<1> QED
  BY <1>1, <1>2, <1>6

LEMMA OdsTyped ==
  ASSUME IInv, StaticShapes, NEW i \in 1 .. Len(body), OdsVerify(body[i])
  PROVE  Typed(body[i])
<1>1. IsOp(body[i], Value \cap 1 .. (i - 1))
  BY DEF IInv, Placed
<1>2. body[i].name = "constant" =>
        body[i].value # NoAttr /\ Dense(body[i].value) /\ body[i].value = body[i].result
  BY DEF OdsVerify, OdsConstant
<1>3. CASE \E d \in Dict, v, w \in Value \cap 1 .. (i - 1), t \in Type : body[i] = Add(d, v, w, t)
  <2>1. PICK d \in Dict, v \in Value \cap 1 .. (i - 1), w \in Value \cap 1 .. (i - 1), t \in Type :
          body[i] = Add(d, v, w, t)
    BY <1>3
  <2>2. /\ body[i].name = "add" /\ body[i].uses[1] = v /\ body[i].uses[2] = w
        /\ body[i].result = t
    BY <2>1 DEF Add
  <2>3. i \in Value /\ TypeOf(i) = t
    BY <2>2, ToyAssumption, LenProperties DEF IInv, Value, TypeOf
  <2>4. Static(t) /\ Static(TypeOf(v)) /\ Static(TypeOf(w))
    BY <2>3 DEF StaticShapes
  <2>5. OdsAdd(body[i])
    BY <2>2 DEF OdsVerify
  <2>6. /\ F64Tensor(TypeOf(v)) /\ F64Tensor(TypeOf(w)) /\ F64Tensor(t)
        /\ Compatible(TypeOf(v), t) /\ Compatible(TypeOf(w), t)
    BY <2>2, <2>5 DEF OdsAdd
  <2>7. TypeOf(v) \in Type /\ TypeOf(w) \in Type
    BY ValueTyped DEF IInv
  <2>8. TypeOf(v) = t /\ TypeOf(w) = t
    BY <2>4, <2>6, <2>7, StaticCompatible
  <2> QED
    BY <2>2, <2>8 DEF Typed
<1>4. CASE \E d \in Dict, a \in Attr \cup {NoAttr}, t \in Type : body[i] = Constant(d, a, t)
  BY <1>2, <1>4 DEF Typed, Constant
<1>5. CASE \E d \in Dict, v \in Value \cap 1 .. (i - 1) : body[i] = PrintOp(d, v)
  BY <1>5 DEF Typed, PrintOp
<1> QED
  BY <1>1, <1>3, <1>4, <1>5 DEF IsOp

\* The printer and the parser agree on every body that the hand-written
\* verifiers accept, whatever made it and whatever its types, and on every one
\* of static shapes that the TableGen ones accept (ConstantOp, AddOp and
\* PrintOp of toy.cpp, ToyOps.td).
THEOREM RoundTrips == Spec => []VerifiedRoundTrips
<1>1. IInv => VerifiedRoundTrips
  <2> SUFFICES ASSUME IInv, HandVerified \/ (OdsVerified /\ StaticShapes), NEW i \in DOMAIN body
               PROVE  RoundTrip(body[i])
    BY DEF VerifiedRoundTrips
  <2>1. i \in 1 .. Len(body)
    BY LenProperties DEF IInv
  <2>2. IsOp(body[i], Value \cap 1 .. (i - 1))
    BY <2>1 DEF IInv, Placed
  <2>3. HandVerify(body[i]) \/ (OdsVerify(body[i]) /\ StaticShapes)
    BY DEF HandVerified, OdsVerified
  <2>4. Typed(body[i])
    BY <2>1, <2>3, HandTyped, OdsTyped
  <2> QED
    BY <2>2, <2>4, TypedRoundTrips
<1> QED
  BY <1>1, SpecInv, PTL

\* Reprinting loses nothing that was written in custom syntax, verified or not,
\* after whatever other operations (parse and print of toy.cpp).
THEOREM ReparsesAlike == Spec => []ParsedRoundTrips
<1>1. IInv => ParsedRoundTrips
  <2> SUFFICES ASSUME IInv, NEW i \in parsed PROVE RoundTrip(body[i])
    BY DEF ParsedRoundTrips
  <2>1. i \in 1 .. Len(body) /\ Typed(body[i])
    BY DEF IInv
  <2>2. IsOp(body[i], Value \cap 1 .. (i - 1))
    BY <2>1 DEF IInv, Placed
  <2> QED
    BY <2>1, <2>2, TypedRoundTrips
<1> QED
  BY <1>1, SpecInv, PTL

\* On static shapes, whatever the TableGen constraints, traits and verifier
\* accept, the hand-written verifiers accept (ToyOps.td and toy.cpp).
THEOREM HandAcceptsOds == Spec => []OdsIsNarrower
<1>1. IInv => OdsIsNarrower
  <2> SUFFICES ASSUME IInv, OdsVerified, StaticShapes, NEW i \in DOMAIN body
               PROVE  HandVerify(body[i])
    BY DEF OdsIsNarrower, HandVerified
  <2>1. i \in 1 .. Len(body)
    BY LenProperties DEF IInv
  <2>2. OdsVerify(body[i]) /\ Typed(body[i])
    BY <2>1, OdsTyped DEF OdsVerified
  <2>3. body[i].name = "constant" => HandConstant(body[i])
    BY <2>2 DEF OdsVerify, OdsConstant, HandConstant, OdsRank
  <2>4. body[i].name = "add" => HandAdd(body[i])
    BY <2>2 DEF Typed, HandAdd
  <2> QED
    BY <2>3, <2>4 DEF HandVerify
<1> QED
  BY <1>1, SpecInv, PTL

\* Bodies are in static single assignment form: operands are values of
\* operations before, and exactly the operations other than print have one
\* (the builders and parsers of toy.cpp).
THEOREM TypesHold == Spec => []TypeOK
<1>1. IInv => TypeOK
  <2> SUFFICES ASSUME IInv, NEW i \in DOMAIN body
               PROVE  /\ body[i].name = "print" <=> body[i].result = NoType
                      /\ \A n \in DOMAIN body[i].uses :
                           body[i].uses[n] \in Value /\ body[i].uses[n] < i
    BY LenProperties DEF TypeOK, IInv
  <2>1. i \in 1 .. Len(body)
    BY LenProperties DEF IInv
  <2>2. IsOp(body[i], Value \cap 1 .. (i - 1))
    BY <2>1 DEF IInv, Placed
  <2>3. CASE \E d \in Dict, a \in Attr \cup {NoAttr}, t \in Type : body[i] = Constant(d, a, t)
    BY <2>3, ToyAssumption DEF Constant
  <2>4. CASE \E d \in Dict, v, w \in Value \cap 1 .. (i - 1), t \in Type :
               body[i] = Add(d, v, w, t)
    BY <2>1, <2>4, ToyAssumption DEF Add
  <2>5. CASE \E d \in Dict, v \in Value \cap 1 .. (i - 1) : body[i] = PrintOp(d, v)
    BY <2>1, <2>5 DEF PrintOp
  <2> QED
    BY <2>2, <2>3, <2>4, <2>5 DEF IsOp
<1> QED
  BY <1>1, SpecInv, PTL
=============================================================================
