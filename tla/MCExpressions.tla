---------------------------- MODULE MCExpressions ---------------------------
(***************************************************************************)
(* Widths of 2, 4, 8 and 16 bits, so that a few samples reach every        *)
(* boundary.                                                               *)
(***************************************************************************)
EXTENDS Expressions

MCBits == (1 :> 2) @@ (2 :> 4) @@ (4 :> 8) @@ (8 :> 16)
MCSamples == [w \in Widths |-> {3, Modulus(w) \div 2, Modulus(w) - 1}]
AllOnes == {65535}
Var(name, type) == Identifier(name \o type, Basic(type))
To(name, type) == Variable(name \o type, Basic(type))
Pointer == PointerTo(Basic("u16"), TRUE)

(* One operation, many types.                                              *)
WideLeaves == {Var("x", t) : t \in {"u8", "i32", "u32", "i64"}} \cup {Var("y", "i32")}
              \cup {Identifier("p", Pointer)}
              \cup {constant("i32", v) : v \in {0, 1, 2, 3}} \cup {constant("u64", 3), constant("u8", 3)}
WideCasts == {Basic(t) : t \in {"u8", "u32", "i64"}}
WideDestinations == {To("r", "i64"), To("x", "i32"), To("r", "u8"), Variable("p", Pointer)}

(* Two operations and choices, of four bytes.                              *)
DeepLeaves == {Var("x", "i32"), Var("y", "u32"), constant("i32", 2)}
DeepOperators == {"+", "-", "*", "/", ">>", "<", "&&", "||"}
DeepDestinations == {To("r", "i32"), To("x", "i32")}
=============================================================================
