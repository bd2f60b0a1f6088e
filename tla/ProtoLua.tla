------------------------------ MODULE ProtoLua ------------------------------
(***************************************************************************)
(* What the two conversions of the Lua plugin (src/src/app/lua_plugin.cpp)  *)
(* share: the types of the messages, the messages and the Lua tables as two *)
(* heaps, the stack of the Lua machine, and how a value of each kind of     *)
(* field crosses from one side to the other.                                *)
(*                                                                         *)
(* A Lua value is a record of a tag and an integer: a whole number, the     *)
(* decimal text of one ("digits"), any other text, a field's name, a        *)
(* boolean, a reference to a table, or nil.  Integer fields keep their      *)
(* range, whose half is a constant.                                         *)
(***************************************************************************)
EXTENDS Integers, Sequences

CONSTANTS Types,      \* the message types
          Fields,     \* Fields[T]: sequence of [name, kind, rep, sub]
          Half32,     \* 2^31: the 32-bit kinds range over 2 * Half32 values
          Half64,     \* 2^63
          Exact,      \* from here on a number prints with an exponent
          NulTexts,   \* the texts with a NUL inside
          Cut         \* Cut[s]: the text in front of the first NUL of s

Scalars == {"int32", "int64", "uint32", "uint64", "double", "float", "bool", "string", "enum"}
FieldSet == [name : Nat, kind : Scalars \cup {"message"}, rep : BOOLEAN, sub : Types]

ASSUME FieldsAssumption == Fields \in [Types -> Seq(FieldSet)]
\* The fields of a message have names of their own.
ASSUME NamesAssumption == \A T \in Types : \A i, j \in 1 .. Len(Fields[T]) :
                             Fields[T][i].name = Fields[T][j].name => i = j
ASSUME RangesAssumption == /\ Half32 \in Nat \ {0} /\ Half64 \in Nat \ {0} /\ Exact \in Nat \ {0}
                           /\ NulTexts \subseteq Int /\ Cut \in [NulTexts -> Int]

VARIABLES stack,  \* the Lua stack, bottom first
          tabs,   \* the Lua tables: each a sequence of <<key, value>> in the order of lua_next
          pb      \* the messages: each [type, val], val[i] the value of field i

Val(t, v) == [t |-> t, v |-> v]
LuaNil == Val("nil", 0)
Name(f) == Val("name", f.name)
LuaSet == [t : {"number", "digits", "text", "name", "boolean", "table", "nil"}, v : Int]

Top == stack[Len(stack)]
Pop(s, n) == SubSeq(s, 1, Len(s) - n)

\* lua_rawgeti: nil when the table has no such key.
Get(pairs, key) == IF \E i \in 1 .. Len(pairs) : pairs[i][1] = key
                   THEN pairs[CHOOSE i \in 1 .. Len(pairs) : pairs[i][1] = key][2]
                   ELSE LuaNil

----------------------------------------------------------------------------
\* From Lua: the values a field may get, none when the value is ignored.

IsNumber(x) == x.t \in {"number", "digits"}
IsString(x) == x.t \in {"number", "digits", "text", "name"}

Int32s == (-Half32) .. (Half32 - 1)
UInt32s == 0 .. (2 * Half32 - 1)
Int64s == (-Half64) .. (Half64 - 1)
UInt64s == 0 .. (2 * Half64 - 1)

\* A double out of the range of the integer is undefined behaviour.
Narrowed(v, range) == IF v \in range THEN {v} ELSE range

\* What std::stoll finds in the text of x: of "1e+15" only the 1.
Parsed(x) == IF x.t = "number" /\ (x.v >= Exact \/ x.v <= -Exact)
             THEN {d \in (-9) .. 9 : d # 0 /\ (d > 0) = (x.v > 0)}
             ELSE {v \in {x.v} : x.t \in {"number", "digits"}}

Int32Of(x) == IF IsNumber(x) THEN Narrowed(x.v, Int32s) ELSE {}
Int64Of(x) == IF IsString(x) THEN Parsed(x) \cap Int64s ELSE {}
UInt32Of(x) == IF IsNumber(x) THEN Narrowed(x.v, UInt32s) ELSE {}
\* std::stoull negates what it has read in front of a minus sign, and wraps.
UInt64Of(x) == IF IsString(x)
               THEN {v % (2 * Half64) : v \in {p \in Parsed(x) : p \in UInt64s \/ -p \in UInt64s}}
               ELSE {}
DoubleOf(x) == IF IsNumber(x) THEN {x.v} ELSE {}
\* A float keeps only even numbers beyond its mantissa, here Half32.
FloatOf(x) == IF ~IsNumber(x) THEN {}
              ELSE IF x.v \in Int32s THEN {x.v} ELSE {v \in {x.v - 1, x.v, x.v + 1} : v % 2 = 0}
BoolOf(x) == IF x.t = "boolean" THEN {x.v} ELSE {}
\* lua_tostring gives a C string, which ends at the first NUL.
StringOf(x) == IF ~IsString(x) THEN {}
               ELSE IF x.t = "number" THEN {Val("digits", x.v)}
               ELSE IF x.t = "text" /\ x.v \in NulTexts THEN {Val("text", Cut[x.v])}
               ELSE {x}
EnumOf(x) == IF IsNumber(x) THEN Narrowed(x.v, Int32s) ELSE {}

ScalarOf(kind, x) == CASE kind = "int32" -> Int32Of(x)
                       [] kind = "int64" -> Int64Of(x)
                       [] kind = "uint32" -> UInt32Of(x)
                       [] kind = "uint64" -> UInt64Of(x)
                       [] kind = "double" -> DoubleOf(x)
                       [] kind = "float" -> FloatOf(x)
                       [] kind = "bool" -> BoolOf(x)
                       [] kind = "string" -> StringOf(x)
                       [] kind = "enum" -> EnumOf(x)

\* std::stoll and std::stoull throw on a text without a number and out of range.
Throws(kind, x) == kind \in {"int64", "uint64"} /\ IsString(x) /\ ScalarOf(kind, x) = {}

----------------------------------------------------------------------------
\* To Lua.

Unset(field) == IF field.rep THEN <<>> ELSE IF field.kind = "string" THEN Val("text", 0) ELSE 0

\* The default instance of a type; an unset message field is message 0.
Default(T) == [type |-> T, val |-> [i \in 1 .. Len(Fields[T]) |-> Unset(Fields[T][i])]]

\* Mutant: a 64-bit integer crosses as a number.
Int64AsNumber(v) == Val("number", v)

\* A 64-bit integer crosses as a text, for a double would round it.
Int64To(v) == Val("digits", v)

ScalarTo(kind, v) == CASE kind \in {"int32", "uint32", "double", "float"} -> Val("number", v)
                       [] kind \in {"int64", "uint64"} -> Int64To(v)
                       [] kind = "bool" -> Val("boolean", v)
                       [] kind = "string" -> v
                       \* GetEnumValue is kept in a uint32
                       [] kind = "enum" -> Val("number", v % (2 * Half32))
============================================================================
