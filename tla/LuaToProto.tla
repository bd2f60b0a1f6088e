----------------------------- MODULE LuaToProto -----------------------------
(***************************************************************************)
(* lua2protobuf_nostack: a Lua table becomes a message.  Each frame of the  *)
(* loop iterates over one table with lua_next, whose key has to be on top   *)
(* of the Lua stack in each round of that frame; the frames of the elements *)
(* of an array lie side by side on the Lua stack, above their array.        *)
(***************************************************************************)
EXTENDS ProtoLua

CONSTANT Jit  \* the length of an array is the number of its pairs (LuaJIT build)

VARIABLES rframes,  \* cpp_stack: [obj, at, fresh, pops] of each message to fill
          scan,     \* the loop over an array: the next index and the last one, the
                    \* frame it belongs to, the array's place, and the field
          dead      \* an error or an exception has ended the process

NoScan == [idx |-> 0, n |-> 0, own |-> 0, at |-> 0, field |-> 0]

RFrame(obj, place, pops) == [obj |-> obj, at |-> place, fresh |-> TRUE, pops |-> pops]

\* Mutant: the outermost frame takes its table with it as the others do.
StartTaking(T, luaTable) ==
    /\ stack' = <<luaTable>>
    /\ pb' = Append(pb, Default(T))
    /\ rframes' = <<RFrame(Len(pb'), 1, 1)>>
    /\ UNCHANGED <<scan, dead>>

\* The table is the only value on the stack of Lua2Protobuf, and stays there.
StartToProto(T, luaTable) ==
    /\ stack' = <<luaTable>>
    /\ pb' = Append(pb, Default(T))
    /\ rframes' = <<RFrame(Len(pb'), 1, 0)>>
    /\ UNCHANGED <<scan, dead>>

R == rframes[Len(rframes)]
RTable == tabs[stack[R.at].v]
RFields == Fields[pb[R.obj].type]

\* lua_next takes the key from the stack, and fails when the table has no such key.
Rest == IF R.fresh THEN stack ELSE Pop(stack, 1)
BadKey == ~R.fresh /\ \A i \in 1 .. Len(RTable) : RTable[i][1] # Top
NextPair == IF R.fresh THEN 1
            ELSE 1 + CHOOSE i \in 1 .. Len(RTable) : RTable[i][1] = Top

InLoop == scan = NoScan /\ rframes # <<>>
HasPair == InLoop /\ ~BadKey /\ NextPair <= Len(RTable)

Key == RTable[NextPair][1]
Value == RTable[NextPair][2]

\* The field that a key names, 0 if there is none.
FieldOf(key) == IF \E i \in 1 .. Len(RFields) : Name(RFields[i]) = key
                THEN CHOOSE i \in 1 .. Len(RFields) : Name(RFields[i]) = key
                ELSE 0

\* lua_rawlen may give any border of the table.
Borders(pairs) == {n \in 0 .. Len(pairs) + 1 :
                      /\ n = 0 \/ Get(pairs, Val("number", n)) # LuaNil
                      /\ Get(pairs, Val("number", n + 1)) = LuaNil}
Lengths(pairs) == IF Jit THEN {Len(pairs)} ELSE Borders(pairs)

RSetTop(f) == [rframes EXCEPT ![Len(rframes)] = f]
Iterated == RSetTop([R EXCEPT !.fresh = FALSE])

\* Only the key stays on the stack, for the next round.
PairDone == stack' = Append(Rest, Key) /\ rframes' = Iterated

\* Mutant: a pair that is skipped takes its key along.
SkipRestarts == stack' = Rest /\ rframes' = RSetTop([R EXCEPT !.fresh = TRUE])

\* Mutant: the value of a pair that is skipped stays on the stack.
SkipLeaves == stack' = Rest \o <<Key, Value>> /\ rframes' = Iterated

SkipDone == PairDone

\* "invalid key to 'next'": the error reaches the pcall of the C++ caller, which
\* ends the process.
LoseKey == /\ InLoop /\ BadKey
           /\ dead' = TRUE
           /\ UNCHANGED <<stack, tabs, pb, rframes, scan>>

\* A key that names no field, or a value of the wrong type.
SkipPair ==
    /\ HasPair
    /\ \/ FieldOf(Key) = 0
       \/ /\ FieldOf(Key) # 0
          /\ LET field == RFields[FieldOf(Key)] IN
             \/ (field.rep \/ field.kind = "message") /\ Value.t # "table"
             \/ /\ ~field.rep /\ field.kind # "message"
                /\ ScalarOf(field.kind, Value) = {} /\ ~Throws(field.kind, Value)
    /\ SkipDone
    /\ UNCHANGED <<tabs, pb, scan, dead>>

\* The message of the frame with the value x for its field f.
Assign(f, x) == [pb EXCEPT ![R.obj].val[f] = x]

SetScalar ==
    /\ HasPair /\ FieldOf(Key) # 0
    /\ LET f == FieldOf(Key)
           field == RFields[f]
       IN /\ ~field.rep /\ field.kind # "message"
          /\ \/ /\ Throws(field.kind, Value) /\ dead' = TRUE
                /\ UNCHANGED <<stack, pb, rframes>>
             \/ /\ \E x \in ScalarOf(field.kind, Value) : pb' = Assign(f, x)
                /\ PairDone
                /\ UNCHANGED dead
    /\ UNCHANGED <<tabs, scan>>

\* The frame of the message field is the next to run: key and value stay below it.
FillMessage ==
    /\ HasPair /\ FieldOf(Key) # 0
    /\ LET f == FieldOf(Key)
           field == RFields[f]
       IN /\ ~field.rep /\ field.kind = "message" /\ Value.t = "table"
          /\ pb' = Append(Assign(f, Len(pb) + 1), Default(field.sub))
    /\ stack' = Rest \o <<Key, Value>>
    /\ rframes' = Append(Iterated, RFrame(Len(pb'), Len(stack'), 1))
    /\ UNCHANGED <<tabs, scan, dead>>

\* An empty array is done at once.
BeginArray ==
    /\ HasPair /\ FieldOf(Key) # 0
    /\ RFields[FieldOf(Key)].rep /\ Value.t = "table"
    /\ rframes' = Iterated
    /\ \E n \in Lengths(tabs[Value.v]) :
          IF n = 0 THEN stack' = Append(Rest, Key) /\ UNCHANGED scan
          ELSE /\ stack' = Rest \o <<Key, Value>>
               /\ scan' = [idx |-> 1, n |-> n, own |-> Len(rframes), at |-> Len(stack'),
                           field |-> FieldOf(Key)]
    /\ UNCHANGED <<tabs, pb, dead>>

----------------------------------------------------------------------------
\* The loop over an array, one element a step.

Owner == pb[rframes[scan.own].obj]
Field == Fields[Owner.type][scan.field]
Element == Get(tabs[stack[scan.at].v], Val("number", scan.idx))

\* Mutant: the last element is left out.
LastTooSoon == scan.idx + 1 >= scan.n

Last == scan.idx = scan.n

NextElement == scan' = IF Last THEN NoScan ELSE [scan EXCEPT !.idx = @ + 1]

AddTo(heap, x) == [heap EXCEPT ![rframes[scan.own].obj].val[scan.field] = Append(@, x)]

\* An element of the wrong type is left out; the array goes with its last element.
AddScalar ==
    /\ scan # NoScan /\ Field.kind # "message"
    /\ \/ /\ Throws(Field.kind, Element) /\ dead' = TRUE
          /\ UNCHANGED <<stack, pb, scan>>
       \/ /\ ~Throws(Field.kind, Element)
          /\ \/ ScalarOf(Field.kind, Element) = {} /\ UNCHANGED pb
             \/ \E x \in ScalarOf(Field.kind, Element) : pb' = AddTo(pb, x)
          /\ stack' = IF Last THEN Pop(stack, 1) ELSE stack
          /\ NextElement
          /\ UNCHANGED dead
    /\ UNCHANGED <<tabs, rframes>>

\* The frame of the first element takes the array with it when it ends.
PopsOf(idx) == IF idx = 1 THEN 2 ELSE 1

AddMessage ==
    /\ scan # NoScan /\ Field.kind = "message"
    /\ IF Element.t = "table"
       THEN /\ pb' = Append(AddTo(pb, Len(pb) + 1), Default(Field.sub))
            /\ stack' = Append(stack, Element)
            /\ rframes' = Append(rframes, RFrame(Len(pb'), Len(stack'), PopsOf(scan.idx)))
       ELSE UNCHANGED <<pb, stack, rframes>>
    /\ NextElement
    /\ UNCHANGED <<tabs, dead>>

\* No pair is left: lua_next has taken the key, and the frame takes its table.
EndFrame ==
    /\ InLoop /\ ~BadKey /\ NextPair > Len(RTable)
    /\ stack' = Pop(Rest, R.pops)
    /\ rframes' = Pop(rframes, 1)
    /\ UNCHANGED <<tabs, pb, scan, dead>>

ToProtoStep == /\ ~dead
               /\ \/ LoseKey \/ SkipPair \/ SetScalar \/ FillMessage \/ BeginArray
                  \/ AddScalar \/ AddMessage \/ EndFrame

----------------------------------------------------------------------------
\* How far the table of a frame lies above that of the frame below it, and what
\* it pops in the end: the element of an array is next to the one before it, or
\* lies above the array and its key; a message field lies above its key.
Stacked(f, g) ==
    \/ f.fresh /\ g.at = f.at + 1 /\ g.pops = 1
    \/ ~f.fresh /\ g.at = f.at + 2 /\ g.pops = 1
    \/ ~f.fresh /\ g.at = f.at + 3 /\ stack[f.at + 2].t = "table" /\ g.pops \in {1, 2}

\* The innermost frame finds its own key on top - or an array nobody has popped,
\* since its first element was no message: then the next round is the last one.
OnTop == \/ Len(stack) = R.at + IF R.fresh THEN 0 ELSE 1
         \/ ~R.fresh /\ Len(stack) = R.at + 2 /\ Top.t = "table"

\* In the middle of an array: its frames so far lie right above it.
InArray == /\ scan.own \in 1 .. Len(rframes) /\ ~rframes[scan.own].fresh
           /\ scan.at = rframes[scan.own].at + 2 /\ stack[scan.at].t = "table"
           /\ \A i \in scan.own + 1 .. Len(rframes) : rframes[i].fresh
           /\ Len(stack) = scan.at + Len(rframes) - scan.own
           /\ scan.idx \in 1 .. scan.n

\* The code reads "the value on top" and "the table at the frame's place" without
\* a check; it is right because the frames and the Lua stack have this shape.
ToProtoShape ==
    rframes # <<>> =>
       /\ rframes[1].at = 1 /\ rframes[1].pops = 0
       /\ \A i \in 1 .. Len(rframes) : /\ rframes[i].at \in 1 .. Len(stack)
                                       /\ stack[rframes[i].at].t = "table"
       /\ \A i \in 1 .. Len(rframes) - 1 : Stacked(rframes[i], rframes[i + 1])
       /\ ~dead => IF scan = NoScan THEN OnTop ELSE InArray
============================================================================
