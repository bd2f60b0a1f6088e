----------------------------- MODULE ProtoToLua -----------------------------
(***************************************************************************)
(* protobuf2lua_nostack: a message becomes a Lua table.  The recursion over *)
(* the message's fields is a loop with a stack of frames of its own, beside *)
(* the Lua stack on which each table under construction waits for its key   *)
(* to be set in the table below.  An action is one round of the loop.       *)
(***************************************************************************)
EXTENDS ProtoLua

VARIABLE wframes  \* cpp_stack: [type, obj, at, next, settable, loop] of each open message

\* A repeated float field that is not empty never ends: its case does not
\* advance repeated_loop_idx.  No registered message has one.
ASSUME NoFloatArrays == \A T \in Types : \A i \in 1 .. Len(Fields[T]) :
                           ~(Fields[T][i].rep /\ Fields[T][i].kind = "float")

\* The frame of a message whose table lies at the given place of the stack.  The
\* code does not keep the place: it counts on it.
WFrame(T, obj, place, settable) ==
    [type |-> T, obj |-> obj, at |-> place, next |-> 1, settable |-> settable, loop |-> 0]

\* A new table for the message on top of the stack.
StartToLua(T, obj, lua) ==
    /\ stack' = Append(lua, Val("table", Len(tabs) + 1))
    /\ tabs' = Append(tabs, <<>>)
    /\ wframes' = <<WFrame(T, obj, Len(stack'), FALSE)>>

W == wframes[Len(wframes)]
WField == Fields[W.type][W.next]
WValue == (IF W.obj = 0 THEN Default(W.type) ELSE pb[W.obj]).val[W.next]

\* lua_settable(L, -3) with the key and the value on the stack.
Settable(heap, ref, key, x) == [heap EXCEPT ![ref] = Append(@, <<key, x>>)]

SetTop(f) == [wframes EXCEPT ![Len(wframes)] = f]

NextField == [W EXCEPT !.next = @ + 1, !.loop = 0]

\* All fields done: the table becomes a value of the one below it.
CloseMessage ==
    /\ W.next > Len(Fields[W.type])
    /\ wframes' = Pop(wframes, 1)
    /\ IF W.settable
       THEN /\ tabs' = Settable(tabs, stack[Len(stack) - 2].v, stack[Len(stack) - 1], Top)
            /\ stack' = Pop(stack, 2)
       ELSE UNCHANGED <<tabs, stack>>
    /\ UNCHANGED pb

WriteScalar ==
    /\ W.next <= Len(Fields[W.type]) /\ ~WField.rep /\ WField.kind # "message"
    /\ tabs' = Settable(tabs, Top.v, Name(WField), ScalarTo(WField.kind, WValue))
    /\ wframes' = SetTop(NextField)
    /\ UNCHANGED <<stack, pb>>

\* A message field that is not set is read as the default instance of its type.
OpenMessage ==
    /\ W.next <= Len(Fields[W.type]) /\ ~WField.rep /\ WField.kind = "message"
    /\ stack' = stack \o <<Name(WField), Val("table", Len(tabs) + 1)>>
    /\ tabs' = Append(tabs, <<>>)
    /\ wframes' = Append(SetTop(NextField), WFrame(WField.sub, WValue, Len(stack'), TRUE))
    /\ UNCHANGED pb

\* An empty array of any kind, or all the elements of an array of scalars.
WriteArray ==
    /\ W.next <= Len(Fields[W.type]) /\ WField.rep /\ W.loop = 0
    /\ WField.kind # "message" \/ WValue = <<>>
    /\ LET elements == [i \in 1 .. Len(WValue) |->
                           <<Val("number", i), ScalarTo(WField.kind, WValue[i])>>]
       IN tabs' = Append(Settable(tabs, Top.v, Name(WField), Val("table", Len(tabs) + 1)), elements)
    /\ wframes' = SetTop(NextField)
    /\ UNCHANGED <<stack, pb>>

\* The next message of an array: the key and the array's table are pushed with
\* the first one, and stay on the stack until the last one is closed.
Opened == IF W.loop = 0 THEN <<Name(WField), Val("table", Len(tabs) + 1)>> ELSE <<>>

OpenElement ==
    /\ W.next <= Len(Fields[W.type]) /\ WField.rep /\ WField.kind = "message"
    /\ W.loop < Len(WValue)
    /\ tabs' = tabs \o [i \in 1 .. (IF W.loop = 0 THEN 2 ELSE 1) |-> <<>>]
    /\ stack' = stack \o Opened \o <<Val("number", W.loop + 1), Val("table", Len(tabs'))>>
    /\ wframes' = Append(SetTop([W EXCEPT !.loop = @ + 1]), WFrame(WField.sub, WValue[W.loop + 1], Len(stack'), TRUE))
    /\ UNCHANGED pb

CloseArray ==
    /\ W.next <= Len(Fields[W.type]) /\ WField.rep /\ WField.kind = "message"
    /\ W.loop > 0 /\ W.loop = Len(WValue)
    /\ tabs' = Settable(tabs, stack[Len(stack) - 2].v, stack[Len(stack) - 1], Top)
    /\ stack' = Pop(stack, 2)
    /\ wframes' = SetTop(NextField)
    /\ UNCHANGED pb

ToLuaStep == /\ wframes # <<>>
             /\ \/ CloseMessage \/ WriteScalar \/ OpenMessage
                \/ WriteArray \/ OpenElement \/ CloseArray

----------------------------------------------------------------------------
\* Between two rounds each open message has its table on the stack, with its key
\* and, in an array, with the array's table and key below it, and the innermost
\* one on top: so each lua_settable(L, -3) hits the table it is meant for, and
\* in the end the conversion has pushed one value.
Waits(f) == IF f.loop = 0 THEN 2 ELSE 4

ToLuaShape ==
    wframes # <<>> =>
       /\ \A i \in 1 .. Len(wframes) :
             /\ wframes[i].at \in 1 .. Len(stack)
             /\ stack[wframes[i].at].t = "table"
             /\ wframes[i].settable = (i > 1)
             /\ wframes[i].loop > 0 => /\ wframes[i].next <= Len(Fields[wframes[i].type])
                                       /\ Fields[wframes[i].type][wframes[i].next].rep
                                       /\ stack[wframes[i].at + 2].t = "table"
       /\ \A i \in 1 .. Len(wframes) - 1 : wframes[i + 1].at = wframes[i].at + Waits(wframes[i])
       /\ Len(stack) = W.at + Waits(W) - 2
============================================================================
