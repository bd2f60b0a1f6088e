----------------------------- MODULE LuaBridge -----------------------------
(***************************************************************************)
(* A message on its way through the other Lua machine: it arrives from a    *)
(* client, another process or a UDP peer and is made a table for the        *)
(* script's handler; the handler changes the table, or takes a new one, and *)
(* passes it to avant.Lua2Protobuf, which makes it a message again and      *)
(* sends it where the script says.                                          *)
(***************************************************************************)
EXTENDS ProtoToLua, LuaToProto

CONSTANTS Registered,  \* the types of the commands in message_factory
          Requests,    \* the messages that arrive: heaps, whose first message is the root
          Routes,      \* where they come from: [type, p1, p2, p3]
          Edits,       \* what the script does to its table: [key, val, new]
          MaxEdits     \* bound: how many of them it does

\* What arrives is a heap of messages whose values fit their fields.  Enum values
\* are not negative: the one enum that has such values is no field's type.
RangeOf(kind) == CASE kind = "int32" -> Int32s
                   [] kind = "int64" -> Int64s
                   [] kind = "uint32" -> UInt32s
                   [] kind = "uint64" -> UInt64s
                   [] kind = "double" -> Int
                   [] kind = "float" -> Int32s \cup {v \in Int : v % 2 = 0}
                   [] kind = "bool" -> {0, 1}
                   [] kind = "enum" -> 0 .. Half32 - 1
                   [] kind = "string" -> [t : {"digits", "text", "name"}, v : Int]
Fits(heap, field, x) == IF field.kind = "message" THEN x \in DOMAIN heap /\ heap[x].type = field.sub
                        ELSE x \in RangeOf(field.kind)
IsHeap(heap) ==
    /\ Len(heap) \in Nat \ {0}
    /\ heap = [o \in 1 .. Len(heap) |-> [type |-> heap[o].type, val |-> heap[o].val]]
    /\ \A o \in 1 .. Len(heap) :
          /\ heap[o].type \in Types
          /\ \A i \in 1 .. Len(Fields[heap[o].type]) :
                LET field == Fields[heap[o].type][i]
                    x == heap[o].val[i]
                IN IF field.rep THEN Len(x) \in Nat /\ \A j \in 1 .. Len(x) : Fits(heap, field, x[j])
                   ELSE Fits(heap, field, x) \/ (field.kind = "message" /\ x = 0)

ASSUME RequestsAssumption == /\ \A heap \in Requests : IsHeap(heap)
                             /\ Routes \subseteq [type : Int, p1 : [t : {"number"}, v : UInt64s],
                                                   p2 : [t : {"number"}, v : Int64s], p3 : LuaSet]

\* The script's values: no table is a key, a table has each of its keys once, and
\* the script's own tables are numbered from 1.
ScriptKey(key) == key \in LuaSet /\ key.t # "table"
ScriptVal(x, n) == x \in LuaSet /\ (x.t = "table" => x.v \in 1 .. n)
ASSUME EditsAssumption ==
    \A e \in Edits :
       /\ ScriptKey(e.key) /\ Len(e.new) \in Nat /\ ScriptVal(e.val, Len(e.new))
       /\ \A i \in 1 .. Len(e.new) :
             /\ Len(e.new[i]) \in Nat
             /\ \A j \in 1 .. Len(e.new[i]) :
                   /\ ScriptKey(e.new[i][j][1]) /\ ScriptVal(e.new[i][j][2], Len(e.new))
                   /\ \A k \in 1 .. Len(e.new[i]) : e.new[i][j][1] = e.new[i][k][1] => j = k

VARIABLES pc,      \* "idle", "recv", "script", "create", "send", "sent", "refused", "exited"
          old,     \* old_lua_stack_size of the conversion that runs
          route,   \* the parameters that travel with the message
          table,   \* the table the script answers with
          edits,   \* the changes made so far
          root     \* the message that the answer is converted to

vars == <<stack, tabs, pb, wframes, rframes, scan, dead, pc, old, route, table, edits, root>>
toLua == wframes
toProto == <<rframes, scan, dead>>

Init == /\ stack = <<>> /\ tabs = <<>> /\ wframes = <<>> /\ rframes = <<>>
        /\ pb \in Requests
        /\ scan = NoScan /\ dead = FALSE
        /\ pc = "idle" /\ old = 0 /\ edits = 0 /\ root = 0
        /\ route \in Routes
        /\ table = LuaNil

----------------------------------------------------------------------------
\* on_other_lua_vm_recv_client_message, _ipc_message and _udp_message differ in
\* the route.  In front of the message the stack has the error handler, the
\* script's function, which machine it is, the worker's index, the type and the cmd.
Arguments == <<LuaNil, LuaNil, Val("boolean", 0), Val("boolean", 1), Val("boolean", 0),
               Val("number", -1), Val("number", route.type), Val("number", 0)>>

exe_OnLuaVMRecvMessage ==
    /\ pc = "idle"
    /\ StartToLua(pb[1].type, 1, Arguments)
    /\ old' = Len(Arguments)
    /\ pc' = "recv"
    /\ UNCHANGED <<pb, toProto, route, table, edits, root>>

\* protobuf2lua_nostack has returned: ASSERT_LOG_EXIT on the size of the stack,
\* and the parameters of the route follow as texts.  The script's function takes
\* all of it from the stack.
CallScript ==
    /\ pc = "recv" /\ wframes = <<>>
    /\ IF Len(stack) = old + 1 THEN pc' = "script" ELSE pc' = "exited"
    /\ table' = Top
    /\ route' = [route EXCEPT !.p1.t = "digits", !.p2.t = "digits"]
    /\ stack' = <<>>
    /\ UNCHANGED <<tabs, pb, toLua, toProto, old, edits, root>>

\* The script sets a key of the table to a value, or to a table of its own.
Own(x) == IF x.t = "table" THEN [x EXCEPT !.v = Len(tabs) + @] ELSE x
OwnTable(pairs) == [i \in 1 .. Len(pairs) |-> <<pairs[i][1], Own(pairs[i][2])>>]
PlaceOf(pairs, key) == CHOOSE i \in 1 .. Len(pairs) : pairs[i][1] = key
Put(pairs, key, x) ==
    IF Get(pairs, key) = LuaNil THEN IF x = LuaNil THEN pairs ELSE Append(pairs, <<key, x>>)
    ELSE LET i == PlaceOf(pairs, key) IN
         IF x = LuaNil THEN SubSeq(pairs, 1, i - 1) \o SubSeq(pairs, i + 1, Len(pairs))
         ELSE [pairs EXCEPT ![i] = <<key, x>>]

ScriptEdits ==
    /\ pc = "script" /\ edits < MaxEdits /\ table.t = "table"
    /\ \E e \in Edits :
          tabs' = [tabs EXCEPT ![table.v] = Put(@, e.key, Own(e.val))]
                  \o [i \in 1 .. Len(e.new) |-> OwnTable(e.new[i])]
    /\ edits' = edits + 1
    /\ UNCHANGED <<stack, pb, toLua, toProto, pc, old, route, table, root>>

\* avant.CreateNewProtobufByCmd: the default message as a table, nil for a cmd
\* that is not registered.  The script does it once, to answer with a new table.
CreateNewProtobufByCmd(T) ==
    /\ pc = "script" /\ edits = 0 /\ table = Val("table", 1)
    /\ IF T \in Registered
       THEN /\ StartToLua(T, 0, <<>>)
            /\ old' = 0 /\ pc' = "create"
            /\ UNCHANGED table
       ELSE table' = LuaNil /\ UNCHANGED <<stack, tabs, wframes, old, pc>>
    /\ UNCHANGED <<pb, toProto, route, edits, root>>

Created ==
    /\ pc = "create" /\ wframes = <<>>
    /\ IF Len(stack) = old + 1 THEN pc' = "script" ELSE pc' = "exited"
    /\ table' = Top
    /\ stack' = <<>>
    /\ UNCHANGED <<tabs, pb, toLua, toProto, old, route, edits, root>>

\* The order of the pairs in lua_next is Lua's own affair.
Reversed(pairs) == [i \in 1 .. Len(pairs) |-> pairs[Len(pairs) + 1 - i]]

\* avant.Lua2Protobuf(message, type, cmd, p1, p2, p3): ASSERT_LOG_EXIT that the
\* message is a table; p1 and p2 are read with std::stoull and std::stoll.
Lua2Protobuf(T) ==
    /\ pc = "script"
    /\ \/ /\ table.t # "table" /\ pc' = "exited"
          /\ UNCHANGED <<stack, tabs, pb, toProto, old, route, root>>
       \/ /\ table.t = "table" /\ T \notin Registered /\ pc' = "refused"
          /\ UNCHANGED <<stack, tabs, pb, toProto, old, route, root>>
       \/ /\ table.t = "table" /\ T \in Registered
          /\ \E p1 \in UInt64Of(route.p1), p2 \in Int64Of(route.p2) :
                route' = [route EXCEPT !.p1 = Val("number", p1), !.p2 = Val("number", p2)]
          /\ StartToProto(T, table)
          /\ tabs' \in {tabs, [i \in 1 .. Len(tabs) |-> Reversed(tabs[i])]}
          /\ old' = 1 /\ root' = Len(pb) + 1 /\ pc' = "send"
    /\ UNCHANGED <<toLua, table, edits>>

\* lua2protobuf_nostack has returned: ASSERT_LOG_EXIT that the stack is as it was;
\* by its type the message goes to the worker of the client, to a process or to a
\* UDP address.
Send ==
    /\ pc = "send" /\ rframes = <<>>
    /\ IF Len(stack) = old THEN pc' = "sent" ELSE pc' = "exited"
    /\ UNCHANGED <<stack, tabs, pb, toLua, toProto, old, route, table, edits, root>>

\* An error in the script, and an exception in what it calls, end the process.
Exits ==
    /\ pc = "send" /\ dead /\ pc' = "exited"
    /\ UNCHANGED <<stack, tabs, pb, toLua, toProto, old, route, table, edits, root>>

----------------------------------------------------------------------------
bridge == <<pc, old, route, table, edits, root>>

Convert == \/ pc \in {"recv", "create"} /\ ToLuaStep /\ UNCHANGED <<toProto, bridge>>
           \/ pc = "send" /\ ToProtoStep /\ UNCHANGED <<toLua, bridge>>

Next == \/ exe_OnLuaVMRecvMessage \/ CallScript \/ ScriptEdits
        \/ \E T \in Types : CreateNewProtobufByCmd(T) \/ Lua2Protobuf(T)
        \/ Created \/ Send \/ Exits
        \/ Convert

\* The thread runs: a conversion that can go on goes on.
Spec == Init /\ [][Next]_vars
FairSpec == Spec /\ WF_vars(Convert \/ CallScript \/ Created \/ Send \/ Exits)

----------------------------------------------------------------------------
\* Both conversions find each table and each key where they look for it.
StackShape == ToLuaShape /\ ToProtoShape

\* The three assertions on the size of the Lua stack never fire: each conversion
\* leaves on the stack just what its caller counts on.
Balanced == /\ pc \in {"recv", "create"} /\ wframes = <<>> => Len(stack) = old + 1
            /\ pc = "send" /\ rframes = <<>> => Len(stack) = old
============================================================================
