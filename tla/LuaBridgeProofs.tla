-------------------------- MODULE LuaBridgeProofs --------------------------
(***************************************************************************)
(* The two conversions, for all message types, messages, scripts and        *)
(* bounds.  Their shapes, and so the sizes of the Lua stack the callers     *)
(* assert (StackShape, Balanced); then what they make: the message that is  *)
(* sent has what the script's table says (Content, Faithful), the tables    *)
(* have what the messages say (Converting), and both together bring a       *)
(* message back as it was (Kept, RoundTrip).                                *)
(***************************************************************************)
EXTENDS LuaBridgeInv, SequenceTheorems, WellFoundedInduction, TLAPS

----------------------------------------------------------------------------
\* What changes in a step: at most the field f of the object q0, and new objects.
Sending == IInv /\ UniqueKeys /\ pc = "send" /\ ~dead
Steady == tabs' = tabs /\ root' = root /\ table' = table

Touched(src, src2, q0, f) ==
    /\ Steady
    /\ src2 \in Seq(1 .. Len(tabs)) /\ Len(src2) = Len(pb') /\ Len(pb') >= Len(pb) /\ Len(pb') \in Nat
    /\ \A o \in 1 .. Len(pb) : /\ src2[o] = src[o] /\ pb'[o].type = pb[o].type
                               /\ DOMAIN pb'[o].val = DOMAIN pb[o].val
                               /\ \A i \in DOMAIN pb[o].val : o # q0 \/ i # f => pb'[o].val[i] = pb[o].val[i]

\* The innermost frame takes a pair: what it leaves as it was.
PairMove ==
    LET n == Len(rframes)
    IN /\ Len(rframes') \in Nat /\ Len(rframes') >= n
       /\ \A k \in 1 .. n - 1 : rframes'[k] = rframes[k]
       /\ rframes'[n].obj = R.obj /\ rframes'[n].at = R.at /\ rframes'[n].pops = R.pops /\ ~rframes'[n].fresh
       /\ \A j \in 1 .. R.at : stack'[j] = stack[j]
       /\ stack'[R.at + 1] = Key
       /\ scan' = NoScan \/ scan'.own = n

\* A new message for the field f, and what that touches.
NewOne(src, src2, o, f, x, T, ref) ==
    /\ IInv /\ Known(src) /\ Steady /\ o \in root .. Len(pb) /\ f \in FieldsOf(o)
    /\ T \in Types /\ ref \in 1 .. Len(tabs) /\ src2 = Append(src, ref)
    /\ pb' = Append(SetVal(pb, o, [pb[o].val EXCEPT ![f] = x]), Default(T))
    /\ Nests(tabs, pb[o].type, src[o], f, T, ref)
OneNewer(src, src2, o, f, x, T, ref) ==
    /\ Touched(src, src2, o, f) /\ Known(src2)' /\ pb'[o].val[f] = x /\ Len(pb') = Len(pb) + 1
    /\ pb'[Len(pb) + 1] = Default(T) /\ src2[Len(pb) + 1] = ref /\ \A q \in 1 .. Len(pb) : src2[q] = src[q]

\* A step of the loop over an array: what it leaves as it was.
ScanMove ==
    LET n == Len(rframes)
    IN /\ Len(rframes') \in Nat /\ Len(rframes') >= n
       /\ \A k \in 1 .. n : rframes'[k] = rframes[k]
       /\ \A j \in 1 .. rframes[n].at : stack'[j] = stack[j]
       /\ stack'[rframes[scan.own].at + 1] = stack[rframes[scan.own].at + 1]
       /\ scan' = NoScan \/ scan'.own = scan.own

----------------------------------------------------------------------------
\* The contents, on the way to a table.

\* What a table is made for: a message of a type, 0 being the default one, or,
\* when field is not 0, the elements of that field of it.
Role(T, p, i) == [type |-> T, obj |-> p, field |-> i]
RoleSet == [type : Types, obj : Nat, field : Nat]
From(msgs, T, p) == (IF p = 0 THEN Default(T) ELSE msgs[p]).val

RoleOK(msgs, z) == /\ z \in RoleSet
                   /\ z.obj # 0 => z.obj \in 1 .. Len(msgs) /\ msgs[z.obj].type = z.type
                   /\ z.field # 0 => z.field \in 1 .. Len(Fields[z.type]) /\ Fields[z.type][z.field].rep

\* The pairs it gets, one after the other.
Width(msgs, z) == IF z.field = 0 THEN Len(Fields[z.type]) ELSE Len(From(msgs, z.type, z.obj)[z.field])
KeyOf(z, j) == IF z.field = 0 THEN Name(Fields[z.type][j]) ELSE Val("number", j)
IsFor(std, x, z) == x.t = "table" /\ x.v \in 1 .. Len(std) /\ std[x.v] = z
Stands(std, field, x, v) == IF field.kind = "message" THEN IsFor(std, x, Role(field.sub, v, 0))
                            ELSE x = ScalarTo(field.kind, v)
PairOf(msgs, std, z, j, x) ==
    IF z.field # 0 THEN Stands(std, Fields[z.type][z.field], x, From(msgs, z.type, z.obj)[z.field][j])
    ELSE IF Fields[z.type][j].rep THEN IsFor(std, x, Role(z.type, z.obj, j))
    ELSE Stands(std, Fields[z.type][j], x, From(msgs, z.type, z.obj)[j])

IsSeq(s) == \E V : s \in Seq(V)
Right(msgs, std, z, pairs) ==
    /\ IsSeq(pairs)
    /\ Len(pairs) <= Width(msgs, z)
    /\ \A j \in 1 .. Len(pairs) : pairs[j][1] = KeyOf(z, j) /\ PairOf(msgs, std, z, j, pairs[j][2])

AllRight(msgs, heap, std) ==
    /\ std \in Seq(RoleSet) /\ Len(std) = Len(heap) /\ DOMAIN heap = 1 .. Len(heap) /\ Len(heap) \in Nat
    /\ \A r \in 1 .. Len(heap) : RoleOK(msgs, std[r]) /\ Right(msgs, std, std[r], heap[r])
Full(msgs, heap, std, r) == Len(heap[r]) = Width(msgs, std[r])

\* The next pair of the table r.
NextPairOf(msgs, heap, std, r, key, x) ==
    /\ Len(heap[r]) + 1 <= Width(msgs, std[r])
    /\ key = KeyOf(std[r], Len(heap[r]) + 1) /\ PairOf(msgs, std, std[r], Len(heap[r]) + 1, x)

Puts(msgs, heap, std, r, key, x, new) ==
    /\ AllRight(msgs, heap, std) /\ r \in 1 .. Len(heap)
    /\ NextPairOf(msgs, heap, std, r, key, x) /\ new = Settable(heap, r, key, x)

\* A table for z, with some of its pairs, is added to the tables.
Added(msgs, heap, std, z, pairs, new, std2) ==
    /\ AllRight(msgs, heap, std) /\ IsSeq(heap) /\ RoleOK(msgs, z) /\ std2 = Append(std, z)
    /\ Right(msgs, std2, z, pairs) /\ new = Append(heap, pairs)

\* The tables that wait on the Lua stack for their next pair, each one's key
\* between it and the value to be; every other table is complete.
Slots(st, base, open) == /\ Len(open) >= 1 /\ Len(st) = base + 2 * Len(open) - 1
                         /\ \A i \in 1 .. Len(open) : st[base + 2 * i - 1] = Val("table", open[i])

OpenOn(msgs, heap, st, base, std, open) ==
    /\ open \in Seq(1 .. Len(heap)) /\ Slots(st, base, open)
    /\ \A i, j \in 1 .. Len(open) : i < j => open[i] < open[j]
    /\ \A i \in 1 .. Len(open) - 1 : NextPairOf(msgs, heap, std, open[i], st[base + 2 * i], Val("table", open[i + 1]))
    /\ \A r \in 1 .. Len(heap) : (\A i \in 1 .. Len(open) : open[i] # r) => Full(msgs, heap, std, r)

\* A pair for the innermost one.
PutOn(msgs, heap, std, st, base, open, key, x, new) ==
    /\ AllRight(msgs, heap, std) /\ OpenOn(msgs, heap, st, base, std, open)
    /\ NextPairOf(msgs, heap, std, open[Len(open)], key, x)
    /\ new = Settable(heap, open[Len(open)], key, x)

\* The stack grows by a key and an empty table.
Grown(st, st2, key, x) == /\ Len(st) \in Nat /\ Len(st2) = Len(st) + 2 /\ st2[Len(st) + 1] = key /\ st2[Len(st) + 2] = x
                          /\ \A j \in 1 .. Len(st) : st2[j] = st[j]

PushOn(msgs, heap, std, st, base, open, key, z, new, std2, st2, open2) ==
    /\ AllRight(msgs, heap, std) /\ IsSeq(heap) /\ OpenOn(msgs, heap, st, base, std, open) /\ base \in Nat
    /\ RoleOK(msgs, z) /\ 0 <= Width(msgs, z) /\ std2 = Append(std, z) /\ new = Append(heap, <<>>)
    /\ Grown(st, st2, key, Val("table", Len(heap) + 1)) /\ open2 = Append(open, Len(heap) + 1)
    /\ NextPairOf(msgs, heap, std2, open[Len(open)], key, Val("table", Len(heap) + 1))

\* The innermost table is complete: it becomes a value of the one below it.
PopOn(msgs, heap, std, st, base, open, new, st2, open2) ==
    /\ AllRight(msgs, heap, std) /\ OpenOn(msgs, heap, st, base, std, open) /\ base \in Nat
    /\ Len(open) > 1 /\ Full(msgs, heap, std, open[Len(open)])
    /\ new = Settable(heap, open[Len(open) - 1], st[Len(st) - 1], Val("table", open[Len(open)]))
    /\ Len(st2) = Len(st) - 2 /\ (\A j \in 1 .. Len(st) - 2 : st2[j] = st[j])
    /\ open2 = Pop(open, 1)

\* The first table of a conversion.
FirstOn(msgs, heap, std, base, z, std2, new, st, open) ==
    /\ open = <<Len(heap) + 1>>
    /\ AllRight(msgs, heap, std) /\ IsSeq(heap) /\ base \in Nat
    /\ (\A r \in 1 .. Len(heap) : Full(msgs, heap, std, r)) /\ RoleOK(msgs, z) /\ 0 <= Width(msgs, z)
    /\ std2 = Append(std, z) /\ new = Append(heap, <<>>)
    /\ Len(st) = base + 1 /\ st[base + 1] = Val("table", Len(heap) + 1)

\* Each frame of the conversion and its table, the one below the top in wait for
\* a message: the field before its next one, or one element of an array.
TopAt(heap, std, open, base, f, i) ==
    /\ f.at = base + 2 * i - 1 /\ std[open[i]] = Role(f.type, f.obj, 0) /\ Len(heap[open[i]]) = f.next - 1
    /\ f.loop > 0 => /\ i < Len(open) /\ std[open[i + 1]] = Role(f.type, f.obj, f.next)
                     /\ Len(heap[open[i + 1]]) = f.loop
BelowAt(heap, std, open, base, f, i) ==
    /\ f.at = base + 2 * i - 1 /\ std[open[i]] = Role(f.type, f.obj, 0)
    /\ f.loop = 0 => Len(heap[open[i]]) = f.next - 2
    /\ f.loop > 0 => /\ Len(heap[open[i]]) = f.next - 1 /\ i < Len(open)
                     /\ std[open[i + 1]] = Role(f.type, f.obj, f.next) /\ Len(heap[open[i + 1]]) = f.loop - 1

\* The first table is the one of the message that has arrived.
Rooted(std) == Len(std) >= 1 /\ std[1] = Role(pb[1].type, 1, 0)

\* In the middle of the conversion.
Copies(std, open) ==
    /\ Rooted(std)
    /\ AllRight(pb, tabs, std) /\ OpenOn(pb, tabs, stack, old, std, open)
    /\ \E i \in 1 .. Len(open) : TopAt(tabs, std, open, old, W, i)
    /\ \A k \in 1 .. Len(wframes) - 1 : \E i \in 1 .. Len(open) : BelowAt(tabs, std, open, old, wframes[k], i)

TopIs(std, open, w) ==
    /\ w \in 1 .. Len(open) /\ Len(open) \in Nat /\ w \in Nat /\ w >= 1 /\ old \in Nat /\ W \in WSet
    /\ W.at = old + 2 * w - 1 /\ std[open[w]] = Role(W.type, W.obj, 0) /\ Len(tabs[open[w]]) = W.next - 1
    /\ W.loop = 0 => Len(open) = w
    /\ W.loop > 0 => /\ Len(open) = w + 1 /\ std[open[w + 1]] = Role(W.type, W.obj, W.next)
                     /\ Len(tabs[open[w + 1]]) = W.loop
    /\ \A k \in 1 .. Len(wframes) - 1 : /\ wframes[k] \in WSet /\ wframes[k].at + Waits(wframes[k]) <= W.at
                                        /\ \E i \in 1 .. Len(open) : BelowAt(tabs, std, open, old, wframes[k], i)

\* What a round does from its own table on leaves the frames below as they are.
Beneath(w, heap, std, open, heap2, std2, open2) ==
    /\ Len(open2) \in Nat /\ w <= Len(open2)
    /\ \A j \in 1 .. w - 1 : open2[j] = open[j] /\ heap2[open[j]] = heap[open[j]] /\ std2[open[j]] = std[open[j]]

\* New tables change nothing for the frames that wait.
Beyond(heap, std, open, heap2, std2, open2) ==
    /\ Len(open) \in Nat /\ Len(open2) \in Nat /\ Len(open) <= Len(open2)
    /\ \A i \in 1 .. Len(open) : open2[i] = open[i] /\ heap2[open[i]] = heap[open[i]] /\ std2[open[i]] = std[open[i]]

\* A table more, for a message, on top of the stack, and its frame.
Entered(heap, std, st, open, g, key, z, std2, open2) ==
    /\ Rooted(std) /\ g \in WSet /\ \E i \in 1 .. Len(open) : BelowAt(heap, std, open, old, g, i)
    /\ \A k \in 1 .. Len(wframes) - 1 : \E i \in 1 .. Len(open) : BelowAt(heap, std, open, old, wframes[k], i)
    /\ PushOn(pb, heap, std, st, old, open, key, z, tabs', std2, stack', open2)
    /\ z = Role(z.type, z.obj, 0)
    /\ wframes' = Append(SetTop(g), WFrame(z.type, z.obj, Len(stack'), TRUE))

\* The frame goes on with the next field, its pair has been written.
Written(w, std, open, heap2, std2, open2) ==
    /\ Rooted(std2) /\ TopIs(std, open, w) /\ AllRight(pb, heap2, std2) /\ OpenOn(pb, heap2, stack', old, std2, open2)
    /\ Len(open2) \in Nat /\ w <= Len(open2)
    /\ open2[w] = open[w] /\ std2[open[w]] = std[open[w]] /\ Len(heap2[open[w]]) = Len(tabs[open[w]]) + 1
    /\ \A j \in 1 .. w - 1 : open2[j] = open[j] /\ heap2[open[j]] = tabs[open[j]] /\ std2[open[j]] = std[open[j]]

ElementReady(heap, std, st, open, w) ==
    /\ Rooted(std)
    /\ AllRight(pb, heap, std) /\ IsSeq(heap) /\ OpenOn(pb, heap, st, old, std, open) /\ old \in Nat
    /\ w \in Nat /\ w >= 1 /\ Len(open) = w + 1 /\ W.at = old + 2 * w - 1
    /\ std[open[w]] = Role(W.type, W.obj, 0) /\ Len(heap[open[w]]) = W.next - 1
    /\ std[open[w + 1]] = Role(W.type, W.obj, W.next) /\ Len(heap[open[w + 1]]) = W.loop
    /\ \A k \in 1 .. Len(wframes) - 1 : \E i \in 1 .. Len(open) : BelowAt(heap, std, open, old, wframes[k], i)
    /\ tabs' = Append(heap, <<>>) /\ Grown(st, stack', Val("number", W.loop + 1), Val("table", Len(heap) + 1))

\* A message is done.
Done(std) == Rooted(std) /\ AllRight(pb, tabs, std) /\ \A r \in 1 .. Len(tabs) : Full(pb, tabs, std, r)

\* Whatever the round does: the tables are for what they are for.
Converting == IF wframes = <<>> THEN \E std : Done(std) ELSE \E std, open : Copies(std, open)

\* No pair has nil for its value.
NoNil(pairs) == \A j \in 1 .. Len(pairs) : pairs[j][2] # LuaNil

----------------------------------------------------------------------------
\* What the whole way of a message keeps: tables that are right until the script
\* changes them, keys that stay unique, and messages that have of their tables
\* what the conversion has seen.
CInv ==
    /\ edits \in Nat
    /\ pc = "idle" => tabs = <<>> /\ edits = 0
    /\ pc \in {"recv", "create"} => edits = 0 /\ Converting
    /\ pc = "script" => /\ UniqueKeys /\ (table.t = "table" => NoNil(tabs[table.v]))
                        /\ edits = 0 => \E std : Done(std)
    /\ pc = "send" => UniqueKeys
    /\ pc \in {"send", "sent"} \/ dead => \E src : Content(src)
    /\ pc = "sent" => rframes = <<>>

----------------------------------------------------------------------------
\* The way back of what came.

\* A table that is right, whatever the order of its pairs.
Proper(msgs, std, z, pairs) ==
    /\ Len(pairs) = Width(msgs, z) /\ Len(pairs) \in Nat
    /\ \A j \in 1 .. Len(pairs) : PairOf(msgs, std, z, j, Get(pairs, KeyOf(z, j)))
    /\ z.field # 0 => \A n \in Nat : n \notin 1 .. Len(pairs) => Get(pairs, Val("number", n)) = LuaNil

\* What the conversion to a message starts from: the messages msgs that arrived,
\* and the tables made of them.
Kept(msgs, std) ==
    /\ msgs \in Requests /\ Len(msgs) \in Nat /\ root = Len(msgs) + 1
    /\ \A o \in 1 .. Len(msgs) : pb[o] = msgs[o]
    /\ std \in Seq(RoleSet) /\ Len(std) = Len(tabs) /\ Len(std) >= 1 /\ std[1] = Role(msgs[1].type, 1, 0)
    /\ \A r \in 1 .. Len(tabs) : RoleOK(msgs, std[r]) /\ Proper(msgs, std, std[r], tabs[r])

\* The route goes to the script as texts and comes back as the numbers it was.
Texts(q) == [q EXCEPT !.p1.t = "digits", !.p2.t = "digits"]

\* What the way back keeps while the script has changed nothing.
BackInv ==
    /\ pc \in {"idle", "recv"} => route \in Routes
    /\ pc \in {"script", "create"} => \E q \in Routes : route = Texts(q)
    /\ pc \in {"send", "sent"} => /\ route \in Routes
                                  /\ edits = 0 => \E msgs, std : Kept(msgs, std)

----------------------------------------------------------------------------
\* Sequences and values.

LEMMA PopType ==
    ASSUME NEW S, NEW s \in Seq(S), NEW n \in 0 .. Len(s)
    PROVE  /\ Pop(s, n) \in Seq(S) /\ Len(Pop(s, n)) = Len(s) - n
           /\ \A i \in 1 .. Len(s) - n : Pop(s, n)[i] = s[i] BY DEF Pop

LEMMA PushTwo ==
    ASSUME NEW S, NEW s \in Seq(S), NEW a \in S, NEW b \in S
    PROVE  /\ s \o <<a, b>> \in Seq(S) /\ Len(s \o <<a, b>>) = Len(s) + 2
           /\ (s \o <<a, b>>)[Len(s) + 1] = a /\ (s \o <<a, b>>)[Len(s) + 2] = b
           /\ \A i \in 1 .. Len(s) : (s \o <<a, b>>)[i] = s[i]
<1>1. <<a, b>> \in Seq(S) /\ Len(<<a, b>>) = 2 /\ <<a, b>>[1] = a /\ <<a, b>>[2] = b OBVIOUS
<1> DEFINE t == <<a, b>>
<1> HIDE DEF t
<1>2. t \in Seq(S) /\ Len(t) = 2 /\ t[1] = a /\ t[2] = b BY <1>1 DEF t
<1> DEFINE u == s \o t
<1>3. /\ u \in Seq(S) /\ Len(u) = Len(s) + 2 /\ Len(s) \in Nat
      /\ \A i \in 1 .. Len(s) + 2 : u[i] = IF i <= Len(s) THEN s[i] ELSE t[i - Len(s)]
  <2>1. /\ u \in Seq(S) /\ Len(u) = Len(s) + Len(t)
        /\ \A i \in 1 .. Len(s) + Len(t) : u[i] = IF i <= Len(s) THEN s[i] ELSE t[i - Len(s)]
    BY <1>2, ConcatProperties, Zenon
  <2> HIDE DEF u
  <2> QED BY <1>2, <2>1
<1> HIDE DEF u
<1>4. ASSUME NEW k \in 1 .. 2 PROVE u[Len(s) + k] = t[k] BY <1>3
<1>5. u[Len(s) + 1] = t[1] /\ u[Len(s) + 2] = t[2] BY <1>4
<1>6. \A i \in 1 .. Len(s) : u[i] = s[i] BY <1>3
<1> QED BY <1>2, <1>3, <1>5, <1>6, Zenon DEF t, u

LEMMA ValuesMono ==
    ASSUME NEW n \in Nat, NEW m \in Nat, n <= m
    PROVE  Values(n) \subseteq Values(m) /\ Pairs(n) \subseteq Pairs(m) BY DEF Values, LuaSet, Pairs

LEMMA SeqMono == ASSUME NEW S, NEW T, S \subseteq T PROVE Seq(S) \subseteq Seq(T) OBVIOUS

LEMMA HeapMono ==
    ASSUME NEW n \in Nat, NEW m \in Nat, n <= m
    PROVE  /\ Seq(Values(n)) \subseteq Seq(Values(m))
           /\ Seq(Seq(Pairs(n))) \subseteq Seq(Seq(Pairs(m))) BY ValuesMono, SeqMono

LEMMA TableValue == ASSUME NEW n \in Nat, NEW i \in 1 .. n PROVE Val("table", i) \in Values(n)
  BY DEF Val, Values, LuaSet

LEMMA PlainValue ==
    ASSUME NEW t \in {"number", "digits", "text", "name", "boolean", "nil"}, NEW v \in Int
    PROVE  Val(t, v) \in Keys /\ \A n : Val(t, v) \in Values(n) BY DEF Val, Values, Keys, LuaSet

LEMMA FieldType ==
    ASSUME NEW T \in Types, NEW i \in 1 .. Len(Fields[T])
    PROVE  /\ Fields[T] \in Seq(FieldSet) /\ Fields[T][i] \in FieldSet
           /\ Fields[T][i].sub \in Types /\ Name(Fields[T][i]) \in Keys
           /\ \A n : Name(Fields[T][i]) \in Values(n)
<1>1. Fields[T] \in Seq(FieldSet) /\ Fields[T][i] \in FieldSet BY FieldsAssumption
<1>2. Fields[T][i].sub \in Types /\ Fields[T][i].name \in Nat BY <1>1 DEF FieldSet
<1> QED BY <1>1, <1>2, PlainValue DEF Name

\* All but a string's range are integers.
LEMMA RangeIsInt ==
    ASSUME NEW kind \in Scalars, kind # "string", NEW x \in RangeOf(kind)
    PROVE  x \in Int BY RangesAssumption DEF RangeOf, Scalars, Int32s, Int64s, UInt32s, UInt64s

LEMMA ScalarToType ==
    ASSUME NEW field \in FieldSet, field.kind # "message", NEW heap, NEW x, Fits(heap, field, x)
    PROVE  \A n : ScalarTo(field.kind, x) \in Values(n)
<1>0. field.kind \in Scalars /\ Half32 \in Nat \ {0} /\ x \in RangeOf(field.kind)
  BY RangesAssumption DEF FieldSet, Fits
<1>1. CASE field.kind = "string" BY <1>0, <1>1 DEF RangeOf, ScalarTo, Values, LuaSet
<1>2. CASE field.kind # "string"
  BY <1>0, <1>2, RangeIsInt, PlainValue DEF ScalarTo, Int64To, Scalars
<1> QED BY <1>1, <1>2

----------------------------------------------------------------------------
\* From a message to a table: one round of the loop.

\* What each step needs to know of the innermost frame.
LEMMA FrameToLua ==
    ASSUME WInv, wframes # <<>>
    PROVE  /\ pc \in {"recv", "create"} /\ pb \in Requests
           /\ Len(wframes) \in Nat \ {0} /\ W \in WSet /\ W = wframes[Len(wframes)]
           /\ Len(stack) \in Nat /\ Len(tabs) \in Nat
           /\ W.at \in 1 .. Len(stack) /\ Len(stack) = W.at + Waits(W) - 2
           /\ W.settable = (Len(wframes) > 1)
           /\ stack[W.at].t = "table"
           /\ W.loop > 0 => /\ W.next <= Len(Fields[W.type]) /\ WField.rep
                            /\ stack[W.at + 2].t = "table" /\ stack[W.at + 1] \in Keys
<1>1. pc \in {"recv", "create"} /\ pb \in Requests BY DEF WInv, PhaseOK, Before
<1>2. wframes \in Seq(WSet) /\ stack \in Seq(Values(Len(tabs))) /\ tabs \in Seq(Seq(Pairs(Len(tabs))))
  BY DEF WInv, WOK, HeapOK
<1>3. Len(wframes) \in Nat \ {0} /\ W \in WSet /\ W = wframes[Len(wframes)] /\ Len(stack) \in Nat /\ Len(tabs) \in Nat
  BY <1>2 DEF W
<1>4. /\ W.at \in 1 .. Len(stack) /\ stack[W.at].t = "table"
      /\ W.settable = (Len(wframes) > 1)
      /\ W.loop > 0 => /\ W.next <= Len(Fields[W.type])
                       /\ Fields[W.type][W.next].rep
                       /\ stack[W.at + 2].t = "table"
      /\ Len(stack) = W.at + Waits(W) - 2 BY <1>3 DEF WInv, ToLuaShape
<1>5. W.loop > 0 => stack[W.at + 1] \in Keys BY <1>3 DEF WInv, WOK
<1> QED BY <1>1, <1>3, <1>4, <1>5 DEF WField

\* The value of the field: what Fits says of a message that has arrived, or the
\* default.
LEMMA ValueToLua ==
    ASSUME WInv, wframes # <<>>, W.next <= Len(Fields[W.type])
    PROVE  /\ WField \in FieldSet /\ WField.sub \in Types
           /\ W.next \in 1 .. Len(Fields[W.type])
           /\ Name(WField) \in Keys /\ \A n : Name(WField) \in Values(n)
           /\ WField.rep => /\ Len(WValue) \in Nat
                            /\ \A j \in 1 .. Len(WValue) : Fits(pb, WField, WValue[j])
           /\ ~WField.rep => Fits(pb, WField, WValue) \/ (WField.kind = "message" /\ WValue = 0)
<1>1. W \in WSet /\ pb \in Requests /\ W = wframes[Len(wframes)] /\ Len(wframes) \in 1 .. Len(wframes)
  BY FrameToLua
<1>2. W.next \in Nat \ {0} /\ W.type \in Types BY <1>1 DEF WSet
<1>3. Len(Fields[W.type]) \in Nat BY <1>2, FieldsAssumption
<1>4. W.next \in 1 .. Len(Fields[W.type]) BY <1>2, <1>3
<1>5. /\ WField \in FieldSet /\ WField.sub \in Types
      /\ Name(WField) \in Keys /\ \A n : Name(WField) \in Values(n)
  BY <1>2, <1>4, FieldType DEF WField
<1>6. CASE W.obj = 0
  <2>1. WValue = Unset(WField) BY <1>4, <1>6 DEF WValue, WField, Default
  <2>2. WField.rep => Len(WValue) = 0 /\ \A j \in 1 .. Len(WValue) : FALSE BY <2>1 DEF Unset
  <2>3. ~WField.rep /\ WField.kind = "string" => WValue \in [t : {"digits", "text", "name"}, v : Int]
    BY <2>1 DEF Unset, Val
  <2>4. ~WField.rep /\ WField.kind # "string" => WValue = 0 BY <2>1 DEF Unset
  <2>7. ~WField.rep /\ WField.kind # "message" => WValue \in RangeOf(WField.kind)
    BY <1>5, <2>3, <2>4, RangesAssumption DEF FieldSet, RangeOf, Int32s, Int64s, UInt32s, UInt64s, Scalars
  <2>5. ~WField.rep => Fits(pb, WField, WValue) \/ (WField.kind = "message" /\ WValue = 0)
    BY <2>4, <2>7 DEF Fits
  <2>6. WField.rep => /\ Len(WValue) \in Nat
                      /\ \A j \in 1 .. Len(WValue) : Fits(pb, WField, WValue[j]) BY <2>2
  <2> QED BY <1>4, <1>5, <2>5, <2>6
<1>7. CASE W.obj # 0
  <2>1. IsHeap(pb) BY <1>1, RequestsAssumption
  <2>2. W.obj \in 1 .. Len(pb) /\ pb[W.obj].type = W.type BY <1>1, <1>7 DEF WInv, WOK
  <2>3. IF WField.rep THEN Len(WValue) \in Nat /\ \A j \in 1 .. Len(WValue) : Fits(pb, WField, WValue[j])
        ELSE Fits(pb, WField, WValue) \/ (WField.kind = "message" /\ WValue = 0)
    BY <2>1, <2>2, <1>4, <1>7 DEF IsHeap, WField, WValue
  <2> QED BY <1>4, <1>5, <2>3
<1> QED BY <1>6, <1>7

\* lua_settable keeps the heap a heap.
LEMMA SettableType ==
    ASSUME NEW n \in Nat, NEW heap \in Seq(Seq(Pairs(n))), NEW ref, NEW key \in Keys, NEW x \in Values(n)
    PROVE  /\ Settable(heap, ref, key, x) \in Seq(Seq(Pairs(n)))
           /\ Len(Settable(heap, ref, key, x)) = Len(heap)
<1>1. <<key, x>> \in Pairs(n) BY DEF Pairs
<1>2. \A r \in DOMAIN heap : Append(heap[r], <<key, x>>) \in Seq(Pairs(n))
  <2> TAKE r \in DOMAIN heap
  <2>1. heap[r] \in Seq(Pairs(n)) OBVIOUS
  <2> QED BY <1>1, <2>1
<1> DEFINE new == [r \in 1 .. Len(heap) |-> IF r = ref THEN Append(heap[r], <<key, x>>) ELSE heap[r]]
<1>3. DOMAIN heap = 1 .. Len(heap) /\ Len(heap) \in Nat OBVIOUS
<1>4. Settable(heap, ref, key, x) = new
  <2>1. Settable(heap, ref, key, x) = [heap EXCEPT ![ref] = Append(heap[ref], <<key, x>>)]
    BY DEF Settable
  <2>2. [heap EXCEPT ![ref] = Append(heap[ref], <<key, x>>)]
        = [r \in DOMAIN heap |-> IF r = ref THEN Append(heap[ref], <<key, x>>) ELSE heap[r]] OBVIOUS
  <2> QED BY <1>3, <2>1, <2>2
<1>5. \A r \in 1 .. Len(heap) : new[r] \in Seq(Pairs(n))
  <2> TAKE r \in 1 .. Len(heap)
  <2>0. r \in DOMAIN heap BY <1>3
  <2>1. Append(heap[r], <<key, x>>) \in Seq(Pairs(n)) BY <1>2, <2>0, Zenon
  <2>2. heap[r] \in Seq(Pairs(n)) BY <2>0
  <2>3. new[r] = IF r = ref THEN Append(heap[r], <<key, x>>) ELSE heap[r] OBVIOUS
  <2> HIDE DEF new
  <2> QED BY <2>1, <2>2, <2>3
<1>6. new \in [1 .. Len(heap) -> Seq(Pairs(n))] BY <1>5
<1>7. Len(new) = Len(heap) /\ new \in Seq(Seq(Pairs(n)))
  <2> DEFINE S == Seq(Pairs(n))
  <2> DEFINE m == Len(heap)
  <2>1. m \in Nat /\ new \in [1 .. m -> S] BY <1>3, <1>6
  <2>2. \A f : f \in [1 .. m -> S] => f \in Seq(S) /\ Len(f) = m
    <3> HIDE DEF S, m
    <3> QED BY <2>1
  <2> QED BY <2>1, <2>2
<1> QED BY <1>4, <1>7

LEMMA SetTopType ==
    ASSUME wframes \in Seq(WSet), wframes # <<>>, NEW f \in WSet
    PROVE  /\ SetTop(f) \in Seq(WSet) /\ Len(SetTop(f)) = Len(wframes)
           /\ \A i \in 1 .. Len(wframes) : SetTop(f)[i] = IF i = Len(wframes) THEN f ELSE wframes[i]
  BY DEF SetTop

LEMMA NextFrame ==
    ASSUME W \in WSet
    PROVE  /\ NextField \in WSet /\ NextField.type = W.type /\ NextField.obj = W.obj /\ NextField.at = W.at
           /\ NextField.settable = W.settable /\ NextField.loop = 0
<1> DEFINE V == [W EXCEPT !.next = @ + 1]
<1>1. V \in WSet /\ V.type = W.type /\ V.obj = W.obj /\ V.at = W.at /\ V.settable = W.settable
  BY DEF WSet
<1>2. NextField = [V EXCEPT !.loop = 0] BY Zenon DEF NextField
<1> HIDE DEF V
<1> QED BY <1>1, <1>2 DEF WSet

\* A round touches nothing below its own table: the frames below keep their shape.
LEMMA BelowKept ==
    ASSUME WInv, wframes # <<>>, \A j \in 1 .. W.at : stack'[j] = stack[j],
           NEW i \in 1 .. Len(wframes) - 1
    PROVE  /\ wframes[i] \in WSet /\ wframes[i].at \in 1 .. W.at
           /\ stack'[wframes[i].at].t = "table" /\ wframes[i].settable = (i > 1)
           /\ i > 1 => stack'[wframes[i].at - 1] \in Keys
           /\ wframes[i].loop > 0 => /\ stack'[wframes[i].at + 1] \in Keys
                                     /\ stack'[wframes[i].at + 2].t = "table"
                                     /\ wframes[i].next <= Len(Fields[wframes[i].type])
                                     /\ Fields[wframes[i].type][wframes[i].next].rep
<1> DEFINE f == wframes[i]
<1>1. /\ Len(wframes) \in Nat /\ W = wframes[Len(wframes)] /\ W.at \in 1 .. Len(stack) /\ Len(stack) \in Nat
      /\ wframes \in Seq(WSet) BY FrameToLua DEF WInv, WOK
<1>2. f \in WSet /\ wframes[1] \in WSet BY <1>1
<1>3. /\ f.at \in 1 .. Len(stack) /\ stack[f.at].t = "table" /\ f.settable = (i > 1)
      /\ wframes[1].at \in 1 .. Len(stack)
      /\ f.loop > 0 => /\ f.next <= Len(Fields[f.type]) /\ Fields[f.type][f.next].rep
                       /\ stack[f.at + 2].t = "table" BY <1>1 DEF WInv, ToLuaShape
<1>4. /\ i > 1 => stack[f.at - 1] \in Keys
      /\ f.loop > 0 => stack[f.at + 1] \in Keys
      /\ f.at + Waits(f) <= W.at
      /\ i > 1 => wframes[1].at + Waits(wframes[1]) <= f.at BY <1>1 DEF WInv, WOK
<1>5. f.loop \in Nat /\ f.at \in Nat /\ wframes[1].at \in Nat /\ wframes[1].loop \in Nat /\ W.at \in Nat
  BY <1>1, <1>2, FrameToLua DEF WSet
<1>6. /\ Waits(f) >= 2 /\ (f.loop > 0 => Waits(f) = 4) /\ Waits(wframes[1]) >= 2
      /\ Waits(f) \in Nat /\ Waits(wframes[1]) \in Nat BY <1>5 DEF Waits
<1> HIDE DEF f
<1>7. /\ f.at \in 1 .. W.at
      /\ i > 1 => f.at - 1 \in 1 .. W.at
      /\ f.loop > 0 => f.at + 1 \in 1 .. W.at /\ f.at + 2 \in 1 .. W.at
  <2>1. f.at >= 1 /\ wframes[1].at >= 1 BY <1>1, <1>3, <1>5
  <2>2. f.at \in 1 .. W.at BY <2>1, <1>4, <1>5, <1>6
  <2>3. i > 1 => f.at - 1 \in 1 .. W.at BY <2>1, <2>2, <1>4, <1>5, <1>6
  <2>4. f.loop > 0 => f.at + 1 \in 1 .. W.at /\ f.at + 2 \in 1 .. W.at BY <2>1, <1>4, <1>5, <1>6
  <2> QED BY <2>2, <2>3, <2>4
<1>8. /\ stack'[f.at].t = "table"
      /\ i > 1 => stack'[f.at - 1] \in Keys
      /\ f.loop > 0 => stack'[f.at + 1] \in Keys /\ stack'[f.at + 2].t = "table" BY <1>3, <1>4, <1>7
<1> QED BY <1>2, <1>3, <1>7, <1>8 DEF f

\* The next field: the innermost table is on top again.
LEMMA NextShape ==
    ASSUME WInv, wframes # <<>>, wframes' = SetTop(NextField), pb' = pb, old' = old,
           stack' \in Seq(Values(Len(tabs'))), Len(stack') = W.at,
           \A j \in 1 .. W.at : stack'[j] = stack[j]
    PROVE  WOK' /\ ToLuaShape' /\ wframes' # <<>>
<1> DEFINE n == Len(wframes)
<1> DEFINE f == NextField
<1>1. /\ n \in Nat \ {0} /\ W \in WSet /\ W = wframes[n] /\ wframes \in Seq(WSet)
      /\ W.at \in 1 .. Len(stack) /\ Len(stack) \in Nat /\ stack[W.at].t = "table" /\ W.settable = (n > 1)
  BY FrameToLua DEF WInv, WOK
<1>2. /\ f \in WSet /\ f.type = W.type /\ f.obj = W.obj /\ f.at = W.at
      /\ f.settable = W.settable /\ f.loop = 0 BY <1>1, NextFrame
<1>3. wframes' \in Seq(WSet) /\ Len(wframes') = n /\ \A i \in 1 .. n : wframes'[i] = IF i = n THEN f ELSE wframes[i]
  BY <1>1, <1>2, SetTopType
<1> HIDE DEF f
<1>4. wframes'[n] = f /\ \A i \in 1 .. n - 1 : wframes'[i] = wframes[i] BY <1>1, <1>3
<1>5. W.at \in Nat /\ Waits(f) = 2 /\ W.at \in 1 .. W.at BY <1>1, <1>2 DEF Waits, WSet
<1>6. /\ \A i \in 1 .. n : /\ wframes[i].obj # 0 => /\ wframes[i].obj \in 1 .. Len(pb)
                                                    /\ pb[wframes[i].obj].type = wframes[i].type
      /\ n > 1 => stack[W.at - 1] \in Keys
      /\ \A i, j \in 1 .. n : i < j => wframes[i].at + Waits(wframes[i]) <= wframes[j].at
      /\ wframes[1].at = old + 1 BY <1>1 DEF WInv, WOK
<1>7. n > 1 => stack'[W.at - 1] \in Keys
  <2> SUFFICES ASSUME n > 1 PROVE stack'[W.at - 1] \in Keys OBVIOUS
  <2>1. wframes[1].at + Waits(wframes[1]) <= W.at /\ wframes[1] \in WSet /\ wframes[1].at \in 1 .. Len(stack)
    BY <1>1, <1>6 DEF WInv, ToLuaShape
  <2>2. wframes[1].at \in Nat /\ Waits(wframes[1]) \in {2, 4} /\ wframes[1].at >= 1
    BY <2>1, <1>1 DEF WSet, Waits
  <2>3. W.at - 1 \in 1 .. W.at BY <2>1, <2>2, <1>5
  <2> QED BY <2>3, <1>6
<1>8. WOK'
  <2>1. ASSUME NEW i \in 1 .. n
        PROVE  /\ wframes'[i].obj # 0 => /\ wframes'[i].obj \in 1 .. Len(pb')
                                         /\ pb'[wframes'[i].obj].type = wframes'[i].type
               /\ i > 1 => stack'[wframes'[i].at - 1] \in Keys
               /\ wframes'[i].loop > 0 => stack'[wframes'[i].at + 1] \in Keys
    <3>1. CASE i = n BY <3>1, <1>1, <1>2, <1>4, <1>6, <1>7
    <3>2. CASE i # n
      <4>1. i \in 1 .. n - 1 /\ wframes'[i] = wframes[i] BY <3>2, <1>1, <1>4
      <4> QED BY <4>1, <1>6, BelowKept
    <3> QED BY <3>1, <3>2
  <2>2. ASSUME NEW i \in 1 .. n, NEW j \in 1 .. n, i < j
        PROVE  wframes'[i].at + Waits(wframes'[i]) <= wframes'[j].at
    <3>1. i \in 1 .. n - 1 /\ wframes'[i] = wframes[i] /\ wframes'[j].at = wframes[j].at
      BY <2>2, <1>1, <1>2, <1>3
    <3> QED BY <3>1, <2>2, <1>6
  <2>3. wframes'[1].at = old' + 1 BY <1>1, <1>2, <1>3, <1>6
  <2> QED BY <1>3, <2>1, <2>2, <2>3 DEF WOK
<1>9. ToLuaShape'
  <2>1. W' = f BY <1>3, <1>4 DEF W
  <2>2. ASSUME NEW i \in 1 .. n
        PROVE  /\ wframes'[i].at \in 1 .. Len(stack')
               /\ stack'[wframes'[i].at].t = "table"
               /\ wframes'[i].settable = (i > 1)
               /\ wframes'[i].loop > 0 => /\ wframes'[i].next <= Len(Fields[wframes'[i].type])
                                          /\ Fields[wframes'[i].type][wframes'[i].next].rep
                                          /\ stack'[wframes'[i].at + 2].t = "table"
    <3>1. CASE i = n BY <3>1, <1>1, <1>2, <1>4, <1>5
    <3>2. CASE i # n
      <4>1. i \in 1 .. n - 1 /\ wframes'[i] = wframes[i] BY <3>2, <1>1, <1>4
      <4> QED BY <4>1, BelowKept
    <3> QED BY <3>1, <3>2
  <2>3. ASSUME NEW i \in 1 .. n - 1
        PROVE  wframes'[i + 1].at = wframes'[i].at + Waits(wframes'[i])
    BY <1>1, <1>2, <1>3 DEF WInv, ToLuaShape
  <2>4. Len(stack') = W'.at + Waits(W') - 2 BY <2>1, <1>2, <1>5
  <2> QED BY <1>3, <2>2, <2>3, <2>4 DEF ToLuaShape
<1> QED BY <1>1, <1>3, <1>8, <1>9

\* A message within the message: its table comes on top, with its key below.
Pushes(f, T, obj) ==
    /\ f.type = W.type /\ f.obj = W.obj /\ f.at = W.at /\ f.settable = W.settable
    /\ wframes' = Append(SetTop(f), WFrame(T, obj, Len(stack'), TRUE)) /\ pb' = pb /\ old' = old
    /\ obj # 0 => obj \in 1 .. Len(pb) /\ pb[obj].type = T
    /\ stack' \in Seq(Values(Len(tabs'))) /\ Len(stack') = W.at + Waits(f)
    /\ \A j \in 1 .. W.at : stack'[j] = stack[j]
    /\ stack'[Len(stack')].t = "table" /\ stack'[Len(stack') - 1] \in Keys
    /\ f.loop > 0 => /\ f.next <= Len(Fields[f.type]) /\ Fields[f.type][f.next].rep
                     /\ stack'[W.at + 2].t = "table" /\ stack'[W.at + 1] \in Keys

LEMMA PushShape ==
    ASSUME WInv, wframes # <<>>, NEW f \in WSet, NEW T \in Types, NEW obj \in Nat, Pushes(f, T, obj)
    PROVE  WOK' /\ ToLuaShape' /\ wframes' # <<>>
<1> DEFINE n == Len(wframes)
<1> DEFINE g == WFrame(T, obj, Len(stack'), TRUE)
<1>1. /\ n \in Nat \ {0} /\ W \in WSet /\ W = wframes[n] /\ wframes \in Seq(WSet)
      /\ W.at \in 1 .. Len(stack) /\ Len(stack) \in Nat /\ stack[W.at].t = "table" /\ W.settable = (n > 1)
  BY FrameToLua DEF WInv, WOK
<1>2. /\ SetTop(f) \in Seq(WSet) /\ Len(SetTop(f)) = n
      /\ \A i \in 1 .. n : SetTop(f)[i] = IF i = n THEN f ELSE wframes[i] BY <1>1, SetTopType
<1>3. /\ Waits(f) \in {2, 4} /\ W.at \in Nat /\ W.at >= 1 /\ Len(stack') \in Nat
      /\ Len(stack') = W.at + Waits(f)
      /\ f.type = W.type /\ f.obj = W.obj /\ f.at = W.at /\ f.settable = W.settable
      /\ pb' = pb /\ old' = old BY <1>1 DEF Waits, WSet, Pushes
<1>a. /\ obj # 0 => obj \in 1 .. Len(pb) /\ pb[obj].type = T
      /\ \A j \in 1 .. W.at : stack'[j] = stack[j]
      /\ stack'[Len(stack')].t = "table" /\ stack'[Len(stack') - 1] \in Keys
      /\ f.loop > 0 => /\ f.next <= Len(Fields[f.type]) /\ Fields[f.type][f.next].rep
                       /\ stack'[W.at + 2].t = "table" /\ stack'[W.at + 1] \in Keys BY DEF Pushes
<1>4. /\ g \in WSet /\ g.type = T /\ g.obj = obj /\ g.at = Len(stack') /\ g.settable = TRUE
      /\ g.loop = 0 /\ Waits(g) = 2 BY <1>3 DEF WFrame, WSet, Waits
<1> HIDE DEF g
<1>5. /\ wframes' \in Seq(WSet) /\ Len(wframes') = n + 1 /\ wframes'[n + 1] = g
      /\ wframes'[n] = f /\ \A i \in 1 .. n - 1 : wframes'[i] = wframes[i]
  <2>1. wframes' = Append(SetTop(f), g) BY DEF Pushes, g
  <2>2. /\ Append(SetTop(f), g) \in Seq(WSet) /\ Len(Append(SetTop(f), g)) = n + 1
        /\ Append(SetTop(f), g)[n + 1] = g /\ \A i \in 1 .. n : Append(SetTop(f), g)[i] = SetTop(f)[i]
    BY <1>2, <1>4
  <2> QED BY <1>1, <1>2, <2>1, <2>2
<1>6. /\ \A i \in 1 .. n : /\ wframes[i].obj # 0 => /\ wframes[i].obj \in 1 .. Len(pb)
                                                    /\ pb[wframes[i].obj].type = wframes[i].type
      /\ n > 1 => stack[W.at - 1] \in Keys
      /\ \A i, j \in 1 .. n : i < j => wframes[i].at + Waits(wframes[i]) <= wframes[j].at
      /\ wframes[1].at = old + 1 BY <1>1 DEF WInv, WOK
<1>7. n > 1 => stack'[W.at - 1] \in Keys
  <2> SUFFICES ASSUME n > 1 PROVE stack'[W.at - 1] \in Keys OBVIOUS
  <2>1. wframes[1].at + Waits(wframes[1]) <= W.at /\ wframes[1] \in WSet /\ wframes[1].at \in 1 .. Len(stack)
    BY <1>1, <1>6 DEF WInv, ToLuaShape
  <2>2. wframes[1].at \in Nat /\ Waits(wframes[1]) \in {2, 4} /\ wframes[1].at >= 1
    BY <2>1, <1>1 DEF WSet, Waits
  <2>3. W.at - 1 \in 1 .. W.at BY <2>1, <2>2, <1>3
  <2> QED BY <2>3, <1>6, <1>a
<1>8. WOK'
  <2>1. ASSUME NEW i \in 1 .. n + 1
        PROVE  /\ wframes'[i].obj # 0 => /\ wframes'[i].obj \in 1 .. Len(pb')
                                         /\ pb'[wframes'[i].obj].type = wframes'[i].type
               /\ i > 1 => stack'[wframes'[i].at - 1] \in Keys
               /\ wframes'[i].loop > 0 => stack'[wframes'[i].at + 1] \in Keys
    <3>1. CASE i = n + 1 BY <3>1, <1>3, <1>a, <1>4, <1>5
    <3>2. CASE i = n BY <3>2, <1>1, <1>3, <1>a, <1>5, <1>6, <1>7
    <3>3. CASE i # n + 1 /\ i # n
      <4>1. i \in 1 .. n - 1 /\ wframes'[i] = wframes[i] BY <3>3, <1>1, <1>5
      <4> QED BY <4>1, <1>3, <1>a, <1>6, BelowKept
    <3> QED BY <3>1, <3>2, <3>3
  <2>2. ASSUME NEW i \in 1 .. n + 1, NEW j \in 1 .. n + 1, i < j
        PROVE  wframes'[i].at + Waits(wframes'[i]) <= wframes'[j].at
    <3>1. CASE i = n BY <3>1, <2>2, <1>1, <1>3, <1>4, <1>5
    <3>2. CASE i # n
      <4>1. i \in 1 .. n - 1 /\ wframes'[i] = wframes[i] /\ wframes[i] \in WSet
        BY <3>2, <2>2, <1>1, <1>5
      <4>2. wframes[i].at \in Nat /\ Waits(wframes[i]) \in {2, 4} /\ wframes[i].at + Waits(wframes[i]) <= W.at
        <5>1. n \in 1 .. n /\ i \in 1 .. n /\ i < n BY <4>1, <1>1
        <5>2. wframes[i].at + Waits(wframes[i]) <= wframes[n].at BY <5>1, <1>6
        <5> QED BY <4>1, <5>2, <1>1 DEF WSet, Waits
      <4>3. j \in 1 .. n => wframes'[j].at = wframes[j].at BY <1>1, <1>3, <1>5
      <4>4. CASE j = n + 1
        <5>1. wframes'[j].at = W.at + Waits(f) /\ wframes'[i] = wframes[i]
          BY <4>1, <4>4, <1>3, <1>4, <1>5
        <5>2. wframes[i].at + Waits(wframes[i]) <= W.at + Waits(f) BY <4>2, <1>3
        <5> QED BY <5>1, <5>2, Zenon
      <4>5. CASE j # n + 1
        <5>1. i \in 1 .. n /\ j \in 1 .. n BY <4>1, <4>5, <1>1
        <5>2. wframes[i].at + Waits(wframes[i]) <= wframes[j].at BY <5>1, <2>2, <1>6
        <5>3. wframes'[i] = wframes[i] /\ wframes'[j].at = wframes[j].at BY <5>1, <4>1, <4>3
        <5> QED BY <5>2, <5>3, Zenon
      <4> QED BY <4>4, <4>5
    <3> QED BY <3>1, <3>2
  <2>3. wframes'[1].at = old' + 1 BY <1>1, <1>3, <1>5, <1>6
  <2> QED BY <1>5, <2>1, <2>2, <2>3 DEF WOK
<1>9. ToLuaShape'
  <2>1. W' = g BY <1>5 DEF W
  <2>2. ASSUME NEW i \in 1 .. n + 1
        PROVE  /\ wframes'[i].at \in 1 .. Len(stack')
               /\ stack'[wframes'[i].at].t = "table"
               /\ wframes'[i].settable = (i > 1)
               /\ wframes'[i].loop > 0 => /\ wframes'[i].next <= Len(Fields[wframes'[i].type])
                                          /\ Fields[wframes'[i].type][wframes'[i].next].rep
                                          /\ stack'[wframes'[i].at + 2].t = "table"
    <3>1. CASE i = n + 1
      <4>1. wframes'[i].at = Len(stack') /\ wframes'[i].settable = TRUE /\ wframes'[i].loop = 0
        BY <3>1, <1>4, <1>5
      <4>2. i > 1 /\ Len(stack') \in 1 .. Len(stack') BY <3>1, <1>1, <1>3
      <4>3. (i > 1) = TRUE /\ ~(wframes'[i].loop > 0) BY <4>1, <4>2
      <4> QED BY <4>1, <4>2, <4>3, <1>a, Zenon
    <3>2. CASE i = n
      <4>1. wframes'[i] = f /\ W.at \in 1 .. Len(stack') /\ stack'[W.at] = stack[W.at]
        BY <3>2, <1>1, <1>3, <1>a, <1>5
      <4> QED BY <4>1, <3>2, <1>1, <1>3, <1>a
    <3>3. CASE i # n + 1 /\ i # n
      <4>1. i \in 1 .. n - 1 /\ wframes'[i] = wframes[i] BY <3>3, <1>1, <1>5
      <4>2. wframes[i].at \in 1 .. W.at BY <4>1, <1>a, BelowKept
      <4> QED BY <4>1, <4>2, <1>1, <1>3, <1>a, BelowKept
    <3> QED BY <3>1, <3>2, <3>3
  <2>3. ASSUME NEW i \in 1 .. n
        PROVE  wframes'[i + 1].at = wframes'[i].at + Waits(wframes'[i])
    <3>1. CASE i = n BY <3>1, <1>3, <1>4, <1>5
    <3>2. CASE i # n
      <4>1. i \in 1 .. n - 1 /\ wframes[i + 1].at = wframes[i].at + Waits(wframes[i])
        BY <3>2, <1>1 DEF WInv, ToLuaShape
      <4>2. wframes'[i] = wframes[i] /\ wframes'[i + 1].at = wframes[i + 1].at
        BY <4>1, <1>1, <1>3, <1>5
      <4> QED BY <4>1, <4>2
    <3> QED BY <3>1, <3>2
  <2>4. Len(stack') = W'.at + Waits(W') - 2 BY <2>1, <1>3, <1>4
  <2> QED BY <1>1, <1>5, <2>2, <2>3, <2>4 DEF ToLuaShape
<1> QED BY <1>1, <1>5, <1>8, <1>9

\* The innermost message is done, and its table with its key has left the stack.
Pops == /\ W.loop = 0 /\ wframes' = Pop(wframes, 1) /\ pb' = pb /\ old' = old /\ pc' = pc
        /\ W.settable => /\ Len(stack') = W.at - 2
                         /\ \A j \in 1 .. W.at - 2 : stack'[j] = stack[j]
        /\ ~W.settable => stack' = stack

LEMMA PopShape ==
    ASSUME WInv, wframes # <<>>, Pops
    PROVE  WOK' /\ ToLuaShape' /\ Balanced'
<1> DEFINE n == Len(wframes)
<1>1. /\ n \in Nat \ {0} /\ W \in WSet /\ W = wframes[n] /\ wframes \in Seq(WSet)
      /\ W.at \in 1 .. Len(stack) /\ Len(stack) = W.at + Waits(W) - 2 /\ W.settable = (n > 1)
      /\ pc \in {"recv", "create"} BY FrameToLua DEF WInv, WOK
<1>2. wframes' \in Seq(WSet) /\ Len(wframes') = n - 1 /\ \A i \in 1 .. n - 1 : wframes'[i] = wframes[i]
  <2>1. 1 \in 0 .. Len(wframes) /\ wframes' = Pop(wframes, 1) BY <1>1 DEF Pops
  <2> QED BY <1>1, <2>1, PopType
<1>3. W.at \in Nat /\ Waits(W) = 2 /\ Len(stack) = W.at BY <1>1 DEF Waits, WSet, Pops
<1>a. pb' = pb /\ old' = old /\ pc' = pc BY DEF Pops
<1>4. wframes[1].at = old + 1 BY DEF WInv, WOK
<1>5. CASE n = 1
  <2>1. wframes' = <<>> /\ stack' = stack /\ Len(stack) = old + 1
    <3>1. wframes' = <<>> BY <1>2, <1>5
    <3>2. stack' = stack
      <4>1. ~W.settable
        <5>1. ~(n > 1) /\ W.settable = (n > 1) BY <1>1, <1>5
        <5> HIDE DEF n
        <5> QED BY <5>1, Zenon
      <4> QED BY <4>1, Zenon DEF Pops
    <3> QED BY <1>1, <1>3, <1>4, <1>5, <3>1, <3>2
  <2> QED BY <2>1, <1>1, <1>a DEF WOK, ToLuaShape, Balanced
<1>6. CASE n # 1
  <2> DEFINE f == wframes[n - 1]
  <2>1. n > 1 /\ n - 1 \in 1 .. n - 1 /\ wframes' # <<>> /\ W' = f /\ f \in WSet
    BY <1>1, <1>2, <1>6 DEF W
  <2>2. /\ Len(stack') = W.at - 2 /\ \A j \in 1 .. W.at - 2 : stack'[j] = stack[j]
        /\ \A i \in 1 .. n - 1 : wframes[i + 1].at = wframes[i].at + Waits(wframes[i])
        /\ W.at = f.at + Waits(f)
    <3>1. Len(stack') = W.at - 2 /\ \A j \in 1 .. W.at - 2 : stack'[j] = stack[j]
      BY <1>1, <2>1 DEF Pops
    <3>2. \A i \in 1 .. n - 1 : wframes[i + 1].at = wframes[i].at + Waits(wframes[i])
      BY <1>1 DEF WInv, ToLuaShape
    <3>3. wframes[n - 1 + 1] = W BY <1>1
    <3> QED BY <2>1, <3>1, <3>2, <3>3
  <2>3. ASSUME NEW i \in 1 .. n - 1
        PROVE  /\ wframes[i].at \in 1 .. Len(stack') /\ stack'[wframes[i].at].t = "table"
               /\ wframes[i].settable = (i > 1)
               /\ i > 1 => stack'[wframes[i].at - 1] \in Keys
               /\ wframes[i].loop > 0 => /\ stack'[wframes[i].at + 1] \in Keys
                                         /\ stack'[wframes[i].at + 2].t = "table"
                                         /\ wframes[i].next <= Len(Fields[wframes[i].type])
                                         /\ Fields[wframes[i].type][wframes[i].next].rep
               /\ wframes[i].obj # 0 => /\ wframes[i].obj \in 1 .. Len(pb)
                                        /\ pb[wframes[i].obj].type = wframes[i].type
    <3> DEFINE h == wframes[i]
    <3>1. /\ h \in WSet /\ h.at \in 1 .. Len(stack) /\ h.settable = (i > 1) /\ stack[h.at].t = "table"
          /\ h.loop > 0 => /\ h.next <= Len(Fields[h.type]) /\ Fields[h.type][h.next].rep
                           /\ stack[h.at + 2].t = "table"
          /\ wframes[1].at \in 1 .. Len(stack) /\ wframes[1] \in WSet BY <1>1 DEF WInv, ToLuaShape
    <3>2. /\ i > 1 => stack[h.at - 1] \in Keys
          /\ h.loop > 0 => stack[h.at + 1] \in Keys
          /\ h.at + Waits(h) <= W.at
          /\ i > 1 => wframes[1].at + Waits(wframes[1]) <= h.at
          /\ h.obj # 0 => h.obj \in 1 .. Len(pb) /\ pb[h.obj].type = h.type BY <1>1 DEF WInv, WOK
    <3>3. /\ h.loop \in Nat /\ h.at \in Nat /\ wframes[1].at \in Nat
          /\ Waits(h) \in {2, 4} /\ (h.loop > 0 => Waits(h) = 4) /\ Waits(wframes[1]) \in {2, 4}
      BY <3>1 DEF WSet, Waits
    <3> HIDE DEF h
    <3>4. h.at >= 1 /\ wframes[1].at >= 1 /\ h.at \in 1 .. W.at - 2 /\ (i > 1 => h.at - 1 \in 1 .. W.at - 2)
      BY <3>1, <3>2, <3>3, <1>1, <1>3
    <3>5. h.loop > 0 => h.at + 1 \in 1 .. W.at - 2 /\ h.at + 2 \in 1 .. W.at - 2
      BY <3>2, <3>3, <3>4, <1>3
    <3>6. /\ stack'[h.at].t = "table"
          /\ i > 1 => stack'[h.at - 1] \in Keys
          /\ h.loop > 0 => stack'[h.at + 1] \in Keys /\ stack'[h.at + 2].t = "table"
      BY <2>2, <3>1, <3>2, <3>4, <3>5
    <3> QED BY <2>2, <3>1, <3>2, <3>4, <3>6 DEF h
  <2>4. \A i, j \in 1 .. n - 1 : i < j => wframes[i].at + Waits(wframes[i]) <= wframes[j].at
    BY <1>1 DEF WInv, WOK
  <2>5. WOK'
    <3>1. wframes'[1].at = old' + 1 BY <1>1, <1>a, <1>2, <1>4, <2>1
    <3>2. \A i, j \in 1 .. n - 1 : i < j => wframes'[i].at + Waits(wframes'[i]) <= wframes'[j].at
      BY <1>2, <2>4
    <3>3. ASSUME NEW i \in 1 .. n - 1
          PROVE  /\ wframes'[i].obj # 0 => /\ wframes'[i].obj \in 1 .. Len(pb')
                                           /\ pb'[wframes'[i].obj].type = wframes'[i].type
                 /\ i > 1 => stack'[wframes'[i].at - 1] \in Keys
                 /\ wframes'[i].loop > 0 => stack'[wframes'[i].at + 1] \in Keys BY <1>a, <1>2, <2>3
    <3> QED BY <1>2, <3>1, <3>2, <3>3 DEF WOK
  <2>6. ToLuaShape'
    <3>1. ASSUME NEW i \in 1 .. n - 1
          PROVE  /\ wframes'[i].at \in 1 .. Len(stack')
                 /\ stack'[wframes'[i].at].t = "table"
                 /\ wframes'[i].settable = (i > 1)
                 /\ wframes'[i].loop > 0 => /\ wframes'[i].next <= Len(Fields[wframes'[i].type])
                                            /\ Fields[wframes'[i].type][wframes'[i].next].rep
                                            /\ stack'[wframes'[i].at + 2].t = "table" BY <1>2, <2>3
    <3>2. \A i \in 1 .. n - 2 : wframes'[i + 1].at = wframes'[i].at + Waits(wframes'[i])
      BY <1>1, <1>2, <2>2
    <3>3. Len(stack') = W'.at + Waits(W') - 2
      <4>1. f.at \in Nat /\ Waits(f) \in {2, 4} BY <2>1 DEF WSet, Waits
      <4> HIDE DEF f
      <4> QED BY <4>1, <2>1, <2>2
    <3>4. n - 1 - 1 = n - 2 BY <1>1
    <3> QED BY <1>2, <3>1, <3>2, <3>3, <3>4 DEF ToLuaShape
  <2>7. Balanced' BY <2>1, <1>1, <1>a DEF Balanced
  <2> QED BY <2>5, <2>6, <2>7
<1> QED BY <1>5, <1>6

\* What no round of the loop changes.
LEMMA RoundToLua ==
    ASSUME WInv, wframes # <<>>, pb' = pb, UNCHANGED <<toProto, bridge>>,
           Len(tabs') \in Nat, Len(tabs) <= Len(tabs')
    PROVE  PhaseOK' /\ table' \in Values(Len(tabs')) /\ old' = old /\ pc' = pc /\ old' \in Nat
           /\ (wframes' # <<>> => Balanced')
BY FrameToLua, ValuesMono DEF WInv, HeapOK, toProto, bridge, PhaseOK, Before, Balanced

LEMMA WriteScalarKeeps ==
    ASSUME WInv, wframes # <<>>, WriteScalar, UNCHANGED <<toProto, bridge>>
    PROVE  WInv' BY FrameToLua, ValueToLua, ScalarToType, SettableType, NextShape, RoundToLua
   DEF WriteScalar, Waits, WSet, WInv, HeapOK, bridge

LEMMA OpenMessageKeeps ==
    ASSUME WInv, wframes # <<>>, OpenMessage, UNCHANGED <<toProto, bridge>>
    PROVE  WInv'
<1> DEFINE m == Len(tabs)
<1> DEFINE st == stack \o <<Name(WField), Val("table", m + 1)>>
<1>1. /\ W.next <= Len(Fields[W.type]) /\ ~WField.rep /\ WField.kind = "message"
      /\ stack' = st /\ tabs' = Append(tabs, <<>>) /\ pb' = pb
      /\ wframes' = Append(SetTop(NextField), WFrame(WField.sub, WValue, Len(stack'), TRUE))
  BY DEF OpenMessage
<1>2. W.loop = 0 /\ Len(stack) = W.at /\ m \in Nat /\ W \in WSet /\ W.at \in Nat /\ W.at >= 1
  BY <1>1, FrameToLua DEF Waits, WSet
<1>3. tabs \in Seq(Seq(Pairs(m))) /\ stack \in Seq(Values(m)) BY DEF WInv, HeapOK
<1>4. tabs \in Seq(Seq(Pairs(m + 1))) /\ stack \in Seq(Values(m + 1)) /\ m <= m + 1 /\ m + 1 \in Nat
  BY <1>2, <1>3, HeapMono
<1>5. tabs' \in Seq(Seq(Pairs(m + 1))) /\ Len(tabs') = m + 1 BY <1>1, <1>4
<1>6. /\ Name(WField) \in Keys /\ Name(WField) \in Values(m + 1) /\ WField.sub \in Types
      /\ Fits(pb, WField, WValue) \/ WValue = 0 BY <1>1, ValueToLua
<1>7. Val("table", m + 1) \in Values(m + 1) /\ Val("table", m + 1).t = "table"
  BY <1>4, TableValue DEF Val
<1>8. /\ st \in Seq(Values(m + 1)) /\ Len(st) = W.at + 2 /\ st[W.at + 1] = Name(WField)
      /\ st[W.at + 2] = Val("table", m + 1) /\ \A j \in 1 .. W.at : st[j] = stack[j]
  BY <1>2, <1>4, <1>6, <1>7, PushTwo
<1>9. WValue \in Nat /\ (WValue # 0 => WValue \in 1 .. Len(pb) /\ pb[WValue].type = WField.sub)
  BY FrameToLua, RequestsAssumption, <1>1, <1>6 DEF IsHeap, Fits
<1> HIDE DEF st, m
<1>10. Pushes(NextField, WField.sub, WValue)
  BY <1>2, NextFrame, <1>1, <1>5, <1>6, <1>7, <1>8, <1>9 DEF Waits, Pushes, bridge
<1>11. WOK' /\ ToLuaShape' /\ wframes' # <<>> BY <1>2, <1>6, <1>9, <1>10, NextFrame, PushShape
<1>12. PhaseOK' /\ table' \in Values(Len(tabs')) /\ old' \in Nat /\ Balanced'
  BY <1>1, <1>4, <1>5, <1>11, RoundToLua DEF m
<1>13. HeapOK' BY <1>1, <1>5, <1>8, <1>12 DEF HeapOK
<1> QED BY <1>11, <1>12, <1>13 DEF WInv

LEMMA WriteArrayKeeps ==
    ASSUME WInv, wframes # <<>>, WriteArray, UNCHANGED <<toProto, bridge>>
    PROVE  WInv'
<1> DEFINE m == Len(tabs)
<1> DEFINE elements == [i \in 1 .. Len(WValue) |->
                           <<Val("number", i), ScalarTo(WField.kind, WValue[i])>>]
<1> DEFINE heap == Settable(tabs, Top.v, Name(WField), Val("table", m + 1))
<1>1. /\ W.next <= Len(Fields[W.type]) /\ WField.rep /\ W.loop = 0
      /\ WField.kind # "message" \/ WValue = <<>>
      /\ tabs' = Append(heap, elements)
      /\ wframes' = SetTop(NextField) /\ stack' = stack /\ pb' = pb BY DEF WriteArray
<1>2. Len(stack) = W.at /\ m \in Nat BY <1>1, FrameToLua DEF Waits, WSet
<1>3. tabs \in Seq(Seq(Pairs(m + 1))) /\ stack \in Seq(Values(m + 1)) /\ m <= m + 1 /\ m + 1 \in Nat
  BY <1>2, HeapMono DEF WInv, HeapOK
<1>4. /\ WField \in FieldSet /\ Name(WField) \in Keys /\ Len(WValue) \in Nat
      /\ \A j \in 1 .. Len(WValue) : Fits(pb, WField, WValue[j]) BY <1>1, ValueToLua
<1>5. elements \in Seq(Pairs(m + 1))
  <2>1. ASSUME NEW i \in 1 .. Len(WValue) PROVE elements[i] \in Pairs(m + 1)
    BY <1>1, <1>4, <2>1, ScalarToType, PlainValue DEF Pairs
  <2> DEFINE k == Len(WValue)
  <2>2. k \in Nat /\ elements \in [1 .. k -> Pairs(m + 1)] BY <1>4, <2>1
  <2> HIDE DEF k, elements
  <2> QED BY <2>2
<1> HIDE DEF elements
<1>6. Val("table", m + 1) \in Values(m + 1) BY <1>3, TableValue
<1>7. heap \in Seq(Seq(Pairs(m + 1))) /\ Len(heap) = m BY <1>3, <1>4, <1>6, SettableType
<1> HIDE DEF heap
<1>8. tabs' \in Seq(Seq(Pairs(m + 1))) /\ Len(tabs') = m + 1 BY <1>1, <1>5, <1>7
<1> HIDE DEF m
<1>9. WOK' /\ ToLuaShape' /\ wframes' # <<>> BY <1>1, <1>2, <1>3, <1>8, NextShape DEF bridge
<1>10. PhaseOK' /\ table' \in Values(Len(tabs')) /\ old' \in Nat /\ Balanced'
  BY <1>1, <1>3, <1>8, <1>9, RoundToLua DEF m
<1>11. HeapOK' BY <1>1, <1>3, <1>8, <1>10 DEF HeapOK
<1> QED BY <1>9, <1>10, <1>11 DEF WInv

LEMMA ElementFrame ==
    ASSUME W \in WSet
    PROVE  LET f == [W EXCEPT !.loop = @ + 1]
           IN /\ f \in WSet /\ f.type = W.type /\ f.obj = W.obj /\ f.at = W.at /\ f.next = W.next
              /\ f.settable = W.settable /\ f.loop > 0 /\ Waits(f) = 4 BY DEF WSet, Waits

LEMMA OpenElementKeeps ==
    ASSUME WInv, wframes # <<>>, OpenElement, UNCHANGED <<toProto, bridge>>
    PROVE  WInv'
<1> DEFINE m == Len(tabs)
<1> DEFINE k == IF W.loop = 0 THEN 2 ELSE 1
<1> DEFINE f == [W EXCEPT !.loop = @ + 1]
<1> DEFINE obj == WValue[W.loop + 1]
<1> DEFINE key == Val("number", W.loop + 1)
<1> DEFINE new == Val("table", Len(tabs'))
<1> DEFINE open == stack \o Opened
<1>1. /\ W.next <= Len(Fields[W.type]) /\ WField.rep /\ WField.kind = "message"
      /\ W.loop < Len(WValue)
      /\ tabs' = tabs \o [i \in 1 .. k |-> <<>>]
      /\ stack' = stack \o Opened \o <<key, new>> /\ pb' = pb
      /\ wframes' = Append(SetTop(f), WFrame(WField.sub, obj, Len(stack'), TRUE)) BY DEF OpenElement
<1>2. /\ W.loop \in Nat /\ Len(stack) = W.at + Waits(W) - 2 /\ m \in Nat /\ W \in WSet
      /\ W.at \in Nat /\ W.at >= 1 /\ k \in 1 .. 2
      /\ W.loop > 0 => stack[W.at + 2].t = "table" /\ stack[W.at + 1] \in Keys
  BY <1>1, FrameToLua DEF WSet
<1>3. /\ f \in WSet /\ f.type = W.type /\ f.obj = W.obj /\ f.at = W.at /\ f.next = W.next
      /\ f.settable = W.settable /\ f.loop > 0 /\ Waits(f) = 4 BY <1>2, ElementFrame
<1>4. tabs \in Seq(Seq(Pairs(m + k))) /\ stack \in Seq(Values(m + k)) /\ m <= m + k /\ m + k \in Nat
  BY <1>2, HeapMono DEF WInv, HeapOK
<1> HIDE DEF f
<1>5. tabs' \in Seq(Seq(Pairs(m + k))) /\ Len(tabs') = m + k
  <2> DEFINE S == Seq(Pairs(m + k))
  <2> DEFINE e == [i \in 1 .. k |-> <<>>]
  <2>1. <<>> \in S OBVIOUS
  <2>2. e \in [1 .. k -> S] /\ k \in Nat BY <2>1, <1>2
  <2>3. tabs \in Seq(S) /\ tabs' = tabs \o e BY <1>1, <1>4
  <2> HIDE DEF S, e, k
  <2>4. e \in Seq(S) /\ Len(e) = k BY <2>2
  <2>5. tabs \o e \in Seq(S) /\ Len(tabs \o e) = Len(tabs) + Len(e)
    BY <2>3, <2>4, ConcatProperties, Zenon
  <2> QED BY <2>3, <2>4, <2>5 DEF S
<1> HIDE DEF m, k
<1>6. /\ Name(WField) \in Keys /\ Name(WField) \in Values(m + k) /\ WField.sub \in Types
      /\ Len(WValue) \in Nat /\ \A j \in 1 .. Len(WValue) : Fits(pb, WField, WValue[j])
  BY <1>1, ValueToLua
<1>7. obj \in Nat /\ (obj # 0 => obj \in 1 .. Len(pb) /\ pb[obj].type = WField.sub)
  <2>1. IsHeap(pb) BY FrameToLua, RequestsAssumption
  <2>2. DOMAIN pb = 1 .. Len(pb) /\ Len(pb) \in Nat BY <2>1 DEF IsHeap
  <2>3. W.loop + 1 \in 1 .. Len(WValue) BY <1>1, <1>2, <1>6
  <2>4. Fits(pb, WField, obj) BY <2>3, <1>6
  <2> HIDE DEF obj
  <2> QED BY <1>1, <2>2, <2>4 DEF Fits
<1> HIDE DEF obj
<1>8. /\ key \in Keys /\ key \in Values(m + k)
      /\ new \in Values(m + k) /\ new.t = "table"
      /\ Val("table", m + 1) \in Values(m + k) /\ Val("table", m + 1).t = "table"
  BY <1>2, PlainValue, <1>4, <1>5, TableValue DEF Val
<1> HIDE DEF key, new
<1>9. /\ open \in Seq(Values(m + k)) /\ Len(open) = W.at + 2
      /\ open[W.at + 2].t = "table" /\ open[W.at + 1] \in Keys
      /\ \A j \in 1 .. W.at : open[j] = stack[j]
  <2>1. CASE W.loop = 0
    <3>1. Opened = <<Name(WField), Val("table", m + 1)>> /\ Len(stack) = W.at
      BY <2>1, <1>2 DEF Opened, Waits, m
    <3>2. open = stack \o <<Name(WField), Val("table", m + 1)>> BY <3>1
    <3> HIDE DEF open
    <3>3. /\ open \in Seq(Values(m + k)) /\ Len(open) = Len(stack) + 2
          /\ open[Len(stack) + 1] = Name(WField) /\ open[Len(stack) + 2] = Val("table", m + 1)
          /\ \A j \in 1 .. Len(stack) : open[j] = stack[j] BY <3>2, <1>4, <1>6, <1>8, PushTwo
    <3> QED BY <3>1, <3>3, <1>6, <1>8, Zenon
  <2>2. CASE W.loop # 0
    <3>1. Opened = <<>> /\ Len(stack) = W.at + 2 /\ W.loop > 0 BY <2>2, <1>2 DEF Opened, Waits
    <3>2. open = stack BY <3>1, <1>4, ConcatEmptySeq
    <3> HIDE DEF open
    <3> QED BY <3>1, <3>2, <1>2, <1>4
  <2> QED BY <2>1, <2>2
<1>10. /\ stack' \in Seq(Values(m + k)) /\ Len(stack') = W.at + 4
       /\ stack'[W.at + 3] = key /\ stack'[W.at + 4] = new
       /\ stack'[W.at + 2].t = "table" /\ stack'[W.at + 1] \in Keys
       /\ \A j \in 1 .. W.at : stack'[j] = stack[j]
  <2>1. stack' = open \o <<key, new>> BY <1>1
  <2> HIDE DEF open
  <2>2. /\ stack' \in Seq(Values(m + k)) /\ Len(stack') = Len(open) + 2
        /\ stack'[Len(open) + 1] = key /\ stack'[Len(open) + 2] = new
        /\ \A j \in 1 .. Len(open) : stack'[j] = open[j] BY <2>1, <1>8, <1>9, PushTwo
  <2>3. Len(open) + 1 = W.at + 3 /\ Len(open) + 2 = W.at + 4 /\ W.at + 1 \in 1 .. Len(open)
        /\ W.at + 2 \in 1 .. Len(open) /\ \A j \in 1 .. W.at : j \in 1 .. Len(open) BY <1>2, <1>9
  <2> QED BY <2>2, <2>3, <1>9
<1> HIDE DEF open
<1>11. Pushes(f, WField.sub, obj)
  <2>1. W.at + 4 - 1 = W.at + 3 BY <1>2
  <2>2. f.next <= Len(Fields[f.type]) /\ Fields[f.type][f.next].rep BY <1>1, <1>3 DEF WField
  <2>3. stack'[Len(stack')].t = "table" /\ stack'[Len(stack') - 1] \in Keys BY <1>10, <1>8, <1>2
  <2> QED BY <1>1, <1>3, <1>5, <1>7, <1>10, <2>2, <2>3 DEF Pushes, bridge
<1>12. WOK' /\ ToLuaShape' /\ wframes' # <<>> BY <1>3, <1>6, <1>7, <1>11, PushShape
<1>13. PhaseOK' /\ table' \in Values(Len(tabs')) /\ old' \in Nat /\ Balanced'
  BY <1>1, <1>4, <1>5, <1>12, RoundToLua DEF m
<1>14. HeapOK' BY <1>5, <1>10, <1>13 DEF HeapOK
<1> QED BY <1>12, <1>13, <1>14 DEF WInv

LEMMA CloseArrayKeeps ==
    ASSUME WInv, wframes # <<>>, CloseArray, UNCHANGED <<toProto, bridge>>
    PROVE  WInv'
<1> DEFINE m == Len(tabs)
<1>1. /\ W.loop > 0
      /\ tabs' = Settable(tabs, stack[Len(stack) - 2].v, stack[Len(stack) - 1], Top)
      /\ stack' = Pop(stack, 2) /\ wframes' = SetTop(NextField) /\ pb' = pb BY DEF CloseArray
<1>2. /\ Len(stack) = W.at + 2 /\ m \in Nat /\ W.at \in Nat /\ W.at >= 1 /\ Top = stack[W.at + 2]
      /\ stack[W.at + 1] \in Keys BY <1>1, FrameToLua DEF Waits, WSet, Top
<1>3. tabs \in Seq(Seq(Pairs(m))) /\ stack \in Seq(Values(m)) BY DEF WInv, HeapOK
<1>4. Top \in Values(m) /\ stack[Len(stack) - 1] \in Keys BY <1>2, <1>3
<1>5. tabs' \in Seq(Seq(Pairs(m))) /\ Len(tabs') = m BY <1>1, <1>2, <1>3, <1>4, SettableType
<1>6. /\ stack' \in Seq(Values(m)) /\ Len(stack') = W.at
      /\ \A j \in 1 .. W.at : stack'[j] = stack[j]
  <2>1. 2 \in 0 .. Len(stack) /\ Len(stack) - 2 = W.at BY <1>2
  <2>2. /\ Pop(stack, 2) \in Seq(Values(m)) /\ Len(Pop(stack, 2)) = Len(stack) - 2
        /\ \A i \in 1 .. Len(stack) - 2 : Pop(stack, 2)[i] = stack[i] BY <2>1, <1>3, PopType
  <2> QED BY <1>1, <2>1, <2>2
<1> HIDE DEF m
<1>7. WOK' /\ ToLuaShape' /\ wframes' # <<>> BY <1>1, <1>5, <1>6, NextShape DEF bridge
<1>8. PhaseOK' /\ table' \in Values(Len(tabs')) /\ old' \in Nat /\ Balanced'
  BY <1>1, <1>2, <1>5, <1>7, RoundToLua DEF m
<1>9. HeapOK' BY <1>5, <1>6, <1>8 DEF HeapOK
<1> QED BY <1>7, <1>8, <1>9 DEF WInv

LEMMA CloseMessageKeeps ==
    ASSUME WInv, wframes # <<>>, CloseMessage, UNCHANGED <<toProto, bridge>>
    PROVE  WInv'
<1> DEFINE m == Len(tabs)
<1>1. /\ W.next > Len(Fields[W.type]) /\ wframes' = Pop(wframes, 1) /\ pb' = pb
      /\ W.settable =>
            /\ tabs' = Settable(tabs, stack[Len(stack) - 2].v, stack[Len(stack) - 1], Top)
            /\ stack' = Pop(stack, 2)
      /\ ~W.settable => tabs' = tabs /\ stack' = stack BY DEF CloseMessage
<1>2. /\ W \in WSet /\ m \in Nat /\ Len(stack) \in Nat /\ W.at \in 1 .. Len(stack)
      /\ Len(wframes) \in Nat \ {0} /\ W = wframes[Len(wframes)] /\ wframes \in Seq(WSet)
      /\ W.loop > 0 => W.next <= Len(Fields[W.type])
      /\ Len(stack) = W.at + Waits(W) - 2 /\ W.settable = (Len(wframes) > 1)
  BY FrameToLua DEF WInv, WOK
<1>3. W.loop = 0 /\ W.at \in Nat /\ Len(stack) = W.at
  <2>1. W.next \in Nat /\ W.type \in Types /\ W.loop \in Nat /\ W.at \in Nat BY <1>2 DEF WSet
  <2>2. Len(Fields[W.type]) \in Nat BY <2>1, FieldsAssumption
  <2>3. W.loop = 0 BY <1>1, <1>2, <2>1, <2>2
  <2> QED BY <1>2, <2>1, <2>3 DEF Waits
<1>4. tabs \in Seq(Seq(Pairs(m))) /\ stack \in Seq(Values(m)) BY DEF WInv, HeapOK
<1>5. ASSUME W.settable
      PROVE  /\ tabs' \in Seq(Seq(Pairs(m))) /\ Len(tabs') = m
             /\ stack' \in Seq(Values(m)) /\ Len(stack') = W.at - 2
             /\ \A j \in 1 .. W.at - 2 : stack'[j] = stack[j]
  <2>1. Len(wframes) > 1 BY <1>2, <1>5
  <2>2. stack[W.at - 1] \in Keys /\ wframes[1].at + Waits(wframes[1]) <= W.at
    BY <1>2, <2>1 DEF WInv, WOK
  <2>3. wframes[1].at \in Nat /\ wframes[1].at >= 1 /\ Waits(wframes[1]) \in {2, 4}
    BY <1>2, <2>1 DEF WInv, ToLuaShape, WSet, Waits
  <2>4. W.at >= 3 /\ 2 \in 0 .. Len(stack) /\ Len(stack) - 2 = W.at - 2 /\ Len(stack) - 1 = W.at - 1
        /\ Top \in Values(m) BY <1>3, <2>2, <2>3, <1>2, <1>4 DEF Top
  <2>5. /\ Pop(stack, 2) \in Seq(Values(m)) /\ Len(Pop(stack, 2)) = Len(stack) - 2
        /\ \A i \in 1 .. Len(stack) - 2 : Pop(stack, 2)[i] = stack[i] BY <2>4, <1>4, PopType
  <2>6. stack' = Pop(stack, 2) /\ tabs' = Settable(tabs, stack[Len(stack) - 2].v, stack[Len(stack) - 1], Top)
    BY <1>1, <1>5
  <2>7. tabs' \in Seq(Seq(Pairs(m))) /\ Len(tabs') = m BY <2>2, <2>4, <2>6, <1>2, <1>4, SettableType
  <2> QED BY <2>4, <2>5, <2>6, <2>7
<1>6. ASSUME ~W.settable
      PROVE  stack' = stack /\ tabs' = tabs BY <1>1, <1>6
<1>7. tabs' \in Seq(Seq(Pairs(m))) /\ Len(tabs') = m /\ stack' \in Seq(Values(m))
  BY <1>4, <1>5, <1>6
<1> HIDE DEF m
<1>8. Pops BY <1>1, <1>3, <1>5, <1>6 DEF Pops, bridge
<1>9. WOK' /\ ToLuaShape' /\ Balanced' BY <1>8, PopShape
<1>10. PhaseOK' /\ table' \in Values(Len(tabs')) /\ old' \in Nat
  BY <1>1, <1>2, <1>7, RoundToLua DEF m
<1>11. HeapOK' BY <1>7, <1>10 DEF HeapOK
<1> QED BY <1>9, <1>10, <1>11 DEF WInv

LEMMA ToLuaKeeps ==
    ASSUME WInv, ToLuaStep, UNCHANGED <<toProto, bridge>>
    PROVE  WInv'
BY CloseMessageKeeps, WriteScalarKeeps, OpenMessageKeeps, WriteArrayKeeps, OpenElementKeeps, CloseArrayKeeps
   DEF ToLuaStep

----------------------------------------------------------------------------
\* From a table to a message: the frames on a Lua stack st.

\* Two stacks that agree up to the table of a frame.
Agree(st, new, place) ==
    Len(st) \in Nat /\ Len(new) \in Nat /\ place <= Len(new) /\ \A j \in 1 .. place : new[j] = st[j]

\* The frames up to the one at whose table the stacks agree keep their shape.
LEMMA FramesAgree ==
    ASSUME NEW st, NEW fr, FramesOn(st, fr), NEW new, NEW m \in 1 .. Len(fr), Agree(st, new, fr[m].at)
    PROVE  /\ \A i \in 1 .. m : /\ fr[i] \in RSet /\ fr[i].at \in 1 .. fr[m].at
                                /\ fr[i].at \in 1 .. Len(new) /\ new[fr[i].at].t = "table"
           /\ \A i \in 1 .. m - 1 : StackedOn(new, fr[i], fr[i + 1])
<1>1. Len(fr) \in Nat /\ fr \in Seq(RSet) /\ m \in Nat BY DEF FramesOn
<1>2. Len(st) \in Nat /\ Len(new) \in Nat /\ fr[m].at <= Len(new) /\ \A j \in 1 .. fr[m].at : new[j] = st[j]
  BY DEF Agree
<1>3. ASSUME NEW i \in 1 .. m
      PROVE  fr[i] \in RSet /\ fr[i].at \in 1 .. fr[m].at /\ fr[i].at \in Nat
  <2>1. fr[i] \in RSet /\ fr[m] \in RSet /\ fr[i].at \in 1 .. Len(st) /\ i \in 1 .. Len(fr)
    BY <1>1 DEF FramesOn
  <2>2. fr[i].at \in Nat /\ fr[m].at \in Nat /\ fr[i].at >= 1 BY <2>1, <1>2 DEF RSet
  <2>3. fr[i].at <= fr[m].at BY <2>2, <1>1, <2>1 DEF FramesOn
  <2> QED BY <2>1, <2>2, <2>3
<1>4. ASSUME NEW i \in 1 .. m
      PROVE  fr[i].at \in 1 .. Len(new) /\ new[fr[i].at].t = "table"
  <2>1. st[fr[i].at].t = "table" BY <1>1 DEF FramesOn
  <2>2. m \in 1 .. m BY <1>1
  <2>3. fr[m].at \in Nat /\ fr[i].at \in 1 .. fr[m].at BY <1>3, <2>2
  <2>4. fr[i].at \in 1 .. Len(new) /\ new[fr[i].at] = st[fr[i].at] BY <1>2, <2>3
  <2> QED BY <2>1, <2>4
<1>5. ASSUME NEW i \in 1 .. m - 1
      PROVE  StackedOn(new, fr[i], fr[i + 1])
  <2>1. StackedOn(st, fr[i], fr[i + 1]) BY <1>1 DEF FramesOn
  <2>2. fr[i].at \in Nat /\ fr[i].at >= 1 /\ fr[i + 1].at \in 1 .. fr[m].at /\ fr[m].at \in Nat
    <3>1. i \in 1 .. m /\ i + 1 \in 1 .. m /\ m \in 1 .. m BY <1>1
    <3> QED BY <3>1, <1>3 DEF RSet
  <2>3. fr[i + 1].at = fr[i].at + 3 => new[fr[i].at + 2] = st[fr[i].at + 2]
    <3>1. SUFFICES ASSUME fr[i + 1].at = fr[i].at + 3 PROVE fr[i].at + 2 \in 1 .. fr[m].at BY <1>2
    <3> QED BY <3>1, <2>2
  <2> QED BY <2>1, <2>3 DEF StackedOn
<1> QED BY <1>3, <1>4, <1>5

LEMMA FramesKept ==
    ASSUME NEW st, NEW fr, FramesOn(st, fr), Len(fr) > 0, NEW new, Agree(st, new, fr[Len(fr)].at)
    PROVE  FramesOn(new, fr)
<1>1. Len(fr) \in 1 .. Len(fr) /\ fr \in Seq(RSet) BY DEF FramesOn
<1>2. /\ \A i \in 1 .. Len(fr) : fr[i].at \in 1 .. Len(new) /\ new[fr[i].at].t = "table"
      /\ \A i \in 1 .. Len(fr) - 1 : StackedOn(new, fr[i], fr[i + 1]) BY <1>1, FramesAgree
<1> QED BY <1>2 DEF FramesOn

\* The innermost frame may change in what does not matter to the one below.
LEMMA FramesTop ==
    ASSUME NEW st, NEW fr, FramesOn(st, fr), Len(fr) > 0, NEW f \in RSet,
           f.at = fr[Len(fr)].at, f.pops = fr[Len(fr)].pops
    PROVE  LET new == [fr EXCEPT ![Len(fr)] = f]
           IN /\ FramesOn(st, new) /\ Len(new) = Len(fr) /\ new[Len(fr)] = f
              /\ \A i \in 1 .. Len(fr) - 1 : new[i] = fr[i]
<1> DEFINE n == Len(fr)
<1> DEFINE new == [fr EXCEPT ![n] = f]
<1>1. n \in Nat /\ n \in 1 .. n /\ fr \in Seq(RSet) BY DEF FramesOn
<1>2. /\ new \in Seq(RSet) /\ Len(new) = n /\ \A i \in 1 .. n : new[i] = IF i = n THEN f ELSE fr[i]
  BY <1>1
<1> HIDE DEF new
<1>3. \A i \in 1 .. n : new[i].at = fr[i].at /\ new[i].pops = fr[i].pops BY <1>2
<1>4. new[n] = f /\ \A i \in 1 .. n - 1 : new[i] = fr[i] BY <1>1, <1>2
<1>5. \A i \in 1 .. n - 1 : StackedOn(st, new[i], new[i + 1])
  <2> TAKE i \in 1 .. n - 1
  <2>1. StackedOn(st, fr[i], fr[i + 1]) BY DEF FramesOn
  <2>2. new[i] = fr[i] /\ new[i + 1].at = fr[i + 1].at /\ new[i + 1].pops = fr[i + 1].pops
    BY <1>1, <1>3, <1>4
  <2> QED BY <2>1, <2>2 DEF StackedOn
<1>6. \A i \in 1 .. n : new[i].at \in 1 .. Len(st) /\ st[new[i].at].t = "table" BY <1>3 DEF FramesOn
<1>7. \A i, j \in 1 .. n : i < j => new[i].at < new[j].at BY <1>3 DEF FramesOn
<1>8. new[1].at = 1 /\ new[1].pops = 0 BY <1>1, <1>3 DEF FramesOn
<1>9. FramesOn(st, new) BY <1>2, <1>5, <1>6, <1>7, <1>8 DEF FramesOn
<1> QED BY <1>2, <1>4, <1>9 DEF new

LEMMA FramesPush ==
    ASSUME NEW st, NEW fr, FramesOn(st, fr), Len(fr) > 0, NEW new, Agree(st, new, fr[Len(fr)].at),
           NEW g \in RSet, g.at \in 1 .. Len(new), new[g.at].t = "table",
           StackedOn(new, fr[Len(fr)], g)
    PROVE  /\ FramesOn(new, Append(fr, g)) /\ Len(Append(fr, g)) = Len(fr) + 1
           /\ Append(fr, g)[Len(fr) + 1] = g
           /\ \A i \in 1 .. Len(fr) : Append(fr, g)[i] = fr[i]
<1> DEFINE n == Len(fr)
<1> DEFINE a == Append(fr, g)
<1>1. n \in Nat /\ n \in 1 .. n /\ fr \in Seq(RSet) /\ 1 \in 1 .. n BY DEF FramesOn
<1>2. a \in Seq(RSet) /\ Len(a) = n + 1 /\ a[n + 1] = g /\ \A i \in 1 .. n : a[i] = fr[i] BY <1>1
<1> HIDE DEF a
<1>3. /\ \A i \in 1 .. n : /\ fr[i] \in RSet /\ fr[i].at \in 1 .. fr[n].at
                           /\ fr[i].at \in 1 .. Len(new) /\ new[fr[i].at].t = "table"
      /\ \A i \in 1 .. n - 1 : StackedOn(new, fr[i], fr[i + 1]) BY <1>1, FramesAgree
<1>4. g.at > fr[n].at /\ fr[n].at \in Nat /\ g.at \in Nat
  <2>1. fr[n].at \in Nat /\ g.at \in Nat BY <1>1, <1>3 DEF RSet
  <2> QED BY <2>1 DEF StackedOn
<1>5. \A i \in 1 .. n + 1 : a[i].at \in 1 .. Len(new) /\ new[a[i].at].t = "table"
  <2> TAKE i \in 1 .. n + 1
  <2>1. CASE i = n + 1 BY <2>1, <1>2
  <2>2. CASE i # n + 1 BY <2>2, <1>1, <1>2, <1>3
  <2> QED BY <2>1, <2>2
<1>6. \A i \in 1 .. n : StackedOn(new, a[i], a[i + 1])
  <2> TAKE i \in 1 .. n
  <2>1. CASE i = n BY <2>1, <1>1, <1>2
  <2>2. CASE i # n BY <2>2, <1>1, <1>2, <1>3
  <2> QED BY <2>1, <2>2
<1>7. \A i, j \in 1 .. n + 1 : i < j => a[i].at < a[j].at
  <2> SUFFICES ASSUME NEW i \in 1 .. n + 1, NEW j \in 1 .. n + 1, i < j
               PROVE  a[i].at < a[j].at OBVIOUS
  <2>1. i \in 1 .. n /\ a[i] = fr[i] BY <1>1, <1>2
  <2>2. CASE j = n + 1 BY <2>1, <2>2, <1>2, <1>3, <1>4
  <2>3. CASE j # n + 1 BY <2>3, <1>1, <1>2, <2>1 DEF FramesOn
  <2> QED BY <2>2, <2>3
<1>8. a[1].at = 1 /\ a[1].pops = 0 BY <1>1, <1>2 DEF FramesOn
<1>9. FramesOn(new, a) BY <1>1, <1>2, <1>5, <1>6, <1>7, <1>8 DEF FramesOn
<1> QED BY <1>2, <1>9 DEF a

\* The frame g is put above the frames fr.
Above(st, fr, new, g) ==
    /\ FramesOn(st, fr) /\ Len(fr) > 0 /\ Agree(st, new, fr[Len(fr)].at)
    /\ g \in RSet /\ g.at \in 1 .. Len(new) /\ new[g.at].t = "table" /\ StackedOn(new, fr[Len(fr)], g)
More(new, fr, g, more) ==
    FramesOn(new, more) /\ Len(more) = Len(fr) + 1 /\ more[Len(fr) + 1] = g
    /\ \A i \in 1 .. Len(fr) : more[i] = fr[i]

LEMMA FramesPushed ==
    ASSUME NEW st, NEW fr, NEW new, NEW g, Above(st, fr, new, g) PROVE More(new, fr, g, Append(fr, g))
<1>1. FramesOn(new, Append(fr, g)) /\ Len(Append(fr, g)) = Len(fr) + 1 /\ Append(fr, g)[Len(fr) + 1] = g
      /\ \A i \in 1 .. Len(fr) : Append(fr, g)[i] = fr[i] BY FramesPush DEF Above
<1> DEFINE a == Append(fr, g)
<1>2. FramesOn(new, a) /\ Len(a) = Len(fr) + 1 /\ a[Len(fr) + 1] = g /\ \A i \in 1 .. Len(fr) : a[i] = fr[i]
  BY <1>1
<1> HIDE DEF a
<1>3. More(new, fr, g, a) BY <1>2 DEF More
<1> QED BY <1>3 DEF a

LEMMA FramesPop ==
    ASSUME NEW st, NEW fr, FramesOn(st, fr), Len(fr) > 1, NEW new, Agree(st, new, fr[Len(fr) - 1].at)
    PROVE  /\ FramesOn(new, Pop(fr, 1)) /\ Len(Pop(fr, 1)) = Len(fr) - 1
           /\ \A i \in 1 .. Len(fr) - 1 : Pop(fr, 1)[i] = fr[i]
<1> DEFINE n == Len(fr)
<1> DEFINE a == Pop(fr, 1)
<1>1. n \in Nat /\ n - 1 \in 1 .. n /\ fr \in Seq(RSet) /\ 1 \in 1 .. n - 1 /\ 1 \in 0 .. n
  BY DEF FramesOn
<1>2. a \in Seq(RSet) /\ Len(a) = n - 1 /\ \A i \in 1 .. n - 1 : a[i] = fr[i] BY <1>1, PopType
<1> HIDE DEF a
<1>3. /\ \A i \in 1 .. n - 1 : fr[i].at \in 1 .. Len(new) /\ new[fr[i].at].t = "table"
      /\ \A i \in 1 .. n - 1 - 1 : StackedOn(new, fr[i], fr[i + 1])
  <2> DEFINE m == n - 1
  <2>1. m \in 1 .. Len(fr) /\ Agree(st, new, fr[m].at) BY <1>1
  <2> HIDE DEF m
  <2>2. /\ \A i \in 1 .. m : /\ fr[i] \in RSet /\ fr[i].at \in 1 .. fr[m].at
                             /\ fr[i].at \in 1 .. Len(new) /\ new[fr[i].at].t = "table"
        /\ \A i \in 1 .. m - 1 : StackedOn(new, fr[i], fr[i + 1]) BY <2>1, FramesAgree
  <2> QED BY <2>2 DEF m
<1>4. \A i \in 1 .. n - 1 : a[i].at \in 1 .. Len(new) /\ new[a[i].at].t = "table" BY <1>2, <1>3
<1>5. \A i \in 1 .. n - 1 - 1 : StackedOn(new, a[i], a[i + 1])
  <2> TAKE i \in 1 .. n - 1 - 1
  <2>1. i \in 1 .. n - 1 /\ i + 1 \in 1 .. n - 1 BY <1>1
  <2> QED BY <2>1, <1>2, <1>3
<1>6. \A i, j \in 1 .. n - 1 : i < j => a[i].at < a[j].at
  <2> SUFFICES ASSUME NEW i \in 1 .. n - 1, NEW j \in 1 .. n - 1, i < j
               PROVE  a[i].at < a[j].at OBVIOUS
  <2>1. i \in 1 .. n /\ j \in 1 .. n /\ a[i] = fr[i] /\ a[j] = fr[j] BY <1>1, <1>2
  <2>2. fr[i].at < fr[j].at BY <2>1 DEF FramesOn
  <2> QED BY <2>1, <2>2
<1>7. a[1].at = 1 /\ a[1].pops = 0 BY <1>1, <1>2 DEF FramesOn
<1>8. FramesOn(new, a) BY <1>2, <1>4, <1>5, <1>6, <1>7 DEF FramesOn
<1> QED BY <1>2, <1>8 DEF a

\* It is the shape that the runs check.
LEMMA ShapeOfROK == ASSUME HeapOK, ROK PROVE ToProtoShape
<1> SUFFICES ASSUME rframes # <<>> PROVE ToProtoShape BY DEF ToProtoShape
<1>1. FramesOn(stack, rframes) /\ rframes \in Seq(RSet) /\ Len(rframes) \in Nat /\ Len(rframes) > 0
  BY DEF ROK, FramesOn
<1>2. rframes[1].at = 1 /\ rframes[1].pops = 0 BY <1>1 DEF FramesOn
<1>3. \A i \in 1 .. Len(rframes) : rframes[i].at \in 1 .. Len(stack) /\ stack[rframes[i].at].t = "table"
  BY <1>1 DEF FramesOn
<1>4. \A i \in 1 .. Len(rframes) - 1 : Stacked(rframes[i], rframes[i + 1])
  BY <1>1 DEF FramesOn, StackedOn, Stacked
<1>5. ~dead => IF scan = NoScan THEN OnTop ELSE InArray
  <2> SUFFICES ASSUME ~dead PROVE IF scan = NoScan THEN OnTop ELSE InArray OBVIOUS
  <2>1. RoundOn(stack, rframes, scan) BY DEF ROK
  <2>2. CASE scan = NoScan BY <2>1, <2>2 DEF RoundOn, TopOn, OnTop, R, Top
  <2>3. CASE scan # NoScan BY <2>1, <2>3 DEF RoundOn, ArrayOn, InArray
  <2> QED BY <2>2, <2>3
<1> QED BY <1>2, <1>3, <1>4, <1>5 DEF ToProtoShape

----------------------------------------------------------------------------
\* From a table to a message: one round of the loop.

LEMMA HeapAppend ==
    ASSUME NEW heap, Typed(heap), NEW T \in Types
    PROVE  /\ Typed(Append(heap, Default(T))) /\ Len(Append(heap, Default(T))) = Len(heap) + 1
           /\ Len(heap) \in Nat
           /\ \A o \in 1 .. Len(heap) : Append(heap, Default(T))[o].type = heap[o].type
<1>1. PICK V : heap \in Seq([type : Types, val : V]) BY Zenon DEF Typed
<1> DEFINE d == [i \in 1 .. Len(Fields[T]) |-> Unset(Fields[T][i])]
<1> DEFINE U == V \cup {d}
<1>2. Default(T) = [type |-> T, val |-> d] BY DEF Default
<1> HIDE DEF d
<1>3. heap \in Seq([type : Types, val : U]) /\ Default(T) \in [type : Types, val : U]
  <2>1. [type : Types, val : V] \subseteq [type : Types, val : U] OBVIOUS
  <2>2. Default(T) \in [type : Types, val : U] BY <1>2
  <2> QED BY <1>1, <2>1, <2>2, SeqMono
<1> HIDE DEF U
<1>4. /\ Append(heap, Default(T)) \in Seq([type : Types, val : U])
      /\ Len(Append(heap, Default(T))) = Len(heap) + 1 /\ Len(heap) \in Nat
      /\ \A o \in 1 .. Len(heap) : Append(heap, Default(T))[o] = heap[o] BY <1>3, AppendProperties
<1> QED BY <1>4, Zenon DEF Typed

LEMMA HeapAssign ==
    ASSUME NEW heap, Typed(heap), NEW o, NEW d
    PROVE  /\ Typed(SetVal(heap, o, d)) /\ Len(SetVal(heap, o, d)) = Len(heap)
           /\ Len(heap) \in Nat
           /\ \A i \in 1 .. Len(heap) : SetVal(heap, o, d)[i].type = heap[i].type
<1>1. PICK V : heap \in Seq([type : Types, val : V]) BY Zenon DEF Typed
<1> DEFINE U == V \cup {d}
<1> DEFINE new == SetVal(heap, o, d)
<1> DEFINE obj == [heap[o] EXCEPT !.val = d]
<1>2. new = [heap EXCEPT ![o] = obj] BY DEF SetVal
<1> DEFINE S == [type : Types, val : U]
<1>3. obj = [heap[o] EXCEPT !.val = d] OBVIOUS
<1> HIDE DEF new, obj
<1>4. heap \in Seq(S) /\ Len(heap) \in Nat /\ DOMAIN heap = 1 .. Len(heap)
  <2> DEFINE S0 == [type : Types, val : V]
  <2>1. S0 \subseteq S OBVIOUS
  <2>2. heap \in Seq(S0) BY <1>1
  <2> HIDE DEF S, S0
  <2>3. heap \in Seq(S) BY <2>1, <2>2, SeqMono
  <2> QED BY <2>3
<1>5. o \in 1 .. Len(heap) => obj \in S /\ obj.type = heap[o].type
  <2> SUFFICES ASSUME o \in 1 .. Len(heap) PROVE obj \in S /\ obj.type = heap[o].type OBVIOUS
  <2>1. heap[o] \in [type : Types, val : V]
    <3> DEFINE S0 == [type : Types, val : V]
    <3>1. heap \in Seq(S0) BY <1>1
    <3> HIDE DEF S0
    <3>2. heap[o] \in S0 BY <3>1
    <3> QED BY <3>2 DEF S0
  <2> QED BY <1>3, <2>1
<1> HIDE DEF S
<1>6. new = [i \in 1 .. Len(heap) |-> IF i = o THEN obj ELSE heap[i]] BY <1>2, <1>4
<1>7. \A i \in 1 .. Len(heap) : new[i] \in S /\ new[i].type = heap[i].type BY <1>4, <1>5, <1>6
<1>8. new \in [1 .. Len(heap) -> S] BY <1>6, <1>7
<1>9. new \in Seq(S) /\ Len(new) = Len(heap) BY <1>4, <1>8
<1> QED BY <1>4, <1>7, <1>9, Zenon DEF Typed, new, S

\* What no round changes.
LEMMA RoundToProto ==
    ASSUME RInv, pc = "send", UNCHANGED <<toLua, bridge>>, tabs' = tabs
    PROVE  /\ PhaseOK' /\ (stack' \in Seq(Values(Len(tabs))) => HeapOK')
           /\ (rframes' = <<>> => Len(stack') = 1) => Balanced'
BY DEF RInv, PhaseOK, toLua, bridge, Before, HeapOK, Balanced

\* The innermost frame, and the stack without its key.
LEMMA RestFacts ==
    ASSUME RInv, InLoop, ~BadKey, ~dead
    PROVE  /\ Len(rframes) \in Nat /\ Len(rframes) > 0 /\ R = rframes[Len(rframes)] /\ R \in RSet
           /\ FramesOn(stack, rframes) /\ rframes \in Seq(RSet) /\ R.at \in Nat /\ R.at >= 1
           /\ R.obj \in 1 .. Len(pb)
           /\ RTable \in Seq(Pairs(Len(tabs))) /\ Len(tabs) \in Nat
           /\ Rest \in Seq(Values(Len(tabs))) /\ Len(Rest) = R.at
           /\ \A j \in 1 .. R.at : Rest[j] = stack[j]
           /\ Len(stack) \in Nat
<1> DEFINE m == Len(tabs)
<1>1. /\ scan = NoScan /\ rframes # <<>> /\ FramesOn(stack, rframes) /\ rframes \in Seq(RSet)
      /\ RoundOn(stack, rframes, scan)
      /\ tabs \in Seq(Seq(Pairs(m))) /\ stack \in Seq(Values(m)) /\ m \in Nat
  BY DEF RInv, ROK, InLoop, FramesOn, HeapOK
<1>2. /\ Len(rframes) \in Nat /\ Len(rframes) > 0 /\ R = rframes[Len(rframes)] /\ R \in RSet
      /\ Len(rframes) \in 1 .. Len(rframes) BY <1>1 DEF R
<1>3. TopOn(stack, rframes) BY <1>1 DEF RoundOn
<1>4. R.at \in 1 .. Len(stack) /\ stack[R.at].t = "table" /\ R.obj \in 1 .. Len(pb) /\ R.at \in Nat
      /\ Len(stack) \in Nat /\ R.at >= 1 BY <1>1, <1>2 DEF FramesOn, RInv, ROK, RSet
<1>5. RTable \in Seq(Pairs(m))
  <2>1. stack[R.at] \in Values(m) BY <1>1, <1>4
  <2>2. stack[R.at].v \in 1 .. m BY <2>1, <1>4 DEF Values
  <2>3. tabs[stack[R.at].v] \in Seq(Pairs(m))
    <3> DEFINE S == Seq(Pairs(m))
    <3>1. tabs \in Seq(S) /\ stack[R.at].v \in 1 .. Len(tabs) BY <1>1, <2>2
    <3> HIDE DEF S
    <3>2. tabs[stack[R.at].v] \in S BY <3>1
    <3> QED BY <3>2 DEF S
  <2> QED BY <2>3 DEF RTable
<1>6. Len(stack) = R.at + (IF R.fresh THEN 0 ELSE 1)
  BY <1>2, <1>3, <1>5 DEF TopOn, Top, BadKey, Pairs, Keys
<1>7. /\ Rest \in Seq(Values(m)) /\ Len(Rest) = R.at
      /\ \A j \in 1 .. R.at : Rest[j] = stack[j]
  <2>1. CASE R.fresh BY <2>1, <1>4, <1>6, <1>1 DEF Rest
  <2>2. CASE ~R.fresh
    <3>1. Rest = Pop(stack, 1) /\ Len(stack) = R.at + 1 BY <2>2, <1>6 DEF Rest
    <3>2. 1 \in 0 .. Len(stack) /\ Len(stack) - 1 = R.at BY <3>1, <1>4
    <3>3. /\ Pop(stack, 1) \in Seq(Values(m)) /\ Len(Pop(stack, 1)) = Len(stack) - 1
          /\ \A i \in 1 .. Len(stack) - 1 : Pop(stack, 1)[i] = stack[i] BY <3>2, <1>1, PopType
    <3> QED BY <3>1, <3>2, <3>3
  <2> QED BY <2>1, <2>2
<1> QED BY <1>1, <1>2, <1>4, <1>5, <1>7

\* The pair of the round.
LEMMA PairFacts ==
    ASSUME RInv, HasPair, ~dead
    PROVE  InLoop /\ ~BadKey /\ Key \in Keys /\ Key \in Values(Len(tabs)) /\ Value \in Values(Len(tabs))
<1>1. InLoop /\ ~BadKey /\ NextPair <= Len(RTable) BY DEF HasPair
<1>2. RTable \in Seq(Pairs(Len(tabs))) /\ Len(RTable) \in Nat BY <1>1, RestFacts
<1>3. NextPair \in 1 .. Len(RTable)
  <2>1. CASE R.fresh BY <2>1, <1>1, <1>2 DEF NextPair
  <2>2. CASE ~R.fresh
    <3>1. \E i \in 1 .. Len(RTable) : RTable[i][1] = Top BY <2>2, <1>1 DEF BadKey
    <3>2. (CHOOSE i \in 1 .. Len(RTable) : RTable[i][1] = Top) \in 1 .. Len(RTable) BY <3>1
    <3> DEFINE c == CHOOSE i \in 1 .. Len(RTable) : RTable[i][1] = Top
    <3>3. NextPair = 1 + c /\ c \in 1 .. Len(RTable) BY <2>2, <3>2 DEF NextPair
    <3> HIDE DEF c
    <3> QED BY <3>3, <1>1, <1>2
  <2> QED BY <2>1, <2>2
<1>4. RTable[NextPair] \in Pairs(Len(tabs)) BY <1>2, <1>3
<1>5. Key \in Keys /\ Value \in Values(Len(tabs)) BY <1>4 DEF Key, Value, Pairs
<1> QED BY <1>1, <1>5 DEF Keys, Values

LEMMA IteratedFacts ==
    ASSUME FramesOn(stack, rframes), Len(rframes) > 0
    PROVE  /\ FramesOn(stack, Iterated) /\ Len(Iterated) = Len(rframes)
           /\ \A i \in 1 .. Len(rframes) - 1 : Iterated[i] = rframes[i]
           /\ Iterated[Len(rframes)] \in RSet /\ Iterated[Len(rframes)].fresh = FALSE
           /\ Iterated[Len(rframes)].at = R.at /\ Iterated[Len(rframes)].obj = R.obj
<1> DEFINE f == [R EXCEPT !.fresh = FALSE]
<1>1. rframes \in Seq(RSet) /\ Len(rframes) \in 1 .. Len(rframes) /\ R = rframes[Len(rframes)]
  BY DEF FramesOn, R
<1>2. R \in RSet BY <1>1
<1>3. f \in RSet /\ f.at = R.at /\ f.pops = R.pops /\ f.obj = R.obj /\ f.fresh = FALSE
  BY <1>2 DEF RSet
<1>4. Iterated = [rframes EXCEPT ![Len(rframes)] = f] BY DEF Iterated, RSetTop
<1> HIDE DEF f
<1>5. /\ FramesOn(stack, Iterated) /\ Len(Iterated) = Len(rframes) /\ Iterated[Len(rframes)] = f
      /\ \A i \in 1 .. Len(rframes) - 1 : Iterated[i] = rframes[i]
  <2>1. f \in RSet /\ f.at = rframes[Len(rframes)].at /\ f.pops = rframes[Len(rframes)].pops
    BY <1>1, <1>3
  <2> QED BY <2>1, <1>4, FramesTop, Zenon
<1> QED BY <1>3, <1>5

\* A pair is done, and only its key is on the stack.
LEMMA PairDoneShape ==
    ASSUME RInv, HasPair, ~dead, PairDone, pc = "send", UNCHANGED <<toLua, bridge>>,
           tabs' = tabs, scan' = scan, dead' = dead, Typed(pb)', Len(pb') = Len(pb)
    PROVE  RInv'
<1> DEFINE n == Len(rframes)
<1>0. InLoop /\ ~BadKey BY PairFacts
<1>1. /\ n \in Nat /\ n > 0 /\ R = rframes[n] /\ R \in RSet /\ FramesOn(stack, rframes)
      /\ rframes \in Seq(RSet) /\ R.at \in Nat /\ R.at >= 1 /\ R.obj \in 1 .. Len(pb) /\ Len(tabs) \in Nat
      /\ Len(stack) \in Nat
      /\ Rest \in Seq(Values(Len(tabs))) /\ Len(Rest) = R.at /\ \A j \in 1 .. R.at : Rest[j] = stack[j]
  BY <1>0, RestFacts
<1>2. Key \in Values(Len(tabs)) BY PairFacts
<1>3. stack' = Append(Rest, Key) /\ rframes' = Iterated BY DEF PairDone
<1>4. /\ stack' \in Seq(Values(Len(tabs))) /\ Len(stack') = R.at + 1
      /\ \A j \in 1 .. R.at : stack'[j] = stack[j] BY <1>1, <1>2, <1>3, AppendProperties
<1>5. /\ FramesOn(stack, rframes') /\ Len(rframes') = n
      /\ \A i \in 1 .. n - 1 : rframes'[i] = rframes[i]
      /\ rframes'[n] \in RSet /\ rframes'[n].fresh = FALSE
      /\ rframes'[n].at = R.at /\ rframes'[n].obj = R.obj BY <1>1, <1>3, IteratedFacts
<1>6. Agree(stack, stack', R.at) BY <1>1, <1>4 DEF Agree
<1>7. FramesOn(stack', rframes') BY <1>1, <1>5, <1>6, FramesKept
<1>8. scan = NoScan /\ rframes' # <<>> BY <1>0, <1>1, <1>5 DEF InLoop
<1>9. TopOn(stack', rframes') BY <1>4, <1>5 DEF TopOn
<1>10. \A i \in 1 .. n : rframes'[i].obj \in 1 .. Len(pb') BY <1>1, <1>5 DEF RInv, ROK
<1>11. ROK' BY <1>5, <1>7, <1>8, <1>9, <1>10 DEF ROK, RoundOn, RInv
<1>12. PhaseOK' /\ HeapOK' /\ Balanced' BY <1>4, <1>8, RoundToProto
<1>13. FieldOK' BY <1>8 DEF FieldOK
<1> QED BY <1>11, <1>12, <1>13 DEF RInv

LEMMA SkipPairKeeps ==
    ASSUME RInv, SkipPair, ~dead, pc = "send", UNCHANGED <<toLua, bridge>>
    PROVE  RInv'
<1>1. HasPair /\ PairDone /\ tabs' = tabs /\ pb' = pb /\ scan' = scan /\ dead' = dead
  BY DEF SkipPair, SkipDone
<1>2. Typed(pb)' /\ Len(pb') = Len(pb) BY <1>1 DEF RInv, Typed
<1> QED BY <1>1, <1>2, PairDoneShape

\* The process ends: the shape of the frames stays.
LEMMA DiesKeeps ==
    ASSUME RInv, pc = "send", UNCHANGED <<toLua, bridge>>, UNCHANGED <<stack, tabs, pb, rframes, scan>>,
           dead' = TRUE
    PROVE  RInv'
<1>1. ROK' BY DEF RInv, ROK
<1>2. PhaseOK' /\ HeapOK' /\ Balanced'
  <2>1. stack' \in Seq(Values(Len(tabs))) BY DEF RInv, HeapOK
  <2>2. rframes' = <<>> => Len(stack') = 1 BY DEF RInv, Balanced, PhaseOK
  <2> QED BY <2>1, <2>2, RoundToProto
<1>3. Typed(pb)' BY DEF RInv, Typed
<1>4. FieldOK' BY DEF RInv, FieldOK, Owner
<1> QED BY <1>1, <1>2, <1>3, <1>4 DEF RInv

LEMMA SetScalarKeeps ==
    ASSUME RInv, SetScalar, ~dead, pc = "send", UNCHANGED <<toLua, bridge>>
    PROVE  RInv'
<1>1. HasPair /\ tabs' = tabs /\ scan' = scan BY DEF SetScalar
<1>2. CASE dead' = TRUE /\ UNCHANGED <<stack, pb, rframes>> BY <1>1, <1>2, DiesKeeps
<1>3. CASE (\E x \in ScalarOf(RFields[FieldOf(Key)].kind, Value) : pb' = Assign(FieldOf(Key), x))
           /\ PairDone /\ UNCHANGED dead
  <2>1. PICK x : pb' = Assign(FieldOf(Key), x) BY <1>3
  <2>2. pb' = SetVal(pb, R.obj, [pb[R.obj].val EXCEPT ![FieldOf(Key)] = x])
    BY <2>1 DEF Assign, SetVal
  <2>3. Typed(pb') /\ Len(pb') = Len(pb) BY <2>2, HeapAssign DEF RInv
  <2>4. Typed(pb)' BY <2>3 DEF Typed
  <2> QED BY <1>1, <1>3, <2>3, <2>4, PairDoneShape
<1> QED BY <1>2, <1>3 DEF SetScalar

\* A value that belongs to a field: the field is one of the message's.
LEMMA FieldOfType ==
    ASSUME RInv, InLoop, ~BadKey, ~dead, FieldOf(Key) # 0
    PROVE  /\ FieldOf(Key) \in Nat /\ RFields[FieldOf(Key)] \in FieldSet
           /\ FieldOf(Key) \in 1 .. Len(RFields)
           /\ RFields[FieldOf(Key)].sub \in Types
<1>1. Typed(pb) /\ R.obj \in 1 .. Len(pb) BY RestFacts DEF RInv
<1>2. pb[R.obj].type \in Types
  <2>1. PICK V : pb \in Seq([type : Types, val : V]) BY <1>1, Zenon DEF Typed
  <2> DEFINE S == [type : Types, val : V]
  <2>2. pb \in Seq(S) BY <2>1
  <2> HIDE DEF S
  <2>3. pb[R.obj] \in S BY <1>1, <2>2
  <2> QED BY <2>3 DEF S
<1>3. RFields \in Seq(FieldSet) /\ Len(RFields) \in Nat BY <1>2, FieldsAssumption DEF RFields
<1>4. \E i \in 1 .. Len(RFields) : Name(RFields[i]) = Key BY DEF FieldOf
<1>5. FieldOf(Key) \in 1 .. Len(RFields)
  <2> DEFINE c == CHOOSE i \in 1 .. Len(RFields) : Name(RFields[i]) = Key
  <2>1. c \in 1 .. Len(RFields) BY <1>4
  <2>2. FieldOf(Key) = c BY <1>4 DEF FieldOf
  <2> HIDE DEF c
  <2> QED BY <2>1, <2>2
<1>6. RFields[FieldOf(Key)] \in FieldSet BY <1>3, <1>5
<1> QED BY <1>3, <1>5, <1>6 DEF FieldSet

\* Key and value stay on the stack below what comes next.
LEMMA PairPushed ==
    ASSUME RInv, HasPair, ~dead, NEW st, st = Rest \o <<Key, Value>>
    PROVE  /\ st \in Seq(Values(Len(tabs))) /\ Len(st) = R.at + 2
           /\ st[R.at + 1] = Key /\ st[R.at + 2] = Value
           /\ \A j \in 1 .. R.at : st[j] = stack[j]
<1> DEFINE S == Values(Len(tabs))
<1>1. InLoop /\ ~BadKey /\ Key \in S /\ Value \in S BY PairFacts
<1>2. Rest \in Seq(S) /\ Len(Rest) = R.at /\ (\A j \in 1 .. R.at : Rest[j] = stack[j]) /\ R.at \in Nat
  BY <1>1, RestFacts
<1> HIDE DEF S
<1>3. ASSUME NEW s \in Seq(S), NEW a \in S, NEW b \in S, st = s \o <<a, b>>, Len(s) = R.at,
             \A j \in 1 .. R.at : s[j] = stack[j]
      PROVE  /\ st \in Seq(S) /\ Len(st) = R.at + 2 /\ st[R.at + 1] = a /\ st[R.at + 2] = b
             /\ \A j \in 1 .. R.at : st[j] = stack[j]
  <2> DEFINE u == s \o <<a, b>>
  <2>1. /\ u \in Seq(S) /\ Len(u) = Len(s) + 2 /\ u[Len(s) + 1] = a /\ u[Len(s) + 2] = b
        /\ \A j \in 1 .. Len(s) : u[j] = s[j] BY PushTwo
  <2>2. st = u BY <1>3
  <2> HIDE DEF u
  <2> QED BY <1>3, <2>1, <2>2
<1>4. /\ st \in Seq(S) /\ Len(st) = R.at + 2 /\ st[R.at + 1] = Key /\ st[R.at + 2] = Value
      /\ \A j \in 1 .. R.at : st[j] = stack[j] BY <1>1, <1>2, <1>3, Zenon
<1> QED BY <1>4 DEF S

LEMMA FillMessageKeeps ==
    ASSUME RInv, FillMessage, ~dead, pc = "send", UNCHANGED <<toLua, bridge>>
    PROVE  RInv'
<1> DEFINE n == Len(rframes)
<1> DEFINE m == Len(tabs)
<1> DEFINE f == FieldOf(Key)
<1> DEFINE T == RFields[f].sub
<1> DEFINE heap == Assign(f, Len(pb) + 1)
<1> DEFINE g == RFrame(Len(pb'), Len(stack'), 1)
<1>1. /\ HasPair /\ f # 0 /\ Value.t = "table" /\ pb' = Append(heap, Default(T))
      /\ stack' = Rest \o <<Key, Value>> /\ rframes' = Append(Iterated, g)
      /\ tabs' = tabs /\ scan' = scan /\ dead' = dead BY DEF FillMessage
<1>2. InLoop /\ ~BadKey /\ Key \in Values(m) /\ Value \in Values(m) BY <1>1, PairFacts
<1>3. /\ n \in Nat /\ n > 0 /\ R = rframes[n] /\ R \in RSet /\ FramesOn(stack, rframes)
      /\ rframes \in Seq(RSet) /\ R.at \in Nat /\ R.at >= 1 /\ R.obj \in 1 .. Len(pb)
      /\ Len(stack) \in Nat
      /\ Rest \in Seq(Values(m)) /\ Len(Rest) = R.at /\ \A j \in 1 .. R.at : Rest[j] = stack[j]
  BY <1>2, RestFacts
<1>4. f \in Nat /\ T \in Types BY <1>1, <1>2, FieldOfType
<1>5. Typed(pb') /\ Len(pb') = Len(pb) + 1 /\ Len(pb) \in Nat
  <2>1. Typed(pb) BY DEF RInv
  <2>2. heap = SetVal(pb, R.obj, [pb[R.obj].val EXCEPT ![f] = Len(pb) + 1]) BY DEF Assign, SetVal
  <2> HIDE DEF heap, f, T
  <2>3. Typed(heap) /\ Len(heap) = Len(pb) /\ Len(pb) \in Nat BY <2>1, <2>2, HeapAssign
  <2>4. Typed(Append(heap, Default(T))) /\ Len(Append(heap, Default(T))) = Len(heap) + 1
    BY <2>3, <1>4, HeapAppend
  <2> QED BY <1>1, <2>3, <2>4
<1> HIDE DEF heap, f, T, m
<1>6. /\ stack' \in Seq(Values(m)) /\ Len(stack') = R.at + 2
      /\ stack'[R.at + 1] = Key /\ stack'[R.at + 2] = Value
      /\ \A j \in 1 .. R.at : stack'[j] = stack[j] BY <1>1, PairPushed DEF m
<1>7. /\ FramesOn(stack, Iterated) /\ Len(Iterated) = n
      /\ \A i \in 1 .. n - 1 : Iterated[i] = rframes[i]
      /\ Iterated[n] \in RSet /\ Iterated[n].fresh = FALSE
      /\ Iterated[n].at = R.at /\ Iterated[n].obj = R.obj BY <1>3, IteratedFacts
<1>8. g \in RSet /\ g.at = R.at + 2 /\ g.fresh = TRUE /\ g.pops = 1 /\ g.obj = Len(pb')
  BY <1>3, <1>5, <1>6 DEF RFrame, RSet
<1> HIDE DEF g
<1>9. Agree(stack, stack', R.at) /\ g.at \in 1 .. Len(stack') /\ stack'[g.at].t = "table"
  <2>1. Agree(stack, stack', R.at) BY <1>3, <1>6 DEF Agree
  <2>2. g.at = R.at + 2 /\ g.at \in 1 .. Len(stack') /\ stack'[R.at + 2].t = "table"
    BY <1>1, <1>3, <1>6, <1>8
  <2> QED BY <2>1, <2>2, Zenon
<1>10. StackedOn(stack', Iterated[n], g) BY <1>7, <1>8 DEF StackedOn
<1>11. /\ FramesOn(stack', rframes') /\ Len(rframes') = n + 1 /\ rframes'[n + 1] = g
       /\ \A i \in 1 .. n : rframes'[i] = Iterated[i]
  <2>1. Len(Iterated) > 0 /\ Agree(stack, stack', Iterated[Len(Iterated)].at)
        /\ StackedOn(stack', Iterated[Len(Iterated)], g) BY <1>3, <1>7, <1>9, <1>10
  <2>2. Above(stack, Iterated, stack', g) BY <2>1, <1>7, <1>8, <1>9 DEF Above
  <2>3. More(stack', Iterated, g, rframes') BY <2>2, <1>1, FramesPushed, Zenon
  <2> QED BY <2>3, <1>7 DEF More
<1>12. scan = NoScan BY <1>2 DEF InLoop
<1>13. TopOn(stack', rframes') BY <1>6, <1>8, <1>11 DEF TopOn
<1>14. \A i \in 1 .. Len(rframes') : rframes'[i].obj \in 1 .. Len(pb')
  <2>1. \A i \in 1 .. n : Iterated[i].obj \in 1 .. Len(pb)
    <3>1. \A i \in 1 .. n : rframes[i].obj \in 1 .. Len(pb) BY DEF RInv, ROK
    <3>2. \A i \in 1 .. n : Iterated[i].obj = rframes[i].obj BY <1>3, <1>7
    <3> QED BY <3>1, <3>2
  <2> TAKE i \in 1 .. Len(rframes')
  <2>2. CASE i = n + 1 BY <2>2, <1>5, <1>8, <1>11
  <2>3. CASE i # n + 1 BY <2>3, <1>3, <1>11, <2>1, <1>5
  <2> QED BY <2>2, <2>3
<1>15. ROK' BY <1>3, <1>11, <1>1, <1>12, <1>13, <1>14 DEF ROK, RoundOn, RInv
<1>16. PhaseOK' /\ HeapOK' /\ Balanced'
  <2>1. rframes' # <<>> BY <1>3, <1>11
  <2> QED BY <2>1, <1>1, <1>6, RoundToProto DEF m
<1>17. Typed(pb)' BY <1>5 DEF Typed
<1>18. FieldOK' BY <1>1, <1>12 DEF FieldOK
<1> QED BY <1>15, <1>16, <1>17, <1>18 DEF RInv

LEMMA BeginArrayKeeps ==
    ASSUME RInv, BeginArray, ~dead, pc = "send", UNCHANGED <<toLua, bridge>>
    PROVE  RInv'
<1> DEFINE n == Len(rframes)
<1> DEFINE m == Len(tabs)
<1>1. /\ HasPair /\ FieldOf(Key) # 0 /\ Value.t = "table" /\ rframes' = Iterated
      /\ tabs' = tabs /\ pb' = pb /\ dead' = dead BY DEF BeginArray
<1>2. InLoop /\ ~BadKey /\ Key \in Values(m) /\ Value \in Values(m) BY <1>1, PairFacts
<1>3. Typed(pb)' /\ Len(pb') = Len(pb) BY <1>1 DEF RInv, Typed
<1>4. CASE stack' = Append(Rest, Key) /\ UNCHANGED scan
  BY <1>1, <1>3, <1>4, PairDoneShape DEF PairDone
<1>5. ASSUME NEW k \in Lengths(tabs[Value.v]), k # 0,
             stack' = Rest \o <<Key, Value>>,
             scan' = [idx |-> 1, n |-> k, own |-> n, at |-> Len(stack'), field |-> FieldOf(Key)]
      PROVE  RInv'
  <2>1. /\ n \in Nat /\ n > 0 /\ R = rframes[n] /\ R \in RSet /\ FramesOn(stack, rframes)
        /\ rframes \in Seq(RSet) /\ R.at \in Nat /\ R.at >= 1 /\ R.obj \in 1 .. Len(pb)
        /\ Len(stack) \in Nat /\ m \in Nat
        /\ Rest \in Seq(Values(m)) /\ Len(Rest) = R.at /\ \A j \in 1 .. R.at : Rest[j] = stack[j]
    BY <1>2, RestFacts
  <2>2. FieldOf(Key) \in Nat BY <1>1, <1>2, FieldOfType
  <2>3. k \in Nat
    <3>1. Value.v \in 1 .. m BY <1>1, <1>2 DEF Values
    <3>2. Len(tabs[Value.v]) \in Nat
      <4> DEFINE S == Pairs(m)
      <4>1. tabs \in Seq(Seq(S)) BY DEF RInv, HeapOK
      <4> HIDE DEF S
      <4>2. tabs[Value.v] \in Seq(S) BY <4>1, <3>1
      <4> QED BY <4>2
    <3> QED BY <1>5, <3>2 DEF Lengths, Borders
  <2> HIDE DEF m
  <2>4. /\ stack' \in Seq(Values(m)) /\ Len(stack') = R.at + 2
        /\ stack'[R.at + 1] = Key /\ stack'[R.at + 2] = Value
        /\ \A j \in 1 .. R.at : stack'[j] = stack[j] BY <1>1, <1>5, PairPushed DEF m
  <2>5. /\ FramesOn(stack, rframes') /\ Len(rframes') = n
        /\ \A i \in 1 .. n - 1 : rframes'[i] = rframes[i]
        /\ rframes'[n] \in RSet /\ rframes'[n].fresh = FALSE
        /\ rframes'[n].at = R.at /\ rframes'[n].obj = R.obj BY <1>1, <2>1, IteratedFacts
  <2>6. FramesOn(stack', rframes') BY <2>1, <2>4, <2>5, FramesKept DEF Agree
  <2>7. /\ scan' \in ScanSet /\ scan' # NoScan /\ scan'.own = n /\ scan'.at = R.at + 2
        /\ scan'.idx = 1 /\ scan'.n = k BY <1>5, <2>1, <2>2, <2>3, <2>4 DEF ScanSet, NoScan
  <2>8. ArrayOn(stack', rframes', scan')
    <3>1. n \in 1 .. n /\ 1 \in 1 .. k BY <1>5, <2>1, <2>3
    <3>2. \A i \in n + 1 .. n : FALSE BY <2>1
    <3>3. Len(stack') = R.at + 2 + n - n BY <2>1, <2>4
    <3> QED BY <1>1, <2>4, <2>5, <2>7, <3>1, <3>2, <3>3 DEF ArrayOn
  <2>9. ASSUME NEW i \in 1 .. n PROVE rframes'[i].obj \in 1 .. Len(pb')
    <3>1. rframes[i].obj \in 1 .. Len(pb) /\ (i = n \/ i \in 1 .. n - 1) BY <2>1 DEF RInv, ROK
    <3>2. rframes'[i].obj = rframes[i].obj BY <2>1, <2>5, <3>1
    <3> QED BY <1>1, <3>1, <3>2
  <2>10. ROK' BY <2>1, <2>5, <2>7, <2>8, <1>1, <2>6, <2>9 DEF RoundOn, RInv, ROK
  <2>11. PhaseOK' /\ HeapOK' /\ Balanced' BY <2>1, <2>5, <1>1, <2>4, RoundToProto DEF m
  <2>12. FieldOK' BY <1>1, <1>5, <2>5, <2>7, <1>2, FieldOfType DEF Owner, RFields, FieldOK
  <2> QED BY <1>3, <2>10, <2>11, <2>12 DEF RInv
<1> QED BY <1>4, <1>5 DEF BeginArray

----------------------------------------------------------------------------
\* From a table to a message: one element of an array, and the end of a frame.

\* What holds in the middle of an array.
LEMMA ArrayFacts ==
    ASSUME RInv, scan # NoScan, ~dead
    PROVE  /\ Len(rframes) \in Nat /\ Len(rframes) > 0 /\ rframes \in Seq(RSet)
           /\ FramesOn(stack, rframes) /\ ArrayOn(stack, rframes, scan)
           /\ scan.own \in 1 .. Len(rframes) /\ scan \in ScanSet
           /\ stack \in Seq(Values(Len(tabs))) /\ Len(tabs) \in Nat /\ Len(stack) \in Nat
           /\ rframes[scan.own].obj \in 1 .. Len(pb)
           /\ \A i \in 1 .. Len(rframes) : rframes[i].at \in Nat /\ rframes[i].at \in 1 .. Len(stack)
           /\ scan.at \in Nat /\ scan.at = rframes[scan.own].at + 2 /\ scan.at \in 1 .. Len(stack)
           /\ Field.sub \in Types
<1>1. rframes # <<>> /\ FramesOn(stack, rframes) /\ rframes \in Seq(RSet) /\ scan \in ScanSet
  BY DEF RInv, ROK, FramesOn
<1>2. Len(rframes) \in Nat /\ Len(rframes) > 0 BY <1>1
<1>3. ArrayOn(stack, rframes, scan) BY <1>1 DEF RInv, ROK, RoundOn
<1>4. scan.own \in 1 .. Len(rframes) /\ rframes[scan.own].obj \in 1 .. Len(pb)
  BY <1>3 DEF ArrayOn, RInv, ROK
<1>5. stack \in Seq(Values(Len(tabs))) /\ Len(tabs) \in Nat /\ Len(stack) \in Nat
  BY DEF RInv, HeapOK
<1>6. \A i \in 1 .. Len(rframes) : rframes[i].at \in Nat /\ rframes[i].at \in 1 .. Len(stack)
  BY <1>1 DEF FramesOn, RSet
<1>7. scan.at \in Nat /\ scan.at = rframes[scan.own].at + 2 /\ scan.at \in 1 .. Len(stack)
  <2>1. scan.at = rframes[scan.own].at + 2 /\ Len(stack) = scan.at + Len(rframes) - scan.own
    BY <1>3 DEF ArrayOn
  <2>2. rframes[scan.own].at \in Nat BY <1>4, <1>6
  <2>3. scan.own <= Len(rframes) /\ scan.own \in Nat /\ Len(rframes) \in Nat BY <1>4, <1>2
  <2>4. scan.at \in Nat /\ scan.at >= 1 /\ scan.at <= Len(stack) BY <2>1, <2>2, <2>3, <1>5
  <2> QED BY <2>1, <2>4
<1>8. Field.sub \in Types
  <2>1. Owner = pb[rframes[scan.own].obj] /\ scan.field \in 1 .. Len(Fields[Owner.type])
    BY DEF Owner, RInv, FieldOK
  <2>2. Owner.type \in Types
    <3>1. PICK V : pb \in Seq([type : Types, val : V]) BY Zenon DEF RInv, Typed
    <3> DEFINE S == [type : Types, val : V]
    <3>2. pb \in Seq(S) BY <3>1
    <3> HIDE DEF S
    <3>3. pb[rframes[scan.own].obj] \in S BY <1>4, <3>2
    <3> QED BY <2>1, <3>3 DEF S
  <2>3. Fields[Owner.type] \in Seq(FieldSet) BY <2>2, FieldsAssumption
  <2>4. Field \in FieldSet BY <2>1, <2>3 DEF Field
  <2> QED BY <2>4 DEF FieldSet
<1> QED BY <1>1, <1>2, <1>3, <1>4, <1>5, <1>6, <1>7, <1>8

\* The field of the loop stays the same while its messages keep their types.
LEMMA FieldKept ==
    ASSUME RInv, scan # NoScan, ~dead, scan'.own = scan.own, scan'.field = scan.field,
           rframes'[scan.own] = rframes[scan.own],
           \A o \in 1 .. Len(pb) : pb'[o].type = pb[o].type
    PROVE  FieldOK' /\ Field' = Field
<1>1. rframes[scan.own].obj \in 1 .. Len(pb) BY ArrayFacts
<1>2. Owner'.type = Owner.type BY <1>1 DEF Owner
<1>3. scan.field \in 1 .. Len(Fields[Owner.type]) BY DEF RInv, FieldOK
<1> QED BY <1>2, <1>3 DEF FieldOK, Field

\* Adding an element keeps the types of the messages.
LEMMA AddToHeap ==
    ASSUME NEW heap, Typed(heap), NEW x
    PROVE  /\ Typed(AddTo(heap, x)) /\ Len(AddTo(heap, x)) = Len(heap) /\ Len(heap) \in Nat
           /\ \A o \in 1 .. Len(heap) : AddTo(heap, x)[o].type = heap[o].type
<1> DEFINE o == rframes[scan.own].obj
<1> DEFINE d == [heap[o].val EXCEPT ![scan.field] = Append(@, x)]
<1>1. AddTo(heap, x) = SetVal(heap, o, d) BY DEF AddTo, SetVal
<1> HIDE DEF o, d
<1> QED BY <1>1, HeapAssign

\* The next index of the loop.
LEMMA NextIndex ==
    ASSUME RInv, scan # NoScan, ~dead, NextElement, ~Last
    PROVE  /\ scan' \in ScanSet /\ scan' # NoScan
           /\ scan'.own = scan.own /\ scan'.at = scan.at /\ scan'.field = scan.field
           /\ scan'.idx \in 1 .. scan'.n /\ scan'.idx # 1
<1>1. scan \in ScanSet /\ scan.idx \in 1 .. scan.n /\ scan.idx # scan.n
  BY ArrayFacts DEF ArrayOn, Last
<1>2. scan' = [scan EXCEPT !.idx = @ + 1] BY DEF NextElement
<1>3. /\ scan.idx \in Nat /\ scan.n \in Nat /\ scan'.idx = scan.idx + 1 /\ scan'.n = scan.n
      /\ scan' \in ScanSet /\ scan'.own = scan.own /\ scan'.at = scan.at /\ scan'.field = scan.field
  BY <1>1, <1>2 DEF ScanSet
<1>4. NoScan.idx = 0 BY DEF NoScan
<1> QED BY <1>1, <1>3, <1>4

\* The frames stay, and so does the array: the loop goes on.
LEMMA LoopGoesOn ==
    ASSUME RInv, scan # NoScan, ~dead, pc = "send", UNCHANGED <<toLua, bridge>>,
           tabs' = tabs, dead' = dead, rframes' = rframes, stack' = stack, NextElement, ~Last,
           Typed(pb)', Len(pb') = Len(pb), \A o \in 1 .. Len(pb) : pb'[o].type = pb[o].type
    PROVE  RInv'
<1>1. /\ scan' \in ScanSet /\ scan' # NoScan
      /\ scan'.own = scan.own /\ scan'.at = scan.at /\ scan'.field = scan.field
      /\ scan'.idx \in 1 .. scan'.n /\ scan'.idx # 1 BY NextIndex
<1>2. FieldOK' /\ Field' = Field BY <1>1, FieldKept
<1>3. rframes # <<>> /\ FramesOn(stack, rframes) /\ ArrayOn(stack, rframes, scan) BY ArrayFacts
<1>4. ArrayOn(stack, rframes, scan') BY <1>1, <1>3 DEF ArrayOn
<1>5. RoundOn(stack, rframes, scan)' BY <1>1, <1>4 DEF RoundOn
<1>6. Field.kind # "message" => Len(rframes) = scan.own BY <1>3 DEF RInv, ROK
<1>7. ROK' BY <1>1, <1>2, <1>3, <1>5, <1>6 DEF RInv, ROK
<1>8. PhaseOK' /\ HeapOK' /\ Balanced' BY <1>3, RoundToProto DEF RInv, HeapOK
<1> QED BY <1>2, <1>7, <1>8 DEF RInv

\* The loop ends: the innermost frame goes on with the next pair.
LEMMA LoopEnds ==
    ASSUME RInv, scan # NoScan, ~dead, pc = "send", UNCHANGED <<toLua, bridge>>,
           tabs' = tabs, dead' = dead, scan' = NoScan,
           stack' \in Seq(Values(Len(tabs))),
           FramesOn(stack', rframes'), rframes' # <<>>, TopOn(stack', rframes'),
           \A i \in 1 .. Len(rframes') : rframes'[i].obj \in 1 .. Len(pb'), Typed(pb)'
    PROVE  RInv' BY RoundToProto DEF NoScan, ScanSet, RInv, ROK, RoundOn, FieldOK

LEMMA AddScalarKeeps ==
    ASSUME RInv, AddScalar, ~dead, pc = "send", UNCHANGED <<toLua, bridge>>
    PROVE  RInv'
<1>1. scan # NoScan /\ Field.kind # "message" /\ tabs' = tabs /\ rframes' = rframes BY DEF AddScalar
<1>2. CASE dead' = TRUE /\ UNCHANGED <<stack, pb, scan>> BY <1>1, <1>2, DiesKeeps
<1>3. CASE /\ pb' = pb \/ \E x \in ScalarOf(Field.kind, Element) : pb' = AddTo(pb, x)
           /\ stack' = IF Last THEN Pop(stack, 1) ELSE stack
           /\ NextElement /\ dead' = dead
  <2>1. Typed(pb') /\ Len(pb') = Len(pb) /\ \A o \in 1 .. Len(pb) : pb'[o].type = pb[o].type
    BY AddToHeap, <1>3 DEF RInv
  <2>2. Typed(pb)' BY <2>1 DEF Typed
  <2>3. CASE ~Last BY <1>3, <2>3, <1>1, <2>1, <2>2, LoopGoesOn
  <2>4. CASE Last
    <3> DEFINE n == Len(rframes)
    <3> DEFINE r == rframes[n]
    <3>1. stack' = Pop(stack, 1) /\ scan' = NoScan BY <1>3, <2>4 DEF NextElement
    <3>2. /\ n \in Nat /\ n > 0 /\ FramesOn(stack, rframes) /\ ArrayOn(stack, rframes, scan)
          /\ stack \in Seq(Values(Len(tabs))) /\ Len(stack) \in Nat
          /\ r.at \in Nat /\ r.at \in 1 .. Len(stack) BY <1>1, ArrayFacts
    <3>3. n = scan.own /\ rframes # <<>> BY <1>1, <3>2 DEF RInv, ROK
    <3>4. ~r.fresh /\ Len(stack) = r.at + 2 BY <3>2, <3>3 DEF ArrayOn
    <3>5. /\ stack' \in Seq(Values(Len(tabs))) /\ Len(stack') = r.at + 1
          /\ \A i \in 1 .. r.at + 1 : stack'[i] = stack[i]
      <4>1. 1 \in 0 .. Len(stack) /\ Len(stack) - 1 = r.at + 1 BY <3>2, <3>4
      <4>2. /\ Pop(stack, 1) \in Seq(Values(Len(tabs))) /\ Len(Pop(stack, 1)) = Len(stack) - 1
            /\ \A i \in 1 .. Len(stack) - 1 : Pop(stack, 1)[i] = stack[i] BY <3>2, <4>1, PopType
      <4> QED BY <3>1, <4>1, <4>2
    <3>6. FramesOn(stack', rframes)
      <4>1. Agree(stack, stack', r.at) BY <3>2, <3>5 DEF Agree
      <4> QED BY <4>1, <3>2, FramesKept
    <3>7. TopOn(stack', rframes) BY <3>4, <3>5 DEF TopOn
    <3>8. \A i \in 1 .. Len(rframes) : rframes[i].obj \in 1 .. Len(pb') BY <2>1 DEF RInv, ROK
    <3> QED BY <1>1, <1>3, <2>2, <3>1, <3>3, <3>5, <3>6, <3>7, <3>8, LoopEnds
  <2> QED BY <2>3, <2>4
<1> QED BY <1>2, <1>3 DEF AddScalar

\* What lua_rawgeti gives is a value of the script.
LEMMA GetType ==
    ASSUME NEW m \in Nat, NEW pairs \in Seq(Pairs(m)), NEW key
    PROVE  Get(pairs, key) \in Values(m)
<1>1. CASE \E i \in 1 .. Len(pairs) : pairs[i][1] = key
  <2> DEFINE c == CHOOSE i \in 1 .. Len(pairs) : pairs[i][1] = key
  <2>1. c \in 1 .. Len(pairs) BY <1>1
  <2>2. Get(pairs, key) = pairs[c][2] BY <1>1 DEF Get
  <2> HIDE DEF c
  <2>3. pairs[c] \in Pairs(m) BY <2>1
  <2> QED BY <2>2, <2>3 DEF Pairs
<1>2. CASE ~\E i \in 1 .. Len(pairs) : pairs[i][1] = key BY <1>2, PlainValue DEF Get, LuaNil
<1> QED BY <1>1, <1>2

LEMMA ElementType ==
    ASSUME RInv, scan # NoScan, ~dead
    PROVE  Element \in Values(Len(tabs))
<1> DEFINE m == Len(tabs)
<1>1. stack \in Seq(Values(m)) /\ m \in Nat /\ scan.at \in 1 .. Len(stack) /\ stack[scan.at].t = "table"
  BY ArrayFacts DEF ArrayOn
<1>2. stack[scan.at].v \in 1 .. m BY <1>1 DEF Values
<1>3. tabs[stack[scan.at].v] \in Seq(Pairs(m))
  <2> DEFINE S == Seq(Pairs(m))
  <2>1. tabs \in Seq(S) BY DEF RInv, HeapOK
  <2> HIDE DEF S
  <2>2. tabs[stack[scan.at].v] \in S BY <1>2, <2>1
  <2> QED BY <2>2 DEF S
<1> HIDE DEF m
<1>4. Element \in Values(m) BY <1>1, <1>3, GetType DEF Element
<1> QED BY <1>4 DEF m

LEMMA NextPlace ==
    ASSUME NEW a \in Nat, NEW b \in Nat, NEW c \in Nat, NEW l, l = a + b - c PROVE l + 1 = a + (b + 1) - c
  OBVIOUS

FrameIs(g, obj, place, pops) ==
    g \in RSet /\ g.at = place /\ g.fresh = TRUE /\ g.obj = obj /\ g.pops = pops

LEMMA RFrameType ==
    ASSUME NEW obj, NEW place, NEW pops, obj \in Nat, place \in Nat, pops \in {1, 2}
    PROVE  FrameIs(RFrame(obj, place, pops), obj, place, pops) BY DEF RFrame, RSet, FrameIs

LEMMA AddMessageKeeps ==
    ASSUME RInv, AddMessage, ~dead, pc = "send", UNCHANGED <<toLua, bridge>>
    PROVE  RInv'
<1> DEFINE n == Len(rframes)
<1> DEFINE m == Len(tabs)
<1>1. /\ scan # NoScan /\ Field.kind = "message" /\ tabs' = tabs /\ dead' = dead /\ NextElement
  BY DEF AddMessage
<1>2. /\ n \in Nat /\ n > 0 /\ rframes \in Seq(RSet) /\ FramesOn(stack, rframes)
      /\ ArrayOn(stack, rframes, scan) /\ scan.own \in 1 .. n /\ scan \in ScanSet
      /\ stack \in Seq(Values(m)) /\ m \in Nat /\ Len(stack) \in Nat
      /\ rframes[n].at \in Nat /\ rframes[n].at \in 1 .. Len(stack)
      /\ scan.at \in Nat /\ scan.at = rframes[scan.own].at + 2 /\ scan.at \in 1 .. Len(stack)
      /\ Field.sub \in Types BY <1>1, ArrayFacts
<1>3. /\ ~rframes[scan.own].fresh /\ stack[scan.at].t = "table"
      /\ \A i \in scan.own + 1 .. n : rframes[i].fresh /\ rframes[i].at = scan.at + i - scan.own
      /\ Len(stack) = scan.at + n - scan.own
      /\ scan.idx = 1 => n = scan.own BY <1>2 DEF ArrayOn
<1>4. \/ n = scan.own /\ ~rframes[n].fresh /\ Len(stack) = rframes[n].at + 2
         /\ stack[rframes[n].at + 2].t = "table"
      \/ n # scan.own /\ rframes[n].fresh /\ Len(stack) = rframes[n].at /\ scan.idx # 1
  <2>1. CASE n = scan.own BY <2>1, <1>2, <1>3
  <2>2. CASE n # scan.own BY <2>2, <1>2, <1>3
  <2> QED BY <2>1, <2>2
<1>5. Last => scan' = NoScan BY <1>1 DEF NextElement
<1>6. \A i \in 1 .. n : rframes[i].obj \in 1 .. Len(pb) BY DEF RInv, ROK
<1>7. CASE UNCHANGED <<pb, stack, rframes>>
  <2>1. Typed(pb)' /\ Len(pb') = Len(pb) /\ \A o \in 1 .. Len(pb) : pb'[o].type = pb[o].type
    BY <1>7 DEF RInv, Typed
  <2>2. CASE ~Last BY <1>1, <1>7, <2>1, <2>2, LoopGoesOn
  <2>3. CASE Last
    <3>1. TopOn(stack, rframes) BY <1>4 DEF TopOn
    <3> QED BY <1>1, <1>2, <1>5, <1>6, <1>7, <2>1, <2>3, <3>1, LoopEnds DEF m
  <2> QED BY <2>2, <2>3
<1>8. CASE /\ Element.t = "table"
           /\ pb' = Append(AddTo(pb, Len(pb) + 1), Default(Field.sub))
           /\ stack' = Append(stack, Element)
           /\ rframes' = Append(rframes, RFrame(Len(pb'), Len(stack'), PopsOf(scan.idx)))
  <2> DEFINE heap == AddTo(pb, Len(pb) + 1)
  <2> DEFINE g == RFrame(Len(pb'), Len(stack'), PopsOf(scan.idx))
  <2>1. /\ Typed(pb') /\ Len(pb') = Len(pb) + 1 /\ Len(pb) \in Nat
        /\ \A o \in 1 .. Len(pb) : pb'[o].type = pb[o].type
    <3>1. Typed(pb) BY DEF RInv
    <3>2. Typed(heap) /\ Len(heap) = Len(pb) /\ Len(pb) \in Nat /\ \A o \in 1 .. Len(pb) : heap[o].type = pb[o].type
      BY <3>1, AddToHeap
    <3> HIDE DEF heap
    <3>3. /\ Typed(Append(heap, Default(Field.sub)))
          /\ Len(Append(heap, Default(Field.sub))) = Len(heap) + 1
          /\ \A o \in 1 .. Len(heap) : Append(heap, Default(Field.sub))[o].type = heap[o].type
      BY <1>2, <3>2, HeapAppend
    <3>4. pb' = Append(heap, Default(Field.sub)) BY <1>8 DEF heap
    <3> QED BY <3>2, <3>3, <3>4
  <2>2. /\ stack' \in Seq(Values(m)) /\ Len(stack') = Len(stack) + 1
        /\ stack'[Len(stack) + 1] = Element /\ \A j \in 1 .. Len(stack) : stack'[j] = stack[j]
    <3>1. Element \in Values(m) BY <1>1, ElementType
    <3> HIDE DEF m
    <3> QED BY <3>1, <1>2, <1>8, AppendProperties
  <2>3. /\ g \in RSet /\ g.at = Len(stack) + 1 /\ g.fresh = TRUE /\ g.obj = Len(pb')
        /\ g.pops \in {1, 2} /\ (scan.idx # 1 => g.pops = 1)
    <3>2. PopsOf(scan.idx) \in {1, 2} /\ (scan.idx # 1 => PopsOf(scan.idx) = 1) BY DEF PopsOf
    <3>3. Len(pb') \in Nat /\ Len(stack') \in Nat /\ Len(stack') = Len(stack) + 1
      BY <1>2, <2>1, <2>2
    <3>4. /\ g \in RSet /\ g.at = Len(stack') /\ g.fresh = TRUE /\ g.obj = Len(pb')
          /\ g.pops = PopsOf(scan.idx)
      <4>1. FrameIs(RFrame(Len(pb'), Len(stack'), PopsOf(scan.idx)), Len(pb'), Len(stack'), PopsOf(scan.idx))
        BY <3>2, <3>3, RFrameType, Zenon
      <4>2. FrameIs(g, Len(pb'), Len(stack'), PopsOf(scan.idx)) BY <4>1
      <4> HIDE DEF g
      <4> QED BY <4>2 DEF FrameIs
    <3> HIDE DEF g
    <3> QED BY <3>2, <3>3, <3>4
  <2>4. rframes' = Append(rframes, g) BY <1>8
  <2> HIDE DEF heap, g, m
  <2>a. /\ scan.own \in Nat /\ scan.at \in Nat /\ n \in Nat /\ Len(stack) \in Nat /\ rframes[n].at \in Nat
        /\ scan.own <= n /\ rframes[n].at >= 1
        /\ Len(stack) = scan.at + n - scan.own BY <1>2, <1>3
  <2>5. StackedOn(stack', rframes[n], g)
    <3>1. CASE n = scan.own
      <4>0. ~rframes[n].fresh /\ Len(stack) = rframes[n].at + 2 /\ stack[rframes[n].at + 2].t = "table"
        BY <3>1, <1>4
      <4>1. g.at = rframes[n].at + 3 /\ ~rframes[n].fresh /\ stack[rframes[n].at + 2].t = "table"
            /\ rframes[n].at + 2 \in 1 .. Len(stack) BY <4>0, <2>3, <2>a
      <4>2. stack'[rframes[n].at + 2].t = "table" BY <4>1, <2>2
      <4> QED BY <4>1, <4>2, <2>3 DEF StackedOn
    <3>2. CASE n # scan.own BY <3>2, <1>2, <1>4, <2>3 DEF StackedOn
    <3> QED BY <3>1, <3>2
  <2>6. Agree(stack, stack', rframes[n].at) BY <1>2, <2>2 DEF Agree
  <2>7. g.at \in 1 .. Len(stack') /\ stack'[g.at].t = "table" BY <1>2, <2>2, <2>3, <1>8
  <2>8. Above(stack, rframes, stack', g) BY <1>2, <2>3, <2>5, <2>6, <2>7 DEF Above
  <2>9. More(stack', rframes, g, rframes') BY <2>8, <2>4, FramesPushed, Zenon
  <2>10. /\ FramesOn(stack', rframes') /\ Len(rframes') = n + 1 /\ rframes'[n + 1] = g
         /\ \A i \in 1 .. n : rframes'[i] = rframes[i] BY <2>9 DEF More
  <2>11. \A i \in 1 .. Len(rframes') : rframes'[i].obj \in 1 .. Len(pb')
    <3> TAKE i \in 1 .. Len(rframes')
    <3>1. CASE i = n + 1 BY <3>1, <2>1, <2>3, <2>10
    <3>2. CASE i # n + 1
      <4>1. i \in 1 .. n /\ rframes'[i] = rframes[i] BY <3>2, <1>2, <2>10
      <4> QED BY <4>1, <1>6, <2>1
    <3> QED BY <3>1, <3>2
  <2>12. Typed(pb)' BY <2>1 DEF Typed
  <2>13. rframes' # <<>> BY <1>2, <2>10
  <2>14. CASE Last
    <3>1. TopOn(stack', rframes') BY <2>2, <2>3, <2>10 DEF TopOn
    <3> QED BY <1>1, <1>5, <2>2, <2>10, <2>11, <2>12, <2>13, <2>14, <3>1, LoopEnds DEF m
  <2>15. CASE ~Last
    <3>1. /\ scan' \in ScanSet /\ scan' # NoScan
          /\ scan'.own = scan.own /\ scan'.at = scan.at /\ scan'.field = scan.field
          /\ scan'.idx \in 1 .. scan'.n /\ scan'.idx # 1 BY <1>1, <2>15, NextIndex
    <3>2. rframes'[scan.own] = rframes[scan.own] BY <1>2, <2>10
    <3>3. FieldOK' /\ Field' = Field BY <1>1, <2>1, <3>1, <3>2, FieldKept
    <3>4. stack'[scan.at].t = "table" BY <1>2, <1>3, <2>2
    <3>5. \A i \in scan.own + 1 .. n + 1 : rframes'[i].fresh /\ rframes'[i].at = scan.at + i - scan.own
      <4> TAKE i \in scan.own + 1 .. n + 1
      <4>1. CASE i = n + 1
        <5>1. rframes'[i] = g /\ g.at = Len(stack) + 1 /\ g.fresh BY <4>1, <2>3, <2>10
        <5>2. Len(stack) + 1 = scan.at + i - scan.own
          <6>1. scan.at \in Nat /\ n \in Nat /\ scan.own \in Nat /\ Len(stack) = scan.at + n - scan.own
            BY <2>a
          <6>2. Len(stack) + 1 = scan.at + (n + 1) - scan.own BY <6>1, NextPlace
          <6> QED BY <4>1, <6>2
        <5> QED BY <5>1, <5>2
      <4>2. CASE i # n + 1
        <5>1. i \in scan.own + 1 .. n /\ i \in 1 .. n BY <4>2, <1>2
        <5> QED BY <5>1, <1>3, <2>10
      <4> QED BY <4>1, <4>2
    <3>6. Len(stack') = scan.at + (n + 1) - scan.own BY <2>a, <2>2
    <3>7. scan.own \in 1 .. n + 1 BY <1>2
    <3>8. ArrayOn(stack', rframes', scan')
      BY <1>2, <1>3, <2>10, <3>1, <3>2, <3>4, <3>5, <3>6, <3>7 DEF ArrayOn
    <3>9. ROK' BY <3>1, <3>8, <1>1, <2>10, <2>11, <2>13, <3>3 DEF RoundOn, RInv, ROK
    <3>10. PhaseOK' /\ HeapOK' /\ Balanced' BY <1>1, <2>2, <2>13, RoundToProto DEF m
    <3> QED BY <2>12, <3>3, <3>9, <3>10 DEF RInv
  <2> QED BY <2>14, <2>15
<1> QED BY <1>7, <1>8 DEF AddMessage

LEMMA EndFrameKeeps ==
    ASSUME RInv, EndFrame, ~dead, pc = "send", UNCHANGED <<toLua, bridge>>
    PROVE  RInv'
<1> DEFINE n == Len(rframes)
<1> DEFINE m == Len(tabs)
<1>1. /\ InLoop /\ ~BadKey /\ stack' = Pop(Rest, R.pops) /\ rframes' = Pop(rframes, 1)
      /\ tabs' = tabs /\ pb' = pb /\ scan' = scan /\ dead' = dead /\ scan = NoScan
  BY DEF EndFrame, InLoop
<1>2. /\ n \in Nat /\ n > 0 /\ R = rframes[n] /\ R \in RSet /\ FramesOn(stack, rframes)
      /\ rframes \in Seq(RSet) /\ R.at \in Nat /\ R.at >= 1 /\ m \in Nat
      /\ Len(stack) \in Nat
      /\ Rest \in Seq(Values(m)) /\ Len(Rest) = R.at /\ \A j \in 1 .. R.at : Rest[j] = stack[j]
  BY <1>1, RestFacts
<1> HIDE DEF m
<1>3. ASSUME NEW k \in Nat, R.pops = k, k <= R.at
      PROVE  /\ stack' \in Seq(Values(m)) /\ Len(stack') = R.at - k
             /\ \A j \in 1 .. R.at - k : stack'[j] = stack[j]
  <2>1. k \in 0 .. Len(Rest) BY <1>2, <1>3
  <2>2. /\ Pop(Rest, k) \in Seq(Values(m)) /\ Len(Pop(Rest, k)) = Len(Rest) - k
        /\ \A i \in 1 .. Len(Rest) - k : Pop(Rest, k)[i] = Rest[i] BY <1>2, <2>1, PopType
  <2>3. stack' = Pop(Rest, k) BY <1>1, <1>3
  <2>4. Len(Rest) = R.at /\ R.at \in Nat /\ \A j \in 1 .. R.at : Rest[j] = stack[j] BY <1>2
  <2>5. \A j \in 1 .. R.at - k : j \in 1 .. R.at BY <1>3, <2>4
  <2> DEFINE new == Pop(Rest, k)
  <2> HIDE DEF new
  <2>6. /\ new \in Seq(Values(m)) /\ Len(new) = R.at - k
        /\ \A j \in 1 .. R.at - k : new[j] = stack[j] BY <2>2, <2>4, <2>5 DEF new
  <2> QED BY <2>3, <2>6 DEF new
<1>4. Typed(pb)' /\ FieldOK' BY <1>1 DEF RInv, Typed, FieldOK
<1>5. CASE n = 1
  <2>1. R.at = 1 /\ R.pops = 0 BY <1>2, <1>5 DEF FramesOn
  <2>2. stack' \in Seq(Values(m)) /\ Len(stack') = 1
    <3>1. 0 \in Nat /\ R.pops = 0 /\ 0 <= R.at /\ 1 - 0 = 1 BY <2>1
    <3>2. stack' \in Seq(Values(m)) /\ Len(stack') = R.at - 0 BY <3>1, <1>3
    <3> QED BY <2>1, <3>1, <3>2
  <2>3. rframes' = <<>>
    <3>1. 1 \in 0 .. n /\ Len(rframes) - 1 = 0 BY <1>2, <1>5
    <3>2. Pop(rframes, 1) \in Seq(RSet) /\ Len(Pop(rframes, 1)) = 0 BY <1>2, <3>1, PopType
    <3> QED BY <1>1, <3>2
  <2>4. FramesOn(stack', rframes') BY <2>3 DEF FramesOn
  <2>5. ROK' BY <1>1, <2>3, <2>4 DEF NoScan, ScanSet, RInv, ROK
  <2>6. PhaseOK' /\ HeapOK' /\ Balanced' BY <1>1, <2>2, RoundToProto DEF m
  <2> QED BY <1>4, <2>5, <2>6 DEF RInv
<1>6. CASE n # 1
  <2> DEFINE f == rframes[n - 1]
  <2>1. n - 1 \in 1 .. n /\ n - 1 \in 1 .. n - 1 /\ n - 1 + 1 = n /\ n > 1
    <3>1. n \in Nat /\ n > 0 /\ n # 1 BY <1>2, <1>6
    <3> HIDE DEF n
    <3> QED BY <3>1
  <2>2. StackedOn(stack, f, R) BY <1>2, <2>1 DEF FramesOn
  <2>3. f \in RSet /\ f.at \in Nat /\ f.at >= 1 /\ f.fresh \in BOOLEAN
    <3>1. f \in RSet /\ f.at \in 1 .. Len(stack) BY <1>2, <2>1 DEF FramesOn
    <3> QED BY <3>1 DEF RSet
  <2> HIDE DEF f
  <2>4. /\ stack' \in Seq(Values(m)) /\ f.at <= Len(stack') /\ Len(stack') \in Nat
        /\ \A j \in 1 .. f.at : stack'[j] = stack[j]
        /\ \/ Len(stack') = f.at + (IF f.fresh THEN 0 ELSE 1)
           \/ ~f.fresh /\ Len(stack') = f.at + 2 /\ stack'[f.at + 2].t = "table"
    <3>1. CASE f.fresh /\ R.at = f.at + 1 /\ R.pops = 1 BY <3>1, <1>2, <1>3, <2>3
    <3>2. CASE ~f.fresh /\ R.at = f.at + 2 /\ R.pops = 1 BY <3>2, <1>2, <1>3, <2>3
    <3>3. CASE ~f.fresh /\ R.at = f.at + 3 /\ stack[f.at + 2].t = "table" /\ R.pops \in {1, 2}
      <4>1. /\ stack' \in Seq(Values(m)) /\ Len(stack') = R.at - R.pops
            /\ \A j \in 1 .. R.at - R.pops : stack'[j] = stack[j] BY <3>3, <2>3, <1>3
      <4>2. CASE R.pops = 1 BY <4>1, <4>2, <3>3, <2>3
      <4>3. CASE R.pops = 2 BY <4>1, <4>3, <3>3, <2>3
      <4> QED BY <4>2, <4>3, <3>3
    <3> QED BY <2>2, <3>1, <3>2, <3>3 DEF StackedOn
  <2>5. Agree(stack, stack', f.at) BY <1>2, <2>4 DEF Agree
  <2>6. /\ FramesOn(stack', rframes') /\ Len(rframes') = n - 1
        /\ \A i \in 1 .. n - 1 : rframes'[i] = rframes[i]
    <3>1. Agree(stack, stack', rframes[Len(rframes) - 1].at) /\ Len(rframes) > 1 BY <2>1, <2>5 DEF f
    <3> QED BY <3>1, <1>1, <1>2, FramesPop
  <2>7. rframes'[n - 1] = f BY <2>1, <2>6 DEF f
  <2>8. TopOn(stack', rframes') BY <2>4, <2>6, <2>7 DEF TopOn
  <2>9. rframes' # <<>> BY <2>1, <2>6
  <2>10. \A i \in 1 .. Len(rframes') : rframes'[i].obj \in 1 .. Len(pb')
    BY <1>1, <1>2, <2>6 DEF RInv, ROK
  <2>11. ROK' BY <1>1, <2>8, <2>6, <2>9, <2>10 DEF NoScan, ScanSet, RInv, ROK, RoundOn
  <2>12. PhaseOK' /\ HeapOK' /\ Balanced' BY <1>1, <2>4, <2>9, RoundToProto DEF m
  <2> QED BY <1>4, <2>11, <2>12 DEF RInv
<1> QED BY <1>5, <1>6

\* No step of the conversion disturbs the shape.
LEMMA ToProtoKeeps ==
    ASSUME RInv, ToProtoStep, pc = "send", UNCHANGED <<toLua, bridge>>
    PROVE  RInv'
<1>1. ~dead BY DEF ToProtoStep
<1>2. CASE LoseKey BY <1>2, DiesKeeps DEF LoseKey
<1>3. CASE SkipPair BY <1>1, <1>3, SkipPairKeeps
<1>4. CASE SetScalar BY <1>1, <1>4, SetScalarKeeps
<1>5. CASE FillMessage BY <1>1, <1>5, FillMessageKeeps
<1>6. CASE BeginArray BY <1>1, <1>6, BeginArrayKeeps
<1>7. CASE AddScalar BY <1>1, <1>7, AddScalarKeeps
<1>8. CASE AddMessage BY <1>1, <1>8, AddMessageKeeps
<1>9. CASE EndFrame BY <1>1, <1>9, EndFrameKeeps
<1> QED BY <1>2, <1>3, <1>4, <1>5, <1>6, <1>7, <1>8, <1>9 DEF ToProtoStep

----------------------------------------------------------------------------
\* Around the conversions.

\* A message that arrives is a heap of messages of the known types.
LEMMA RequestTyped ==
    ASSUME NEW heap \in Requests
    PROVE  Typed(heap) /\ Len(heap) \in Nat \ {0} /\ heap[1].type \in Types
<1>1. IsHeap(heap) BY RequestsAssumption
<1> DEFINE k == Len(heap)
<1> DEFINE V == {heap[o].val : o \in 1 .. k}
<1> DEFINE S == [type : Types, val : V]
<1>2. /\ k \in Nat \ {0} /\ heap = [o \in 1 .. k |-> [type |-> heap[o].type, val |-> heap[o].val]]
      /\ \A o \in 1 .. k : heap[o].type \in Types BY <1>1 DEF IsHeap
<1> HIDE DEF k
<1>3. \A o \in 1 .. k : heap[o] \in S
  <2> TAKE o \in 1 .. k
  <2>1. heap[o] = [type |-> heap[o].type, val |-> heap[o].val]
    <3> DEFINE h == [q \in 1 .. k |-> [type |-> heap[q].type, val |-> heap[q].val]]
    <3>1. h[o] = [type |-> heap[o].type, val |-> heap[o].val] OBVIOUS
    <3>2. heap = h BY <1>2
    <3> HIDE DEF h
    <3> QED BY <3>1, <3>2
  <2>2. heap[o].type \in Types /\ heap[o].val \in V BY <1>2
  <2> HIDE DEF V
  <2> QED BY <2>1, <2>2
<1>4. heap \in Seq(S)
  <2> HIDE DEF S
  <2>1. DOMAIN heap = 1 .. k /\ heap = [o \in 1 .. k |-> heap[o]] BY <1>2
  <2>2. heap \in [1 .. k -> S] BY <2>1, <1>3
  <2> QED BY <2>2, <1>2
<1>5. Typed(heap) BY <1>4, Zenon DEF Typed
<1>6. heap[1].type \in Types BY <1>2
<1> QED BY <1>2, <1>5, <1>6 DEF k

\* Without frames there is nothing to keep in shape.
LEMMA NoWFrames == ASSUME wframes' = <<>> PROVE WOK' /\ ToLuaShape' BY DEF WOK, ToLuaShape

LEMMA NoRFrames ==
    ASSUME rframes' = <<>>, scan' = NoScan, dead' \in BOOLEAN PROVE ROK' /\ FieldOK'
BY DEF NoScan, ScanSet, FramesOn, ROK, FieldOK

\* Until the answer is on its way the messages are those that arrived.
LEMMA StillBefore ==
    ASSUME PhaseOK', pc' \in Before
    PROVE  Typed(pb)' /\ ROK' /\ FieldOK'
<1>1. pb' \in Requests /\ rframes' = <<>> /\ scan' = NoScan /\ dead' = FALSE BY DEF PhaseOK
<1>2. Typed(pb)' BY <1>1, RequestTyped DEF Typed
<1> QED BY <1>1, <1>2, NoRFrames

\* After a step that converts nothing.
LEMMA QuietStep ==
    ASSUME IInv, HeapOK', PhaseOK', wframes' = <<>>,
           pc' \notin {"recv", "create", "send"}, pb' = pb, UNCHANGED toProto, rframes = <<>>
    PROVE  IInv'
<1>1. rframes' = <<>> /\ scan' = NoScan /\ dead' \in BOOLEAN BY DEF IInv, ROK, toProto
<1>2. Typed(pb)' BY DEF IInv, Typed
<1>3. Balanced' BY DEF Balanced
<1> QED BY <1>1, <1>2, <1>3, NoWFrames, NoRFrames DEF IInv

LEMMA InitOK == Init => IInv
<1> SUFFICES ASSUME Init PROVE IInv OBVIOUS
<1>1. /\ stack = <<>> /\ tabs = <<>> /\ wframes = <<>> /\ rframes = <<>> /\ pb \in Requests
      /\ scan = NoScan /\ dead = FALSE /\ pc = "idle" /\ old = 0 /\ route \in Routes /\ table = LuaNil
  BY DEF Init
<1>2. HeapOK BY PlainValue, <1>1 DEF LuaNil, HeapOK
<1>3. PhaseOK BY <1>1 DEF PhaseOK, Before
<1>4. WOK /\ ToLuaShape BY <1>1 DEF WOK, ToLuaShape
<1>5. ROK /\ FieldOK
  <2>1. rframes \in Seq(RSet) /\ Len(rframes) = 0 BY <1>1
  <2>2. NoScan \in ScanSet BY DEF NoScan, ScanSet
  <2>3. FramesOn(stack, rframes) BY <2>1 DEF FramesOn
  <2>4. rframes = <<>> /\ scan = NoScan /\ dead \in BOOLEAN BY <1>1
  <2>5. ROK BY <2>1, <2>2, <2>3, <2>4 DEF ROK
  <2> QED BY <2>4, <2>5 DEF FieldOK
<1>6. Typed(pb) BY <1>1, RequestTyped
<1>7. Balanced BY <1>1 DEF Balanced
<1> QED BY <1>2, <1>3, <1>4, <1>5, <1>6, <1>7 DEF IInv

\* A conversion to Lua starts: its table is the only value above the arguments.
LEMMA StartKeeps ==
    ASSUME HeapOK, NEW T \in Types, NEW obj \in Nat, NEW lua \in Seq(Values(Len(tabs))),
           StartToLua(T, obj, lua), old' = Len(lua), table' = table, pc' \in {"recv", "create"},
           obj # 0 => obj \in 1 .. Len(pb') /\ pb'[obj].type = T
    PROVE  HeapOK' /\ WOK' /\ ToLuaShape' /\ Balanced'
<1> DEFINE m == Len(tabs)
<1> DEFINE g == WFrame(T, obj, Len(lua) + 1, FALSE)
<1>1. m \in Nat /\ tabs \in Seq(Seq(Pairs(m))) /\ table \in Values(m) /\ Len(lua) \in Nat
  BY DEF HeapOK
<1>2. /\ stack' = Append(lua, Val("table", m + 1)) /\ tabs' = Append(tabs, <<>>)
      /\ wframes' = <<WFrame(T, obj, Len(stack'), FALSE)>> BY DEF StartToLua
<1> HIDE DEF m
<1>3. Values(m) \subseteq Values(m + 1) /\ Seq(Seq(Pairs(m))) \subseteq Seq(Seq(Pairs(m + 1)))
      /\ Seq(Values(m)) \subseteq Seq(Values(m + 1)) BY <1>1, ValuesMono, HeapMono
<1>4. Val("table", m + 1) \in Values(m + 1) /\ Val("table", m + 1).t = "table"
  BY <1>1, TableValue DEF Val
<1>5. /\ stack' \in Seq(Values(m + 1)) /\ Len(stack') = Len(lua) + 1 /\ stack'[Len(lua) + 1].t = "table"
  <2>1. lua \in Seq(Values(m + 1)) BY <1>3 DEF m
  <2> HIDE DEF m
  <2>2. /\ stack' \in Seq(Values(m + 1)) /\ Len(stack') = Len(lua) + 1
        /\ stack'[Len(lua) + 1] = Val("table", m + 1) BY <2>1, <1>2, <1>4, AppendProperties
  <2> QED BY <2>2, <1>4
<1>6. tabs' \in Seq(Seq(Pairs(m + 1))) /\ Len(tabs') = m + 1
  <2> DEFINE S == Seq(Pairs(m + 1))
  <2>1. <<>> \in S OBVIOUS
  <2>2. tabs \in Seq(S) BY <1>1, <1>3
  <2> HIDE DEF S
  <2>3. tabs' \in Seq(S) /\ Len(tabs') = Len(tabs) + 1 BY <2>1, <2>2, <1>2, AppendProperties
  <2> QED BY <2>3 DEF S, m
<1>7. HeapOK' BY <1>1, <1>3, <1>5, <1>6 DEF HeapOK
<1>8. /\ g \in WSet /\ g.type = T /\ g.obj = obj /\ g.at = Len(lua) + 1 /\ g.next = 1
      /\ g.settable = FALSE /\ g.loop = 0 /\ Waits(g) = 2 BY <1>1 DEF WFrame, WSet, Waits
<1>9. wframes' = <<g>> BY <1>2, <1>5
<1> HIDE DEF g
<1>10. wframes' \in Seq(WSet) /\ Len(wframes') = 1 /\ wframes'[1] = g /\ wframes' # <<>>
  BY <1>8, <1>9
<1>11. WOK' BY <1>10, <1>8 DEF WOK
<1>12. ToLuaShape'
  <2>1. g.at \in 1 .. Len(stack') /\ stack'[g.at].t = "table" /\ Len(stack') = g.at + Waits(g) - 2
    BY <1>1, <1>5, <1>8
  <2>2. W' = g BY <1>10 DEF W
  <2>3. Waits(W)' = Waits(g) BY <2>2 DEF Waits
  <2>4. ASSUME NEW i \in 1 .. Len(wframes')
        PROVE  /\ wframes'[i].at \in 1 .. Len(stack') /\ stack'[wframes'[i].at].t = "table"
               /\ wframes'[i].settable = (i > 1) /\ ~(wframes'[i].loop > 0)
    <3>1. i = 1 /\ wframes'[i] = g BY <1>10
    <3>2. (i > 1) = FALSE BY <3>1
    <3>3. wframes'[i].settable = (i > 1) BY <3>1, <3>2, <1>8, Zenon
    <3>4. wframes'[i].at = g.at /\ ~(wframes'[i].loop > 0) BY <3>1, <1>8
    <3> QED BY <3>3, <3>4, <2>1, Zenon
  <2>5. \A i \in 1 .. Len(wframes') - 1 : FALSE BY <1>10
  <2>6. Len(stack') = W'.at + Waits(W)' - 2 BY <2>1, <2>2, <2>3
  <2> QED BY <2>4, <2>5, <2>6 DEF ToLuaShape
<1>13. Balanced' BY <1>10 DEF Balanced
<1> QED BY <1>7, <1>11, <1>12, <1>13

LEMMA ReceiveKeeps == ASSUME IInv, exe_OnLuaVMRecvMessage PROVE IInv'
<1>1. /\ pc = "idle" /\ StartToLua(pb[1].type, 1, Arguments) /\ old' = Len(Arguments) /\ pc' = "recv"
      /\ pb' = pb /\ UNCHANGED toProto /\ route' = route /\ table' = table
  BY DEF exe_OnLuaVMRecvMessage
<1>2. HeapOK /\ PhaseOK /\ pb \in Requests /\ rframes = <<>> /\ scan = NoScan /\ dead = FALSE /\ route \in Routes
  BY <1>1 DEF IInv, PhaseOK, Before
<1>3. Arguments \in Seq(Values(Len(tabs)))
  <2> DEFINE S == Values(Len(tabs))
  <2>1. route.type \in Int BY <1>2, RequestsAssumption
  <2>2. /\ LuaNil \in S /\ Val("boolean", 0) \in S /\ Val("boolean", 1) \in S
        /\ Val("number", -1) \in S /\ Val("number", route.type) \in S /\ Val("number", 0) \in S
    BY <2>1, PlainValue DEF LuaNil
  <2> HIDE DEF S
  <2>3. Arguments \in Seq(S) BY <2>2 DEF Arguments
  <2> QED BY <2>3 DEF S
<1>4. pb[1].type \in Types /\ 1 \in 1 .. Len(pb) BY <1>2, RequestTyped
<1>5. HeapOK' /\ WOK' /\ ToLuaShape' /\ Balanced'
  <2>1. 1 # 0 => 1 \in 1 .. Len(pb') /\ pb'[1].type = pb[1].type BY <1>1, <1>4
  <2> HIDE DEF Arguments
  <2> QED BY <2>1, <1>1, <1>2, <1>3, <1>4, StartKeeps
<1>6. PhaseOK' /\ pc' \in Before BY <1>1, <1>2 DEF PhaseOK, Before, toProto
<1> QED BY <1>5, <1>6, StillBefore DEF IInv

\* The table of a conversion that has ended is the only value it has pushed.
LEMMA EndKeeps ==
    ASSUME IInv, pc \in {"recv", "create"}, wframes = <<>>, pc' \in {"script", "exited"},
           table' = Top, stack' = <<>>, UNCHANGED <<tabs, pb, toLua, toProto, old>>
    PROVE  IInv'
<1>1. HeapOK /\ PhaseOK /\ Len(stack) = old + 1 BY DEF IInv, Balanced
<1>2. Top \in Values(Len(tabs))
  <2> DEFINE S == Values(Len(tabs))
  <2>1. stack \in Seq(S) /\ Len(stack) \in 1 .. Len(stack) BY <1>1 DEF HeapOK
  <2> HIDE DEF S
  <2>2. stack[Len(stack)] \in S BY <2>1
  <2> QED BY <2>2 DEF S, Top
<1>3. HeapOK' BY <1>1, <1>2 DEF HeapOK
<1>4. /\ pb \in Requests /\ rframes = <<>> /\ scan = NoScan /\ dead = FALSE
  BY <1>1 DEF PhaseOK, Before
<1>5. PhaseOK' BY <1>4 DEF PhaseOK, Before, toLua, toProto
<1>6. wframes' = <<>> BY DEF toLua
<1> QED BY <1>3, <1>4, <1>5, <1>6, QuietStep

LEMMA CallScriptKeeps == ASSUME IInv, CallScript PROVE IInv' BY EndKeeps DEF CallScript

LEMMA CreatedKeeps == ASSUME IInv, Created PROVE IInv' BY EndKeeps DEF Created

\* The keys and values of the script.
LEMMA PutType ==
    ASSUME NEW m \in Nat, NEW pairs \in Seq(Pairs(m)), NEW key \in Keys, NEW x \in Values(m)
    PROVE  Put(pairs, key, x) \in Seq(Pairs(m))
<1> DEFINE S == Pairs(m)
<1>1. <<key, x>> \in S BY DEF Pairs
<1> HIDE DEF S
<1>2. pairs \in Seq(S) BY DEF S
<1>3. CASE Get(pairs, key) = LuaNil BY <1>1, <1>2, <1>3 DEF Put, S
<1>4. CASE Get(pairs, key) # LuaNil
  <2>1. \E i \in 1 .. Len(pairs) : pairs[i][1] = key BY <1>4 DEF Get
  <2> DEFINE c == PlaceOf(pairs, key)
  <2>2. c \in 1 .. Len(pairs) BY <2>1 DEF PlaceOf
  <2>3. Put(pairs, key, x) = IF x = LuaNil THEN SubSeq(pairs, 1, c - 1) \o SubSeq(pairs, c + 1, Len(pairs))
                             ELSE [pairs EXCEPT ![c] = <<key, x>>] BY <1>4 DEF Put
  <2> HIDE DEF c
  <2>4. CASE x = LuaNil BY <1>2, <2>2, ConcatProperties, <2>3, <2>4 DEF S
  <2>5. CASE x # LuaNil BY <1>1, <1>2, <2>2, <2>3, <2>5 DEF S
  <2> QED BY <2>4, <2>5
<1> QED BY <1>3, <1>4

LEMMA OwnType ==
    ASSUME Len(tabs) \in Nat, NEW k \in Nat, NEW x, ScriptVal(x, k)
    PROVE  Own(x) \in Values(Len(tabs) + k) BY DEF ScriptVal, Own, LuaSet, Values

LEMMA OwnTableType ==
    ASSUME Len(tabs) \in Nat, NEW k \in Nat, NEW pairs, Len(pairs) \in Nat,
           \A j \in 1 .. Len(pairs) : ScriptKey(pairs[j][1]) /\ ScriptVal(pairs[j][2], k)
    PROVE  OwnTable(pairs) \in Seq(Pairs(Len(tabs) + k))
<1> DEFINE S == Pairs(Len(tabs) + k)
<1>1. \A j \in 1 .. Len(pairs) : <<pairs[j][1], Own(pairs[j][2])>> \in S
  <2> TAKE j \in 1 .. Len(pairs)
  <2>1. pairs[j][1] \in Keys BY DEF ScriptKey, Keys
  <2>2. Own(pairs[j][2]) \in Values(Len(tabs) + k) BY OwnType
  <2> QED BY <2>1, <2>2 DEF Pairs
<1> HIDE DEF S
<1>2. [j \in 1 .. Len(pairs) |-> <<pairs[j][1], Own(pairs[j][2])>>] \in [1 .. Len(pairs) -> S]
  BY <1>1
<1>3. OwnTable(pairs) \in [1 .. Len(pairs) -> S] BY <1>2 DEF OwnTable
<1>4. OwnTable(pairs) \in Seq(S) BY <1>3
<1> QED BY <1>4 DEF S

LEMMA ScriptEditsKeeps == ASSUME IInv, ScriptEdits PROVE IInv'
<1> DEFINE m == Len(tabs)
<1>1. /\ pc = "script" /\ pc' = "script" /\ table.t = "table" /\ table' = table /\ stack' = stack /\ old' = old
      /\ pb' = pb /\ UNCHANGED <<toLua, toProto>> /\ route' = route BY DEF ScriptEdits
<1>2. HeapOK /\ PhaseOK /\ m \in Nat /\ tabs \in Seq(Seq(Pairs(m))) /\ table \in Values(m)
  BY DEF IInv, HeapOK
<1>3. PICK e \in Edits : tabs' = [tabs EXCEPT ![table.v] = Put(@, e.key, Own(e.val))]
                                 \o [i \in 1 .. Len(e.new) |-> OwnTable(e.new[i])]
  BY DEF ScriptEdits
<1> DEFINE k == Len(e.new)
<1>4. /\ ScriptKey(e.key) /\ k \in Nat /\ ScriptVal(e.val, k)
      /\ \A i \in 1 .. k : /\ Len(e.new[i]) \in Nat
                           /\ \A j \in 1 .. Len(e.new[i]) : ScriptKey(e.new[i][j][1]) /\ ScriptVal(e.new[i][j][2], k)
  BY EditsAssumption
<1> HIDE DEF k
<1> DEFINE S == Seq(Pairs(m + k))
<1> DEFINE a == [tabs EXCEPT ![table.v] = Put(tabs[table.v], e.key, Own(e.val))]
<1> DEFINE b == [i \in 1 .. k |-> OwnTable(e.new[i])]
<1>5. table.v \in 1 .. m BY <1>1, <1>2 DEF Values
<1>6. m + k \in Nat /\ m <= m + k BY <1>2, <1>4
<1>7. tabs \in Seq(S) /\ stack \in Seq(Values(m + k)) /\ table \in Values(m + k)
  BY <1>2, <1>6, HeapMono, ValuesMono DEF HeapOK
<1>8. Put(tabs[table.v], e.key, Own(e.val)) \in S
  <2>1. tabs[table.v] \in S
    <3> HIDE DEF S
    <3> QED BY <1>5, <1>7
  <2>2. e.key \in Keys BY <1>4 DEF ScriptKey, Keys
  <2>3. Own(e.val) \in Values(m + k) BY <1>2, <1>4, OwnType
  <2> HIDE DEF m
  <2> QED BY <2>1, <2>2, <2>3, <1>6, PutType
<1>9. b \in Seq(S) /\ Len(b) = k
  <2>1. \A i \in 1 .. k : OwnTable(e.new[i]) \in S BY <1>2, <1>4, OwnTableType
  <2> HIDE DEF S
  <2>2. b \in [1 .. k -> S] BY <2>1
  <2> QED BY <2>2, <1>4
<1> HIDE DEF S
<1>10. a \in Seq(S) /\ Len(a) = m BY <1>5, <1>7, <1>8
<1>11. tabs' = a \o b BY <1>3 DEF k
<1> HIDE DEF a, b
<1>12. tabs' \in Seq(S) /\ Len(tabs') = m + k
  <2>1. a \o b \in Seq(S) /\ Len(a \o b) = Len(a) + Len(b) BY <1>9, <1>10, ConcatProperties
  <2> DEFINE u == a \o b
  <2>2. u \in Seq(S) /\ Len(u) = Len(a) + Len(b) /\ tabs' = u BY <2>1, <1>11
  <2> HIDE DEF u
  <2> QED BY <2>2, <1>9, <1>10
<1>13. HeapOK' BY <1>1, <1>2, <1>7, <1>12 DEF HeapOK, S
<1>14. PhaseOK' /\ rframes = <<>> /\ wframes' = <<>>
  BY <1>1, <1>2 DEF PhaseOK, Before, toLua, toProto
<1> QED BY <1>1, <1>13, <1>14, QuietStep

LEMMA CreateKeeps ==
    ASSUME IInv, NEW T \in Types, CreateNewProtobufByCmd(T) PROVE IInv'
<1>1. pc = "script" /\ pb' = pb /\ UNCHANGED toProto /\ route' = route BY DEF CreateNewProtobufByCmd
<1>2. /\ HeapOK /\ PhaseOK /\ pb \in Requests /\ rframes = <<>> /\ scan = NoScan /\ dead = FALSE
      /\ wframes = <<>> BY <1>1 DEF IInv, PhaseOK, Before
<1>3. CASE StartToLua(T, 0, <<>>) /\ old' = 0 /\ pc' = "create" /\ table' = table
  <2>1. HeapOK' /\ WOK' /\ ToLuaShape' /\ Balanced'
    <3>1. <<>> \in Seq(Values(Len(tabs))) /\ Len(<<>>) = 0 OBVIOUS
    <3> QED BY <3>1, <1>2, <1>3, StartKeeps
  <2>2. PhaseOK' /\ pc' \in Before BY <1>1, <1>2, <1>3 DEF PhaseOK, Before, toProto
  <2> QED BY <2>1, <2>2, StillBefore DEF IInv
<1>4. CASE table' = LuaNil /\ UNCHANGED <<stack, tabs, wframes, old, pc>>
  <2>1. HeapOK' BY PlainValue, <1>2, <1>4 DEF LuaNil, HeapOK
  <2>2. PhaseOK' BY <1>1, <1>2, <1>4 DEF PhaseOK, Before, toProto
  <2> QED BY <1>1, <1>2, <1>4, <2>1, <2>2, QuietStep
<1> QED BY <1>3, <1>4 DEF CreateNewProtobufByCmd

\* The order of the pairs does not matter to the heap of tables.
LEMMA ReversedType ==
    ASSUME NEW m \in Nat, NEW heap \in Seq(Seq(Pairs(m)))
    PROVE  LET new == [i \in 1 .. Len(heap) |-> Reversed(heap[i])]
           IN new \in Seq(Seq(Pairs(m))) /\ Len(new) = Len(heap)
<1> DEFINE S == Pairs(m)
<1> HIDE DEF S
<1>1. ASSUME NEW s \in Seq(S) PROVE Reversed(s) \in Seq(S) BY DEF Reversed
<1> DEFINE U == Seq(S)
<1>2. heap \in Seq(U) BY DEF S
<1>3. \A s \in U : Reversed(s) \in U BY <1>1
<1> HIDE DEF U
<1>4. \A i \in 1 .. Len(heap) : Reversed(heap[i]) \in U BY <1>2, <1>3
<1>5. [i \in 1 .. Len(heap) |-> Reversed(heap[i])] \in [1 .. Len(heap) -> U] BY <1>4
<1> DEFINE new == [i \in 1 .. Len(heap) |-> Reversed(heap[i])]
<1>6. new \in [1 .. Len(heap) -> U] /\ Len(heap) \in Nat BY <1>2, <1>5
<1> HIDE DEF new
<1>7. new \in Seq(U) /\ Len(new) = Len(heap) BY <1>6
<1> QED BY <1>7 DEF new, U, S

LEMMA Lua2ProtobufKeeps ==
    ASSUME IInv, NEW T \in Types, Lua2Protobuf(T) PROVE IInv'
<1> DEFINE m == Len(tabs)
<1>1. pc = "script" /\ UNCHANGED <<toLua, table, edits>> BY Zenon DEF Lua2Protobuf
<1>2. /\ HeapOK /\ PhaseOK /\ pb \in Requests /\ rframes = <<>> /\ scan = NoScan /\ dead = FALSE
      /\ wframes = <<>> /\ wframes' = <<>> /\ m \in Nat
  BY <1>1 DEF IInv, PhaseOK, Before, toLua, HeapOK
<1>3. CASE pc' \in {"exited", "refused"} /\ UNCHANGED <<stack, tabs, pb, toProto, old, route, root>>
  <2>1. HeapOK' BY <1>1, <1>2, <1>3 DEF HeapOK
  <2>2. PhaseOK' BY <1>1, <1>2, <1>3 DEF PhaseOK, Before
  <2> QED BY <1>2, <1>3, <2>1, <2>2, QuietStep
<1>4. CASE /\ table.t = "table" /\ StartToProto(T, table) /\ old' = 1 /\ pc' = "send"
           /\ tabs' \in {tabs, [i \in 1 .. Len(tabs) |-> Reversed(tabs[i])]}
  <2>1. /\ stack' = <<table>> /\ pb' = Append(pb, Default(T)) /\ rframes' = <<RFrame(Len(pb'), 1, 0)>>
        /\ scan' = NoScan /\ dead' = FALSE BY <1>2, <1>4 DEF StartToProto
  <2>2. tabs' \in Seq(Seq(Pairs(m))) /\ Len(tabs') = m BY <1>2, <1>4, ReversedType DEF HeapOK
  <2>3. HeapOK' /\ stack' \in Seq(Values(m)) /\ Len(stack') = 1 /\ stack'[1] = table
    BY <1>2, <2>1, <2>2, <1>1, <1>4 DEF HeapOK
  <2>4. PhaseOK' BY <1>2, <1>4 DEF PhaseOK, Before
  <2>5. Typed(pb') /\ Len(pb') \in Nat /\ Len(pb') >= 1 BY <2>1, HeapAppend DEF IInv
  <2> DEFINE g == RFrame(Len(pb'), 1, 0)
  <2>6. g \in RSet /\ g.at = 1 /\ g.fresh = TRUE /\ g.pops = 0 /\ g.obj = Len(pb')
    BY <2>5 DEF RFrame, RSet
  <2>7. rframes' = <<g>> BY <2>1
  <2> HIDE DEF g, m
  <2>8. rframes' \in Seq(RSet) /\ Len(rframes') = 1 /\ rframes'[1] = g /\ rframes' # <<>>
    BY <2>6, <2>7
  <2>9. \A i \in 1 .. Len(rframes') : i = 1 /\ rframes'[i] = g BY <2>8
  <2>10. FramesOn(stack', rframes') BY <1>4, <2>3, <2>6, <2>8, <2>9 DEF FramesOn
  <2>11. TopOn(stack', rframes') BY <2>3, <2>6, <2>8 DEF TopOn
  <2>12. ROK' /\ FieldOK'
    <3>1. \A i \in 1 .. Len(rframes') : rframes'[i].obj \in 1 .. Len(pb') BY <2>5, <2>6, <2>9
    <3>2. NoScan \in ScanSet BY DEF NoScan, ScanSet
    <3>3. RoundOn(stack', rframes', scan') BY <2>1, <2>11 DEF RoundOn
    <3> QED BY <2>1, <2>8, <2>10, <3>1, <3>2, <3>3 DEF ROK, FieldOK
  <2>13. Balanced' BY <1>4, <2>8 DEF Balanced
  <2>14. Typed(pb)' BY <2>5 DEF Typed
  <2> QED BY <1>2, <2>3, <2>4, <2>12, <2>13, <2>14, NoWFrames DEF IInv
<1> QED BY <1>3, <1>4, Zenon DEF Lua2Protobuf

LEMMA SendKeeps == ASSUME IInv, Send \/ Exits PROVE IInv'
<1>1. /\ pc = "send" /\ pc' \in {"sent", "exited"}
      /\ UNCHANGED <<stack, tabs, pb, toLua, toProto, old, route, table>> BY DEF Send, Exits
<1>2. /\ HeapOK /\ PhaseOK /\ wframes = <<>> /\ wframes' = <<>> BY <1>1 DEF IInv, PhaseOK, toLua
<1>3. HeapOK' /\ PhaseOK' BY <1>1, <1>2 DEF HeapOK, PhaseOK, Before
<1>4. ROK' /\ FieldOK' /\ Typed(pb)' BY <1>1 DEF IInv, ROK, FieldOK, Typed, toProto, Field, Owner
<1>5. Balanced' BY <1>1 DEF Balanced
<1> QED BY <1>2, <1>3, <1>4, <1>5, NoWFrames DEF IInv

LEMMA ConvertKeeps == ASSUME IInv, Convert PROVE IInv'
<1>1. CASE pc \in {"recv", "create"} /\ ToLuaStep /\ UNCHANGED <<toProto, bridge>>
  BY <1>1, ToLuaKeeps, StillBefore DEF IInv, WInv, bridge, Before
<1>2. CASE pc = "send" /\ ToProtoStep /\ UNCHANGED <<toLua, bridge>>
  <2>1. RInv BY DEF IInv, RInv
  <2>2. RInv' BY <1>2, <2>1, ToProtoKeeps
  <2>3. wframes' = <<>> BY <1>2 DEF IInv, PhaseOK, toLua
  <2> QED BY <2>2, <2>3, NoWFrames DEF RInv, IInv
<1> QED BY <1>1, <1>2 DEF Convert

LEMMA StutterKeeps == ASSUME IInv, UNCHANGED vars PROVE IInv'
<1>1. HeapOK' /\ PhaseOK' BY DEF IInv, vars, HeapOK, PhaseOK
<1>2. WOK' /\ ToLuaShape' BY DEF IInv, vars, WOK, ToLuaShape, W
<1>3. Typed(pb)' /\ ROK' /\ FieldOK' /\ Balanced'
  BY DEF IInv, vars, Typed, ROK, FieldOK, Balanced, Field, Owner
<1> QED BY <1>1, <1>2, <1>3 DEF IInv

LEMMA NextKeeps == IInv /\ [Next]_vars => IInv'
<1> SUFFICES ASSUME IInv, [Next]_vars PROVE IInv' OBVIOUS
<1>1. CASE exe_OnLuaVMRecvMessage BY <1>1, ReceiveKeeps
<1>2. CASE CallScript BY <1>2, CallScriptKeeps
<1>3. CASE ScriptEdits BY <1>3, ScriptEditsKeeps
<1>4. ASSUME NEW T \in Types, CreateNewProtobufByCmd(T) \/ Lua2Protobuf(T) PROVE IInv'
  BY <1>4, CreateKeeps, Lua2ProtobufKeeps
<1>5. CASE Created BY <1>5, CreatedKeeps
<1>6. CASE Send \/ Exits BY <1>6, SendKeeps
<1>7. CASE Convert BY <1>7, ConvertKeeps
<1>8. CASE UNCHANGED vars BY <1>8, StutterKeeps
<1> QED BY <1>1, <1>2, <1>3, <1>4, <1>5, <1>6, <1>7, <1>8 DEF Next

----------------------------------------------------------------------------
LEMMA Invariance == Spec => []IInv
<1> QED BY InitOK, NextKeeps, PTL DEF Spec

\* Whatever the messages are, each lua_settable of protobuf2lua_nostack finds
\* the table it is meant for three places below the top of the stack.
THEOREM TablesInPlace == Spec => []ToLuaShape
<1>1. IInv => ToLuaShape BY DEF IInv
<1> QED BY <1>1, Invariance, PTL

\* Whatever the script answers with, each round of lua2protobuf_nostack finds
\* its key or its table where it looks for it.
THEOREM KeysInPlace == Spec => []ToProtoShape
<1>1. IInv => ToProtoShape BY ShapeOfROK DEF IInv
<1> QED BY <1>1, Invariance, PTL

\* Both together: neither conversion takes one stack slot for another.
THEOREM SlotsAreRight == Spec => []StackShape
<1> QED BY TablesInPlace, KeysInPlace, PTL DEF StackShape

\* ASSERT_LOG_EXIT on the size of the Lua stack after a conversion never fires.
THEOREM StackBalanced == Spec => []Balanced
<1>1. IInv => Balanced BY DEF IInv
<1> QED BY <1>1, Invariance, PTL
----------------------------------------------------------------------------
\* What a field has crosses to Lua and back: whatever the range of a kind holds,
\* ScalarTo makes it a value that Lua2Protobuf reads as the same, but for a text
\* that is cut at its first NUL.  64-bit integers do, for they cross as texts.
THEOREM ScalarsComeBack ==
    ASSUME NEW kind \in Scalars, NEW v \in RangeOf(kind)
    PROVE  ScalarOf(kind, ScalarTo(kind, v)) = {Trim(kind, v)}
<1>1. Half32 \in Nat \ {0} /\ Half64 \in Nat \ {0} BY RangesAssumption
<1>2. kind # "string" => v \in Int /\ Trim(kind, v) = v BY RangeIsInt DEF Trim
<1>3. CASE kind = "int32"
  BY <1>3, <1>2 DEF RangeOf, ScalarTo, Int32Of, IsNumber, Narrowed, Val, ScalarOf
<1>4. CASE kind = "int64"
  <2>1. v \in Int64s /\ ScalarTo(kind, v) = Val("digits", v) BY <1>4 DEF RangeOf, ScalarTo, Int64To
  <2>2. Parsed(Val("digits", v)) = {v} BY DEF Parsed, Val
  <2>3. Int64Of(Val("digits", v)) = {v} BY <2>1, <2>2 DEF Int64Of, IsString, Val
  <2> QED BY <1>2, <1>4, <2>1, <2>3 DEF ScalarOf
<1>5. CASE kind = "uint32"
  BY <1>5, <1>2 DEF RangeOf, ScalarTo, UInt32Of, IsNumber, Narrowed, Val, ScalarOf
<1>6. CASE kind = "uint64"
  <2>1. v \in UInt64s /\ ScalarTo(kind, v) = Val("digits", v) BY <1>6 DEF RangeOf, ScalarTo, Int64To
  <2>2. Parsed(Val("digits", v)) = {v} BY DEF Parsed, Val
  <2>3. v % (2 * Half64) = v BY <1>1, <2>1 DEF UInt64s
  <2>4. UInt64Of(Val("digits", v)) = {v % (2 * Half64)} BY <2>1, <2>2 DEF UInt64Of, IsString, Val
  <2> QED BY <1>2, <1>6, <2>1, <2>3, <2>4 DEF ScalarOf
<1>7. CASE kind = "double" BY <1>7, <1>2 DEF ScalarTo, DoubleOf, IsNumber, Val, ScalarOf
<1>8. CASE kind = "float" BY <1>2, <1>8 DEF RangeOf, ScalarTo, FloatOf, IsNumber, Val, ScalarOf
<1>9. CASE kind = "bool" BY <1>9, <1>2 DEF ScalarTo, BoolOf, Val, ScalarOf
<1>10. CASE kind = "string"
  BY <1>10 DEF RangeOf, ScalarTo, IsString, StringOf, CutText, ScalarOf, Trim
<1>11. CASE kind = "enum"
  <2>1. v \in 0 .. Half32 - 1 /\ ScalarTo(kind, v) = Val("number", v % (2 * Half32))
    BY <1>11 DEF RangeOf, ScalarTo
  <2>2. v % (2 * Half32) = v /\ v \in Int32s BY <1>1, <2>1 DEF Int32s
  <2>3. EnumOf(Val("number", v)) = {v} BY <2>2 DEF EnumOf, IsNumber, Narrowed, Val
  <2> QED BY <1>2, <1>11, <2>1, <2>2, <2>3 DEF ScalarOf
<1> QED BY <1>3, <1>4, <1>5, <1>6, <1>7, <1>8, <1>9, <1>10, <1>11 DEF Scalars
----------------------------------------------------------------------------
\* Induction, stated of a set of numbers: a set can be an argument of a theorem
\* where a predicate cannot.
Less == {p \in Nat \X Nat : p[1] < p[2]}

LEMMA LeastNat ==
  ASSUME NEW T \in SUBSET Nat, T # {}
  PROVE  \E x \in T : \A y \in T : x <= y
<1>1. IsWellFoundedOn({p \in Nat \X Nat : p[1] < p[2]}, Nat)
  BY NatLessThanWellFounded, Zenon DEF OpToRel
<1>2. IsWellFoundedOn(Less, Nat) BY <1>1, Zenon DEF Less
<1>3. PICK x \in T : \A y \in T : ~ (<<y, x>> \in Less) BY <1>2, WFMin, Zenon
<1>4. ASSUME NEW y \in T PROVE x <= y
  <2>1. x \in Nat /\ y \in Nat /\ <<y, x>> \notin Less BY <1>3
  <2>2. ~ (<<y, x>>[1] < <<y, x>>[2]) BY <2>1, Zenon DEF Less
  <2> QED BY <2>1, <2>2
<1> QED BY <1>4

LEMMA LoopInduction ==
  ASSUME NEW n \in Nat, NEW T, 0 \in T, \A k \in 1 .. n : k - 1 \in T => k \in T
  PROVE  \A k \in 0 .. n : k \in T
<1> DEFINE Bad == {k \in 0 .. n : k \notin T}
<1> SUFFICES ASSUME Bad # {} PROVE FALSE OBVIOUS
<1>1. Bad \in SUBSET Nat OBVIOUS
<1>2. PICK x \in Bad : \A y \in Bad : x <= y
  <2> HIDE DEF Bad
  <2> QED BY <1>1, LeastNat, Zenon
<1>3. x \in 1 .. n /\ x - 1 \in 0 .. n /\ ~ (x <= x - 1) BY <1>2
<1>4. x - 1 \in T BY <1>2, <1>3
<1> QED BY <1>2, <1>3, <1>4

(* A loop: n rounds from a, of which each stays in S.                       *)
Rounds(n, S) == [1 .. n -> [S -> S]]

IsLoop(n, S, a, step, f) ==
  f \in [0 .. n -> S] /\ f[0] = a /\ \A k \in 1 .. n : f[k] = step[k][f[k - 1]]

LEMMA LoopExists ==
  ASSUME NEW n \in Nat, NEW S, NEW a \in S, NEW step \in Rounds(n, S)
  PROVE  \E f : IsLoop(n, S, a, step, f)
<1>0. step \in [1 .. n -> [S -> S]] BY DEF Rounds
<1> DEFINE Ok(m, f) == f[0] = a /\ \A k \in 1 .. m : f[k] = step[k][f[k - 1]]
           T == {m \in 0 .. n : \E f \in [0 .. m -> S] : Ok(m, f)}
<1>1. 0 \in T
  <2> DEFINE g == [k \in 0 .. 0 |-> a]
  <2>1. g \in [0 .. 0 -> S] /\ Ok(0, g) OBVIOUS
  <2> HIDE DEF g
  <2>2. \E h \in [0 .. 0 -> S] : Ok(0, h) BY <2>1
  <2>3. 0 \in 0 .. n OBVIOUS
  <2> QED BY <2>2, <2>3
<1>2. ASSUME NEW m \in 1 .. n, m - 1 \in T PROVE m \in T
  <2>1. PICK f \in [0 .. m - 1 -> S] : Ok(m - 1, f) BY <1>2
  <2> DEFINE g == [k \in 0 .. m |-> IF k = m THEN step[m][f[m - 1]] ELSE f[k]]
  <2>2. m - 1 \in 0 .. m - 1 /\ m \in 0 .. m /\ 0 \in 0 .. m /\ 0 # m /\ 0 \in 0 .. m - 1 OBVIOUS
  <2>3. step[m][f[m - 1]] \in S BY <2>2, <1>0
  <2>4. \A k \in 0 .. m : k # m => k \in 0 .. m - 1 OBVIOUS
  <2>5. \A k \in 0 .. m : (IF k = m THEN step[m][f[m - 1]] ELSE f[k]) \in S BY <2>3, <2>4
  <2>6. g \in [0 .. m -> S] BY <2>5
  <2>7. g[0] = a BY <2>1, <2>2
  <2>8. ASSUME NEW k \in 1 .. m PROVE g[k] = step[k][g[k - 1]]
    <3>1. k - 1 \in 0 .. m /\ k \in 0 .. m /\ k - 1 # m OBVIOUS
    <3>2. g[k - 1] = f[k - 1] BY <3>1
    <3>3. CASE k = m BY <2>2, <3>2, <3>3
    <3>4. CASE k # m
      <4>1. k \in 1 .. m - 1 BY <3>4
      <4>2. g[k] = f[k] BY <3>1, <3>4
      <4> HIDE DEF g
      <4> QED BY <2>1, <3>2, <4>1, <4>2
    <3> QED BY <3>3, <3>4
  <2> HIDE DEF g
  <2>9. \E h \in [0 .. m -> S] : Ok(m, h) BY <2>6, <2>7, <2>8
  <2>10. m \in 0 .. n OBVIOUS
  <2> QED BY <2>9, <2>10
<1> HIDE DEF T
<1>3. \A k \in 0 .. n : k \in T BY <1>1, <1>2, LoopInduction
<1>4. n \in T BY <1>3
<1> QED BY <1>4 DEF T, IsLoop

----------------------------------------------------------------------------
\* The places of the elements that an array field takes, one after the other.

PlaceRound(kind, pairs, k, s) == IF Takes(kind, Item(pairs, k)) THEN Append(s, k) ELSE s

PlaceLoop(kind, pairs, n, f) ==
    /\ f \in [0 .. n -> Seq(Nat)]
    /\ f[0] = <<>> /\ \A k \in 1 .. n : f[k] = PlaceRound(kind, pairs, k, f[k - 1])
    /\ Places(kind, pairs, n) = f[n]

LEMMA PlacesLoop == ASSUME NEW kind, NEW pairs, NEW n \in Nat PROVE \E f : PlaceLoop(kind, pairs, n, f)
<1> DEFINE step == [k \in 1 .. n |-> [s \in Seq(Nat) |-> PlaceRound(kind, pairs, k, s)]]
<1>1. step \in Rounds(n, Seq(Nat)) /\ <<>> \in Seq(Nat) BY DEF PlaceRound, Rounds
<1>2. \A k \in 1 .. n : \A s \in Seq(Nat) : step[k][s] = PlaceRound(kind, pairs, k, s) OBVIOUS
<1> HIDE DEF step
<1>3. PICK f : IsLoop(n, Seq(Nat), <<>>, step, f) BY <1>1, LoopExists
<1>4. f \in [0 .. n -> Seq(Nat)] /\ f[0] = <<>> /\ \A k \in 1 .. n : f[k] = step[k][f[k - 1]]
  BY <1>3 DEF IsLoop
<1>5. \A k \in 1 .. n : f[k] = PlaceRound(kind, pairs, k, f[k - 1])
  <2> TAKE k \in 1 .. n
  <2>1. k - 1 \in 0 .. n OBVIOUS
  <2> QED BY <1>2, <1>4, <2>1
<1> DEFINE P(g) == g = [j \in 0 .. n |-> IF j = 0 THEN <<>>
                                        ELSE IF Takes(kind, Item(pairs, j)) THEN Append(g[j - 1], j)
                                        ELSE g[j - 1]]
           h == CHOOSE g : P(g)
<1>6. P(f)
  <2>1. \A j \in 0 .. n : j # 0 => j \in 1 .. n OBVIOUS
  <2>2. \A j \in 0 .. n : f[j] = IF j = 0 THEN <<>>
                                ELSE IF Takes(kind, Item(pairs, j)) THEN Append(f[j - 1], j)
                                ELSE f[j - 1] BY <1>4, <1>5, <2>1, Zenon DEF PlaceRound
  <2>3. f = [j \in 0 .. n |-> f[j]] BY <1>4
  <2> QED BY <2>2, <2>3
<1>7. P(h) BY <1>6, Zenon
<1>8. Places(kind, pairs, n) = h[n] BY DEF Places
<1> HIDE DEF h
<1>9. h[0] = <<>> /\ \A k \in 1 .. n : h[k] = PlaceRound(kind, pairs, k, h[k - 1])
  <2>1. 0 \in 0 .. n /\ \A k \in 1 .. n : k \in 0 .. n /\ k # 0 OBVIOUS
  <2>2. \A j \in 0 .. n : h[j] = IF j = 0 THEN <<>>
                                ELSE IF Takes(kind, Item(pairs, j)) THEN Append(h[j - 1], j)
                                ELSE h[j - 1] BY <1>7
  <2> QED BY <2>1, <2>2 DEF PlaceRound
<1>10. \A k \in 0 .. n : k \in {m \in 0 .. n : h[m] \in Seq(Nat)}
  <2>1. 0 \in {m \in 0 .. n : h[m] \in Seq(Nat)}
    <3>1. 0 \in 0 .. n /\ <<>> \in Seq(Nat) OBVIOUS
    <3>2. h[0] \in Seq(Nat) BY <1>9, <3>1
    <3> QED BY <3>1, <3>2
  <2>2. \A k \in 1 .. n : k - 1 \in {m \in 0 .. n : h[m] \in Seq(Nat)} => k \in {m \in 0 .. n : h[m] \in Seq(Nat)}
    <3> TAKE k \in 1 .. n
    <3> HAVE k - 1 \in {m \in 0 .. n : h[m] \in Seq(Nat)}
    <3>1. h[k - 1] \in Seq(Nat) /\ h[k] = PlaceRound(kind, pairs, k, h[k - 1]) BY <1>9
    <3>2. h[k] \in Seq(Nat) BY <3>1 DEF PlaceRound
    <3> QED BY <3>2
  <2> QED BY <2>1, <2>2, LoopInduction
<1>11. h \in [0 .. n -> Seq(Nat)] BY <1>7, <1>10
<1> QED BY <1>8, <1>9, <1>11 DEF PlaceLoop

LEMMA PlacesNext ==
    ASSUME NEW kind, NEW pairs, NEW n \in Nat
    PROVE  /\ Places(kind, pairs, 0) = <<>>
           /\ Places(kind, pairs, n) \in Seq(Nat)
           /\ Places(kind, pairs, n + 1) = PlaceRound(kind, pairs, n + 1, Places(kind, pairs, n))
<1>1. Places(kind, pairs, 0) = <<>> BY PlacesLoop DEF PlaceLoop
<1>2. PICK f : PlaceLoop(kind, pairs, n, f) BY PlacesLoop
<1>3. PICK g : PlaceLoop(kind, pairs, n + 1, g) BY PlacesLoop
<1> DEFINE T == {k \in 0 .. n : f[k] = g[k]}
<1>4. 0 \in T BY <1>2, <1>3 DEF PlaceLoop
<1>5. \A k \in 1 .. n : k - 1 \in T => k \in T
  <2> TAKE k \in 1 .. n
  <2> HAVE k - 1 \in T
  <2>1. k \in 1 .. n + 1 /\ k \in 0 .. n /\ f[k - 1] = g[k - 1] OBVIOUS
  <2> QED BY <1>2, <1>3, <2>1 DEF PlaceLoop
<1> HIDE DEF T
<1>6. \A k \in 0 .. n : k \in T BY <1>4, <1>5, LoopInduction
<1>7. f[n] = g[n] /\ n \in 0 .. n BY <1>6 DEF T
<1>8. n + 1 \in 1 .. n + 1 /\ n + 1 - 1 = n OBVIOUS
<1>9. g[n + 1] = PlaceRound(kind, pairs, n + 1, g[n]) BY <1>3, <1>8 DEF PlaceLoop
<1>10. Places(kind, pairs, n) \in Seq(Nat) BY <1>2, <1>7 DEF PlaceLoop
<1> QED BY <1>1, <1>2, <1>3, <1>7, <1>9, <1>10 DEF PlaceLoop

LEMMA PlacesType ==
    ASSUME NEW kind, NEW pairs, NEW n \in Nat
    PROVE  Places(kind, pairs, n) \in Seq(1 .. n)
<1> DEFINE T == {k \in 0 .. n : Places(kind, pairs, k) \in Seq(1 .. k)}
<1>1. 0 \in T BY PlacesNext
<1>2. \A k \in 1 .. n : k - 1 \in T => k \in T
  <2> TAKE k \in 1 .. n
  <2> HAVE k - 1 \in T
  <2>1. k - 1 \in Nat /\ Places(kind, pairs, k - 1) \in Seq(1 .. k - 1) OBVIOUS
  <2>2. Places(kind, pairs, (k - 1) + 1) = PlaceRound(kind, pairs, (k - 1) + 1, Places(kind, pairs, k - 1))
    BY <2>1, PlacesNext
  <2>3. (k - 1) + 1 = k /\ 1 .. k - 1 \subseteq 1 .. k /\ k \in 1 .. k OBVIOUS
  <2>4. Places(kind, pairs, k - 1) \in Seq(1 .. k) BY <2>1, <2>3, SeqMono
  <2> DEFINE s == Places(kind, pairs, k - 1)
  <2>5. PlaceRound(kind, pairs, k, s) \in Seq(1 .. k)
    <3> HIDE DEF s
    <3>1. s \in Seq(1 .. k) => Append(s, k) \in Seq(1 .. k) BY <2>3
    <3>2. s \in Seq(1 .. k) BY <2>4 DEF s
    <3> QED BY <3>1, <3>2, Zenon DEF PlaceRound
  <2> QED BY <2>2, <2>3, <2>5
<1> HIDE DEF T
<1>3. \A k \in 0 .. n : k \in T BY <1>1, <1>2, LoopInduction
<1>4. n \in T BY <1>3
<1> QED BY <1>4 DEF T

----------------------------------------------------------------------------
\* What the messages and tables have in common, one depth after the other.

HeldRound(pairs) ==
    {h \in (1 .. Len(pb)) \X (1 .. Len(tabs)) : \A i \in 1 .. Len(Fields[pb[h[1]].type]) : HasField(h[1], h[2], i, pairs)}

HeldLoop(f) ==
    /\ f[0] = ((1 .. Len(pb)) \X (1 .. Len(tabs))) /\ \A k \in 1 .. Len(pb) : f[k] = HeldRound(f[k - 1])
    /\ \A k \in 0 .. Len(pb) : f[k] \subseteq (1 .. Len(pb)) \X (1 .. Len(tabs))
    /\ Held = f[Len(pb)]

LEMMA HeldLoops == ASSUME Len(pb) \in Nat PROVE \E f : HeldLoop(f)
<1> DEFINE S == (1 .. Len(pb)) \X (1 .. Len(tabs))
           step == [k \in 1 .. Len(pb) |-> [s \in SUBSET S |-> HeldRound(s)]]
<1>1. step \in Rounds(Len(pb), SUBSET S) /\ ((1 .. Len(pb)) \X (1 .. Len(tabs))) \in SUBSET S
  <2>1. \A s \in SUBSET S : HeldRound(s) \in SUBSET S BY DEF HeldRound
  <2> HIDE DEF S
  <2> QED BY <2>1 DEF Rounds, S
<1>2. \A k \in 1 .. Len(pb) : \A s \in SUBSET S : step[k][s] = HeldRound(s) OBVIOUS
<1> HIDE DEF step
<1>3. PICK f : IsLoop(Len(pb), SUBSET S, ((1 .. Len(pb)) \X (1 .. Len(tabs))), step, f)
  BY <1>1, LoopExists
<1>4. f \in [0 .. Len(pb) -> SUBSET S] /\ f[0] = ((1 .. Len(pb)) \X (1 .. Len(tabs))) /\ \A k \in 1 .. Len(pb) : f[k] = step[k][f[k - 1]]
  BY <1>3 DEF IsLoop
<1>5. \A k \in 1 .. Len(pb) : f[k] = HeldRound(f[k - 1])
  <2> TAKE k \in 1 .. Len(pb)
  <2>1. k - 1 \in 0 .. Len(pb) OBVIOUS
  <2> QED BY <1>2, <1>4, <2>1
<1> DEFINE P(g) == g = [d \in 0 .. Len(pb) |-> {h \in (1 .. Len(pb)) \X (1 .. Len(tabs)) : d # 0 => \A i \in 1 .. Len(Fields[pb[h[1]].type]) : HasField(h[1], h[2], i, g[d - 1])}]
           u == CHOOSE g : P(g)
<1>6. P(f) BY <1>4, <1>5 DEF HeldRound
<1>7. P(u) BY <1>6
<1>8. Held = u[Len(pb)] BY DEF Held
<1> HIDE DEF u
<1>9. ASSUME NEW d \in 0 .. Len(pb)
      PROVE  u[d] = {h \in (1 .. Len(pb)) \X (1 .. Len(tabs)) : d # 0 => \A i \in 1 .. Len(Fields[pb[h[1]].type]) : HasField(h[1], h[2], i, u[d - 1])}
  BY <1>7
<1>10. u[0] = ((1 .. Len(pb)) \X (1 .. Len(tabs))) BY <1>9
<1>11. ASSUME NEW k \in 1 .. Len(pb) PROVE u[k] = HeldRound(u[k - 1]) BY <1>9 DEF HeldRound
<1>12. \A k \in 0 .. Len(pb) : u[k] \subseteq S BY <1>9
<1> QED BY <1>8, <1>10, <1>11, <1>12 DEF HeldLoop

FatalRound(pairs) ==
    {h \in Types \X (1 .. Len(tabs)) : \E i \in 1 .. Len(Fields[h[1]]) : FatalField(h[1], h[2], i, pairs)}

FatalLoop(f) ==
    /\ f[0] = {} /\ \A k \in 1 .. Len(pb) : f[k] = FatalRound(f[k - 1])
    /\ \A k \in 0 .. Len(pb) : f[k] \subseteq Types \X (1 .. Len(tabs))
    /\ Fatal = f[Len(pb)]

LEMMA FatalLoops == ASSUME Len(pb) \in Nat PROVE \E f : FatalLoop(f)
<1> DEFINE S == Types \X (1 .. Len(tabs))
           step == [k \in 1 .. Len(pb) |-> [s \in SUBSET S |-> FatalRound(s)]]
<1>1. step \in Rounds(Len(pb), SUBSET S) /\ {} \in SUBSET S
  <2>1. \A s \in SUBSET S : FatalRound(s) \in SUBSET S BY DEF FatalRound
  <2> HIDE DEF S
  <2> QED BY <2>1 DEF Rounds, S
<1>2. \A k \in 1 .. Len(pb) : \A s \in SUBSET S : step[k][s] = FatalRound(s) OBVIOUS
<1> HIDE DEF step
<1>3. PICK f : IsLoop(Len(pb), SUBSET S, {}, step, f) BY <1>1, LoopExists
<1>4. f \in [0 .. Len(pb) -> SUBSET S] /\ f[0] = {} /\ \A k \in 1 .. Len(pb) : f[k] = step[k][f[k - 1]]
  BY <1>3 DEF IsLoop
<1>5. \A k \in 1 .. Len(pb) : f[k] = FatalRound(f[k - 1])
  <2> TAKE k \in 1 .. Len(pb)
  <2>1. k - 1 \in 0 .. Len(pb) OBVIOUS
  <2> QED BY <1>2, <1>4, <2>1
<1> DEFINE P(g) == g = [d \in 0 .. Len(pb) |-> {h \in Types \X (1 .. Len(tabs)) : d # 0 /\ \E i \in 1 .. Len(Fields[h[1]]) : FatalField(h[1], h[2], i, g[d - 1])}]
           u == CHOOSE g : P(g)
<1>6. P(f) BY <1>4, <1>5 DEF FatalRound
<1>7. P(u) BY <1>6, Zenon
<1>8. Fatal = u[Len(pb)] BY DEF Fatal
<1> HIDE DEF u
<1>9. ASSUME NEW d \in 0 .. Len(pb)
      PROVE  u[d] = {h \in Types \X (1 .. Len(tabs)) : d # 0 /\ \E i \in 1 .. Len(Fields[h[1]]) : FatalField(h[1], h[2], i, u[d - 1])}
  BY <1>7, Zenon
<1>10. u[0] = {} BY <1>9
<1>11. ASSUME NEW k \in 1 .. Len(pb) PROVE u[k] = FatalRound(u[k - 1]) BY <1>9 DEF FatalRound
<1>12. \A k \in 0 .. Len(pb) : u[k] \subseteq S BY <1>9
<1> QED BY <1>8, <1>10, <1>11, <1>12 DEF FatalLoop

AlikeRound(pairs) ==
    {h \in (1 .. Len(pb)) \X (0 .. Len(pb)) : /\ h[2] # 0 => pb[h[2]].type = pb[h[1]].type
      /\ \A i \in 1 .. Len(Fields[pb[h[1]].type]) : SameField(h[1], h[2], i, pairs)}

AlikeLoop(f) ==
    /\ f[0] = ((1 .. Len(pb)) \X (0 .. Len(pb))) /\ \A k \in 1 .. Len(pb) : f[k] = AlikeRound(f[k - 1])
    /\ \A k \in 0 .. Len(pb) : f[k] \subseteq (1 .. Len(pb)) \X (0 .. Len(pb))
    /\ Alike = f[Len(pb)]

LEMMA AlikeLoops == ASSUME Len(pb) \in Nat PROVE \E f : AlikeLoop(f)
<1> DEFINE S == (1 .. Len(pb)) \X (0 .. Len(pb))
           step == [k \in 1 .. Len(pb) |-> [s \in SUBSET S |-> AlikeRound(s)]]
<1>1. step \in Rounds(Len(pb), SUBSET S) /\ ((1 .. Len(pb)) \X (0 .. Len(pb))) \in SUBSET S
  <2>1. \A s \in SUBSET S : AlikeRound(s) \in SUBSET S BY DEF AlikeRound
  <2> HIDE DEF S
  <2> QED BY <2>1 DEF Rounds, S
<1>2. \A k \in 1 .. Len(pb) : \A s \in SUBSET S : step[k][s] = AlikeRound(s) OBVIOUS
<1> HIDE DEF step
<1>3. PICK f : IsLoop(Len(pb), SUBSET S, ((1 .. Len(pb)) \X (0 .. Len(pb))), step, f)
  BY <1>1, LoopExists
<1>4. f \in [0 .. Len(pb) -> SUBSET S] /\ f[0] = ((1 .. Len(pb)) \X (0 .. Len(pb))) /\ \A k \in 1 .. Len(pb) : f[k] = step[k][f[k - 1]]
  BY <1>3 DEF IsLoop
<1>5. \A k \in 1 .. Len(pb) : f[k] = AlikeRound(f[k - 1])
  <2> TAKE k \in 1 .. Len(pb)
  <2>1. k - 1 \in 0 .. Len(pb) OBVIOUS
  <2> QED BY <1>2, <1>4, <2>1
<1> DEFINE P(g) == g = [d \in 0 .. Len(pb) |-> {h \in (1 .. Len(pb)) \X (0 .. Len(pb)) : d # 0 => (/\ h[2] # 0 => pb[h[2]].type = pb[h[1]].type
      /\ \A i \in 1 .. Len(Fields[pb[h[1]].type]) : SameField(h[1], h[2], i, g[d - 1]))}]
           u == CHOOSE g : P(g)
<1>6. P(f) BY <1>4, <1>5 DEF AlikeRound
<1>7. P(u) BY <1>6
<1>8. Alike = u[Len(pb)] BY DEF Alike
<1> HIDE DEF u
<1>9. ASSUME NEW d \in 0 .. Len(pb)
      PROVE  u[d] = {h \in (1 .. Len(pb)) \X (0 .. Len(pb)) : d # 0 => (/\ h[2] # 0 => pb[h[2]].type = pb[h[1]].type
      /\ \A i \in 1 .. Len(Fields[pb[h[1]].type]) : SameField(h[1], h[2], i, u[d - 1]))} BY <1>7
<1>10. u[0] = ((1 .. Len(pb)) \X (0 .. Len(pb))) BY <1>9
<1>11. ASSUME NEW k \in 1 .. Len(pb) PROVE u[k] = AlikeRound(u[k - 1]) BY <1>9 DEF AlikeRound
<1>12. \A k \in 0 .. Len(pb) : u[k] \subseteq S BY <1>9
<1> QED BY <1>8, <1>10, <1>11, <1>12 DEF AlikeLoop

----------------------------------------------------------------------------
\* What is closed under the definitions is among what they define.

LEMMA HasFieldMono ==
    ASSUME NEW o, NEW ref, NEW i, NEW held, NEW more, held \subseteq more, HasField(o, ref, i, held)
    PROVE  HasField(o, ref, i, more)
<1> DEFINE field == Fields[pb[o].type][i]
           x == Get(tabs[ref], Name(field))
           y == pb[o].val[i]
           Is(a, b, S) == IF field.kind = "message" THEN <<a, b.v>> \in S /\ pb[a].type = field.sub
                          ELSE a \in ScalarOf(field.kind, b)
           Of(S) == IF ~field.rep THEN IF Takes(field.kind, x) THEN Is(y, x, S) ELSE y = Unset(field) /\ ~Throws(field.kind, x)
                    ELSE IF x.t # "table" THEN y = <<>>
                    ELSE \E n \in Lengths(tabs[x.v]) :
                           /\ ~Breaks(field.kind, tabs[x.v], n)
                           /\ LET places == Places(field.kind, tabs[x.v], n)
                              IN Len(y) = Len(places) /\ \A j \in 1 .. Len(places) : Is(y[j], Item(tabs[x.v], places[j]), S)
<1>1. HasField(o, ref, i, held) = Of(held) /\ HasField(o, ref, i, more) = Of(more)
  BY Zenon DEF HasField
<1>2. \A a, b : Is(a, b, held) => Is(a, b, more) OBVIOUS
<1> HIDE DEF field, x, y, Is
<1>3. Of(held) => Of(more) BY <1>2, Zenon
<1> QED BY <1>1, <1>3

LEMMA HeldIs ==
    ASSUME Len(pb) \in Nat, NEW G, G \subseteq HeldRound(G)
    PROVE  G \subseteq Held
<1>1. PICK f : HeldLoop(f) BY HeldLoops
<1> DEFINE T == {k \in 0 .. Len(pb) : G \subseteq f[k]}
<1>2. G \subseteq ((1 .. Len(pb)) \X (1 .. Len(tabs))) BY DEF HeldRound
<1>3. 0 \in T BY <1>1, <1>2 DEF HeldLoop
<1>4. \A k \in 1 .. Len(pb) : k - 1 \in T => k \in T
  <2> TAKE k \in 1 .. Len(pb)
  <2> HAVE k - 1 \in T
  <2>1. G \subseteq f[k - 1] /\ k \in 0 .. Len(pb) /\ f[k] = HeldRound(f[k - 1])
    BY <1>1 DEF HeldLoop
  <2>2. HeldRound(G) \subseteq HeldRound(f[k - 1]) BY <2>1, HasFieldMono, Zenon DEF HeldRound
  <2> QED BY <2>1, <2>2
<1> HIDE DEF T
<1>5. \A k \in 0 .. Len(pb) : k \in T BY <1>3, <1>4, LoopInduction
<1>6. Len(pb) \in T BY <1>5
<1> QED BY <1>1, <1>6 DEF T, HeldLoop

LEMMA SameFieldMono ==
    ASSUME NEW o, NEW p, NEW i, NEW alike, NEW more, alike \subseteq more, SameField(o, p, i, alike)
    PROVE  SameField(o, p, i, more)
<1> DEFINE field == Fields[pb[o].type][i]
           y == pb[o].val[i]
           x == Fetched(pb[o].type, p)[i]
           Same(a, b, S) == IF field.kind = "message" THEN <<a, b>> \in S /\ pb[a].type = field.sub
                            ELSE a = Trim(field.kind, b)
           Of(S) == IF field.rep THEN Len(y) = Len(x) /\ \A j \in 1 .. Len(x) : Same(y[j], x[j], S) ELSE Same(y, x, S)
<1>1. SameField(o, p, i, alike) = Of(alike) /\ SameField(o, p, i, more) = Of(more)
  BY Zenon DEF SameField
<1>2. \A a, b : Same(a, b, alike) => Same(a, b, more) OBVIOUS
<1> HIDE DEF field, x, y, Same
<1>3. Of(alike) => Of(more) BY <1>2, Zenon
<1> QED BY <1>1, <1>3

LEMMA AlikeIs ==
    ASSUME Len(pb) \in Nat, NEW G, G \subseteq AlikeRound(G)
    PROVE  G \subseteq Alike
<1>1. PICK f : AlikeLoop(f) BY AlikeLoops
<1> DEFINE T == {k \in 0 .. Len(pb) : G \subseteq f[k]}
<1>2. G \subseteq ((1 .. Len(pb)) \X (0 .. Len(pb))) BY DEF AlikeRound
<1>3. 0 \in T BY <1>1, <1>2 DEF AlikeLoop
<1>4. \A k \in 1 .. Len(pb) : k - 1 \in T => k \in T
  <2> TAKE k \in 1 .. Len(pb)
  <2> HAVE k - 1 \in T
  <2>1. G \subseteq f[k - 1] /\ k \in 0 .. Len(pb) /\ f[k] = AlikeRound(f[k - 1])
    BY <1>1 DEF AlikeLoop
  <2>2. AlikeRound(G) \subseteq AlikeRound(f[k - 1]) BY <2>1, SameFieldMono, Zenon DEF AlikeRound
  <2> QED BY <2>1, <2>2
<1> HIDE DEF T
<1>5. \A k \in 0 .. Len(pb) : k \in T BY <1>3, <1>4, LoopInduction
<1>6. Len(pb) \in T BY <1>5
<1> QED BY <1>1, <1>6 DEF T, AlikeLoop

LEMMA FatalNests ==
    ASSUME NEW T, NEW ref, NEW i, NEW sub, NEW ref2, Nests(tabs, T, ref, i, sub, ref2),
           NEW fatal, <<sub, ref2>> \in fatal
    PROVE  FatalField(T, ref, i, fatal) BY DEF Val, Nests, FatalField

LEMMA FatalMono ==
    ASSUME NEW T, NEW ref, NEW i, NEW fatal, NEW more, fatal \subseteq more, FatalField(T, ref, i, fatal)
    PROVE  FatalField(T, ref, i, more)
<1> DEFINE field == Fields[T][i]
           x == Get(tabs[ref], Name(field))
           Dies(b, S) == field.kind = "message" /\ b.t = "table" /\ <<field.sub, b.v>> \in S
           Of(S) == IF field.rep THEN x.t = "table" /\ \E n \in Lengths(tabs[x.v]) :
                         Breaks(field.kind, tabs[x.v], n) \/ \E j \in 1 .. n : Dies(Item(tabs[x.v], j), S)
                    ELSE Throws(field.kind, x) \/ Dies(x, S)
<1>1. FatalField(T, ref, i, fatal) = Of(fatal) /\ FatalField(T, ref, i, more) = Of(more)
  BY Zenon DEF FatalField
<1>2. \A b : Dies(b, fatal) => Dies(b, more) OBVIOUS
<1> HIDE DEF field, x, Dies
<1>3. Of(fatal) => Of(more) BY <1>2, Zenon
<1> QED BY <1>1, <1>3

LEMMA FatalGrows ==
    ASSUME Len(pb) \in Nat, NEW f, FatalLoop(f), NEW k \in 0 .. Len(pb)
    PROVE  f[k] \subseteq f[Len(pb)]
<1> DEFINE N == Len(pb)
           T == {m \in 0 .. N : m < N => f[m] \subseteq f[m + 1]}
<1>1. f[0] = {} /\ \A m \in 1 .. N : f[m] = FatalRound(f[m - 1]) BY DEF FatalLoop
<1>2. 0 \in T BY <1>1
<1>3. \A m \in 1 .. N : m - 1 \in T => m \in T
  <2> TAKE m \in 1 .. N
  <2> HAVE m - 1 \in T
  <2> SUFFICES ASSUME m < N PROVE f[m] \subseteq f[m + 1] OBVIOUS
  <2>1. f[m - 1] \subseteq f[m] OBVIOUS
  <2>2. f[m] = FatalRound(f[m - 1]) /\ f[m + 1] = FatalRound(f[m]) BY <1>1
  <2> DEFINE A == f[m - 1]
             B == f[m]
  <2>3. FatalRound(A) \subseteq FatalRound(B)
    <3>1. A \subseteq B BY <2>1
    <3> HIDE DEF A, B
    <3>2. ASSUME NEW h \in FatalRound(A) PROVE h \in FatalRound(B)
      BY <3>2, <3>1, FatalMono DEF FatalRound
    <3> QED BY <3>2, Zenon
  <2> QED BY <2>2, <2>3
<1> HIDE DEF T
<1>4. \A m \in 0 .. N : m \in T BY <1>2, <1>3, LoopInduction
<1> DEFINE U == {m \in 0 .. N : f[N - m] \subseteq f[N]}
<1>5. 0 \in U OBVIOUS
<1>6. \A m \in 1 .. N : m - 1 \in U => m \in U
  <2> TAKE m \in 1 .. N
  <2> HAVE m - 1 \in U
  <2>1. N - m \in 0 .. N /\ N - m < N /\ (N - m) + 1 = N - (m - 1) OBVIOUS
  <2>2. f[N - m] \subseteq f[N - (m - 1)] BY <1>4, <2>1 DEF T
  <2> QED BY <2>2
<1> HIDE DEF U
<1>7. \A m \in 0 .. N : m \in U BY <1>5, <1>6, LoopInduction
<1>8. N - k \in 0 .. N /\ N - (N - k) = k OBVIOUS
<1> QED BY <1>7, <1>8 DEF U

\* A message that finds what the conversion does not survive, below the outermost.
LEMMA FatalChain ==
    ASSUME Len(pb) \in Nat, root \in 1 .. Len(pb), NEW src,
           \A o \in root .. Len(pb) : pb[o].type \in Types /\ src[o] \in 1 .. Len(tabs),
           \A o \in root + 1 .. Len(pb) : \E p \in root .. o - 1 : \E i \in 1 .. Len(Fields[pb[p].type]) :
              Nests(tabs, pb[p].type, src[p], i, pb[o].type, src[o]),
           NEW b \in root .. Len(pb), NEW c \in 1 .. Len(Fields[pb[b].type]),
           FatalField(pb[b].type, src[b], c, {})
    PROVE  <<pb[root].type, src[root]>> \in Fatal
<1> DEFINE N == Len(pb)
           H(o) == <<pb[o].type, src[o]>>
<1>1. PICK f : FatalLoop(f) BY FatalLoops
<1>2. /\ f[0] = {} /\ Fatal = f[N]
      /\ \A m \in 1 .. N : f[m] = FatalRound(f[m - 1]) BY <1>1 DEF FatalLoop
<1>3. ASSUME NEW o \in root .. N, NEW d \in 1 .. N, NEW i \in 1 .. Len(Fields[pb[o].type]),
             FatalField(pb[o].type, src[o], i, f[d - 1])
      PROVE  H(o) \in f[d]
  <2>1. f[d] = FatalRound(f[d - 1]) BY <1>2
  <2>2. H(o) \in Types \X (1 .. Len(tabs)) /\ H(o)[1] = pb[o].type /\ H(o)[2] = src[o] OBVIOUS
  <2> HIDE DEF H
  <2>3. H(o) \in FatalRound(f[d - 1]) BY <1>3, <2>2, Zenon DEF FatalRound
  <2> QED BY <2>1, <2>3
<1> DEFINE T == {m \in 0 .. N - root : \A o \in root .. root + m : \A d \in 1 .. N :
                    d + (o - root) <= N /\ H(o) \in f[d] => H(root) \in f[N]}
<1> HIDE DEF H
<1>4. 0 \in T
  <2>1. \A d \in 1 .. N : f[d] \subseteq f[N]
    <3> TAKE d \in 1 .. N
    <3>1. d \in 0 .. N OBVIOUS
    <3> QED BY <1>1, <3>1, FatalGrows
  <2>2. \A o \in root .. root + 0 : o = root OBVIOUS
  <2>3. 0 \in 0 .. N - root OBVIOUS
  <2> QED BY <2>1, <2>2, <2>3, Zenon
<1>5. \A m \in 1 .. N - root : m - 1 \in T => m \in T
  <2> TAKE m \in 1 .. N - root
  <2> HAVE m - 1 \in T
  <2> SUFFICES ASSUME NEW o \in root .. root + m, NEW d \in 1 .. N, d + (o - root) <= N, H(o) \in f[d]
               PROVE  H(root) \in f[N] OBVIOUS
  <2>1. CASE o \in root .. root + (m - 1) BY <2>1
  <2>2. CASE o = root + m
    <3>1. o \in root + 1 .. N BY <2>2
    <3>2. PICK p \in root .. o - 1 : \E i \in 1 .. Len(Fields[pb[p].type]) :
              Nests(tabs, pb[p].type, src[p], i, pb[o].type, src[o]) BY <3>1
    <3>3. PICK i \in 1 .. Len(Fields[pb[p].type]) : Nests(tabs, pb[p].type, src[p], i, pb[o].type, src[o])
      BY <3>2
    <3>4. FatalField(pb[p].type, src[p], i, f[d]) BY <3>3, FatalNests, Zenon DEF H
    <3>5. p \in root .. N /\ d + 1 \in 1 .. N /\ (d + 1) - 1 = d /\ p \in root .. root + (m - 1)
          /\ (d + 1) + (p - root) <= N BY <2>2, <3>1
    <3>6. H(p) \in f[d + 1] BY <1>3, <3>4, <3>5
    <3> QED BY <3>5, <3>6
  <2>3. o \in root .. root + (m - 1) \/ o = root + m OBVIOUS
  <2> QED BY <2>1, <2>2, <2>3
<1> HIDE DEF T
<1>6. N - root \in Nat OBVIOUS
<1>7. \A m \in 0 .. N - root : m \in T BY <1>4, <1>5, <1>6, LoopInduction
<1>8. N - root \in T BY <1>6, <1>7
<1>9. H(b) \in f[1]
  <2>1. 1 \in 1 .. N /\ 1 - 1 = 0 /\ b \in root .. N OBVIOUS
  <2>2. f[1 - 1] = {} BY <1>2, <2>1
  <2>3. FatalField(pb[b].type, src[b], c, f[1 - 1]) BY <2>2, Zenon
  <2> QED BY <1>3, <2>1, <2>3, Zenon
<1>10. b \in root .. root + (N - root) /\ 1 \in 1 .. N /\ 1 + (b - root) <= N OBVIOUS
<1>11. H(root) \in f[N] BY <1>8, <1>9, <1>10, Zenon DEF T
<1> QED BY <1>2, <1>11 DEF H

----------------------------------------------------------------------------
\* Keys, and fields that have what their table says.

LEMMA GetIs ==
    ASSUME NEW pairs, Uniq(pairs), NEW j \in 1 .. Len(pairs)
    PROVE  Get(pairs, pairs[j][1]) = pairs[j][2] /\ PlaceOf(pairs, pairs[j][1]) = j
<1> DEFINE i == CHOOSE i \in 1 .. Len(pairs) : pairs[i][1] = pairs[j][1]
<1>1. i \in 1 .. Len(pairs) /\ pairs[i][1] = pairs[j][1] OBVIOUS
<1>2. i = j
  <2> HIDE DEF i
  <2> QED BY <1>1 DEF Uniq
<1>3. Get(pairs, pairs[j][1]) = pairs[i][2] BY DEF Get
<1>4. PlaceOf(pairs, pairs[j][1]) = i BY DEF PlaceOf
<1> HIDE DEF i
<1> QED BY <1>2, <1>3, <1>4

LEMMA GetNone ==
    ASSUME NEW pairs, NEW key, \A j \in 1 .. Len(pairs) : pairs[j][1] # key
    PROVE  Get(pairs, key) = LuaNil BY DEF Get

LEMMA FieldIsMono ==
    ASSUME NEW field, NEW a, NEW b, NEW objs, NEW more, objs \subseteq more, FieldIs(field, a, b, objs)
    PROVE  FieldIs(field, a, b, more) BY DEF FieldIs

LEMMA FilledMono ==
    ASSUME NEW field, NEW pairs, NEW n, NEW y, NEW objs, NEW more, objs \subseteq more,
           FilledTo(field, pairs, n, y, objs)
    PROVE  FilledTo(field, pairs, n, y, more) BY FieldIsMono, Zenon DEF FilledTo

LEMMA HeldByMono ==
    ASSUME NEW tb, NEW T, NEW ref, NEW i, NEW y, NEW objs, NEW more, objs \subseteq more, HeldBy(tb, T, ref, i, y, objs)
    PROVE  HeldBy(tb, T, ref, i, y, more) BY FieldIsMono, FilledMono, Zenon DEF HeldBy

LEMMA SoFarMono ==
    ASSUME NEW tb, NEW T, NEW ref, NEW c, NEW i, NEW y, NEW objs, NEW more, objs \subseteq more,
           SoFar(tb, T, ref, c, i, y, objs)
    PROVE  SoFar(tb, T, ref, c, i, y, more) BY HeldByMono, Zenon DEF SoFar

\* A field takes nothing from nil.
LEMMA NilTakes ==
    ASSUME NEW kind \in Scalars \cup {"message"}
    PROVE  ~Takes(kind, LuaNil) /\ ~Throws(kind, LuaNil)
<1>1. LuaNil.t = "nil" BY DEF LuaNil, Val
<1>2. ~IsNumber(LuaNil) /\ ~IsString(LuaNil) BY <1>1 DEF IsNumber, IsString
<1>3. CASE kind = "message" BY <1>1, <1>3 DEF Takes, Throws
<1>4. CASE kind # "message"
  <2>1. ScalarOf(kind, LuaNil) = {}
    BY <1>1, <1>2, <1>4 DEF Scalars, ScalarOf, Int32Of, Int64Of, UInt32Of, UInt64Of, DoubleOf, FloatOf, BoolOf, StringOf, EnumOf
  <2> QED BY <1>2, <1>4, <2>1 DEF Takes, Throws
<1> QED BY <1>3, <1>4

LEMMA AbsentHeld ==
    ASSUME NEW tb, NEW T \in Types, NEW i \in 1 .. Len(Fields[T]), NEW ref, NEW objs,
           \A j \in 1 .. Len(tb[ref]) : tb[ref][j][1] # Name(Fields[T][i])
    PROVE  HeldBy(tb, T, ref, i, Unset(Fields[T][i]), objs)
<1>1. Get(tb[ref], Name(Fields[T][i])) = LuaNil BY GetNone
<1>2. Fields[T][i] \in FieldSet BY FieldType
<1>3. Fields[T][i].kind \in Scalars \cup {"message"} /\ LuaNil.t # "table"
  BY <1>2 DEF FieldSet, LuaNil, Val
<1>4. ~Takes(Fields[T][i].kind, LuaNil) /\ ~Throws(Fields[T][i].kind, LuaNil) BY <1>3, NilTakes
<1>5. Fields[T][i].rep => Unset(Fields[T][i]) = <<>> BY DEF Unset
<1> QED BY <1>1, <1>3, <1>4, <1>5 DEF HeldBy

LEMMA NewSoFar ==
    ASSUME NEW tb, NEW T, NEW i, NEW ref, NEW objs
    PROVE  SoFar(tb, T, ref, 0, i, Unset(Fields[T][i]), objs) BY DEF SoFar

\* One pair further: the field that it names may get any value.
LEMMA NextSoFar ==
    ASSUME NEW tb, NEW T, NEW i, NEW ref, NEW objs, NEW y, NEW c \in Nat,
           c + 1 \in 1 .. Len(tb[ref]), Uniq(tb[ref]),
           \/ tb[ref][c + 1][1] = Name(Fields[T][i])
           \/ /\ SoFar(tb, T, ref, c, i, y, objs)
              /\ c > 0 /\ tb[ref][c][1] = Name(Fields[T][i]) => HeldBy(tb, T, ref, i, y, objs)
    PROVE  SoFar(tb, T, ref, c + 1, i, y, objs)
<1> DEFINE pairs == tb[ref]
           name == Name(Fields[T][i])
           unset == Unset(Fields[T][i])
           held == HeldBy(tb, T, ref, i, y, objs)
<1>1. Len(pairs) \in Nat \/ Len(pairs) \notin Nat OBVIOUS
<1>2. CASE pairs[c + 1][1] = name BY <1>2 DEF Uniq, SoFar
<1>3. CASE pairs[c + 1][1] # name
  <2>1. SoFar(tb, T, ref, c, i, y, objs) /\ (c > 0 /\ pairs[c][1] = name => held) BY <1>3
  <2>2. /\ (\A j \in 1 .. c : pairs[j][1] # name) => y = unset
        /\ (\E j \in 1 .. c - 1 : pairs[j][1] = name) => held BY <2>1 DEF SoFar
  <2> HIDE DEF pairs, name, unset, held
  <2>3. (\A j \in 1 .. c + 1 : pairs[j][1] # name) => y = unset BY <2>2
  <2>4. (\E j \in 1 .. (c + 1) - 1 : pairs[j][1] = name) => held BY <2>1, <2>2
  <2> QED BY <2>3, <2>4 DEF SoFar, pairs, name, unset, held
<1> QED BY <1>2, <1>3

LEMMA EndSoFar ==
    ASSUME NEW tb, NEW T \in Types, NEW i \in 1 .. Len(Fields[T]), NEW ref, NEW objs, NEW y, NEW c \in Nat,
           c = Len(tb[ref]), SoFar(tb, T, ref, c, i, y, objs),
           c > 0 /\ tb[ref][c][1] = Name(Fields[T][i]) => HeldBy(tb, T, ref, i, y, objs)
    PROVE  HeldBy(tb, T, ref, i, y, objs)
<1>1. CASE \A j \in 1 .. c : tb[ref][j][1] # Name(Fields[T][i])
  <2>1. y = Unset(Fields[T][i]) BY <1>1 DEF SoFar
  <2> QED BY <1>1, <2>1, AbsentHeld
<1>2. CASE \E j \in 1 .. c : tb[ref][j][1] = Name(Fields[T][i]) BY <1>2 DEF SoFar
<1> QED BY <1>1, <1>2

LEMMA FilledNone == ASSUME NEW field, NEW pairs, NEW objs PROVE FilledTo(field, pairs, 0, <<>>, objs)
BY PlacesNext DEF FilledTo

LEMMA FilledNext ==
    ASSUME NEW field, NEW pairs, NEW objs, NEW n \in Nat, NEW y, NEW z, FilledTo(field, pairs, n, y, objs),
           IF Takes(field.kind, Item(pairs, n + 1))
           THEN \E v : z = Append(y, v) /\ FieldIs(field, v, Item(pairs, n + 1), objs)
           ELSE z = y
    PROVE  FilledTo(field, pairs, n + 1, z, objs)
<1> DEFINE p == Places(field.kind, pairs, n)
           q == Places(field.kind, pairs, n + 1)
<1>1. p \in Seq(Nat) /\ q = PlaceRound(field.kind, pairs, n + 1, p) BY PlacesNext
<1>2. PICK V : y \in Seq(V) BY DEF FilledTo
<1>3. Len(y) = Len(p) /\ \A j \in 1 .. Len(y) : FieldIs(field, y[j], Item(pairs, p[j]), objs)
  BY DEF FilledTo
<1>4. CASE ~Takes(field.kind, Item(pairs, n + 1)) BY <1>1, <1>4 DEF PlaceRound, FilledTo
<1>5. CASE Takes(field.kind, Item(pairs, n + 1))
  <2>1. PICK v : z = Append(y, v) /\ FieldIs(field, v, Item(pairs, n + 1), objs) BY <1>5
  <2>2. q = Append(p, n + 1) BY <1>1, <1>5 DEF PlaceRound
  <2> HIDE DEF p, q
  <2>3. z \in Seq(V \cup {v}) /\ Len(z) = Len(y) + 1 /\ Len(q) = Len(p) + 1 /\ Len(y) \in Nat
    BY <1>2, SeqMono, <1>1, <2>1, <2>2
  <2>4. ASSUME NEW j \in 1 .. Len(z) PROVE FieldIs(field, z[j], Item(pairs, q[j]), objs)
    <3>1. CASE j = Len(z) BY <1>1, <1>2, <1>3, <2>1, <2>2, <2>3, <3>1
    <3>2. CASE j # Len(z)
      <4>1. j \in 1 .. Len(y) /\ j \in 1 .. Len(p) BY <1>3, <2>3, <3>2
      <4>2. z[j] = y[j] BY <1>2, <2>1, <4>1
      <4>3. q[j] = p[j] BY <1>1, <2>2, <4>1 DEF p
      <4> QED BY <1>3, <4>1, <4>2, <4>3 DEF p
    <3> QED BY <3>1, <3>2
  <2> QED BY <1>3, <2>3, <2>4 DEF FilledTo, q
<1> QED BY <1>4, <1>5

----------------------------------------------------------------------------
\* The messages that a conversion makes and the tables they stand for.

LEMMA SizeOf ==
    ASSUME IInv
    PROVE  /\ Len(pb) \in Nat /\ Len(tabs) \in Nat /\ Len(rframes) \in Nat /\ Len(stack) \in Nat
           /\ \A o \in 1 .. Len(pb) : pb[o].type \in Types
<1>1. \E V : pb \in Seq([type : Types, val : V]) BY Zenon DEF IInv, Typed
<1>2. PICK V : pb \in Seq([type : Types, val : V]) BY <1>1, Zenon
<1> DEFINE S == [type : Types, val : V]
<1>3. Len(pb) \in Nat /\ \A o \in 1 .. Len(pb) : pb[o] \in S
  <2> HIDE DEF S
  <2>1. pb \in Seq(S) BY <1>2 DEF S
  <2> QED BY <2>1
<1>4. tabs \in Seq(Seq(Pairs(Len(tabs)))) /\ stack \in Seq(Values(Len(tabs))) BY DEF IInv, HeapOK
<1>5. rframes \in Seq(RSet) BY DEF IInv, ROK, FramesOn
<1>6. \A o \in 1 .. Len(pb) : pb[o].type \in Types BY <1>3
<1> HIDE DEF S
<1>7. Len(tabs) \in Nat /\ Len(stack) \in Nat /\ Len(rframes) \in Nat BY <1>4, <1>5
<1> QED BY <1>3, <1>6, <1>7

LEMMA TouchedBase ==
    ASSUME IInv, NEW src, NEW src2, NEW q0, NEW f, Known(src), Touched(src, src2, q0, f)
    PROVE  /\ Objs(src) \subseteq Objs(src2)'
           /\ \A o \in root .. Len(pb) : o \in 1 .. Len(pb) /\ o \in (root .. Len(pb))' /\ FieldsOf(o)' = FieldsOf(o)
           /\ root \in 1 .. Len(pb) /\ Len(pb) \in Nat
<1>1. root \in 1 .. Len(pb) /\ Len(pb) \in Nat /\ root' = root /\ Len(pb') >= Len(pb) /\ Len(pb') \in Nat
  BY SizeOf DEF Known, Touched, Steady
<1>2. ASSUME NEW o \in root .. Len(pb)
      PROVE  /\ o \in 1 .. Len(pb) /\ o \in (root .. Len(pb))' /\ FieldsOf(o)' = FieldsOf(o)
             /\ pb'[o].type = pb[o].type /\ src2[o] = src[o] BY <1>1 DEF Touched, FieldsOf
<1>3. Objs(src) \subseteq Objs(src2)' BY <1>2 DEF Objs
<1> QED BY <1>1, <1>2, <1>3

\* A field that is held stays so; the fields of an open message stay as they are.
LEMMA HeldKept ==
    ASSUME IInv, NEW src, NEW src2, NEW q0, NEW f, Known(src), Touched(src, src2, q0, f),
           NEW o \in root .. Len(pb), NEW i \in FieldsOf(o), o # q0 \/ i # f, HeldAt(src, o, i)
    PROVE  HeldAt(src2, o, i)'
<1>1. Objs(src) \subseteq Objs(src2)' /\ o \in 1 .. Len(pb) BY TouchedBase
<1>2. tabs' = tabs /\ pb'[o].type = pb[o].type /\ src2[o] = src[o] BY <1>1 DEF Touched, Steady
<1>3. i \in DOMAIN pb[o].val BY DEF Known
<1>4. pb'[o].val[i] = pb[o].val[i] BY <1>1, <1>3 DEF Touched
<1> DEFINE T == pb[o].type
           y == pb[o].val[i]
           S1 == Objs(src)
           S2 == Objs(src2)'
<1>5. HeldBy(tabs, T, src[o], i, y, S1) BY DEF HeldAt
<1>6. HeldBy(tabs, T, src[o], i, y, S2)
  <2> HIDE DEF T, y, S1, S2
  <2> QED BY <1>1, <1>5, HeldByMono, Zenon DEF S1, S2
<1>7. HeldAt(src2, o, i)' = HeldBy(tabs', pb'[o].type, src2[o], i, pb'[o].val[i], Objs(src2)')
  BY DEF HeldAt
<1> QED BY <1>2, <1>4, <1>6, <1>7

LEMMA NameOf ==
    ASSUME NEW T \in Types, NEW i \in 1 .. Len(Fields[T]), NEW j \in 1 .. Len(Fields[T]),
           Name(Fields[T][i]) = Name(Fields[T][j])
    PROVE  i = j BY NamesAssumption DEF Name, Val

----------------------------------------------------------------------------
\* The frames in a step: one that waits, and the innermost one that takes a pair.

LEMMA PassedIs ==
    ASSUME NEW src, NEW k, FrameBase(src, k), ~rframes[k].fresh
    PROVE  /\ Passed(k) \in 1 .. Len(tabs[src[rframes[k].obj]])
           /\ tabs[src[rframes[k].obj]][Passed(k)][1] = stack[rframes[k].at + 1]
<1> DEFINE pairs == tabs[src[rframes[k].obj]]
           key == stack[rframes[k].at + 1]
<1>1. src[rframes[k].obj] = stack[rframes[k].at].v /\ \E j \in 1 .. Len(pairs) : pairs[j][1] = key
  BY DEF FrameBase
<1>2. Passed(k) = CHOOSE j \in 1 .. Len(pairs) : pairs[j][1] = key
  BY <1>1, Zenon DEF Passed, PlaceOf
<1> QED BY <1>1, <1>2, Zenon

LEMMA BaseKept ==
    ASSUME IInv, UniqueKeys, NEW src, NEW src2, NEW q0, NEW f, Known(src), Touched(src, src2, q0, f),
           NEW k \in 1 .. Len(rframes), FrameBase(src, k), rframes'[k] = rframes[k],
           stack'[rframes[k].at] = stack[rframes[k].at],
           ~rframes[k].fresh => stack'[rframes[k].at + 1] = stack[rframes[k].at + 1],
           rframes[k].obj # q0 \/ Current(k, f)
    PROVE  FrameBase(src2, k)' /\ \A i \in FieldsOf(rframes[k].obj) : Current(k, i)' = Current(k, i)
<1> DEFINE o == rframes[k].obj
           T == pb[o].type
           ref == src[o]
           S1 == Objs(src)
           S2 == Objs(src2)'
           c == Passed(k)
           Y(i) == pb[o].val[i]
           Z(i) == pb'[o].val[i]
<1>1. /\ o \in root .. Len(pb) /\ src[o] = stack[rframes[k].at].v
      /\ ~rframes[k].fresh => \E j \in 1 .. Len(tabs[ref]) : tabs[ref][j][1] = stack[rframes[k].at + 1]
      /\ \A i \in FieldsOf(o) : SoFar(tabs, T, ref, c, i, Y(i), S1) BY DEF FrameBase
<1>2. /\ S1 \subseteq S2 /\ o \in 1 .. Len(pb) /\ o \in (root .. Len(pb))' /\ FieldsOf(o)' = FieldsOf(o)
      /\ DOMAIN pb[o].val = FieldsOf(o) /\ ref \in 1 .. Len(tabs) /\ T \in Types
  <2>1. o \in 1 .. Len(pb) BY <1>1, TouchedBase
  <2>2. src \in Seq(1 .. Len(tabs)) /\ Len(src) = Len(pb) BY DEF Known
  <2>3. S1 \subseteq S2 /\ o \in (root .. Len(pb))' /\ FieldsOf(o)' = FieldsOf(o)
    BY <1>1, TouchedBase
  <2>4. DOMAIN pb[o].val = FieldsOf(o) BY <1>1 DEF Known
  <2>5. T \in Types BY <2>1, SizeOf
  <2> QED BY <2>1, <2>2, <2>3, <2>4, <2>5
<1>3. tabs' = tabs /\ pb'[o].type = T /\ src2[o] = ref BY <1>2 DEF Touched, Steady
<1>4. Passed(k)' = c /\ \A i \in FieldsOf(o) : Current(k, i)' = Current(k, i)
  <2>1. c = (IF rframes[k].fresh THEN 0 ELSE PlaceOf(tabs[stack[rframes[k].at].v], stack[rframes[k].at + 1]))
    BY DEF Passed
  <2>2. Passed(k)' = IF rframes[k].fresh THEN 0 ELSE PlaceOf(tabs[stack[rframes[k].at].v], stack'[rframes[k].at + 1])
    BY <1>3 DEF Passed, PlaceOf
  <2>3. Passed(k)' = c BY <2>1, <2>2
  <2>4. \A i \in FieldsOf(o) : Current(k, i)' = Current(k, i) BY <1>3 DEF Current
  <2> QED BY <2>3, <2>4
<1>5. ASSUME NEW i \in FieldsOf(o) PROVE SoFar(tabs, T, ref, c, i, Z(i), S2)
  <2>1. CASE o # q0 \/ i # f
    <3>1. Z(i) = Y(i) BY <1>2, <2>1 DEF Touched
    <3>2. SoFar(tabs, T, ref, c, i, Y(i), S1) BY <1>1
    <3> HIDE DEF o, T, ref, S1, S2, c, Y, Z
    <3> QED BY <1>2, <3>1, <3>2, SoFarMono
  <2>2. CASE o = q0 /\ i = f
    <3>1. ~rframes[k].fresh /\ stack[rframes[k].at + 1] = Name(Fields[T][i]) BY <2>2 DEF Current
    <3>2. c \in 1 .. Len(tabs[ref]) /\ tabs[ref][c][1] = Name(Fields[T][i]) BY <3>1, PassedIs
    <3>3. Uniq(tabs[ref]) BY <1>2 DEF UniqueKeys
    <3> HIDE DEF o, T, ref, S1, S2, c, Y, Z
    <3>4. c - 1 \in Nat /\ (c - 1) + 1 = c BY <3>2
    <3>5. SoFar(tabs, T, ref, (c - 1) + 1, i, Z(i), S2) BY <3>2, <3>3, <3>4, NextSoFar
    <3> QED BY <3>4, <3>5
  <2> QED BY <2>1, <2>2
<1>6. FrameBase(src2, k)' BY <1>3, <1>4, <1>5, <1>1, <1>2 DEF FrameBase
<1> QED BY <1>4, <1>6

\* The pair that the innermost frame takes is the one after the last.
LEMMA RoundKey ==
    ASSUME Sending, InLoop, ~BadKey, NEW src, Known(src), FrameBase(src, Len(rframes))
    PROVE  /\ RTable = tabs[src[R.obj]] /\ NextPair = Passed(Len(rframes)) + 1 /\ Passed(Len(rframes)) \in Nat
           /\ Passed(Len(rframes)) \in 0 .. Len(RTable) /\ Len(RTable) \in Nat
           /\ Uniq(RTable) /\ src[R.obj] \in 1 .. Len(tabs)
           /\ ~Left(Len(rframes)) /\ scan = NoScan /\ rframes # <<>>
<1> DEFINE k == Len(rframes)
<1>1. RInv /\ InLoop /\ ~BadKey BY DEF Sending, IInv, RInv
<1>2. /\ k \in Nat /\ k > 0 /\ R = rframes[k] /\ R.at \in Nat /\ R \in RSet /\ R.obj \in 1 .. Len(pb)
      /\ RTable \in Seq(Pairs(Len(tabs))) /\ Len(Rest) = R.at /\ Len(stack) \in Nat
      /\ stack \in Seq(Values(Len(tabs))) BY <1>1, RestFacts DEF Sending, RInv, HeapOK
<1>3. RTable = tabs[src[R.obj]] BY <1>2 DEF RTable, FrameBase
<1>4. ~R.fresh => Len(stack) = R.at + 1 /\ Top = stack[R.at + 1]
  <2> SUFFICES ASSUME ~R.fresh PROVE Len(stack) = R.at + 1 /\ Top = stack[R.at + 1] OBVIOUS
  <2>1. RoundOn(stack, rframes, scan) /\ scan = NoScan BY <1>1 DEF RInv, ROK, Sending, InLoop
  <2>2. Len(stack) = R.at + 1 \/ Len(stack) = R.at + 2 BY <1>2, <2>1 DEF RoundOn, TopOn
  <2>3. Rest = Pop(stack, 1) BY DEF Rest
  <2>4. Len(stack) - 1 = R.at
    <3>1. 1 \in 0 .. Len(stack) BY <1>2, <2>2
    <3> QED BY <1>2, <2>3, <3>1, PopType
  <2> QED BY <1>2, <2>4 DEF Top
<1>5. ~R.fresh => NextPair = Passed(k) + 1 /\ Passed(k) \in 1 .. Len(RTable)
  <2> SUFFICES ASSUME ~R.fresh PROVE NextPair = Passed(k) + 1 /\ Passed(k) \in 1 .. Len(RTable)
    OBVIOUS
  <2>1. Passed(k) \in 1 .. Len(RTable) BY <1>2, <1>3, PassedIs
  <2>2. NextPair = 1 + PlaceOf(RTable, stack[R.at + 1]) BY <1>4 DEF NextPair, PlaceOf
  <2>3. Passed(k) = PlaceOf(RTable, stack[R.at + 1]) BY <1>2 DEF Passed, RTable
  <2> QED BY <2>1, <2>2, <2>3
<1>6. R.fresh => NextPair = Passed(k) + 1 /\ Passed(k) = 0 BY <1>2 DEF NextPair, Passed
<1>7. NextPair = Passed(k) + 1 /\ Passed(k) \in 0 .. Len(RTable) /\ Len(RTable) \in Nat /\ Passed(k) \in Nat
  BY <1>2, <1>5, <1>6 DEF RSet
<1>8. src[R.obj] \in 1 .. Len(tabs) /\ Uniq(RTable)
  <2>1. src \in Seq(1 .. Len(tabs)) /\ Len(src) = Len(pb) BY DEF Known
  <2>2. src[R.obj] \in 1 .. Len(tabs) BY <1>2, <2>1
  <2> QED BY <1>3, <2>2 DEF Sending, UniqueKeys
<1>9. ~Left(k) BY <1>1, <1>2, <1>4 DEF RInv, ROK, Sending, InLoop, RoundOn, TopOn, Left
<1> QED BY <1>1, <1>3, <1>7, <1>8, <1>9 DEF InLoop

LEMMA TakesNext ==
    ASSUME Sending, HasPair, NEW src, Known(src), FrameBase(src, Len(rframes))
    PROVE  /\ RTable = tabs[src[R.obj]] /\ NextPair = Passed(Len(rframes)) + 1 /\ Passed(Len(rframes)) \in Nat
           /\ NextPair \in 1 .. Len(RTable) /\ Uniq(RTable) /\ src[R.obj] \in 1 .. Len(tabs)
           /\ Get(RTable, Key) = Value /\ Key = RTable[NextPair][1]
           /\ ~Left(Len(rframes)) /\ scan = NoScan /\ rframes # <<>>
BY RoundKey, GetIs DEF HasPair, Key, Value

LEMMA Advance ==
    ASSUME Sending, HasPair, NEW src, NEW src2, NEW q0, NEW f, Known(src), Touched(src, src2, q0, f),
           NEW k, k = Len(rframes), FrameBase(src, k), FrameNow(src, k),
           rframes'[k].obj = R.obj, rframes'[k].at = R.at, ~rframes'[k].fresh,
           stack'[R.at] = stack[R.at], stack'[R.at + 1] = Key,
           R.obj # q0 \/ Name(RFields[f]) = Key
    PROVE  /\ FrameBase(src2, k)'
           /\ \A i \in FieldsOf(R.obj) : Current(k, i)' = (Key = Name(RFields[i]))
<1> PICK o : o = R.obj OBVIOUS
<1> DEFINE T == pb[o].type
           ref == src[o]
           S1 == Objs(src)
           S2 == Objs(src2)'
           c == Passed(k)
           Y(i) == pb[o].val[i]
           Z(i) == pb'[o].val[i]
<1>0. /\ RTable = tabs[ref] /\ NextPair = c + 1 /\ c \in Nat
      /\ NextPair \in 1 .. Len(RTable) /\ Uniq(RTable) /\ src[R.obj] \in 1 .. Len(tabs)
      /\ Key = RTable[NextPair][1] /\ ~Left(k) /\ scan = NoScan /\ R = rframes[k] BY TakesNext DEF R
<1>a. IInv /\ UniqueKeys BY DEF Sending
<1>1. /\ o \in root .. Len(pb) /\ src[o] = stack[R.at].v
      /\ \A i \in FieldsOf(o) : SoFar(tabs, T, ref, c, i, Y(i), S1) BY <1>0 DEF FrameBase
<1>2. /\ S1 \subseteq S2 /\ o \in 1 .. Len(pb) /\ o \in (root .. Len(pb))' /\ FieldsOf(o)' = FieldsOf(o)
      /\ DOMAIN pb[o].val = FieldsOf(o) /\ T \in Types
  <2>1. o \in 1 .. Len(pb) BY <1>1, <1>a, TouchedBase
  <2>3. S1 \subseteq S2 /\ o \in (root .. Len(pb))' /\ FieldsOf(o)' = FieldsOf(o)
    BY <1>1, <1>a, TouchedBase
  <2>4. DOMAIN pb[o].val = FieldsOf(o) BY <1>1 DEF Known
  <2>5. T \in Types BY <1>a, <2>1, SizeOf
  <2> QED BY <2>1, <2>3, <2>4, <2>5
<1>3. tabs' = tabs /\ pb'[o].type = T /\ src2[o] = ref BY <1>2 DEF Touched, Steady
<1>4. Passed(k)' = c + 1 /\ \A i \in FieldsOf(o) : Current(k, i)' = (Key = Name(RFields[i]))
  <2>1. Passed(k)' = PlaceOf(tabs'[stack'[R.at].v], Key) BY DEF Passed, PlaceOf
  <2>2. PlaceOf(tabs'[stack'[R.at].v], Key) = PlaceOf(RTable, Key) BY <1>3 DEF RTable
  <2>3. PlaceOf(RTable, Key) = NextPair BY <1>0, GetIs
  <2>4. \A i \in FieldsOf(o) : Current(k, i)' = (Key = Name(RFields[i]))
    BY <1>3 DEF Current, RFields
  <2> QED BY <1>0, <2>1, <2>2, <2>3, <2>4, Zenon
<1>5. ASSUME NEW i \in FieldsOf(o) PROVE SoFar(tabs, T, ref, c + 1, i, Z(i), S2)
  <2>1. CASE Key = Name(RFields[i])
    <3>1. tabs[ref][c + 1][1] = Name(Fields[T][i]) /\ c + 1 \in 1 .. Len(tabs[ref]) /\ Uniq(tabs[ref]) /\ c \in Nat
      BY <1>0, <2>1, Zenon DEF RFields
    <3> HIDE DEF T, ref, S1, S2, c, Y, Z
    <3> QED BY <3>1, NextSoFar, Zenon
  <2>2. CASE Key # Name(RFields[i])
    <3>1. Z(i) = Y(i) BY <2>2, <1>2 DEF Touched
    <3>2. SoFar(tabs, T, ref, c, i, Y(i), S1) BY <1>1
    <3>3. c > 0 /\ tabs[ref][c][1] = Name(Fields[T][i]) => HeldBy(tabs, T, ref, i, Y(i), S1)
      <4> SUFFICES ASSUME c > 0, tabs[ref][c][1] = Name(Fields[T][i]) PROVE HeldBy(tabs, T, ref, i, Y(i), S1)
        OBVIOUS
      <4>1. ~rframes[k].fresh BY DEF Passed
      <4>2. tabs[ref][c][1] = stack[rframes[k].at + 1] BY <1>0, <4>1, PassedIs, Zenon
      <4>3. Current(k, i) BY <1>0, <4>1, <4>2 DEF Current
      <4>4. ~Scans(k) BY <1>0 DEF Scans
      <4>5. HeldAt(src, o, i) BY <1>0, <4>1, <4>3, <4>4 DEF FrameNow
      <4> QED BY <4>5 DEF HeldAt
    <3>4. c + 1 \in 1 .. Len(tabs[ref]) /\ Uniq(tabs[ref]) /\ c \in Nat BY <1>0
    <3> HIDE DEF T, ref, S1, S2, c, Y, Z
    <3>5. SoFar(tabs, T, ref, c, i, Z(i), S2) BY <1>2, <3>1, <3>2, SoFarMono
    <3>6. c > 0 /\ tabs[ref][c][1] = Name(Fields[T][i]) => HeldBy(tabs, T, ref, i, Z(i), S2)
      BY <1>2, <3>1, <3>3, HeldByMono
    <3> QED BY <3>4, <3>5, <3>6, NextSoFar
  <2> QED BY <2>1, <2>2
<1>6. FrameBase(src2, k)'
  <2>1. \A i \in FieldsOf(o) : SoFar(tabs, pb[o].type, src2[o], Passed(k), i, pb[o].val[i], Objs(src2))'
    BY <1>3, <1>4, <1>5
  <2>2. src2[o] = stack'[R.at].v BY <1>1, <1>3
  <2>3. \E j \in 1 .. Len(tabs'[src2[o]]) : tabs'[src2[o]][j][1] = stack'[R.at + 1]
    BY <1>0, <1>3, Zenon
  <2> QED BY <1>2, <2>1, <2>2, <2>3 DEF FrameBase
<1> QED BY <1>4, <1>6

LEMMA FramesBelow ==
    ASSUME IInv, NEW k \in 1 .. Len(rframes), NEW l \in 1 .. Len(rframes), k < l
    PROVE  /\ rframes[k].at \in Nat /\ rframes[l].at \in Nat /\ rframes[k].at >= 1
           /\ rframes[k].at + 1 <= rframes[l].at BY SizeOf DEF IInv, ROK, FramesOn

\* A frame that waits below another one, which stays where it is.
LEMMA NowKept ==
    ASSUME Sending, NEW src, NEW src2, NEW q0, NEW f, Known(src), Touched(src, src2, q0, f),
           NEW k \in 1 .. Len(rframes), FrameBase(src, k), FrameNow(src, k), FrameBase(src2, k)',
           \A i \in FieldsOf(rframes[k].obj) : Current(k, i)' = Current(k, i),
           rframes'[k] = rframes[k], rframes[k].obj # q0, Left(k)' = Left(k), Scans(k)' = Scans(k)
    PROVE  FrameNow(src2, k)'
<1> PICK o : o = rframes[k].obj OBVIOUS
<1>1. o \in root .. Len(pb) /\ o = rframes'[k].obj /\ IInv BY DEF FrameBase, Sending
<1>2. o \in 1 .. Len(pb) /\ FieldsOf(o)' = FieldsOf(o) BY <1>1, TouchedBase
<1>3. tabs' = tabs /\ pb'[o].type = pb[o].type /\ src2[o] = src[o] BY <1>2 DEF Touched, Steady
<1> SUFFICES ASSUME ~rframes[k].fresh, ~Scans(k)
             PROVE  IF Left(k) THEN \E i \in FieldsOf(o) : Current(k, i) /\ Broken(tabs, pb[o].type, src[o], i)
                    ELSE \A i \in FieldsOf(o) : Current(k, i) => HeldAt(src2, o, i)'
  BY <1>1, <1>2, <1>3 DEF FrameNow
<1>4. CASE Left(k) BY <1>4 DEF FrameNow
<1>5. CASE ~Left(k) BY <1>5, <1>1, HeldKept DEF FrameNow
<1> QED BY <1>4, <1>5

LEMMA PairStep ==
    ASSUME Sending, HasPair, NEW src, NEW src2, NEW q0, NEW f, Content(src), Touched(src, src2, q0, f),
           PairMove, NEW n, n = Len(rframes), q0 = 0 \/ (q0 = R.obj /\ Name(RFields[f]) = Key)
    PROVE  /\ \A k \in 1 .. n - 1 : FrameBase(src2, k)' /\ FrameNow(src2, k)'
           /\ FrameBase(src2, n)' /\ \A i \in FieldsOf(R.obj) : Current(n, i)' = (Key = Name(RFields[i]))
           /\ \A o \in root .. Len(pb) : (\A k \in 1 .. Len(rframes') : rframes'[k].obj # o) =>
                 \A i \in FieldsOf(o) : HeldAt(src2, o, i)'
           /\ n \in Nat /\ n > 0 /\ R = rframes[n] /\ R.obj \in root .. Len(pb) /\ R.at \in Nat /\ R.at >= 1
<1>0. IInv /\ UniqueKeys /\ RInv /\ InLoop /\ ~BadKey /\ ~dead /\ pc = "send"
  BY DEF Sending, IInv, RInv, HasPair
<1>1. n \in Nat /\ n > 0 /\ R = rframes[n] /\ R.at \in Nat /\ R.at >= 1 BY <1>0, RestFacts
<1>2. /\ Known(src) /\ Closed(src) /\ Rising
      /\ \A k \in 1 .. n : FrameBase(src, k) /\ FrameNow(src, k) BY DEF Content
<1>3. R.obj \in root .. Len(pb) /\ root \in 1 .. Len(pb) /\ Len(pb) \in Nat
  BY <1>0, <1>1, <1>2, SizeOf DEF FrameBase, Known
<1>4. /\ Len(rframes') \in Nat /\ Len(rframes') >= n
      /\ \A k \in 1 .. n - 1 : rframes'[k] = rframes[k]
      /\ rframes'[n].obj = R.obj /\ rframes'[n].at = R.at /\ rframes'[n].pops = R.pops /\ ~rframes'[n].fresh
      /\ \A j \in 1 .. R.at : stack'[j] = stack[j]
      /\ stack'[R.at + 1] = Key
      /\ scan' = NoScan \/ scan'.own = n BY DEF PairMove
<1>5. ASSUME NEW k \in 1 .. n - 1 PROVE FrameBase(src2, k)' /\ FrameNow(src2, k)'
  <2>1. k \in 1 .. n /\ k + 1 \in 1 .. n /\ k < n /\ n \in 1 .. n /\ k \in 1 .. Len(rframes) BY <1>1
  <2>2. rframes[k].at \in 1 .. R.at /\ rframes[k].at + 1 \in 1 .. R.at
    BY <1>0, <2>1, FramesBelow, <1>1
  <2>3. rframes[k].obj < rframes[n].obj BY <1>2, <2>1 DEF Rising
  <2>4. FrameBase(src, k) /\ FrameNow(src, k) BY <1>2, <2>1
  <2>5. rframes[k].obj # q0 BY <2>4, <1>1, <1>3, <2>3 DEF FrameBase
  <2>6. rframes'[k] = rframes[k] /\ stack'[rframes[k].at] = stack[rframes[k].at]
        /\ stack'[rframes[k].at + 1] = stack[rframes[k].at + 1] BY <1>4, <2>2
  <2>7. FrameBase(src2, k)' /\ \A i \in FieldsOf(rframes[k].obj) : Current(k, i)' = Current(k, i)
    BY <1>0, <1>2, <2>1, <2>4, <2>5, <2>6, BaseKept
  <2>8. Left(k)' = Left(k) BY <1>1, <1>4, <2>1, <2>6 DEF Left
  <2>9. Scans(k)' = Scans(k) BY <1>0, <1>4, <2>1 DEF Scans, InLoop
  <2> QED BY <1>2, <2>1, <2>4, <2>5, <2>6, <2>7, <2>8, <2>9, NowKept
<1>6. FrameBase(src2, n)' /\ \A i \in FieldsOf(R.obj) : Current(n, i)' = (Key = Name(RFields[i]))
  BY <1>1, <1>2, <1>4, <1>3, Advance
<1>7. ASSUME NEW o \in root .. Len(pb), \A k \in 1 .. Len(rframes') : rframes'[k].obj # o
      PROVE  \A i \in FieldsOf(o) : HeldAt(src2, o, i)'
  <2>1. \A k \in 1 .. n : rframes[k].obj # o
    <3> TAKE k \in 1 .. n
    <3>1. k \in 1 .. Len(rframes') BY <1>1, <1>4
    <3>2. rframes'[k].obj = rframes[k].obj BY <1>1, <1>4
    <3> QED BY <1>7, <3>1, <3>2
  <2>2. \A i \in FieldsOf(o) : HeldAt(src, o, i) BY <1>2, <2>1 DEF Closed
  <2>3. o # q0 BY <1>1, <1>3, <2>1
  <2> TAKE i \in FieldsOf(o)
  <2>4. HeldAt(src, o, i) BY <2>2
  <2> QED BY <1>0, <1>2, <2>3, <2>4, HeldKept
<1> QED BY <1>1, <1>3, <1>5, <1>6, <1>7

----------------------------------------------------------------------------
\* What the steps do to the messages.

LEMMA SetValIs ==
    ASSUME NEW heap, Typed(heap), NEW o \in 1 .. Len(heap), NEW d
    PROVE  /\ Typed(SetVal(heap, o, d)) /\ Len(SetVal(heap, o, d)) = Len(heap) /\ Len(heap) \in Nat
           /\ SetVal(heap, o, d)[o].val = d
           /\ \A q \in 1 .. Len(heap) : /\ SetVal(heap, o, d)[q].type = heap[q].type
                                        /\ q # o => SetVal(heap, o, d)[q] = heap[q]
<1>1. PICK V : heap \in Seq([type : Types, val : V]) BY Zenon DEF Typed
<1> DEFINE S == [type : Types, val : V]
           e == [heap[o] EXCEPT !.val = d]
<1>2. DOMAIN heap = 1 .. Len(heap) /\ heap[o] \in S
  <2> HIDE DEF S
  <2>1. heap \in Seq(S) BY <1>1 DEF S
  <2> QED BY <2>1
<1>3. e.val = d BY <1>2
<1> HIDE DEF e
<1>4. SetVal(heap, o, d) = [heap EXCEPT ![o] = e] BY DEF SetVal, e
<1>5. SetVal(heap, o, d)[o] = e /\ \A q \in 1 .. Len(heap) : q # o => SetVal(heap, o, d)[q] = heap[q]
  BY <1>2, <1>4
<1> QED BY <1>3, <1>5, HeapAssign

LEMMA AddedIs ==
    ASSUME NEW heap, Typed(heap), NEW T \in Types
    PROVE  /\ Typed(Append(heap, Default(T))) /\ Len(Append(heap, Default(T))) = Len(heap) + 1 /\ Len(heap) \in Nat
           /\ \A q \in 1 .. Len(heap) : Append(heap, Default(T))[q] = heap[q]
           /\ Append(heap, Default(T))[Len(heap) + 1] = Default(T)
<1>1. PICK V : heap \in Seq([type : Types, val : V]) BY Zenon DEF Typed
<1> DEFINE S == [type : Types, val : V]
           e == Default(T)
<1> HIDE DEF S, e
<1>2. heap \in Seq(S) BY <1>1 DEF S
<1>3. (\A q \in 1 .. Len(heap) : Append(heap, e)[q] = heap[q]) /\ Append(heap, e)[Len(heap) + 1] = e
  BY <1>2
<1> QED BY <1>3, HeapAppend DEF e

LEMMA KnownKept ==
    ASSUME IInv, NEW src, NEW src2, NEW q0, NEW f, Known(src), Touched(src, src2, q0, f),
           \A o \in Len(pb) + 1 .. Len(pb') : DOMAIN pb'[o].val = FieldsOf(o)' /\ ChildOf(src2, o)'
    PROVE  Known(src2)'
<1>1. /\ root \in 1 .. Len(pb) /\ Len(pb) \in Nat /\ root' = root /\ Len(pb') >= Len(pb) /\ Len(pb') \in Nat
      /\ tabs' = tabs /\ table' = table
  <2>1. root \in 1 .. Len(pb) /\ Len(pb) \in Nat BY TouchedBase
  <2>2. /\ root' = root /\ Len(pb') >= Len(pb) /\ Len(pb') \in Nat
        /\ tabs' = tabs /\ table' = table BY DEF Touched, Steady
  <2> QED BY <2>1, <2>2
<1>2. \A o \in root .. Len(pb) : /\ o \in 1 .. Len(pb) /\ pb'[o].type = pb[o].type /\ src2[o] = src[o]
                                 /\ DOMAIN pb'[o].val = DOMAIN pb[o].val /\ FieldsOf(o)' = FieldsOf(o)
  <2>1. \A o \in root .. Len(pb) : o \in 1 .. Len(pb) /\ FieldsOf(o)' = FieldsOf(o) BY TouchedBase
  <2> QED BY <2>1 DEF Touched
<1>3. \A o \in root' .. Len(pb') : o \in root .. Len(pb) \/ o \in Len(pb) + 1 .. Len(pb') BY <1>1
<1>4. \A o \in root' .. Len(pb') : DOMAIN pb'[o].val = FieldsOf(o)' BY <1>2, <1>3 DEF Known
<1>5. ASSUME NEW o \in root' + 1 .. Len(pb') PROVE ChildOf(src2, o)'
  <2>1. o \in root + 1 .. Len(pb) \/ o \in Len(pb) + 1 .. Len(pb') BY <1>1
  <2>2. CASE o \in root + 1 .. Len(pb)
    <3>1. PICK p \in root .. o - 1 : \E i \in FieldsOf(p) :
                      Nests(tabs, pb[p].type, src[p], i, pb[o].type, src[o])
      BY <2>2 DEF Known, ChildOf
    <3>2. p \in root .. Len(pb) /\ o \in root .. Len(pb) /\ p \in root' .. o - 1 BY <1>1, <2>2
    <3>3. \E i \in FieldsOf(p)' : Nests(tabs', pb'[p].type, src2[p], i, pb'[o].type, src2[o])
      BY <1>1, <1>2, <3>1, <3>2
    <3> QED BY <3>2, <3>3 DEF ChildOf
  <2> QED BY <2>1, <2>2
<1>6. src2[root'] = table'.v BY <1>1, <1>2 DEF Known
<1>7. src2 \in Seq(1 .. Len(tabs')) /\ Len(src2) = Len(pb') /\ root' \in 1 .. Len(pb')
  BY <1>1 DEF Touched
<1> QED BY <1>4, <1>5, <1>6, <1>7 DEF Known

LEMMA TouchNone ==
    ASSUME IInv, NEW src, Known(src), Steady, pb' = pb, NEW q0, NEW f
    PROVE  Touched(src, src, q0, f) /\ Known(src)'
<1>1. Len(pb) \in Nat /\ src \in Seq(1 .. Len(tabs)) /\ Len(src) = Len(pb) BY SizeOf DEF Known
<1>2. Touched(src, src, q0, f) BY <1>1 DEF Touched
<1>3. \A o \in Len(pb) + 1 .. Len(pb') : FALSE BY <1>1
<1> QED BY <1>2, <1>3, KnownKept

LEMMA TouchOne ==
    ASSUME IInv, NEW src, Known(src), Steady, NEW o \in root .. Len(pb), NEW f \in FieldsOf(o), NEW x,
           pb' = SetVal(pb, o, [pb[o].val EXCEPT ![f] = x])
    PROVE  Touched(src, src, o, f) /\ Known(src)' /\ pb'[o].val[f] = x /\ Len(pb') = Len(pb)
<1>1. Len(pb) \in Nat /\ src \in Seq(1 .. Len(tabs)) /\ Len(src) = Len(pb) /\ root \in 1 .. Len(pb)
  BY SizeOf DEF Known
<1>2. o \in 1 .. Len(pb) /\ Typed(pb) /\ DOMAIN pb[o].val = FieldsOf(o) BY <1>1 DEF IInv, Known
<1> DEFINE d == [pb[o].val EXCEPT ![f] = x]
<1>3. d[f] = x /\ DOMAIN d = DOMAIN pb[o].val /\ \A i \in DOMAIN pb[o].val : i # f => d[i] = pb[o].val[i]
  BY <1>2
<1> HIDE DEF d
<1>4. pb' = SetVal(pb, o, d) BY DEF d
<1>5. /\ Len(pb') = Len(pb) /\ pb'[o].val = d
      /\ \A q \in 1 .. Len(pb) : pb'[q].type = pb[q].type /\ (q # o => pb'[q] = pb[q])
  BY <1>2, <1>4, SetValIs
<1>6. Touched(src, src, o, f)
  <2>1. ASSUME NEW q \in 1 .. Len(pb)
        PROVE  /\ DOMAIN pb'[q].val = DOMAIN pb[q].val
               /\ \A i \in DOMAIN pb[q].val : q # o \/ i # f => pb'[q].val[i] = pb[q].val[i]
    BY <1>3, <1>5
  <2>2. src \in Seq(1 .. Len(tabs)) /\ Len(src) = Len(pb') /\ Len(pb') >= Len(pb) /\ Len(pb') \in Nat
    BY <1>1, <1>5
  <2>3. \A q \in 1 .. Len(pb) : pb'[q].type = pb[q].type BY <1>5
  <2> QED BY <2>1, <2>2, <2>3 DEF Touched
<1>7. \A q \in Len(pb) + 1 .. Len(pb') : FALSE BY <1>1, <1>5
<1>8. Known(src)' BY <1>6, <1>7, KnownKept
<1> QED BY <1>3, <1>5, <1>6, <1>8

LEMMA OneMore == ASSUME NEW m \in Nat, NEW q \in m + 1 .. m + 1 PROVE q = m + 1 OBVIOUS

LEMMA TouchNew ==
    ASSUME NEW src, NEW src2, NEW o, NEW f, NEW x, NEW T, NEW ref, NewOne(src, src2, o, f, x, T, ref)
    PROVE  OneNewer(src, src2, o, f, x, T, ref)
<1>0. /\ IInv /\ Known(src) /\ Steady /\ o \in root .. Len(pb) /\ f \in FieldsOf(o)
      /\ T \in Types /\ ref \in 1 .. Len(tabs) /\ src2 = Append(src, ref)
      /\ pb' = Append(SetVal(pb, o, [pb[o].val EXCEPT ![f] = x]), Default(T))
      /\ Nests(tabs, pb[o].type, src[o], f, T, ref) BY DEF NewOne
<1> USE <1>0
<1>1. Len(pb) \in Nat /\ src \in Seq(1 .. Len(tabs)) /\ Len(src) = Len(pb) /\ root \in 1 .. Len(pb)
  BY SizeOf DEF Known
<1>2. o \in 1 .. Len(pb) /\ Typed(pb) /\ DOMAIN pb[o].val = FieldsOf(o) BY <1>1 DEF IInv, Known
<1> DEFINE d == [pb[o].val EXCEPT ![f] = x]
           h == SetVal(pb, o, d)
<1>3. d[f] = x /\ DOMAIN d = DOMAIN pb[o].val /\ \A i \in DOMAIN pb[o].val : i # f => d[i] = pb[o].val[i]
  BY <1>2
<1> HIDE DEF d
<1>5. /\ Len(h) = Len(pb) /\ h[o].val = d /\ Typed(h)
      /\ \A q \in 1 .. Len(pb) : h[q].type = pb[q].type /\ (q # o => h[q] = pb[q]) BY <1>2, SetValIs
<1>4. pb' = Append(h, Default(T)) BY DEF d
<1> HIDE DEF h
<1>6. /\ Len(pb') = Len(pb) + 1 /\ pb'[Len(pb) + 1] = Default(T)
      /\ \A q \in 1 .. Len(pb) : pb'[q] = h[q]
  <2>1. /\ Len(Append(h, Default(T))) = Len(h) + 1
        /\ \A q \in 1 .. Len(h) : Append(h, Default(T))[q] = h[q]
        /\ Append(h, Default(T))[Len(h) + 1] = Default(T) BY <1>5, AddedIs
  <2> QED BY <1>4, <1>5, <2>1
<1>7. /\ src2 \in Seq(1 .. Len(tabs)) /\ Len(src2) = Len(pb) + 1 /\ src2[Len(pb) + 1] = ref
      /\ \A q \in 1 .. Len(pb) : src2[q] = src[q]
  <2> DEFINE S == 1 .. Len(tabs)
  <2> HIDE DEF S
  <2>1. src \in Seq(S) /\ ref \in S BY <1>1 DEF S
  <2>2. /\ Append(src, ref) \in Seq(S) /\ Len(Append(src, ref)) = Len(src) + 1
        /\ Append(src, ref)[Len(src) + 1] = ref
        /\ \A q \in 1 .. Len(src) : Append(src, ref)[q] = src[q] BY <2>1
  <2> QED BY <1>1, <2>2 DEF S
<1>8. Touched(src, src2, o, f)
  <2>1. ASSUME NEW q \in 1 .. Len(pb)
        PROVE  /\ DOMAIN pb'[q].val = DOMAIN pb[q].val /\ pb'[q].type = pb[q].type
               /\ \A i \in DOMAIN pb[q].val : q # o \/ i # f => pb'[q].val[i] = pb[q].val[i]
    <3>1. CASE q = o BY <1>3, <1>5, <1>6, <3>1
    <3>2. CASE q # o BY <1>5, <1>6, <3>2
    <3> QED BY <3>1, <3>2
  <2>2. Len(pb') >= Len(pb) /\ Len(pb') \in Nat BY <1>1, <1>6
  <2> QED BY <1>6, <1>7, <2>1, <2>2 DEF Touched
<1>9. ASSUME NEW q \in Len(pb) + 1 .. Len(pb')
      PROVE  DOMAIN pb'[q].val = FieldsOf(q)' /\ ChildOf(src2, q)'
  <2>1. q = Len(pb) + 1 /\ pb'[q] = Default(T)
    <3>1. Len(pb') = Len(pb) + 1 /\ pb'[Len(pb) + 1] = Default(T) BY <1>6
    <3>2. q = Len(pb) + 1
      <4>1. q \in Len(pb) + 1 .. Len(pb) + 1 BY <3>1
      <4> HIDE <3>1
      <4> QED BY <1>1, <4>1, OneMore
    <3> QED BY <3>1, <3>2
  <2>2. pb'[q].type = T /\ DOMAIN pb'[q].val = 1 .. Len(Fields[T]) BY <2>1 DEF Default
  <2>3. o \in root' .. q - 1 /\ o \in 1 .. Len(pb) /\ tabs' = tabs BY <1>1, <1>2, <2>1 DEF Steady
  <2>4. pb'[o].type = pb[o].type /\ FieldsOf(o)' = FieldsOf(o)
    <3>1. pb'[o].type = pb[o].type BY <1>8, <2>3 DEF Touched
    <3> QED BY <3>1 DEF FieldsOf
  <2>5. Nests(tabs', pb'[o].type, src2[o], f, pb'[q].type, src2[q]) BY <1>7, <2>1, <2>2, <2>3, <2>4
  <2>6. ChildOf(src2, q)' BY <2>3, <2>4, <2>5 DEF ChildOf
  <2> QED BY <2>2, <2>6 DEF FieldsOf
<1>10. Known(src2)' BY <1>8, <1>9, KnownKept
<1>11. pb'[o].val[f] = x BY <1>2, <1>3, <1>5, <1>6
<1> QED BY <1>6, <1>7, <1>8, <1>10, <1>11 DEF OneNewer

----------------------------------------------------------------------------
\* The actions, one by one.

\* The process ends: nothing else changes.
LEMMA DeathKeeps ==
    ASSUME NEW src, Content(src), Doomed(src),
           UNCHANGED <<stack, tabs, pb, rframes, scan, root, table>>
    PROVE  Content(src)'
<1>1. \A o, i : HeldAt(src, o, i)' = HeldAt(src, o, i) BY DEF HeldAt, Objs
<1>2. \A o : FieldsOf(o)' = FieldsOf(o) /\ ChildOf(src, o)' = ChildOf(src, o)
  BY DEF FieldsOf, ChildOf
<1>3. \A k : Passed(k)' = Passed(k) /\ Left(k)' = Left(k) /\ Scans(k)' = Scans(k)
  BY DEF Passed, Left, Scans, PlaceOf
<1>4. \A k, i : Current(k, i)' = Current(k, i) BY DEF Current
<1>5. Objs(src)' = Objs(src) BY DEF Objs
<1>6. Known(src)' /\ Closed(src)' /\ Rising' BY <1>1, <1>2 DEF Content, Known, Closed, Rising
<1>7. ASSUME NEW k \in 1 .. Len(rframes) PROVE FrameBase(src, k)' /\ FrameNow(src, k)'
  BY <1>2, <1>3, <1>5, <1>1, <1>4 DEF Content, FrameBase, FrameNow
<1>8. ScanNow(src)'
  <2>1. ScanNow(src) BY DEF Content
  <2> QED BY <1>2, <1>4, <1>5, <2>1, Zenon DEF ScanNow
<1>9. Doomed(src)' BY <1>2 DEF Doomed, FatalField
<1> QED BY <1>6, <1>7, <1>8, <1>9 DEF Content

\* lua_next does not find the array that was left on the stack among the keys.
LEMMA LoseKeyFatal ==
    ASSUME Sending, LoseKey, Steady, NEW src, Content(src)
    PROVE  Content(src)'
<1> DEFINE k == Len(rframes)
<1>1. RInv /\ InLoop /\ BadKey /\ ~R.fresh /\ scan = NoScan
  BY DEF Sending, IInv, RInv, LoseKey, BadKey, InLoop
<1>2. /\ k \in Nat /\ k > 0 /\ R = rframes[k] /\ RoundOn(stack, rframes, scan)
      /\ rframes[k].at \in 1 .. Len(stack) /\ Len(stack) \in Nat
  BY <1>1, SizeOf DEF InLoop, RInv, ROK, FramesOn, Sending, R
<1>3. FrameBase(src, k) /\ FrameNow(src, k) /\ R.obj \in root .. Len(pb)
  <2>1. k \in 1 .. Len(rframes) BY <1>2
  <2>2. FrameBase(src, k) /\ FrameNow(src, k) BY <2>1 DEF Content
  <2> QED BY <1>2, <2>2 DEF FrameBase
<1>4. Len(stack) # R.at + 1 BY <1>1, <1>2, <1>3 DEF Top, FrameBase, RTable, BadKey
<1>5. Left(k) BY <1>1, <1>2, <1>4 DEF RoundOn, TopOn, Left
<1>6. PICK i \in FieldsOf(R.obj) : Broken(tabs, pb[R.obj].type, src[R.obj], i)
  BY <1>1, <1>2, <1>3, <1>5 DEF FrameNow, Scans
<1>7. FatalField(pb[R.obj].type, src[R.obj], i, {}) BY <1>6, Zenon DEF Broken, FatalField
<1>8. Doomed(src) BY <1>3, <1>6, <1>7 DEF Doomed
<1> QED BY <1>8, DeathKeeps DEF LoseKey, Steady

\* The field that the pair names: it has not been set yet.
LEMMA NamedField ==
    ASSUME Sending, HasPair, NEW src, Content(src)
    PROVE  /\ \A i \in FieldsOf(R.obj) : Key = Name(RFields[i]) =>
                 FieldOf(Key) = i /\ pb[R.obj].val[i] = Unset(RFields[i])
           /\ FieldOf(Key) # 0 => FieldOf(Key) \in FieldsOf(R.obj) /\ Key = Name(RFields[FieldOf(Key)])
           /\ R.obj \in root .. Len(pb) /\ R.obj \in 1 .. Len(pb) /\ pb[R.obj].type \in Types
           /\ RFields = Fields[pb[R.obj].type] /\ src[R.obj] \in 1 .. Len(tabs)
           /\ Get(tabs[src[R.obj]], Key) = Value /\ scan = NoScan
<1> DEFINE k == Len(rframes)
           c == Passed(k)
           pairs == tabs[src[R.obj]]
<1>1. RInv /\ InLoop /\ ~BadKey /\ ~dead /\ IInv BY DEF Sending, IInv, RInv, HasPair
<1>2. k \in Nat /\ k > 0 /\ R = rframes[k] /\ R.obj \in 1 .. Len(pb) BY <1>1, RestFacts
<1>3. FrameBase(src, k) /\ Known(src) /\ k \in 1 .. Len(rframes) BY <1>2 DEF Content
<1>4. /\ RTable = pairs /\ NextPair = c + 1 /\ c \in Nat /\ NextPair \in 1 .. Len(pairs) /\ Uniq(pairs)
      /\ Get(pairs, Key) = Value /\ Key = pairs[NextPair][1] /\ scan = NoScan /\ src[R.obj] \in 1 .. Len(tabs)
  BY <1>3, TakesNext
<1>5. R.obj \in root .. Len(pb) /\ pb[R.obj].type \in Types
  BY <1>1, <1>2, <1>3, SizeOf DEF FrameBase
<1>6. FieldOf(Key) # 0 => FieldOf(Key) \in FieldsOf(R.obj) /\ Key = Name(RFields[FieldOf(Key)])
  BY DEF FieldOf, FieldsOf, RFields
<1>7. ASSUME NEW i \in FieldsOf(R.obj), Key = Name(RFields[i])
      PROVE  FieldOf(Key) = i /\ pb[R.obj].val[i] = Unset(RFields[i])
  <2>1. FieldOf(Key) \in FieldsOf(R.obj) /\ Key = Name(RFields[FieldOf(Key)])
    BY <1>7 DEF FieldOf, FieldsOf, RFields
  <2>2. FieldOf(Key) = i BY <1>5, <1>7, <2>1, NameOf DEF FieldsOf, RFields
  <2>3. SoFar(tabs, pb[R.obj].type, src[R.obj], c, i, pb[R.obj].val[i], Objs(src))
    BY <1>2, <1>3 DEF FrameBase
  <2>4. \A j \in 1 .. c : pairs[j][1] # Key
    <3> SUFFICES ASSUME NEW j \in 1 .. c, pairs[j][1] = Key PROVE FALSE OBVIOUS
    <3>1. j \in 1 .. Len(pairs) /\ j # NextPair BY <1>4
    <3> HIDE DEF pairs
    <3> QED BY <1>4, <3>1 DEF Uniq
  <2> QED BY <1>7, <2>2, <2>3, <2>4 DEF SoFar, RFields
<1> QED BY <1>2, <1>4, <1>5, <1>6, <1>7, Zenon DEF RFields

LEMMA IteratedMove ==
    ASSUME Sending, HasPair, rframes' = Iterated
    PROVE  LET n == Len(rframes)
           IN /\ Len(rframes') = n /\ n \in Nat /\ n > 0
              /\ \A k \in 1 .. n - 1 : rframes'[k] = rframes[k]
              /\ rframes'[n].obj = R.obj /\ rframes'[n].at = R.at /\ rframes'[n].pops = R.pops /\ ~rframes'[n].fresh
<1>1. RInv /\ InLoop /\ ~BadKey /\ ~dead BY DEF Sending, IInv, RInv, HasPair
<1>2. Len(rframes) \in Nat /\ Len(rframes) > 0 /\ FramesOn(stack, rframes) /\ R \in RSet /\ rframes \in Seq(RSet)
  BY <1>1, RestFacts
<1> DEFINE g == [R EXCEPT !.fresh = FALSE]
<1>3. g.pops = R.pops BY <1>2 DEF RSet
<1> HIDE DEF g
<1>4. Iterated = [rframes EXCEPT ![Len(rframes)] = g] BY DEF Iterated, RSetTop, g
<1>5. Len(rframes) \in DOMAIN rframes BY <1>2
<1>6. Iterated[Len(rframes)] = g BY <1>4, <1>5
<1> QED BY <1>2, <1>3, <1>6, IteratedFacts

\* The frame goes on with its next pair, with nothing above it.
LEMMA PairGone ==
    ASSUME Sending, HasPair, Steady, NEW src, Content(src), NEW q0, NEW f, Touched(src, src, q0, f), Known(src)',
           q0 = 0 \/ (q0 = R.obj /\ Name(RFields[f]) = Key), Len(pb') = Len(pb),
           PairDone, scan' = scan, dead' = dead, NEW q, q = R.obj,
           \A i \in FieldsOf(q) : Key = Name(RFields[i]) => HeldAt(src, q, i)'
    PROVE  Content(src)'
<1> PICK n : n = Len(rframes) OBVIOUS
<1>1. RInv /\ InLoop /\ ~BadKey /\ ~dead /\ IInv /\ scan = NoScan
  BY DEF Sending, IInv, RInv, HasPair, InLoop
<1>2. /\ Len(rframes') = n /\ n \in Nat /\ n > 0
      /\ \A k \in 1 .. n - 1 : rframes'[k] = rframes[k]
      /\ rframes'[n].obj = R.obj /\ rframes'[n].at = R.at /\ rframes'[n].pops = R.pops /\ ~rframes'[n].fresh
  BY IteratedMove DEF PairDone
<1>3. /\ Len(stack') = R.at + 1 /\ stack'[R.at + 1] = Key /\ \A j \in 1 .. R.at : stack'[j] = stack[j]
  BY <1>1, RestFacts DEF PairDone
<1>4. PairMove BY <1>1, <1>2, <1>3 DEF PairMove
<1>5. /\ \A k \in 1 .. n - 1 : FrameBase(src, k)' /\ FrameNow(src, k)'
      /\ FrameBase(src, n)' /\ \A i \in FieldsOf(R.obj) : Current(n, i)' = (Key = Name(RFields[i]))
      /\ \A o \in root .. Len(pb) : (\A k \in 1 .. Len(rframes') : rframes'[k].obj # o) =>
                 \A i \in FieldsOf(o) : HeldAt(src, o, i)'
      /\ R = rframes[n] /\ R.obj \in root .. Len(pb) /\ R.at \in Nat BY <1>4, PairStep
<1>6. \A o \in root .. Len(pb) : FieldsOf(o)' = FieldsOf(o) BY <1>1, TouchedBase DEF Content
<1>7. FrameNow(src, n)'
  <2>1. ~Left(n)' BY <1>2, <1>3, <1>5 DEF Left
  <2>2. \A i \in FieldsOf(q)' : Current(n, i)' => HeldAt(src, q, i)' BY <1>5, <1>6
  <2> QED BY <1>2, <2>1, <2>2 DEF FrameNow
<1>8. Rising'
  <2>1. \A k \in 1 .. n : rframes'[k].obj = rframes[k].obj
    <3> TAKE k \in 1 .. n
    <3>1. k = n \/ k \in 1 .. n - 1 BY <1>2
    <3> QED BY <1>2, <1>5, <3>1
  <2>2. Rising BY DEF Content
  <2> QED BY <1>2, <2>1, <2>2 DEF Rising
<1>9. Closed(src)' BY <1>5, <1>6 DEF Steady, Closed
<1>10. \A k \in 1 .. Len(rframes') : FrameBase(src, k)' /\ FrameNow(src, k)'
  <2> TAKE k \in 1 .. Len(rframes')
  <2>1. k = n \/ k \in 1 .. n - 1 BY <1>2
  <2> QED BY <1>5, <1>7, <2>1
<1>11. ScanNow(src)' /\ ~dead' BY <1>1 DEF ScanNow
<1> QED BY <1>8, <1>9, <1>10, <1>11 DEF Content

\* A field whose value is of the wrong type is not set, and the value of a field
\* that is set is the one the conversion found.
LEMMA HeldUnset ==
    ASSUME NEW tb, NEW T, NEW i, NEW ref, NEW objs, NEW x, x = Get(tb[ref], Name(Fields[T][i])),
           \/ (Fields[T][i].rep \/ Fields[T][i].kind = "message") /\ x.t # "table"
           \/ /\ ~Fields[T][i].rep /\ Fields[T][i].kind # "message"
              /\ ScalarOf(Fields[T][i].kind, x) = {} /\ ~Throws(Fields[T][i].kind, x)
    PROVE  HeldBy(tb, T, ref, i, Unset(Fields[T][i]), objs)
<1> DEFINE field == Fields[T][i]
<1>1. CASE field.rep /\ x.t # "table" BY <1>1 DEF HeldBy, Unset
<1>2. CASE ~field.rep /\ field.kind = "message" /\ x.t # "table" BY <1>2 DEF Takes, Throws, HeldBy
<1>3. CASE ~field.rep /\ field.kind # "message" /\ ScalarOf(field.kind, x) = {} /\ ~Throws(field.kind, x)
  BY <1>3 DEF Takes, HeldBy
<1> QED BY <1>1, <1>2, <1>3

LEMMA HeldSingle ==
    ASSUME NEW tb, NEW T, NEW i, NEW ref, NEW objs, NEW x, x = Get(tb[ref], Name(Fields[T][i])), NEW y,
           ~Fields[T][i].rep, Takes(Fields[T][i].kind, x), FieldIs(Fields[T][i], y, x, objs)
    PROVE  HeldBy(tb, T, ref, i, y, objs) BY DEF HeldBy

LEMMA SkipPairContent ==
    ASSUME Sending, SkipPair, Steady, NEW src, Content(src)
    PROVE  Content(src)'
<1> PICK q : q = R.obj OBVIOUS
<1>1. HasPair /\ PairDone /\ pb' = pb /\ scan' = scan /\ dead' = dead BY DEF SkipPair, SkipDone
<1>2. IInv /\ Known(src) BY DEF Sending, Content
<1>3. Touched(src, src, 0, 0) /\ Known(src)' BY <1>1, <1>2, TouchNone
<1>4. /\ \A i \in FieldsOf(q) : Key = Name(RFields[i]) =>
             FieldOf(Key) = i /\ pb[q].val[i] = Unset(RFields[i])
      /\ q \in root .. Len(pb) /\ RFields = Fields[pb[q].type]
      /\ Get(tabs[src[q]], Key) = Value BY <1>1, NamedField
<1>5. ASSUME NEW i \in FieldsOf(q), Key = Name(RFields[i]) PROVE HeldAt(src, q, i)'
  <2>1. FieldOf(Key) = i /\ pb[q].val[i] = Unset(RFields[i]) /\ FieldOf(Key) # 0
    BY <1>4, <1>5 DEF FieldsOf
  <2>2. \/ (RFields[i].rep \/ RFields[i].kind = "message") /\ Value.t # "table"
        \/ /\ ~RFields[i].rep /\ RFields[i].kind # "message"
           /\ ScalarOf(RFields[i].kind, Value) = {} /\ ~Throws(RFields[i].kind, Value)
    BY <2>1 DEF SkipPair
  <2>3. Value = Get(tabs[src[q]], Name(Fields[pb[q].type][i])) BY <1>4, <1>5
  <2>4. HeldBy(tabs, pb[q].type, src[q], i, Unset(Fields[pb[q].type][i]), Objs(src)')
    BY <1>4, <2>2, <2>3, HeldUnset, Zenon
  <2>5. HeldBy(tabs', pb'[q].type, src[q], i, pb'[q].val[i], Objs(src)')
    BY <1>1, <1>4, <2>1, <2>4 DEF Steady
  <2> QED BY <2>5 DEF HeldAt
<1>6. Len(pb') = Len(pb) BY <1>1
<1> QED BY <1>1, <1>3, <1>5, <1>6, PairGone

LEMMA SetScalarContent ==
    ASSUME Sending, SetScalar, Steady, NEW src, Content(src)
    PROVE  Content(src)'
<1> PICK q : q = R.obj OBVIOUS
<1> PICK f : f = FieldOf(Key) OBVIOUS
<1> PICK v : v = Value OBVIOUS
<1>1. /\ HasPair /\ f # 0 /\ ~RFields[f].rep /\ RFields[f].kind # "message"
      /\ scan' = scan /\ tabs' = tabs BY DEF SetScalar
<1>2. IInv /\ Known(src) BY DEF Sending, Content
<1>4. /\ \A i \in FieldsOf(q) : Key = Name(RFields[i]) => f = i
      /\ f \in FieldsOf(q) /\ Key = Name(RFields[f])
      /\ q \in root .. Len(pb) /\ RFields = Fields[pb[q].type]
      /\ Get(tabs[src[q]], Key) = v BY <1>1, NamedField
<1>5. CASE Throws(RFields[f].kind, v) /\ dead' = TRUE /\ UNCHANGED <<stack, pb, rframes>>
  <2>1. FatalField(pb[q].type, src[q], f, {}) BY <1>1, <1>4, <1>5, Zenon DEF FatalField
  <2>2. Doomed(src) BY <1>4, <2>1 DEF Doomed
  <2> QED BY <1>1, <1>5, <2>2, DeathKeeps DEF Steady
<1>6. ASSUME NEW x \in ScalarOf(RFields[f].kind, v), pb' = Assign(f, x), PairDone, dead' = dead
      PROVE  Content(src)'
  <2>1. pb' = SetVal(pb, q, [pb[q].val EXCEPT ![f] = x]) BY <1>6 DEF Assign, SetVal
  <2>2. Touched(src, src, q, f) /\ Known(src)' /\ pb'[q].val[f] = x /\ Len(pb') = Len(pb)
    <3>1. q \in root .. Len(pb) /\ f \in FieldsOf(q) BY <1>4
    <3> QED BY <1>2, <2>1, <3>1, TouchOne, Zenon
  <2>3. ASSUME NEW i \in FieldsOf(q), Key = Name(RFields[i]) PROVE HeldAt(src, q, i)'
    <3>1. i = f BY <1>4, <2>3, Zenon
    <3>2. Takes(RFields[f].kind, v) /\ FieldIs(RFields[f], x, v, Objs(src)')
      BY <1>1, <1>6 DEF Takes, FieldIs
    <3>3. HeldBy(tabs, pb[q].type, src[q], f, x, Objs(src)') BY <1>1, <1>4, <3>2, HeldSingle, Zenon
    <3>4. pb'[q].type = pb[q].type
      <4>1. q \in 1 .. Len(pb) BY <1>2, <1>4, SizeOf DEF Known
      <4> QED BY <2>2, <4>1 DEF Touched
    <3>5. HeldBy(tabs', pb'[q].type, src[q], i, pb'[q].val[i], Objs(src)')
      BY <1>1, <2>2, <3>1, <3>3, <3>4
    <3> QED BY <3>5 DEF HeldAt
  <2>4. q = R.obj /\ Name(RFields[f]) = Key BY <1>4
  <2> QED BY <1>1, <1>6, <2>2, <2>3, <2>4, PairGone
<1> QED BY <1>1, <1>5, <1>6 DEF SetScalar

----------------------------------------------------------------------------
\* What comes after a step, put together.

LEMMA AppendIs ==
    ASSUME NEW S, NEW s \in Seq(S), NEW g \in S
    PROVE  /\ Len(Append(s, g)) = Len(s) + 1 /\ Append(s, g)[Len(s) + 1] = g
           /\ \A k \in 1 .. Len(s) : Append(s, g)[k] = s[k] OBVIOUS

\* A message that has just been made.
LEMMA FreshFrame ==
    ASSUME NEW src2, NEW k, rframes'[k].fresh = TRUE, NEW o, rframes'[k].obj = o, o \in root' .. Len(pb'),
           NEW T \in Types, pb'[o] = Default(T), src2[o] = stack'[rframes'[k].at].v
    PROVE  FrameBase(src2, k)' /\ FrameNow(src2, k)'
<1>1. /\ pb'[o].type = T /\ FieldsOf(o)' = 1 .. Len(Fields[T])
      /\ \A i \in 1 .. Len(Fields[T]) : pb'[o].val[i] = Unset(Fields[T][i]) BY DEF Default, FieldsOf
<1>2. Passed(k)' = 0 BY DEF Passed
<1>3. \A i \in FieldsOf(o)' : SoFar(tabs', pb'[o].type, src2[o], Passed(k)', i, pb'[o].val[i], Objs(src2)')
  <2> TAKE i \in FieldsOf(o)'
  <2>1. SoFar(tabs', T, src2[o], 0, i, Unset(Fields[T][i]), Objs(src2)') BY NewSoFar
  <2>2. i \in 1 .. Len(Fields[T]) BY <1>1
  <2> QED BY <1>1, <1>2, <2>1, <2>2
<1>4. FrameBase(src2, k)' BY <1>3 DEF FrameBase
<1> QED BY <1>4 DEF FrameNow

\* The frames stay, though the step may change the innermost one.
LEMMA Stayed ==
    ASSUME IInv, NEW src, Content(src), NEW src2, NEW q0, NEW f, Touched(src, src2, q0, f), Known(src2)',
           NEW n, n = Len(rframes), Len(rframes') = n, Len(pb') = Len(pb),
           \A k \in 1 .. n : rframes'[k].obj = rframes[k].obj,
           \A k \in 1 .. n : FrameBase(src2, k)' /\ FrameNow(src2, k)',
           \A o \in root .. Len(pb) : (\A k \in 1 .. Len(rframes') : rframes'[k].obj # o) =>
              \A i \in FieldsOf(o) : HeldAt(src2, o, i)',
           ScanNow(src2)', ~dead'
    PROVE  Content(src2)'
<1>1. Rising' BY DEF Content, Rising
<1>2. \A o \in root .. Len(pb) : FieldsOf(o)' = FieldsOf(o) BY TouchedBase DEF Content
<1>3. Closed(src2)' BY <1>2 DEF Touched, Steady, Closed
<1> QED BY <1>1, <1>3 DEF Content

\* A new message has its frame on top.
LEMMA Pushed ==
    ASSUME IInv, NEW src, Content(src), NEW src2, NEW q0, NEW f, Touched(src, src2, q0, f), Known(src2)',
           NEW n, n = Len(rframes), Len(rframes') = n + 1, Len(pb') = Len(pb) + 1,
           \A k \in 1 .. n : rframes'[k].obj = rframes[k].obj, rframes'[n + 1].obj = Len(pb) + 1,
           \A k \in 1 .. n : FrameBase(src2, k)' /\ FrameNow(src2, k)',
           FrameBase(src2, n + 1)', FrameNow(src2, n + 1)',
           \A o \in root .. Len(pb) : (\A k \in 1 .. Len(rframes') : rframes'[k].obj # o) =>
              \A i \in FieldsOf(o) : HeldAt(src2, o, i)',
           ScanNow(src2)', ~dead'
    PROVE  Content(src2)'
<1>0. n \in Nat /\ Len(pb) \in Nat /\ \A k \in 1 .. n : rframes[k].obj \in root .. Len(pb)
  BY SizeOf DEF Content, FrameBase
<1>1. Rising'
  <2>1. Rising BY DEF Content
  <2> SUFFICES ASSUME NEW k \in 1 .. n + 1, NEW l \in 1 .. n + 1, k < l
               PROVE  rframes'[k].obj < rframes'[l].obj BY DEF Rising
  <2>2. k \in 1 .. n BY <1>0
  <2>3. CASE l = n + 1
    <3>1. rframes[k].obj \in root .. Len(pb) /\ root \in Nat BY <1>0, <2>2 DEF Content, Known
    <3> QED BY <1>0, <2>2, <2>3, <3>1
  <2>4. CASE l # n + 1 BY <1>0, <2>4, <2>1, <2>2 DEF Rising
  <2> QED BY <2>3, <2>4
<1>2. \A o \in root .. Len(pb) : FieldsOf(o)' = FieldsOf(o) BY TouchedBase DEF Content
<1>3. Closed(src2)'
  <2>1. root' = root BY DEF Touched, Steady
  <2> SUFFICES ASSUME NEW o \in root .. Len(pb) + 1, \A k \in 1 .. n + 1 : rframes'[k].obj # o
               PROVE  \A i \in FieldsOf(o)' : HeldAt(src2, o, i)' BY <2>1 DEF Closed
  <2>2. n + 1 \in 1 .. n + 1 BY <1>0
  <2>3. o # Len(pb) + 1 BY <2>2
  <2>4. o \in root .. Len(pb)
    <3>1. root \in 1 .. Len(pb) /\ Len(pb) \in Nat BY <1>0 DEF Content, Known
    <3> HIDE <1>0
    <3> QED BY <2>3, <3>1
  <2> QED BY <1>2, <2>4
<1>4. \A k \in 1 .. Len(rframes') : FrameBase(src2, k)' /\ FrameNow(src2, k)'
  <2> TAKE k \in 1 .. Len(rframes')
  <2>1. k = n + 1 \/ k \in 1 .. n BY <1>0
  <2> QED BY <2>1
<1> QED BY <1>1, <1>3, <1>4 DEF Content

LEMMA FillMessageContent ==
    ASSUME Sending, FillMessage, Steady, NEW src, Content(src)
    PROVE  \E src2 : Content(src2)'
<1>0. PICK q, f, v, n, m :
         q = R.obj /\ f = FieldOf(Key) /\ v = Value /\ n = Len(rframes) /\ m = Len(pb) + 1 OBVIOUS
<1>t. PICK T : T = RFields[f].sub OBVIOUS
<1>1. /\ HasPair /\ f # 0 /\ ~RFields[f].rep /\ RFields[f].kind = "message" /\ v.t = "table"
      /\ pb' = Append(Assign(f, m), Default(T))
      /\ stack' = Rest \o <<Key, Value>> /\ rframes' = Append(Iterated, RFrame(Len(pb'), Len(stack'), 1))
      /\ scan' = scan /\ tabs' = tabs /\ dead' = dead BY <1>0, <1>t DEF FillMessage
<1>2. IInv /\ Known(src) /\ RInv /\ InLoop /\ ~BadKey /\ ~dead
  BY <1>1 DEF Sending, Content, IInv, RInv, HasPair
<1>4. /\ \A i \in FieldsOf(q) : Key = Name(RFields[i]) => f = i
      /\ f \in FieldsOf(q) /\ Key = Name(RFields[f])
      /\ q \in root .. Len(pb) /\ q \in 1 .. Len(pb) /\ pb[q].type \in Types /\ RFields = Fields[pb[q].type]
      /\ Get(tabs[src[q]], Key) = v /\ scan = NoScan BY <1>0, <1>1, NamedField
<1>5. T \in Types /\ v \in Values(Len(tabs)) /\ v.v \in 1 .. Len(tabs)
  BY <1>0, <1>t, <1>1, <1>2, FieldOfType, PairFacts DEF Values
<1>6. PICK src2 : src2 = Append(src, v.v) OBVIOUS
<1>7. /\ Touched(src, src2, q, f) /\ Known(src2)' /\ pb'[q].val[f] = m /\ Len(pb') = m
      /\ pb'[m] = Default(T) /\ src2[m] = v.v /\ \A o \in 1 .. Len(pb) : src2[o] = src[o]
  <2>1. pb' = Append(SetVal(pb, q, [pb[q].val EXCEPT ![f] = m]), Default(T))
    BY <1>0, <1>1 DEF Assign, SetVal
  <2>2. Nests(tabs, pb[q].type, src[q], f, T, v.v) BY <1>1, <1>4, <1>t DEF Nests
  <2>3. q \in root .. Len(pb) /\ f \in FieldsOf(q) BY <1>4
  <2>4. IInv /\ Known(src) /\ T \in Types BY <1>2, <1>5
  <2>5. NewOne(src, src2, q, f, m, T, v.v) BY <1>5, <1>6, <2>1, <2>2, <2>3, <2>4 DEF NewOne
  <2> QED BY <1>0, <2>5, TouchNew DEF OneNewer
<1>8. /\ Len(Iterated) = n /\ n \in Nat /\ n > 0 /\ Iterated \in Seq(RSet)
      /\ \A k \in 1 .. n - 1 : Iterated[k] = rframes[k]
      /\ Iterated[n].obj = q /\ Iterated[n].at = R.at /\ Iterated[n].fresh = FALSE /\ Iterated[n].pops = R.pops
      /\ R = rframes[n] /\ R.at \in Nat
  <2>1. /\ FramesOn(stack, rframes) /\ n > 0 /\ n \in Nat /\ R = rframes[n] /\ R.at \in Nat /\ R \in RSet
        /\ rframes \in Seq(RSet) /\ n = Len(rframes) BY <1>0, <1>2, RestFacts
  <2>2. /\ FramesOn(stack, Iterated) /\ Len(Iterated) = n
        /\ \A i \in 1 .. n - 1 : Iterated[i] = rframes[i]
        /\ Iterated[n].fresh = FALSE /\ Iterated[n].at = R.at /\ Iterated[n].obj = R.obj
    BY <1>0, <2>1, IteratedFacts
  <2>3. Iterated[n].pops = R.pops
    <3> DEFINE g == [R EXCEPT !.fresh = FALSE]
    <3>1. g.pops = R.pops BY <2>1 DEF RSet
    <3> HIDE DEF g
    <3>2. Iterated = [rframes EXCEPT ![Len(rframes)] = g] BY DEF Iterated, RSetTop, g
    <3>3. Len(rframes) \in DOMAIN rframes BY <2>1
    <3> QED BY <2>1, <3>1, <3>2, <3>3
  <2> QED BY <1>0, <2>1, <2>2, <2>3 DEF FramesOn
<1>9. /\ Len(stack') = R.at + 2 /\ stack'[R.at + 1] = Key /\ stack'[R.at + 2] = v
      /\ \A j \in 1 .. R.at : stack'[j] = stack[j] BY <1>0, <1>1, <1>2, PairPushed
<1>10. PICK g : g = RFrame(m, R.at + 2, 1) OBVIOUS
<1>11. g \in RSet /\ g.at = R.at + 2 /\ g.fresh = TRUE /\ g.obj = m
  BY <1>0, <1>2, <1>8, SizeOf, <1>10 DEF RFrame, RSet
<1>12. /\ Len(rframes') = n + 1 /\ rframes'[n + 1] = g /\ \A k \in 1 .. n : rframes'[k] = Iterated[k]
  BY <1>1, <1>7, <1>9, <1>10, <1>8, <1>11, AppendIs
<1>13. PairMove
  <2>1. n \in 1 .. n /\ \A k \in 1 .. n - 1 : k \in 1 .. n BY <1>8
  <2>2. \A k \in 1 .. n - 1 : rframes'[k] = rframes[k] BY <1>8, <1>12, <2>1
  <2>3. rframes'[n].obj = R.obj /\ rframes'[n].at = R.at /\ rframes'[n].pops = R.pops /\ ~rframes'[n].fresh
    BY <1>0, <1>8, <1>12, <2>1
  <2>4. Len(rframes') \in Nat /\ Len(rframes') >= n BY <1>8, <1>12
  <2>5. scan' = NoScan BY <1>1, <1>4
  <2> QED BY <1>0, <1>9, <2>2, <2>3, <2>4, <2>5 DEF PairMove
<1>14. /\ \A k \in 1 .. n - 1 : FrameBase(src2, k)' /\ FrameNow(src2, k)'
       /\ FrameBase(src2, n)' /\ \A i \in FieldsOf(q) : Current(n, i)' = (Key = Name(RFields[i]))
       /\ \A o \in root .. Len(pb) : (\A k \in 1 .. Len(rframes') : rframes'[k].obj # o) =>
                  \A i \in FieldsOf(o) : HeldAt(src2, o, i)'
  <2>1. q = R.obj /\ Name(RFields[f]) = Key /\ HasPair /\ Touched(src, src2, q, f)
    BY <1>0, <1>1, <1>4, <1>7, Zenon
  <2> QED BY <1>0, <1>13, <2>1, PairStep
<1>15. FrameNow(src2, n)'
  <2>1. n \in 1 .. n /\ n # n + 1 BY <1>8
  <2>2. ~Left(n)' BY <1>8, <1>11, <1>12, <2>1 DEF Left
  <2>3. rframes'[n].obj = q BY <1>8, <1>12, <2>1
  <2>4. HeldAt(src2, q, f)'
    <3>1. Takes(RFields[f].kind, v) BY <1>1 DEF Takes
    <3>2. m \in root' .. Len(pb') /\ pb'[m].type = T
      BY <1>2, SizeOf, <1>0, <1>7 DEF Steady, Known, Default
    <3>3. <<m, T, v.v>> \in Objs(src2)' BY <1>7, <3>2 DEF Objs
    <3>4. FieldIs(RFields[f], m, v, Objs(src2)') BY <1>1, <1>t, <3>3 DEF FieldIs
    <3>5. HeldBy(tabs, pb[q].type, src[q], f, m, Objs(src2)') BY <1>1, <1>4, <3>1, <3>4, HeldSingle
    <3>6. pb'[q].type = pb[q].type /\ src2[q] = src[q] BY <1>4, <1>7 DEF Touched
    <3>7. HeldBy(tabs', pb'[q].type, src2[q], f, pb'[q].val[f], Objs(src2)')
      BY <1>1, <1>7, <3>5, <3>6
    <3> QED BY <3>7 DEF HeldAt
  <2>5. FieldsOf(q)' = FieldsOf(q) BY <1>4, <1>2, <1>7, TouchedBase
  <2>6. \A i \in FieldsOf(q)' : Current(n, i)' => HeldAt(src2, q, i)' BY <1>4, <1>14, <2>4, <2>5
  <2> QED BY <2>2, <2>3, <2>6 DEF FrameNow
<1>16. FrameBase(src2, n + 1)' /\ FrameNow(src2, n + 1)'
  <2>1. m \in root' .. Len(pb') BY <1>2, SizeOf, <1>0, <1>7 DEF Steady, Known
  <2>2. rframes'[n + 1].fresh = TRUE /\ rframes'[n + 1].obj = m /\ src2[m] = stack'[rframes'[n + 1].at].v
    BY <1>7, <1>9, <1>11, <1>12
  <2>3. T \in Types /\ pb'[m] = Default(T) BY <1>5, <1>7
  <2> QED BY <2>1, <2>2, <2>3, FreshFrame
<1>17. \A k \in 1 .. n : FrameBase(src2, k)' /\ FrameNow(src2, k)' /\ rframes'[k].obj = rframes[k].obj
  <2> TAKE k \in 1 .. n
  <2>1. k = n \/ k \in 1 .. n - 1 BY <1>8
  <2> QED BY <1>0, <1>8, <1>12, <1>14, <1>15, <2>1
<1>18. ScanNow(src2)' BY <1>1, <1>4, Zenon DEF ScanNow
<1>19. Content(src2)'
  <2>1. ~dead' /\ rframes'[n + 1].obj = Len(pb) + 1 /\ Len(pb') = Len(pb) + 1
    BY <1>0, <1>1, <1>2, <1>7, <1>11, <1>12
  <2> QED BY <1>0, <1>2, <1>7, <1>12, <1>14, <1>16, <1>17, <1>18, <2>1, Pushed
<1> QED BY <1>19

----------------------------------------------------------------------------
\* Arrays.

LEMMA HeldArray ==
    ASSUME NEW tb, NEW T, NEW i, NEW ref, NEW objs, NEW x, x = Get(tb[ref], Name(Fields[T][i])), NEW y,
           Fields[T][i].rep, x.t = "table", NEW n \in Lengths(tb[x.v]),
           ~Breaks(Fields[T][i].kind, tb[x.v], n), FilledTo(Fields[T][i], tb[x.v], n, y, objs)
    PROVE  HeldBy(tb, T, ref, i, y, objs) BY DEF HeldBy

LEMMA LengthIs ==
    ASSUME IInv, NEW ref \in 1 .. Len(tabs), NEW n \in Lengths(tabs[ref])
    PROVE  n \in Nat
<1>1. Len(tabs[ref]) \in Nat
  <2> DEFINE S == Pairs(Len(tabs))
  <2>1. tabs \in Seq(Seq(S)) BY DEF IInv, HeapOK
  <2> HIDE DEF S
  <2>2. tabs[ref] \in Seq(S) BY <2>1
  <2> QED BY <2>2
<1> QED BY <1>1 DEF Lengths, Borders

LEMMA BeginArrayContent ==
    ASSUME Sending, BeginArray, Steady, NEW src, Content(src)
    PROVE  Content(src)'
<1>0. PICK q, f, v, n : q = R.obj /\ f = FieldOf(Key) /\ v = Value /\ n = Len(rframes) OBVIOUS
<1>1. /\ HasPair /\ f # 0 /\ RFields[f].rep /\ v.t = "table"
      /\ rframes' = Iterated /\ tabs' = tabs /\ pb' = pb /\ dead' = dead BY <1>0 DEF BeginArray
<1>2. IInv /\ Known(src) /\ RInv /\ InLoop /\ ~BadKey /\ ~dead
  BY <1>1 DEF Sending, Content, IInv, RInv, HasPair
<1>3. Touched(src, src, 0, 0) /\ Known(src)' /\ Len(pb') = Len(pb) BY <1>1, <1>2, TouchNone
<1>4. /\ \A i \in FieldsOf(q) : Key = Name(RFields[i]) => f = i
      /\ f \in FieldsOf(q) /\ Key = Name(RFields[f]) /\ pb[q].val[f] = Unset(RFields[f])
      /\ q \in root .. Len(pb) /\ q \in 1 .. Len(pb) /\ pb[q].type \in Types /\ RFields = Fields[pb[q].type]
      /\ Get(tabs[src[q]], Key) = v /\ scan = NoScan BY <1>0, <1>1, NamedField
<1>5. Unset(RFields[f]) = <<>> /\ v \in Values(Len(tabs)) /\ v.v \in 1 .. Len(tabs)
  BY <1>0, <1>1, <1>2, PairFacts DEF Values, Unset
<1>6. CASE stack' = Append(Rest, Key) /\ scan' = scan /\ 0 \in Lengths(tabs[v.v])
  <2>1. PairDone BY <1>1, <1>6 DEF PairDone
  <2>2. ASSUME NEW i \in FieldsOf(q), Key = Name(RFields[i]) PROVE HeldAt(src, q, i)'
    <3>1. i = f BY <1>4, <2>2
    <3>2. ~Breaks(RFields[f].kind, tabs[v.v], 0) BY DEF Breaks
    <3>3. FilledTo(RFields[f], tabs[v.v], 0, <<>>, Objs(src)') BY FilledNone
    <3>4. HeldBy(tabs, pb[q].type, src[q], f, <<>>, Objs(src)')
      BY <1>1, <1>4, <1>6, <3>2, <3>3, HeldArray
    <3>5. HeldBy(tabs', pb'[q].type, src[q], i, pb'[q].val[i], Objs(src)')
      BY <1>1, <1>4, <1>5, <3>1, <3>4
    <3> QED BY <3>5 DEF HeldAt
  <2> QED BY <1>0, <1>1, <1>3, <1>6, <2>1, <2>2, PairGone
<1>7. ASSUME NEW k \in Lengths(tabs[v.v]), k # 0, stack' = Rest \o <<Key, Value>>,
             scan' = [idx |-> 1, n |-> k, own |-> n, at |-> Len(stack'), field |-> f]
      PROVE  Content(src)'
  <2>1. /\ Len(rframes') = n /\ n \in Nat /\ n > 0
        /\ \A i \in 1 .. n - 1 : rframes'[i] = rframes[i]
        /\ rframes'[n].obj = R.obj /\ rframes'[n].at = R.at /\ rframes'[n].pops = R.pops /\ ~rframes'[n].fresh
    BY <1>0, <1>1, IteratedMove
  <2>2. /\ Len(stack') = R.at + 2 /\ stack'[R.at + 1] = Key /\ stack'[R.at + 2] = v
        /\ \A j \in 1 .. R.at : stack'[j] = stack[j] BY <1>0, <1>1, <1>2, <1>7, PairPushed
  <2>3. scan'.own = n /\ scan' # NoScan /\ scan'.idx = 1 /\ scan'.n = k /\ scan'.field = f /\ scan'.at = R.at + 2
    BY <1>7, <2>2 DEF NoScan
  <2>4. PairMove BY <1>0, <2>1, <2>2, <2>3 DEF PairMove
  <2>5. /\ \A i \in 1 .. n - 1 : FrameBase(src, i)' /\ FrameNow(src, i)'
        /\ FrameBase(src, n)' /\ \A i \in FieldsOf(R.obj) : Current(n, i)' = (Key = Name(RFields[i]))
        /\ \A o \in root .. Len(pb) : (\A i \in 1 .. Len(rframes') : rframes'[i].obj # o) =>
                   \A i \in FieldsOf(o) : HeldAt(src, o, i)'
        /\ R = rframes[n] BY <1>0, <1>1, <1>3, <2>4, PairStep
  <2>6. \A i \in 1 .. n : FrameBase(src, i)' /\ FrameNow(src, i)' /\ rframes'[i].obj = rframes[i].obj
    <3>1. FrameNow(src, n)' BY <2>3 DEF FrameNow, Scans
    <3> TAKE i \in 1 .. n
    <3>2. i = n \/ i \in 1 .. n - 1 BY <2>1
    <3> QED BY <2>1, <2>5, <3>1, <3>2
  <2>7. ScanNow(src)'
    <3>1. /\ f \in FieldsOf(q)' /\ Current(n, f)' /\ RFields = Fields[pb'[q].type]
          /\ rframes'[n].obj = q /\ pb'[q].val[f] = <<>>
      <4>1. FieldsOf(q)' = FieldsOf(q) BY <1>1 DEF FieldsOf
      <4>2. Current(n, f)' BY <1>0, <1>4, <2>5, Zenon
      <4> QED BY <1>0, <1>1, <1>4, <1>5, <2>1, <4>1, <4>2, Zenon
    <3>2. Get(tabs'[src[q]], Name(RFields[f])) = v /\ k \in Lengths(tabs'[v.v]) BY <1>1, <1>4, <1>7
    <3>3. FilledTo(RFields[f], tabs'[v.v], 1 - 1, <<>>, Objs(src)') BY FilledNone
    <3>4. \A j \in 1 .. 1 - 1 : FALSE OBVIOUS
    <3>5. ~(n < n) BY <2>1
    <3> QED BY <1>1, <2>1, <2>2, <2>3, <3>1, <3>2, <3>3, <3>4, <3>5 DEF ScanNow
  <2> QED BY <1>0, <1>1, <1>2, <1>3, <2>1, <2>5, <2>6, <2>7, Stayed
<1>8. PICK k \in Lengths(tabs[v.v]) :
        IF k = 0 THEN stack' = Append(Rest, Key) /\ UNCHANGED scan
        ELSE /\ stack' = Rest \o <<Key, Value>>
             /\ scan' = [idx |-> 1, n |-> k, own |-> n, at |-> Len(stack'), field |-> f]
  BY <1>0 DEF BeginArray
<1> QED BY <1>6, <1>7, <1>8

LEMMA ScanStep ==
    ASSUME Sending, scan # NoScan, NEW src, NEW src2, NEW q0, NEW f, Content(src), Touched(src, src2, q0, f),
           ScanMove, NEW own, own = scan.own, NEW n, n = Len(rframes),
           q0 = 0 \/ (q0 = rframes[own].obj /\ f = scan.field)
    PROVE  /\ \A k \in 1 .. n : FrameBase(src2, k)' /\ (k # own => FrameNow(src2, k)')
           /\ \A i \in FieldsOf(rframes[own].obj) : Current(own, i)' = Current(own, i)
           /\ \A o \in root .. Len(pb) : (\A k \in 1 .. Len(rframes') : rframes'[k].obj # o) =>
                 \A i \in FieldsOf(o) : HeldAt(src2, o, i)'
           /\ \A k \in 1 .. n : rframes'[k].obj = rframes[k].obj
<1>0. IInv /\ UniqueKeys /\ RInv /\ ~dead /\ pc = "send" BY DEF Sending, IInv, RInv
<1>1. /\ n \in Nat /\ own \in 1 .. n /\ ArrayOn(stack, rframes, scan) /\ \A k \in 1 .. n : rframes[k].at \in Nat
  BY <1>0, ArrayFacts
<1>2. /\ Known(src) /\ Closed(src) /\ Rising /\ ScanNow(src)
      /\ \A k \in 1 .. n : FrameBase(src, k) /\ FrameNow(src, k) BY DEF Content
<1>3. root \in 1 .. Len(pb) /\ Len(pb) \in Nat /\ \A k \in 1 .. n : rframes[k].obj \in root .. Len(pb)
  BY <1>0, <1>2, SizeOf DEF FrameBase, Known
<1>4. /\ Len(rframes') \in Nat /\ Len(rframes') >= n
      /\ \A k \in 1 .. n : rframes'[k] = rframes[k]
      /\ \A j \in 1 .. rframes[n].at : stack'[j] = stack[j]
      /\ stack'[rframes[own].at + 1] = stack[rframes[own].at + 1]
      /\ scan' = NoScan \/ scan'.own = own BY DEF ScanMove
<1>5. ASSUME NEW k \in 1 .. n, k # own PROVE rframes[k].obj # q0
  <2>1. rframes[k].obj # rframes[own].obj
    <3>1. rframes[k].obj \in Int /\ rframes[own].obj \in Int BY <1>1, <1>3
    <3>2. k < own \/ own < k BY <1>1, <1>5
    <3>3. rframes[k].obj < rframes[own].obj \/ rframes[own].obj < rframes[k].obj
      BY <1>1, <1>2, <3>2 DEF Rising
    <3> QED BY <3>1, <3>3
  <2>2. rframes[k].obj # 0 BY <1>3
  <2> QED BY <2>1, <2>2
<1>6. ASSUME NEW k \in 1 .. n
      PROVE  FrameBase(src2, k)' /\ \A i \in FieldsOf(rframes[k].obj) : Current(k, i)' = Current(k, i)
  <2>1. n \in 1 .. n /\ k <= n BY <1>1
  <2>2. rframes[k].at \in 1 .. rframes[n].at /\ (k < own => rframes[k].at + 1 \in 1 .. rframes[n].at)
    <3>1. FramesOn(stack, rframes) /\ rframes[k].at >= 1 /\ rframes[k].at \in Nat /\ rframes[n].at \in Nat
      <4>1. FramesOn(stack, rframes) BY <1>0, ArrayFacts
      <4>2. rframes[k].at \in 1 .. Len(stack) /\ rframes[n].at \in 1 .. Len(stack)
        BY <2>1, <4>1 DEF FramesOn
      <4> QED BY <1>0, <4>1, <4>2, SizeOf
    <3>2. k < n => rframes[k].at < rframes[n].at BY <2>1, <3>1 DEF FramesOn
    <3>3. k < own => k < n BY <1>1
    <3> QED BY <2>1, <3>1, <3>2, <3>3
  <2>3. ~rframes[k].fresh => stack'[rframes[k].at + 1] = stack[rframes[k].at + 1]
    <3>1. CASE k = own BY <1>4, <3>1
    <3>2. CASE k > own
      <4>1. k \in own + 1 .. n BY <1>1, <3>2
      <4> QED BY <1>1, <4>1 DEF ArrayOn
    <3>3. CASE k < own BY <1>4, <2>2, <3>3
    <3> QED BY <1>1, <3>1, <3>2, <3>3
  <2>4. rframes[k].obj # q0 \/ Current(k, f)
    <3>1. CASE k # own BY <1>5, <3>1
    <3>2. CASE k = own
      <4>1. Current(own, scan.field) BY <1>2, Zenon DEF ScanNow
      <4>2. rframes[k].obj # 0 BY <1>3
      <4> QED BY <3>2, <4>1, <4>2
    <3> QED BY <3>1, <3>2
  <2>5. rframes'[k] = rframes[k] /\ stack'[rframes[k].at] = stack[rframes[k].at] /\ FrameBase(src, k)
    BY <1>2, <1>4, <2>2
  <2> QED BY <1>0, <1>2, <2>3, <2>4, <2>5, BaseKept
<1>7. ASSUME NEW k \in 1 .. n, k # own PROVE FrameNow(src2, k)'
  <2>1. CASE k > own
    <3>1. k \in own + 1 .. n BY <1>1, <2>1
    <3>2. rframes'[k].fresh BY <1>1, <1>4, <3>1 DEF ArrayOn
    <3> QED BY <3>2 DEF FrameNow
  <2>2. CASE k < own
    <3>1. k # Len(rframes) /\ k # Len(rframes') /\ k + 1 \in 1 .. n BY <1>1, <1>4, <2>2
    <3>2. rframes'[k] = rframes[k] /\ rframes'[k + 1] = rframes[k + 1] BY <1>4, <3>1
    <3>3. Left(k)' = Left(k) BY <3>1, <3>2 DEF Left
    <3>4. Scans(k)' = Scans(k) BY <1>4, <2>2 DEF Scans
    <3>5. FrameBase(src, k) /\ FrameNow(src, k) /\ rframes[k].obj # q0 BY <1>2, <1>5, <1>7
    <3>6. FrameBase(src2, k)' /\ \A i \in FieldsOf(rframes[k].obj) : Current(k, i)' = Current(k, i)
      BY <1>6
    <3> QED BY <1>2, <3>2, <3>3, <3>4, <3>5, <3>6, NowKept
  <2> QED BY <1>1, <1>7, <2>1, <2>2
<1>8. ASSUME NEW o \in root .. Len(pb), \A k \in 1 .. Len(rframes') : rframes'[k].obj # o
      PROVE  \A i \in FieldsOf(o) : HeldAt(src2, o, i)'
  <2>1. \A k \in 1 .. n : rframes[k].obj # o
    <3> TAKE k \in 1 .. n
    <3>1. k \in 1 .. Len(rframes') BY <1>1, <1>4
    <3> QED BY <1>4, <1>8, <3>1
  <2>2. \A i \in FieldsOf(o) : HeldAt(src, o, i) BY <1>2, <2>1 DEF Closed
  <2>3. o # q0 BY <1>1, <1>3, <2>1
  <2> TAKE i \in FieldsOf(o)
  <2>4. HeldAt(src, o, i) BY <2>2
  <2> QED BY <1>0, <1>2, <2>3, <2>4, HeldKept
<1> QED BY <1>1, <1>4, <1>6, <1>7, <1>8

\* The array that the loop is in: the field f of the message q, whose frame is own.
ScanIs(src, q, own, f, v, field, pairs) ==
    /\ own = scan.own /\ q = rframes[own].obj /\ f = scan.field /\ v = stack[scan.at] /\ pairs = tabs[v.v]
    /\ field = Field /\ field = Fields[pb[q].type][f] /\ f \in FieldsOf(q)
    /\ q \in root .. Len(pb) /\ q \in 1 .. Len(pb) /\ pb[q].type \in Types
    /\ own \in 1 .. Len(rframes) /\ ~rframes[own].fresh
    /\ \A i \in FieldsOf(q) : Current(own, i) => i = f
    /\ Current(own, f) /\ field.rep /\ Get(tabs[src[q]], Name(field)) = v /\ v.t = "table" /\ v.v \in 1 .. Len(tabs)
    /\ scan.n \in Lengths(pairs) /\ scan.n \in Nat /\ scan.idx \in 1 .. scan.n /\ scan.idx - 1 \in Nat /\ scan.idx \in Nat
    /\ Element = Item(pairs, scan.idx) /\ Element \in Values(Len(tabs))
    /\ FilledTo(field, pairs, scan.idx - 1, pb[q].val[f], Objs(src))
    /\ \A j \in 1 .. scan.idx - 1 : ~Throws(field.kind, Item(pairs, j))

LEMMA ScanFacts ==
    ASSUME Sending, scan # NoScan, NEW src, Content(src)
    PROVE  \E q, own, f, v, field, pairs : ScanIs(src, q, own, f, v, field, pairs)
<1>0. PICK q, own, f, v, field, pairs :
         own = scan.own /\ q = rframes[own].obj /\ f = scan.field /\ v = stack[scan.at] /\ pairs = tabs[v.v] /\ field = Field
  <2> DEFINE v1 == stack[scan.at]
  <2>1. v1 = stack[scan.at] /\ tabs[v1.v] = tabs[v1.v] OBVIOUS
  <2> QED OBVIOUS
<1>1. IInv /\ RInv /\ ~dead BY DEF Sending, IInv, RInv
<1>2. /\ own \in 1 .. Len(rframes) /\ ArrayOn(stack, rframes, scan) /\ scan \in ScanSet
      /\ stack \in Seq(Values(Len(tabs))) /\ scan.at \in 1 .. Len(stack) /\ q \in 1 .. Len(pb)
  BY <1>0, <1>1, ArrayFacts
<1>3. Known(src) /\ ScanNow(src) /\ FrameBase(src, own) BY <1>2 DEF Content
<1>4. q \in root .. Len(pb) /\ pb[q].type \in Types BY <1>0, <1>1, <1>2, <1>3, SizeOf DEF FrameBase
<1>5. ~rframes[own].fresh /\ v.t = "table" /\ scan.idx \in 1 .. scan.n BY <1>0, <1>2 DEF ArrayOn
<1>6. v.v \in 1 .. Len(tabs)
  <2>1. v \in Values(Len(tabs))
    <3> DEFINE S == Values(Len(tabs))
    <3>1. stack \in Seq(S) BY <1>2
    <3> HIDE DEF S
    <3>2. stack[scan.at] \in S BY <1>2, <3>1
    <3> QED BY <1>0, <3>2 DEF S
  <2> QED BY <1>5, <2>1 DEF Values
<1>7. /\ field = Fields[pb[q].type][f] /\ f \in FieldsOf(q)
      /\ Current(own, f) /\ field.rep /\ Get(tabs[src[q]], Name(field)) = v /\ scan.n \in Lengths(pairs)
      /\ FilledTo(field, pairs, scan.idx - 1, pb[q].val[f], Objs(src))
      /\ \A j \in 1 .. scan.idx - 1 : ~Throws(field.kind, Item(pairs, j))
  <2>1. field = Fields[pb[q].type][f] BY <1>0 DEF Field, Owner
  <2> QED BY <1>0, <1>3, <2>1, Zenon DEF ScanNow
<1>8. \A i \in FieldsOf(q) : Current(own, i) => i = f
  <2> SUFFICES ASSUME NEW i \in FieldsOf(q), Current(own, i) PROVE i = f OBVIOUS
  <2>1. Name(Fields[pb[q].type][i]) = Name(Fields[pb[q].type][f]) BY <1>0, <1>7, Zenon DEF Current
  <2>2. i \in 1 .. Len(Fields[pb[q].type]) /\ f \in 1 .. Len(Fields[pb[q].type])
    BY <1>7 DEF FieldsOf
  <2> QED BY <1>4, <2>1, <2>2, NameOf
<1>9. scan.n \in Nat /\ scan.idx - 1 \in Nat /\ scan.idx \in Nat
  <2>1. scan.n \in Nat BY <1>0, <1>1, <1>6, <1>7, LengthIs, Zenon
  <2> QED BY <1>5, <2>1
<1>10. Element = Item(pairs, scan.idx) /\ Element \in Values(Len(tabs))
  BY <1>0, <1>1, ElementType DEF Element, Item
<1>11. ScanIs(src, q, own, f, v, field, pairs)
  BY <1>0, <1>2, <1>4, <1>5, <1>6, <1>7, <1>8, <1>9, <1>10, Zenon DEF ScanIs
<1> QED BY <1>11

\* The loop is over: the field has what the array says, or the array is one of
\* messages that does not start with a table.
LEMMA OwnerNow ==
    ASSUME NEW src, NEW src2, NEW q, NEW own, NEW f, NEW v, NEW field, NEW pairs,
           ScanIs(src, q, own, f, v, field, pairs), Steady, pb'[q].type = pb[q].type, src2[q] = src[q],
           rframes'[own].obj = q, scan' = NoScan,
           \A i \in FieldsOf(q) : Current(own, i)' = Current(own, i),
           FilledTo(field, pairs, scan.n, pb'[q].val[f], Objs(src2)'),
           IF Left(own)' THEN field.kind = "message" /\ Item(pairs, 1).t # "table"
           ELSE ~Breaks(field.kind, pairs, scan.n)
    PROVE  FrameNow(src2, own)'
<1>1. /\ pairs = tabs[v.v] /\ field = Fields[pb[q].type][f] /\ f \in FieldsOf(q)
      /\ (\A i \in FieldsOf(q) : Current(own, i) => i = f) /\ Current(own, f)
      /\ field.rep /\ Get(tabs[src[q]], Name(field)) = v /\ v.t = "table"
      /\ scan.n \in Lengths(pairs) /\ scan.n \in Nat /\ scan.idx \in 1 .. scan.n BY Zenon DEF ScanIs
<1>2. tabs' = tabs /\ FieldsOf(q)' = FieldsOf(q) BY DEF Steady, FieldsOf
<1>3. CASE Left(own)' BY <1>1, <1>3, <1>2 DEF Breaks, Broken, FrameNow
<1>4. CASE ~Left(own)' BY <1>1, <1>4, HeldArray, <1>2 DEF HeldAt, FrameNow
<1> QED BY <1>3, <1>4

\* The loop goes on with the next element.
LEMMA GoesOn ==
    ASSUME NEW src, NEW src2, NEW q, NEW own, NEW f, NEW v, NEW field, NEW pairs,
           ScanIs(src, q, own, f, v, field, pairs), Steady, pb'[q].type = pb[q].type, src2[q] = src[q],
           rframes'[own].obj = q, scan' = [scan EXCEPT !.idx = @ + 1], scan \in ScanSet, stack'[scan.at] = v,
           \A i \in FieldsOf(q) : Current(own, i)' = Current(own, i),
           FilledTo(field, pairs, scan.idx, pb'[q].val[f], Objs(src2)'),
           ~Throws(field.kind, Item(pairs, scan.idx)),
           field.kind = "message" =>
              IF own < Len(rframes') THEN rframes'[own + 1].pops = (IF Item(pairs, 1).t = "table" THEN 2 ELSE 1)
              ELSE Item(pairs, 1).t # "table"
    PROVE  ScanNow(src2)' /\ FrameNow(src2, own)'
<1>1. /\ own = scan.own /\ f = scan.field
      /\ pairs = tabs[v.v] /\ field = Fields[pb[q].type][f] /\ f \in FieldsOf(q) /\ Current(own, f)
      /\ field.rep /\ Get(tabs[src[q]], Name(field)) = v
      /\ scan.n \in Lengths(pairs) /\ scan.n \in Nat /\ scan.idx \in 1 .. scan.n
      /\ \A j \in 1 .. scan.idx - 1 : ~Throws(field.kind, Item(pairs, j)) BY Zenon DEF ScanIs
<1>2. tabs' = tabs /\ FieldsOf(q)' = FieldsOf(q) BY DEF Steady, FieldsOf
<1>3. /\ scan'.own = own /\ scan'.at = scan.at /\ scan'.field = f /\ scan'.n = scan.n /\ scan'.idx = scan.idx + 1
      /\ scan' # NoScan BY <1>1 DEF ScanSet, NoScan
<1>4. FrameNow(src2, own)' BY <1>3 DEF FrameNow, Scans
<1>5. scan'.idx - 1 = scan.idx /\ \A j \in 1 .. scan.idx : ~Throws(field.kind, Item(pairs, j))
  BY <1>1, <1>3
<1>6. /\ f \in FieldsOf(q)' /\ Current(own, f)' /\ field = Fields[pb'[q].type][f]
      /\ Get(tabs'[src2[q]], Name(field)) = v /\ scan.n \in Lengths(tabs'[v.v]) /\ pairs = tabs'[v.v]
  BY <1>1, <1>2
<1>7. ScanNow(src2)'
  <2> DEFINE Y == pb'[q].val[f]
  <2> DEFINE S2 == Objs(src2)'
  <2>1. FilledTo(field, pairs, scan'.idx - 1, Y, S2) /\ \A j \in 1 .. scan'.idx - 1 : ~Throws(field.kind, Item(pairs, j))
    BY <1>5
  <2>2. /\ field.kind = "message" /\ own < Len(rframes') /\ Item(pairs, 1).t # "table" =>
               rframes'[own + 1].pops = 1
        /\ field.kind = "message" /\ own < Len(rframes') /\ Item(pairs, 1).t = "table" =>
               rframes'[own + 1].pops = 2
        /\ field.kind = "message" /\ own = Len(rframes') /\ scan'.idx > 1 => Item(pairs, 1).t # "table"
    <3>1. own \in 1 .. Len(rframes) BY Zenon DEF ScanIs
    <3>2. own = Len(rframes') => ~(own < Len(rframes')) BY <3>1
    <3> QED BY <3>2
  <2> HIDE DEF Y, S2
  <2>3. Y = pb'[q].val[f] /\ S2 = Objs(src2)' BY DEF Y, S2
  <2>4. ~rframes'[own].fresh /\ stack'[rframes'[own].at + 1] = Name(Fields[pb'[q].type][f])
    BY <1>6 DEF Current
  <2>5. f \in 1 .. Len(Fields[pb'[q].type]) BY <1>6 DEF FieldsOf
  <2> DEFINE a == scan'.own
             b == scan'.field
             c == scan'.idx
             d == scan'.n
             e == stack'[scan'.at]
  <2>6. /\ a = own /\ b = f /\ d = scan.n /\ e = v BY <1>3
  <2> DEFINE o == rframes'[a].obj
  <2>7. o = q BY <2>6
  <2>8. /\ b \in 1 .. Len(Fields[pb'[o].type])
        /\ ~rframes'[a].fresh /\ stack'[rframes'[a].at + 1] = Name(Fields[pb'[o].type][b])
        /\ Fields[pb'[o].type][b] = field /\ field.rep /\ tabs'[e.v] = pairs
        /\ Get(tabs'[src2[o]], Name(field)) = e /\ d \in Lengths(pairs)
        /\ FilledTo(field, pairs, c - 1, pb'[o].val[b], S2)
        /\ \A j \in 1 .. c - 1 : ~Throws(field.kind, Item(pairs, j))
        /\ field.kind = "message" /\ a < Len(rframes') /\ Item(pairs, 1).t # "table" => rframes'[a + 1].pops = 1
        /\ field.kind = "message" /\ a < Len(rframes') /\ Item(pairs, 1).t = "table" => rframes'[a + 1].pops = 2
        /\ field.kind = "message" /\ a = Len(rframes') /\ c > 1 => Item(pairs, 1).t # "table"
    BY <1>1, <1>6, <2>1, <2>2, <2>3, <2>4, <2>5, <2>6, <2>7, Zenon
  <2> QED BY <2>3, <2>8 DEF ScanNow, Current, FieldsOf
<1> QED BY <1>4, <1>7

LEMMA LastOf == ASSUME NEW k \in Nat, NEW j \in 1 .. k PROVE j = k \/ j \in 1 .. k - 1 OBVIOUS

\* One element more of the array.
LEMMA ElementFilled ==
    ASSUME IInv, NEW src, NEW src2, NEW q, NEW own, NEW f, NEW v, NEW field, NEW pairs, Known(src),
           ScanIs(src, q, own, f, v, field, pairs), Touched(src, src2, q, f),
           IF Takes(field.kind, Element)
           THEN \E x : pb'[q].val[f] = Append(pb[q].val[f], x) /\ FieldIs(field, x, Element, Objs(src2)')
           ELSE pb'[q].val[f] = pb[q].val[f]
    PROVE  FilledTo(field, pairs, scan.idx, pb'[q].val[f], Objs(src2)')
<1> DEFINE S1 == Objs(src)
           S2 == Objs(src2)'
           y == pb[q].val[f]
           z == pb'[q].val[f]
           k == scan.idx - 1
<1>1. /\ k \in Nat /\ k + 1 = scan.idx /\ Element = Item(pairs, k + 1) /\ FilledTo(field, pairs, k, y, S1)
  <2>1. /\ scan.idx \in 1 .. scan.n /\ scan.idx - 1 \in Nat /\ Element = Item(pairs, scan.idx)
        /\ FilledTo(field, pairs, scan.idx - 1, pb[q].val[f], Objs(src)) BY Zenon DEF ScanIs
  <2>2. (scan.idx - 1) + 1 = scan.idx BY <2>1
  <2> QED BY <2>1, <2>2
<1>2. S1 \subseteq S2 BY TouchedBase
<1>3. IF Takes(field.kind, Item(pairs, k + 1))
      THEN \E x : z = Append(y, x) /\ FieldIs(field, x, Item(pairs, k + 1), S2)
      ELSE z = y BY <1>1
<1> HIDE DEF S1, S2, y, z, k
<1>4. FilledTo(field, pairs, k, y, S2) BY <1>1, <1>2, FilledMono
<1>5. FilledTo(field, pairs, k + 1, z, S2) BY <1>1, <1>3, <1>4, FilledNext
<1> QED BY <1>1, <1>5 DEF S2, z

LEMMA AddScalarContent ==
    ASSUME Sending, AddScalar, Steady, NEW src, Content(src)
    PROVE  Content(src)'
<1>0. scan # NoScan /\ Field.kind # "message" /\ tabs' = tabs /\ rframes' = rframes BY DEF AddScalar
<1>1. PICK q, own, f, v, field, pairs : ScanIs(src, q, own, f, v, field, pairs) BY <1>0, ScanFacts
<1>2. IInv /\ Known(src) /\ RInv /\ ~dead BY DEF Sending, Content, IInv, RInv
<1>3. /\ own = scan.own /\ q = rframes[own].obj /\ f = scan.field /\ v = stack[scan.at] /\ pairs = tabs[v.v]
      /\ field = Field /\ field = Fields[pb[q].type][f] /\ f \in FieldsOf(q)
      /\ q \in root .. Len(pb) /\ q \in 1 .. Len(pb) /\ field.rep
      /\ Get(tabs[src[q]], Name(field)) = v /\ v.t = "table"
      /\ scan.n \in Lengths(pairs) /\ scan.n \in Nat /\ scan.idx \in 1 .. scan.n /\ scan.idx \in Nat
      /\ Element = Item(pairs, scan.idx) /\ Element \in Values(Len(tabs))
      /\ \A j \in 1 .. scan.idx - 1 : ~Throws(field.kind, Item(pairs, j)) BY <1>1, Zenon DEF ScanIs
<1>4. PICK n : n = Len(rframes) OBVIOUS
<1>5. /\ n \in Nat /\ own = n /\ n > 0 /\ scan.at = rframes[n].at + 2 /\ Len(stack) = rframes[n].at + 2
      /\ rframes[n].at \in Nat /\ scan \in ScanSet
      /\ stack \in Seq(Values(Len(tabs)))
  <2>1. ArrayOn(stack, rframes, scan) /\ n \in Nat /\ n > 0 /\ rframes[n].at \in Nat /\ scan \in ScanSet
        /\ stack \in Seq(Values(Len(tabs))) BY <1>0, <1>2, <1>4, ArrayFacts
  <2>2. own = n BY <1>0, <1>2, <1>3, <1>4, <2>1, Zenon DEF RInv, ROK
  <2>3. scan.at = rframes[n].at + 2 /\ Len(stack) = scan.at + n - n
    BY <1>3, <1>4, <2>1, <2>2, Zenon DEF ArrayOn
  <2> QED BY <2>1, <2>2, <2>3
<1>6. CASE Throws(Field.kind, Element) /\ dead' = TRUE /\ UNCHANGED <<stack, pb, scan>>
  <2>1. Breaks(field.kind, pairs, scan.n) BY <1>0, <1>3, <1>6, Zenon DEF Breaks
  <2>2. FatalField(pb[q].type, src[q], f, {}) BY <1>3, <2>1, Zenon DEF FatalField
  <2>3. Doomed(src) BY <1>3, <2>2, Zenon DEF Doomed
  <2> QED BY <1>0, <1>6, <2>3, DeathKeeps DEF Steady
<1>7. ASSUME ~Throws(Field.kind, Element),
             (ScalarOf(Field.kind, Element) = {} /\ pb' = pb) \/ \E x \in ScalarOf(Field.kind, Element) : pb' = AddTo(pb, x),
             stack' = IF Last THEN Pop(stack, 1) ELSE stack, NextElement, dead' = dead
      PROVE  Content(src)'
  <2>1. /\ Touched(src, src, q, f) /\ Known(src)' /\ Len(pb') = Len(pb)
        /\ FilledTo(field, pairs, scan.idx, pb'[q].val[f], Objs(src)')
    <3>1. CASE ScalarOf(Field.kind, Element) = {} /\ pb' = pb
      <4>1. Touched(src, src, q, f) /\ Known(src)' BY <1>2, <3>1, TouchNone
      <4>2. ~Takes(field.kind, Element) /\ pb'[q].val[f] = pb[q].val[f]
        BY <1>0, <1>3, <3>1, Zenon DEF Takes
      <4>3. FilledTo(field, pairs, scan.idx, pb'[q].val[f], Objs(src)')
        BY <1>1, <1>2, <4>1, <4>2, ElementFilled
      <4> QED BY <3>1, <4>1, <4>3
    <3>2. ASSUME NEW x \in ScalarOf(Field.kind, Element), pb' = AddTo(pb, x)
          PROVE  /\ Touched(src, src, q, f) /\ Known(src)' /\ Len(pb') = Len(pb)
                 /\ FilledTo(field, pairs, scan.idx, pb'[q].val[f], Objs(src)')
      <4>0. PICK z : z = Append(pb[q].val[f], x) BY Zenon
      <4>1. pb' = SetVal(pb, q, [pb[q].val EXCEPT ![f] = z])
        BY <1>3, <3>2, <4>0, Zenon DEF AddTo, SetVal
      <4>2. q \in root .. Len(pb) /\ f \in FieldsOf(q) BY <1>3, Zenon
      <4>3. Touched(src, src, q, f) /\ Known(src)' /\ pb'[q].val[f] = z /\ Len(pb') = Len(pb)
        BY <1>2, <4>1, <4>2, TouchOne, Zenon
      <4>4. Takes(field.kind, Element) /\ FieldIs(field, x, Element, Objs(src)')
        BY <1>0, <1>3, <3>2, Zenon DEF Takes, FieldIs
      <4>5. FilledTo(field, pairs, scan.idx, pb'[q].val[f], Objs(src)')
        BY <1>1, <1>2, <4>0, <4>3, <4>4, ElementFilled
      <4> QED BY <4>3, <4>5
    <3> QED BY <1>7, <3>1, <3>2
  <2>2. /\ \A j \in 1 .. rframes[n].at + 1 : stack'[j] = stack[j]
        /\ Last => Len(stack') = rframes[n].at + 1
    <3> DEFINE S == Values(Len(tabs))
    <3>1. stack \in Seq(S) /\ 1 \in 0 .. Len(stack) /\ Len(stack) - 1 = rframes[n].at + 1 BY <1>5
    <3> HIDE DEF S
    <3>2. Len(Pop(stack, 1)) = Len(stack) - 1 /\ \A j \in 1 .. Len(stack) - 1 : Pop(stack, 1)[j] = stack[j]
      BY <3>1, PopType
    <3> QED BY <1>7, <3>1, <3>2
  <2>3. ScanMove
    <3>1. scan' = NoScan \/ scan'.own = scan.own BY <1>5, <1>7 DEF NextElement, ScanSet
    <3>2. rframes[n].at + 1 \in 1 .. rframes[n].at + 1 /\ \A j \in 1 .. rframes[n].at : j \in 1 .. rframes[n].at + 1
      BY <1>5
    <3>3. Len(rframes') \in Nat /\ Len(rframes') >= n /\ \A k \in 1 .. n : rframes'[k] = rframes[k]
      BY <1>0, <1>4, <1>5
    <3>4. stack'[rframes[scan.own].at + 1] = stack[rframes[scan.own].at + 1]
      BY <1>3, <1>5, <2>2, <3>2, Zenon
    <3>5. \A j \in 1 .. rframes[n].at : stack'[j] = stack[j] BY <2>2, <3>2
    <3> QED BY <1>4, <3>1, <3>3, <3>4, <3>5 DEF ScanMove
  <2>4. /\ \A k \in 1 .. n : FrameBase(src, k)' /\ (k # own => FrameNow(src, k)')
        /\ \A i \in FieldsOf(q) : Current(own, i)' = Current(own, i)
        /\ \A o \in root .. Len(pb) : (\A k \in 1 .. Len(rframes') : rframes'[k].obj # o) =>
                 \A i \in FieldsOf(o) : HeldAt(src, o, i)'
    <3>1. own = scan.own /\ q = rframes[own].obj /\ f = scan.field /\ Touched(src, src, q, f)
      BY <1>3, <2>1, Zenon
    <3> QED BY <1>0, <1>4, <2>3, <3>1, ScanStep
  <2>5. pb'[q].type = pb[q].type BY <1>3, <2>1, Zenon DEF Touched
  <2>6. FrameNow(src, own)' /\ ScanNow(src)'
    <3>1. CASE Last
      <4>1. scan' = NoScan BY <1>7, <3>1 DEF NextElement
      <4>2. ~Left(own)' BY <1>0, <1>4, <1>5, <2>2, <3>1 DEF Left
      <4>3. scan.n = scan.idx /\ ~Breaks(field.kind, pairs, scan.n)
        <5>1. \A j \in 1 .. scan.idx : j = scan.idx \/ j \in 1 .. scan.idx - 1
          <6>1. scan.idx \in Nat BY <1>3, Zenon
          <6> QED BY <6>1, LastOf
        <5>2. scan.n = scan.idx BY <3>1 DEF Last
        <5> QED BY <1>0, <1>3, <1>7, <5>1, <5>2, Zenon DEF Breaks
      <4>4. FilledTo(field, pairs, scan.n, pb'[q].val[f], Objs(src)') /\ rframes'[own].obj = q
        BY <1>0, <1>3, <2>1, <4>3, Zenon
      <4>5. FrameNow(src, own)'
        <5>1. IF Left(own)' THEN field.kind = "message" /\ Item(pairs, 1).t # "table"
              ELSE ~Breaks(field.kind, pairs, scan.n) BY <4>2, <4>3
        <5>2. \A i \in FieldsOf(q) : Current(own, i)' = Current(own, i) BY <2>4
        <5> QED BY <1>1, <2>5, <4>1, <4>4, <5>1, <5>2, OwnerNow
      <4> QED BY <4>1, <4>5 DEF ScanNow
    <3>2. CASE ~Last
      <4>1. scan' = [scan EXCEPT !.idx = @ + 1] /\ stack'[scan.at] = v /\ rframes'[own].obj = q
        BY <1>0, <1>3, <1>7, <3>2, Zenon DEF NextElement
      <4>2. ~Throws(field.kind, Item(pairs, scan.idx)) /\ field.kind # "message"
        BY <1>0, <1>3, <1>7, Zenon
      <4>3. \A i \in FieldsOf(q) : Current(own, i)' = Current(own, i) BY <2>4
      <4>4. FilledTo(field, pairs, scan.idx, pb'[q].val[f], Objs(src)') /\ scan \in ScanSet
        BY <1>5, <2>1
      <4>5. field.kind = "message" =>
              IF own < Len(rframes') THEN rframes'[own + 1].pops = (IF Item(pairs, 1).t = "table" THEN 2 ELSE 1)
              ELSE Item(pairs, 1).t # "table" BY <4>2
      <4> QED BY <1>1, <2>5, <4>1, <4>2, <4>3, <4>4, <4>5, GoesOn, Zenon
    <3> QED BY <3>1, <3>2
  <2>7. \A k \in 1 .. n : FrameBase(src, k)' /\ FrameNow(src, k)' /\ rframes'[k].obj = rframes[k].obj
    BY <1>0, <2>4, <2>6
  <2> QED BY <1>0, <1>2, <1>4, <1>7, <2>1, <2>4, <2>6, <2>7, Stayed
<1> QED BY <1>6, <1>7 DEF AddScalar

\* What the frames above an array of messages say of its first element.
FirstSeen(pairs, own) ==
    IF own < Len(rframes') THEN /\ rframes'[own + 1].at = rframes'[own].at + 3
                                /\ rframes'[own + 1].pops = (IF Item(pairs, 1).t = "table" THEN 2 ELSE 1)
    ELSE Item(pairs, 1).t # "table" /\ own = Len(rframes') /\ Len(stack') = rframes'[own].at + 2

LEMMA MessageNow ==
    ASSUME NEW src, NEW src2, NEW q, NEW own, NEW f, NEW v, NEW field, NEW pairs,
           ScanIs(src, q, own, f, v, field, pairs), Steady, pb'[q].type = pb[q].type, src2[q] = src[q],
           rframes'[own].obj = q, NextElement, scan \in ScanSet, stack'[scan.at] = v,
           \A i \in FieldsOf(q) : Current(own, i)' = Current(own, i),
           FilledTo(field, pairs, scan.idx, pb'[q].val[f], Objs(src2)'),
           field.kind = "message", FirstSeen(pairs, own), Len(rframes') \in Nat
    PROVE  ScanNow(src2)' /\ FrameNow(src2, own)'
<1>1. CASE Last
  <2>1. scan' = NoScan BY <1>1 DEF NextElement
  <2>2. Left(own)' <=> Item(pairs, 1).t # "table" BY DEF FirstSeen, Left
  <2>3. scan.n = scan.idx BY <1>1 DEF Last
  <2>4. FilledTo(field, pairs, scan.n, pb'[q].val[f], Objs(src2)') BY <2>3
  <2>5. IF Left(own)' THEN field.kind = "message" /\ Item(pairs, 1).t # "table"
        ELSE ~Breaks(field.kind, pairs, scan.n) BY <2>2 DEF Breaks
  <2>6. FrameNow(src2, own)'
    <3>1. /\ ScanIs(src, q, own, f, v, field, pairs) /\ Steady /\ pb'[q].type = pb[q].type /\ src2[q] = src[q]
          /\ rframes'[own].obj = q /\ \A i \in FieldsOf(q) : Current(own, i)' = Current(own, i)
      OBVIOUS
    <3> QED BY ONLY <2>1, <2>4, <2>5, <3>1, OwnerNow
  <2> QED BY <2>1, <2>6 DEF ScanNow
<1>2. CASE ~Last
  <2>1. scan' = [scan EXCEPT !.idx = @ + 1] BY <1>2 DEF NextElement
  <2>2. ~Throws(field.kind, Item(pairs, scan.idx)) BY DEF Throws
  <2>3. field.kind = "message" =>
          IF own < Len(rframes') THEN rframes'[own + 1].pops = (IF Item(pairs, 1).t = "table" THEN 2 ELSE 1)
          ELSE Item(pairs, 1).t # "table" BY DEF FirstSeen
  <2> QED BY <2>1, <2>2, <2>3, GoesOn
<1> QED BY <1>1, <1>2

\* What the frames say before the step.
LEMMA FirstBefore ==
    ASSUME Sending, NEW src, Content(src), scan # NoScan,
           NEW q, NEW own, NEW f, NEW v, NEW field, NEW pairs, ScanIs(src, q, own, f, v, field, pairs),
           field.kind = "message", NEW n, n = Len(rframes)
    PROVE  /\ n \in Nat /\ own \in 1 .. n /\ own \in Nat /\ rframes \in Seq(RSet) /\ scan \in ScanSet
           /\ rframes[own].at \in Nat /\ scan.at = rframes[own].at + 2 /\ Len(stack) = scan.at + n - own
           /\ scan.at \in 1 .. Len(stack) /\ Len(stack) \in Nat
           /\ stack \in Seq(Values(Len(tabs)))
           /\ own < n => /\ rframes[own + 1].at = rframes[own].at + 3
                         /\ rframes[own + 1].pops = (IF Item(pairs, 1).t = "table" THEN 2 ELSE 1)
           /\ own = n /\ scan.idx > 1 => Item(pairs, 1).t # "table"
           /\ rframes[n].at \in 1 .. Len(stack)
<1>1. IInv /\ RInv /\ ~dead BY DEF Sending, IInv, RInv
<1>2. /\ n \in Nat /\ own \in 1 .. n /\ rframes \in Seq(RSet) /\ ArrayOn(stack, rframes, scan) /\ scan \in ScanSet
      /\ own = scan.own /\ stack \in Seq(Values(Len(tabs))) /\ Len(stack) \in Nat
      /\ \A i \in 1 .. n : rframes[i].at \in Nat /\ rframes[i].at \in 1 .. Len(stack)
      /\ scan.at = rframes[own].at + 2 /\ scan.at \in 1 .. Len(stack)
  BY <1>1, ArrayFacts, Zenon DEF ScanIs
<1>3. Len(stack) = scan.at + n - own /\ own \in Nat BY <1>2 DEF ArrayOn
<1>4. own < n => rframes[own + 1].at = rframes[own].at + 3
  <2> SUFFICES ASSUME own < n PROVE rframes[own + 1].at = rframes[own].at + 3 OBVIOUS
  <2>1. own + 1 \in own + 1 .. n BY <1>2, <1>3
  <2>2. rframes[own + 1].at = scan.at + (own + 1) - own BY <1>2, <2>1 DEF ArrayOn
  <2>3. rframes[own].at \in Nat /\ scan.at = rframes[own].at + 2 /\ own \in Nat BY <1>2, <1>3
  <2> HIDE <1>2, <1>3
  <2> QED BY <2>2, <2>3
<1>5. /\ own < n => rframes[own + 1].pops = (IF Item(pairs, 1).t = "table" THEN 2 ELSE 1)
      /\ own = n /\ scan.idx > 1 => Item(pairs, 1).t # "table"
  <2>1. field = Fields[pb[rframes[scan.own].obj].type][scan.field] /\ pairs = tabs[stack[scan.at].v]
    BY Zenon DEF ScanIs, Field, Owner
  <2>2. ScanNow(src) BY DEF Content
  <2> QED BY <1>2, <2>1, <2>2, Zenon DEF ScanNow
<1>6. n \in 1 .. n BY <1>2
<1> QED BY <1>2, <1>3, <1>4, <1>5, <1>6

LEMMA NotFirst == ASSUME NEW k \in Nat, NEW n \in Nat, k \in 1 .. n, k # 1 PROVE k > 1 OBVIOUS

LEMMA AddMessageContent ==
    ASSUME Sending, AddMessage, Steady, NEW src, Content(src)
    PROVE  \E src2 : Content(src2)'
<1>0. scan # NoScan /\ Field.kind = "message" /\ tabs' = tabs /\ dead' = dead /\ NextElement
  BY DEF AddMessage
<1>1. PICK q, own, f, v, field, pairs : ScanIs(src, q, own, f, v, field, pairs) BY <1>0, ScanFacts
<1>2. IInv /\ Known(src) /\ RInv /\ ~dead BY DEF Sending, Content, IInv, RInv
<1>3. /\ own = scan.own /\ q = rframes[own].obj /\ f = scan.field /\ v = stack[scan.at] /\ pairs = tabs[v.v]
      /\ field = Field /\ field = Fields[pb[q].type][f] /\ f \in FieldsOf(q) /\ pb[q].type \in Types
      /\ q \in root .. Len(pb) /\ q \in 1 .. Len(pb) /\ field.rep
      /\ Get(tabs[src[q]], Name(field)) = v /\ v.t = "table"
      /\ scan.n \in Lengths(pairs) /\ scan.n \in Nat /\ scan.idx \in 1 .. scan.n /\ scan.idx \in Nat
      /\ Element = Item(pairs, scan.idx) /\ Element \in Values(Len(tabs)) BY <1>1, Zenon DEF ScanIs
<1>4. PICK n, m, T, l : n = Len(rframes) /\ m = Len(pb) + 1 /\ T = Field.sub /\ l = Len(stack) + 1
  OBVIOUS
<1>5. /\ n \in Nat /\ own \in 1 .. n /\ own \in Nat /\ rframes \in Seq(RSet) /\ scan \in ScanSet
      /\ rframes[own].at \in Nat /\ scan.at = rframes[own].at + 2 /\ Len(stack) = scan.at + n - own
      /\ scan.at \in 1 .. Len(stack) /\ Len(stack) \in Nat
      /\ stack \in Seq(Values(Len(tabs)))
      /\ own < n => /\ rframes[own + 1].at = rframes[own].at + 3
                    /\ rframes[own + 1].pops = (IF Item(pairs, 1).t = "table" THEN 2 ELSE 1)
      /\ own = n /\ scan.idx > 1 => Item(pairs, 1).t # "table"
      /\ rframes[n].at \in 1 .. Len(stack)
  <2>1. field.kind = "message" /\ n = Len(rframes) /\ scan # NoScan BY <1>0, <1>3, <1>4, Zenon
  <2> QED BY <1>1, <2>1, FirstBefore
<1>6. scan' = NoScan \/ scan'.own = scan.own BY <1>0, <1>5 DEF NextElement, ScanSet
<1>7. rframes[own].at + 1 \in 1 .. Len(stack) /\ \A j \in 1 .. rframes[n].at : j \in 1 .. Len(stack)
  <2>1. /\ rframes[own].at \in Nat /\ scan.at = rframes[own].at + 2 /\ scan.at \in 1 .. Len(stack)
        /\ Len(stack) \in Nat /\ rframes[n].at \in 1 .. Len(stack) BY <1>5
  <2> QED BY <2>1
<1>8. CASE Element.t = "table"
  <2>1. /\ pb' = Append(AddTo(pb, m), Default(T)) /\ stack' = Append(stack, Element)
        /\ rframes' = Append(rframes, RFrame(Len(pb'), Len(stack'), PopsOf(scan.idx)))
    BY <1>4, <1>8 DEF AddMessage
  <2>2. T \in Types /\ Element.v \in 1 .. Len(tabs) /\ Element = Val("table", Element.v)
    <3>1. T \in Types BY <1>0, <1>2, <1>4, ArrayFacts
    <3> QED BY <1>3, <1>8, <3>1, Zenon DEF Values, LuaSet, Val
  <2>3. PICK src2, ref, z : src2 = Append(src, ref) /\ ref = Element.v /\ z = Append(pb[q].val[f], m)
    BY Zenon
  <2>4. NewOne(src, src2, q, f, z, T, ref)
    <3>1. pb' = Append(SetVal(pb, q, [pb[q].val EXCEPT ![f] = z]), Default(T))
      BY <1>3, <2>1, <2>3, Zenon DEF AddTo, SetVal
    <3>2. Nests(tabs, pb[q].type, src[q], f, T, ref)
      BY <1>0, <1>3, <1>4, <2>2, <2>3, Zenon DEF Nests
    <3> QED BY <1>2, <1>3, <2>2, <2>3, <3>1, <3>2, Zenon DEF NewOne
  <2>5. /\ Touched(src, src2, q, f) /\ Known(src2)' /\ pb'[q].val[f] = z /\ Len(pb') = m
        /\ pb'[m] = Default(T) /\ src2[m] = ref /\ \A o \in 1 .. Len(pb) : src2[o] = src[o]
    BY <1>4, <2>4, TouchNew DEF OneNewer
  <2>6. root' = root /\ root \in 1 .. Len(pb) /\ Len(pb) \in Nat /\ m \in root' .. Len(pb') /\ m \in Nat
    BY <1>2, SizeOf, <1>4, <2>5 DEF Steady, Known
  <2>7. Len(stack') = l /\ stack'[l] = Element /\ \A j \in 1 .. Len(stack) : stack'[j] = stack[j]
    <3> DEFINE S == Values(Len(tabs))
    <3>1. stack \in Seq(S) /\ Element \in S BY <1>3, <1>5, Zenon
    <3> HIDE DEF S
    <3> QED BY <1>4, <2>1, <3>1, AppendIs
  <2>8. PICK g, p : g = RFrame(m, l, p) /\ p = PopsOf(scan.idx) OBVIOUS
  <2>9. /\ g \in RSet /\ g.at = l /\ g.fresh = TRUE /\ g.obj = m /\ g.pops = p /\ p \in {1, 2}
        /\ p = (IF scan.idx = 1 THEN 2 ELSE 1)
    <3>1. m \in Nat /\ l \in Nat /\ p \in {1, 2} /\ p = (IF scan.idx = 1 THEN 2 ELSE 1)
      BY <1>4, <1>5, <2>6, <2>8 DEF PopsOf
    <3> QED BY <2>8, <3>1 DEF RFrame, RSet
  <2>10. /\ Len(rframes') = n + 1 /\ rframes'[n + 1] = g /\ \A k \in 1 .. n : rframes'[k] = rframes[k]
    BY <2>1, <2>5, <2>7, <2>8, <1>4, <1>5, <2>9, AppendIs
  <2>11. ScanMove
    <3>1. Len(rframes') \in Nat /\ Len(rframes') >= n BY <1>5, <2>10
    <3>2. stack'[rframes[scan.own].at + 1] = stack[rframes[scan.own].at + 1]
      BY <1>3, <1>7, <2>7, Zenon
    <3>3. \A j \in 1 .. rframes[n].at : stack'[j] = stack[j] BY <1>7, <2>7
    <3> QED BY <1>4, <1>6, <2>10, <3>1, <3>2, <3>3 DEF ScanMove
  <2>12. /\ \A k \in 1 .. n : FrameBase(src2, k)' /\ (k # own => FrameNow(src2, k)')
         /\ \A i \in FieldsOf(q) : Current(own, i)' = Current(own, i)
         /\ \A o \in root .. Len(pb) : (\A k \in 1 .. Len(rframes') : rframes'[k].obj # o) =>
                  \A i \in FieldsOf(o) : HeldAt(src2, o, i)'
    <3>1. own = scan.own /\ q = rframes[own].obj /\ f = scan.field /\ Touched(src, src2, q, f)
      BY <1>3, <2>5, Zenon
    <3> QED BY <1>0, <1>4, <2>11, <3>1, ScanStep
  <2>13. pb'[q].type = pb[q].type /\ src2[q] = src[q] BY <1>3, <2>5, Zenon DEF Touched
  <2>14. FilledTo(field, pairs, scan.idx, pb'[q].val[f], Objs(src2)')
    <3>1. pb'[m].type = T BY <2>5 DEF Default
    <3>2. <<m, T, ref>> \in Objs(src2)' BY <2>5, <2>6, <3>1 DEF Objs
    <3>3. FieldIs(field, m, Element, Objs(src2)') BY <1>0, <1>3, <1>4, <2>3, <3>2, Zenon DEF FieldIs
    <3>4. Takes(field.kind, Element) BY <1>0, <1>3, <1>8, Zenon DEF Takes
    <3>5. pb'[q].val[f] = Append(pb[q].val[f], m) BY <2>3, <2>5
    <3> QED BY <1>1, <1>2, <2>5, <3>3, <3>4, <3>5, ElementFilled
  <2>15. FirstSeen(pairs, own)
    <3>1. CASE own < n
      <4>1. own + 1 \in 1 .. n /\ own \in 1 .. n /\ own < Len(rframes')
        <5>1. own \in Nat /\ n \in Nat /\ own \in 1 .. n /\ Len(rframes') = n + 1 BY <1>5, <2>10
        <5> QED BY <3>1, <5>1
      <4>2. rframes'[own + 1] = rframes[own + 1] /\ rframes'[own] = rframes[own] BY <2>10, <4>1
      <4> QED BY <1>5, <3>1, <4>1, <4>2 DEF FirstSeen
    <3>2. CASE own = n
      <4>1. rframes'[own + 1] = g /\ rframes'[own] = rframes[own] /\ own < Len(rframes')
        BY <1>5, <2>10, <3>2
      <4>2. g.at = rframes[own].at + 3 BY <1>4, <1>5, <2>9, <3>2
      <4>3. p = (IF Item(pairs, 1).t = "table" THEN 2 ELSE 1)
        <5>1. CASE scan.idx = 1 BY <1>3, <1>8, <2>9, <5>1, Zenon
        <5>2. CASE scan.idx # 1
          <6>1. scan.idx > 1
            <7>1. scan.idx \in Nat /\ scan.n \in Nat /\ scan.idx \in 1 .. scan.n BY <1>3, Zenon
            <7> QED BY <5>2, <7>1, NotFirst
          <6> QED BY <1>5, <2>9, <3>2, <5>2, <6>1
        <5> QED BY <5>1, <5>2
      <4> QED BY <2>9, <4>1, <4>2, <4>3 DEF FirstSeen
    <3> QED BY <1>5, <3>1, <3>2
  <2>16. ScanNow(src2)' /\ FrameNow(src2, own)'
    <3>1. stack'[scan.at] = v /\ rframes'[own].obj = q /\ Len(rframes') \in Nat /\ field.kind = "message"
          /\ scan \in ScanSet
      <4>1. stack'[scan.at] = v BY <1>3, <1>5, <2>7, Zenon
      <4>2. rframes'[own].obj = q BY <1>3, <1>5, <2>10, Zenon
      <4>3. Len(rframes') \in Nat /\ scan \in ScanSet BY <1>5, <2>10
      <4>4. field.kind = "message" BY <1>0, <1>3, Zenon
      <4> QED BY <4>1, <4>2, <4>3, <4>4
    <3>2. \A i \in FieldsOf(q) : Current(own, i)' = Current(own, i) BY <2>12
    <3> QED BY <1>0, <1>1, <2>13, <2>14, <2>15, <3>1, <3>2, MessageNow
  <2>17. FrameBase(src2, n + 1)' /\ FrameNow(src2, n + 1)'
    <3>1. rframes'[n + 1].fresh = TRUE /\ rframes'[n + 1].obj = m /\ src2[m] = stack'[rframes'[n + 1].at].v
      BY <2>3, <2>5, <2>7, <2>9, <2>10
    <3>2. T \in Types /\ pb'[m] = Default(T) /\ m \in root' .. Len(pb') BY <2>2, <2>5, <2>6
    <3> QED BY <3>1, <3>2, FreshFrame
  <2>18. \A k \in 1 .. n : FrameBase(src2, k)' /\ FrameNow(src2, k)' /\ rframes'[k].obj = rframes[k].obj
    BY <2>10, <2>12, <2>16
  <2>19. Content(src2)'
    <3>1. ~dead' /\ rframes'[n + 1].obj = Len(pb) + 1 /\ Len(pb') = Len(pb) + 1
      BY <1>0, <1>2, <1>4, <2>5, <2>9, <2>10
    <3> QED BY <1>2, <1>4, <2>5, <2>10, <2>12, <2>16, <2>17, <2>18, <3>1, Pushed
  <2> QED BY <2>19
<1>9. CASE Element.t # "table"
  <2>1. pb' = pb /\ stack' = stack /\ rframes' = rframes BY <1>9 DEF AddMessage
  <2>2. Touched(src, src, q, f) /\ Known(src)' /\ Len(pb') = Len(pb) BY <1>2, <2>1, TouchNone
  <2>3. ScanMove BY <1>4, <1>5, <2>1, <1>6 DEF ScanMove
  <2>4. /\ \A k \in 1 .. n : FrameBase(src, k)' /\ (k # own => FrameNow(src, k)')
        /\ \A i \in FieldsOf(q) : Current(own, i)' = Current(own, i)
        /\ \A o \in root .. Len(pb) : (\A k \in 1 .. Len(rframes') : rframes'[k].obj # o) =>
                 \A i \in FieldsOf(o) : HeldAt(src, o, i)'
    <3>1. own = scan.own /\ q = rframes[own].obj /\ f = scan.field /\ Touched(src, src, q, f)
      BY <1>3, <2>2, Zenon
    <3> QED BY <1>0, <1>4, <2>3, <3>1, ScanStep
  <2>5. FilledTo(field, pairs, scan.idx, pb'[q].val[f], Objs(src)')
    <3>1. ~Takes(field.kind, Element) /\ pb'[q].val[f] = pb[q].val[f]
      BY <1>0, <1>3, <1>9, <2>1, Zenon DEF Takes
    <3> QED BY <1>1, <1>2, <2>2, <3>1, ElementFilled
  <2>6. FirstSeen(pairs, own)
    <3>1. CASE own < n BY <1>4, <1>5, <2>1, <3>1 DEF FirstSeen
    <3>2. CASE own = n
      <4>1. Item(pairs, 1).t # "table"
        <5>1. CASE scan.idx = 1 BY <1>3, <1>9, <5>1, Zenon
        <5>2. CASE scan.idx # 1
          <6>1. scan.idx > 1
            <7>1. scan.idx \in Nat /\ scan.n \in Nat /\ scan.idx \in 1 .. scan.n BY <1>3, Zenon
            <7> QED BY <5>2, <7>1, NotFirst
          <6> QED BY <1>5, <3>2, <6>1
        <5> QED BY <5>1, <5>2
      <4>2. Len(stack') = rframes'[own].at + 2 /\ own = Len(rframes') /\ ~(own < Len(rframes'))
        BY <1>4, <1>5, <2>1, <3>2
      <4> QED BY <4>1, <4>2 DEF FirstSeen
    <3> QED BY <1>5, <3>1, <3>2
  <2>7. ScanNow(src)' /\ FrameNow(src, own)'
    <3>1. stack'[scan.at] = v /\ rframes'[own].obj = q /\ Len(rframes') \in Nat /\ field.kind = "message"
          /\ scan \in ScanSet /\ pb'[q].type = pb[q].type BY <1>0, <1>3, <1>4, <1>5, <2>1, Zenon
    <3>2. \A i \in FieldsOf(q) : Current(own, i)' = Current(own, i) BY <2>4
    <3> QED BY <1>0, <1>1, <2>5, <2>6, <3>1, <3>2, MessageNow
  <2>8. \A k \in 1 .. n : FrameBase(src, k)' /\ FrameNow(src, k)' /\ rframes'[k].obj = rframes[k].obj
    BY <2>1, <2>4, <2>7
  <2>9. Content(src)'
    <3>1. ~dead' /\ Len(rframes') = n BY <1>0, <1>2, <1>4, <2>1
    <3> QED BY <1>2, <1>4, <2>2, <2>4, <2>7, <2>8, <3>1, Stayed
  <2> QED BY <2>9
<1> QED BY <1>8, <1>9

----------------------------------------------------------------------------
\* The frames without the innermost one, and the rest of the stack without its end.
LEMMA FramesPopped ==
    ASSUME NEW n \in Nat, n > 0, Len(rframes) = n, rframes \in Seq(RSet)
    PROVE  Len(Pop(rframes, 1)) = n - 1 /\ \A k \in 1 .. n - 1 : Pop(rframes, 1)[k] = rframes[k]
<1>1. 1 \in 0 .. Len(rframes) OBVIOUS
<1> QED BY <1>1, PopType

LEMMA RestPopped ==
    ASSUME NEW a \in Nat, Len(Rest) = a, Rest \in Seq(Values(Len(tabs))), NEW d \in 0 .. a
    PROVE  Len(Pop(Rest, d)) = a - d /\ \A j \in 1 .. a - d : Pop(Rest, d)[j] = Rest[j]
<1> DEFINE S == Values(Len(tabs))
           r == Rest
<1>1. r \in Seq(S) /\ d \in 0 .. Len(r) /\ Len(r) = a OBVIOUS
<1> HIDE DEF S, r
<1>2. Len(Pop(r, d)) = a - d /\ \A j \in 1 .. a - d : Pop(r, d)[j] = r[j] BY <1>1, PopType
<1> QED BY <1>2 DEF r

LEMMA BottomPops ==
    ASSUME FramesOn(stack, rframes), Len(rframes) = 1
    PROVE  rframes[1].pops = 0 BY DEF FramesOn

LEMMA BelowEnd ==
    ASSUME NEW e \in Nat, e >= 1, NEW a \in Nat, NEW d \in {1, 2}
    PROVE  (e + d <= a => e \in 1 .. a - d) /\ (e + 1 + d <= a => e + 1 \in 1 .. a - d) OBVIOUS

\* The table has been gone through: its message has all its fields.
LEMMA EndFrameContent ==
    ASSUME Sending, EndFrame, Steady, NEW src, Content(src)
    PROVE  Content(src)'
<1>0. PICK n, q : n = Len(rframes) /\ q = R.obj OBVIOUS
<1>1. /\ InLoop /\ ~BadKey /\ NextPair > Len(RTable) /\ tabs' = tabs /\ pb' = pb /\ scan' = scan /\ dead' = dead
      /\ stack' = Pop(Rest, R.pops) /\ rframes' = Pop(rframes, 1) BY DEF EndFrame
<1>2. IInv /\ UniqueKeys /\ Known(src) /\ RInv /\ ~dead BY DEF Sending, Content, IInv, RInv
<1>3. /\ n \in Nat /\ n > 0 /\ R = rframes[n] /\ R \in RSet /\ FramesOn(stack, rframes) /\ rframes \in Seq(RSet)
      /\ R.at \in Nat /\ R.at >= 1
      /\ Rest \in Seq(Values(Len(tabs))) /\ Len(Rest) = R.at /\ \A j \in 1 .. R.at : Rest[j] = stack[j]
  BY <1>0, <1>1, <1>2, RestFacts
<1>4. /\ \A k \in 1 .. n : FrameBase(src, k) /\ FrameNow(src, k)
      /\ Closed(src) /\ Rising /\ n \in 1 .. n BY <1>0, <1>3 DEF Content
<1>5. /\ RTable = tabs[src[q]] /\ NextPair = Passed(n) + 1 /\ Passed(n) \in Nat
      /\ Passed(n) \in 0 .. Len(RTable) /\ Len(RTable) \in Nat
      /\ ~Left(n) /\ scan = NoScan BY <1>0, <1>1, <1>2, <1>4, RoundKey
<1>6. q \in root .. Len(pb) /\ q \in 1 .. Len(pb) /\ pb[q].type \in Types
  BY <1>0, <1>2, <1>3, <1>4, SizeOf DEF FrameBase, Known
<1>7. ASSUME NEW i \in FieldsOf(q) PROVE HeldAt(src, q, i)
  <2> DEFINE T == pb[q].type
             pairs == tabs[src[q]]
             c == Passed(n)
             y == pb[q].val[i]
             S == Objs(src)
  <2>1. c = Len(pairs) /\ c \in Nat BY <1>1, <1>5
  <2>2. SoFar(tabs, T, src[q], c, i, y, S) BY <1>0, <1>3, <1>4 DEF FrameBase
  <2>3. c > 0 /\ pairs[c][1] = Name(Fields[T][i]) => HeldBy(tabs, T, src[q], i, y, S)
    <3> SUFFICES ASSUME c > 0, pairs[c][1] = Name(Fields[T][i]) PROVE HeldBy(tabs, T, src[q], i, y, S)
      OBVIOUS
    <3>1. ~rframes[n].fresh BY DEF Passed
    <3>2. pairs[c][1] = stack[rframes[n].at + 1] BY <1>0, <1>3, <1>4, <3>1, PassedIs
    <3>3. Current(n, i) BY <1>0, <1>3, <3>1, <3>2 DEF Current
    <3>4. HeldAt(src, q, i) BY <1>0, <1>3, <1>4, <1>5, <3>1, <3>3 DEF FrameNow, Scans
    <3> QED BY <3>4 DEF HeldAt
  <2>4. T \in Types /\ i \in 1 .. Len(Fields[T]) BY <1>6 DEF FieldsOf
  <2> HIDE DEF T, y, S, c
  <2>5. HeldBy(tabs, T, src[q], i, y, S) BY <2>1, <2>2, <2>3, <2>4, EndSoFar
  <2> QED BY <2>5 DEF HeldAt, T, y, S
<1>8. Touched(src, src, 0, 0) /\ Known(src)' BY <1>1, <1>2, TouchNone
<1>9. PICK l : l = n - 1 OBVIOUS
<1>10. /\ l \in Nat /\ Len(rframes') = l /\ n = l + 1
       /\ \A k \in 1 .. l : rframes'[k] = rframes[k] /\ k \in 1 .. n /\ k + 1 \in 1 .. n /\ k < n /\ k \in Nat
  <2>1. l \in Nat /\ n = l + 1 /\ 1 \in 0 .. n BY <1>3, <1>9
  <2>2. Len(Pop(rframes, 1)) = n - 1 /\ \A k \in 1 .. n - 1 : Pop(rframes, 1)[k] = rframes[k]
    <3>1. n > 0 /\ Len(rframes) = n /\ rframes \in Seq(RSet) /\ n \in Nat BY <1>0, <1>3
    <3> QED BY ONLY <3>1, FramesPopped
  <2>3. \A k \in 1 .. l : k \in 1 .. n /\ k + 1 \in 1 .. n /\ k < n /\ k \in Nat BY <2>1
  <2> QED BY <1>1, <1>9, <2>1, <2>2, <2>3
<1>11. PICK a, d, e : a = R.at /\ d = R.pops /\ e = rframes[l].at OBVIOUS
<1>12. l > 0 => /\ d \in {1, 2} /\ e \in Nat /\ e >= 1 /\ e + d <= a
                /\ ~rframes[l].fresh => e + 1 + d <= a
                /\ ~rframes[l].fresh => (a - d = e + 2 <=> a = e + 3 /\ d = 1)
                /\ l \in 1 .. n /\ l < n
  <2> SUFFICES ASSUME l > 0
               PROVE  /\ d \in {1, 2} /\ e \in Nat /\ e >= 1 /\ e + d <= a
                      /\ ~rframes[l].fresh => e + 1 + d <= a
                      /\ ~rframes[l].fresh => (a - d = e + 2 <=> a = e + 3 /\ d = 1)
                      /\ l \in 1 .. n /\ l < n OBVIOUS
  <2>1. l \in 1 .. l /\ l \in 1 .. Len(rframes) - 1 BY <1>0, <1>3, <1>10
  <2>2. StackedOn(stack, rframes[l], rframes[l + 1]) BY <1>3, <2>1 DEF FramesOn
  <2>3. StackedOn(stack, rframes[l], R) BY <1>3, <1>10, <2>2
  <2>4. l \in 1 .. n /\ l < n BY <1>10, <2>1
  <2>5. e \in Nat /\ e >= 1 BY <1>0, <1>2, <1>4, <1>11, <2>4, FramesBelow
  <2>6. \/ rframes[l].fresh /\ a = e + 1 /\ d = 1
        \/ ~rframes[l].fresh /\ a = e + 2 /\ d = 1
        \/ ~rframes[l].fresh /\ a = e + 3 /\ d \in {1, 2} BY <1>11, <2>3 DEF StackedOn
  <2> QED BY <2>4, <2>5, <2>6
<1>13. /\ a \in Nat /\ d \in 0 .. a /\ Len(stack') = a - d /\ \A j \in 1 .. a - d : stack'[j] = stack[j]
  <2>1. d \in 0 .. a /\ a \in Nat
    <3>1. CASE l = 0
      <4>0. Len(rframes) = 1 /\ R = rframes[1] BY <1>0, <1>3, <1>10, <3>1
      <4>1. d = 0 BY <1>3, <1>11, <4>0, BottomPops
      <4> QED BY <1>3, <1>11, <4>1
    <3>2. CASE l > 0 BY <1>3, <1>11, <1>12, <3>2
    <3> QED BY <1>10, <3>1, <3>2
  <2>2. Len(Pop(Rest, d)) = a - d /\ \A j \in 1 .. a - d : Pop(Rest, d)[j] = Rest[j]
    <3>1. Rest \in Seq(Values(Len(tabs))) /\ Len(Rest) = a BY <1>3, <1>11
    <3> QED BY ONLY <2>1, <3>1, RestPopped
  <2>3. \A j \in 1 .. a - d : j \in 1 .. a BY <2>1
  <2> QED BY <1>1, <1>3, <1>11, <2>1, <2>2, <2>3
<1>14. ASSUME NEW k \in 1 .. l PROVE FrameBase(src, k)' /\ FrameNow(src, k)' /\ rframes'[k].obj = rframes[k].obj
  <2>1. /\ k \in 1 .. n /\ k + 1 \in 1 .. n /\ k < n /\ k \in Nat /\ l > 0
        /\ FrameBase(src, k) /\ FrameNow(src, k) /\ rframes'[k] = rframes[k] BY <1>4, <1>10
  <2>2. PICK b : b = rframes[k].at OBVIOUS
  <2>3. b \in 1 .. a - d /\ (~rframes[k].fresh => b + 1 \in 1 .. a - d)
    <3>1. CASE k = l
      <4>1. /\ d \in {1, 2} /\ e \in Nat /\ e >= 1 /\ e + d <= a /\ a \in Nat /\ b = e
            /\ ~rframes[k].fresh => e + 1 + d <= a BY <1>11, <1>12, <1>13, <2>1, <2>2, <3>1
      <4> QED BY ONLY <4>1, BelowEnd
    <3>2. CASE k # l
      <4>1. k < l /\ l \in 1 .. n BY <1>10, <1>12, <2>1, <3>2
      <4>2. b \in Nat /\ b >= 1 /\ b + 1 <= e BY <1>0, <1>2, <1>11, <2>1, <2>2, <4>1, FramesBelow
      <4>3. e + d <= a /\ e \in Nat /\ d \in {1, 2} /\ a \in Nat BY <1>12, <1>13, <2>1
      <4> QED BY <4>2, <4>3
    <3> QED BY <3>1, <3>2
  <2>4. stack'[rframes[k].at] = stack[rframes[k].at]
        /\ (~rframes[k].fresh => stack'[rframes[k].at + 1] = stack[rframes[k].at + 1])
    BY <1>13, <2>2, <2>3
  <2>5. rframes[k].obj # 0 BY <1>2, <2>1 DEF FrameBase, Known
  <2>6. FrameBase(src, k)' /\ \A i \in FieldsOf(rframes[k].obj) : Current(k, i)' = Current(k, i)
    BY <1>0, <1>2, <1>8, <2>1, <2>4, <2>5, BaseKept
  <2>7. Scans(k)' = Scans(k) BY <1>1 DEF Scans
  <2>8. FrameNow(src, k)'
    <3>1. CASE rframes[k].fresh BY <2>1, <3>1 DEF FrameNow
    <3>2. CASE ~rframes[k].fresh
      <4>1. Left(k)' = Left(k)
        <5>1. CASE k = l
          <6>1. k = Len(rframes') /\ k # Len(rframes) /\ rframes[k + 1] = R
            BY <1>0, <1>3, <1>10, <5>1
          <6>2. Left(k)' <=> a - d = e + 2 BY <1>11, <1>13, <2>1, <5>1, <6>1 DEF Left
          <6>3. Left(k) <=> a = e + 3 /\ d = 1 BY <1>11, <5>1, <6>1 DEF Left
          <6>4. a - d = e + 2 <=> a = e + 3 /\ d = 1 BY <1>12, <2>1, <3>2, <5>1
          <6>5. Left(k)' \in BOOLEAN /\ Left(k) \in BOOLEAN BY <6>1 DEF Left
          <6> QED BY <6>2, <6>3, <6>4, <6>5
        <5>2. CASE k # l BY <1>0, <1>10, <2>1, <5>2 DEF Left
        <5> QED BY <5>1, <5>2
      <4> QED BY <1>0, <1>2, <1>8, <2>1, <2>5, <2>6, <2>7, <4>1, NowKept
    <3> QED BY <3>1, <3>2
  <2> QED BY <2>1, <2>6, <2>8
<1>15. Rising' BY <1>0, <1>4, <1>10, <1>14 DEF Rising
<1>16. Closed(src)'
  <2>1. \A o \in root .. Len(pb) : FieldsOf(o)' = FieldsOf(o) /\ \A i : HeldAt(src, o, i)' = HeldAt(src, o, i)
    BY <1>1 DEF FieldsOf, HeldAt, Objs, Steady
  <2> SUFFICES ASSUME NEW o \in root .. Len(pb), \A k \in 1 .. l : rframes'[k].obj # o
               PROVE  \A i \in FieldsOf(o) : HeldAt(src, o, i)
    BY <1>1, <1>10, <2>1 DEF Closed, Steady
  <2>2. CASE o = q BY <1>7, <2>2
  <2>3. CASE o # q
    <3>1. \A k \in 1 .. n : rframes[k].obj # o
      <4> TAKE k \in 1 .. n
      <4>1. k = n \/ k \in 1 .. l BY <1>10
      <4> QED BY <1>0, <1>3, <1>10, <2>3, <4>1
    <3> QED BY <1>0, <1>4, <3>1 DEF Closed
  <2> QED BY <2>2, <2>3
<1>17. ScanNow(src)' /\ ~dead' BY <1>1, <1>2, <1>5 DEF ScanNow
<1> QED BY <1>8, <1>10, <1>14, <1>15, <1>16, <1>17 DEF Content

\* Whatever the round does.
LEMMA ToProtoContent ==
    ASSUME Sending, ToProtoStep, UNCHANGED bridge, NEW src, Content(src)
    PROVE  \E src2 : Content(src2)'
<1>1. tabs' = tabs
  BY DEF ToProtoStep, LoseKey, SkipPair, SetScalar, FillMessage, BeginArray, AddScalar, AddMessage, EndFrame
<1>2. Steady BY <1>1 DEF Steady, bridge
<1>3. CASE LoseKey BY <1>2, <1>3, LoseKeyFatal
<1>4. CASE SkipPair BY <1>2, <1>4, SkipPairContent
<1>5. CASE SetScalar BY <1>2, <1>5, SetScalarContent
<1>6. CASE FillMessage BY <1>2, <1>6, FillMessageContent
<1>7. CASE BeginArray BY <1>2, <1>7, BeginArrayContent
<1>8. CASE AddScalar BY <1>2, <1>8, AddScalarContent
<1>9. CASE AddMessage BY <1>2, <1>9, AddMessageContent
<1>10. CASE EndFrame BY <1>2, <1>10, EndFrameContent
<1> QED BY <1>3, <1>4, <1>5, <1>6, <1>7, <1>8, <1>9, <1>10 DEF ToProtoStep

----------------------------------------------------------------------------
\* Where it starts: nothing is filled in yet.
LEMMA StartContent ==
    ASSUME IInv, IInv', table \in Values(Len(tabs)), table.t = "table", NEW T \in Types, StartToProto(T, table),
           root' = Len(pb) + 1, table' = table, Len(tabs') = Len(tabs), scan = NoScan, dead = FALSE
    PROVE  \E src : Content(src)'
<1>0. PICK m : m = Len(pb) + 1 OBVIOUS
<1>1. /\ Len(pb) \in Nat /\ Len(tabs) \in Nat /\ table.v \in 1 .. Len(tabs) /\ Typed(pb) /\ m \in Nat /\ m >= 1
  BY <1>0, SizeOf DEF IInv, Values
<1>2. /\ stack' = <<table>> /\ pb' = Append(pb, Default(T)) /\ rframes' = <<RFrame(Len(pb'), 1, 0)>>
      /\ scan' = NoScan /\ dead' = FALSE /\ root' = m BY <1>0 DEF StartToProto
<1>3. Len(pb') = m /\ pb'[m] = Default(T) BY <1>0, <1>1, <1>2, AddedIs
<1>4. pb'[m].type = T /\ pb'[m].val = [i \in 1 .. Len(Fields[T]) |-> Unset(Fields[T][i])]
  BY <1>3 DEF Default
<1> PICK src : src = [o \in 1 .. m |-> table.v] OBVIOUS
<1>5. src \in Seq(1 .. Len(tabs)) /\ Len(src) = m /\ src[m] = table.v BY <1>1
<1>6. Len(stack') = 1 /\ stack'[1] = table BY <1>2
<1> DEFINE g == RFrame(m, 1, 0)
<1>7. g.obj = m /\ g.at = 1 /\ g.fresh = TRUE /\ g.pops = 0 BY DEF RFrame
<1>8. rframes' = <<g>> BY <1>2, <1>3
<1> HIDE DEF g
<1>9. Len(rframes') = 1 /\ rframes'[1] = g /\ \A k \in 1 .. Len(rframes') : k = 1 BY <1>8
<1>10. \A o \in root' .. Len(pb') : o = m BY <1>1, <1>2, <1>3
<1>11. FieldsOf(m)' = 1 .. Len(Fields[T]) BY <1>1, <1>4 DEF FieldsOf
<1>12. Known(src)' BY <1>1, <1>2, <1>3, <1>5, <1>4, <1>10, <1>11 DEF Known
<1>13. Closed(src)' BY <1>7, <1>9, <1>10 DEF Closed
<1>14. Rising' /\ ScanNow(src)' /\ ~dead' BY <1>2, <1>9 DEF Rising, ScanNow
<1>15. ASSUME NEW k \in 1 .. Len(rframes') PROVE FrameBase(src, k)' /\ FrameNow(src, k)'
  <2>1. k = 1 /\ rframes'[k] = g BY <1>9
  <2>2. Passed(k)' = 0 BY <1>7, <2>1 DEF Passed
  <2>3. \A i \in FieldsOf(m)' : pb'[m].val[i] = Unset(Fields[T][i]) BY <1>4, <1>11
  <2>4. \A i \in FieldsOf(m)' : SoFar(tabs', T, src[m], 0, i, pb'[m].val[i], Objs(src)')
    BY <2>3, NewSoFar
  <2>5. m \in root' .. Len(pb') /\ src[m] = stack'[g.at].v BY <1>1, <1>2, <1>3, <1>5, <1>6, <1>7
  <2>6. FrameBase(src, k)'
    <3>1. rframes'[k].obj = m /\ rframes'[k].fresh /\ rframes'[k].at = g.at BY <1>7, <2>1
    <3>2. \A i \in FieldsOf(m)' : SoFar(tabs', pb'[m].type, src[m], Passed(k)', i, pb'[m].val[i], Objs(src)')
      BY <1>4, <2>2, <2>4
    <3> QED BY <3>1, <3>2, <2>5, Zenon DEF FrameBase
  <2>7. FrameNow(src, k)' BY <1>7, <2>1 DEF FrameNow
  <2> QED BY <2>6, <2>7
<1> QED BY <1>12, <1>13, <1>14, <1>15 DEF Content

----------------------------------------------------------------------------
\* Where it ends: what all the messages hold is what their tables say.
LEMMA HeldHas ==
    ASSUME NEW src, NEW o, NEW i, NEW objs, HeldAt(src, o, i), objs = {<<q, src[q]>> : q \in root .. Len(pb)}
    PROVE  HasField(o, src[o], i, objs)
<1> DEFINE field == Fields[pb[o].type][i]
           x == Get(tabs[src[o]], Name(field))
           y == pb[o].val[i]
           Is(a, b) == IF field.kind = "message" THEN <<a, b.v>> \in objs /\ pb[a].type = field.sub
                       ELSE a \in ScalarOf(field.kind, b)
<1>1. ASSUME NEW a, NEW b, FieldIs(field, a, b, Objs(src)) PROVE Is(a, b) BY <1>1 DEF FieldIs, Objs
<1>2. HeldBy(tabs, pb[o].type, src[o], i, y, Objs(src)) BY DEF HeldAt
<1>3. CASE ~field.rep BY <1>1, <1>2, <1>3, Zenon DEF HeldBy, HasField
<1>4. CASE field.rep /\ x.t # "table" BY <1>2, <1>4, Zenon DEF HeldBy, HasField
<1>5. CASE field.rep /\ x.t = "table"
  <2>1. PICK n \in Lengths(tabs[x.v]) : ~Breaks(field.kind, tabs[x.v], n) /\ FilledTo(field, tabs[x.v], n, y, Objs(src))
    BY <1>2, <1>5, Zenon DEF HeldBy
  <2> DEFINE places == Places(field.kind, tabs[x.v], n)
  <2>2. Len(y) = Len(places) /\ \A j \in 1 .. Len(y) : FieldIs(field, y[j], Item(tabs[x.v], places[j]), Objs(src))
    BY <2>1, Zenon DEF FilledTo
  <2>3. \A j \in 1 .. Len(places) : Is(y[j], Item(tabs[x.v], places[j])) BY <1>1, <2>2, Zenon
  <2> QED BY <1>5, <2>1, <2>2, <2>3, Zenon DEF HasField
<1> QED BY <1>3, <1>4, <1>5

LEMMA EndHeld ==
    ASSUME IInv, NEW src, Content(src), rframes = <<>>
    PROVE  <<root, table.v>> \in Held
<1> DEFINE G == {<<q, src[q]>> : q \in root .. Len(pb)}
<1>1. Len(pb) \in Nat /\ Len(tabs) \in Nat /\ Known(src) /\ Closed(src) /\ root \in 1 .. Len(pb)
  BY SizeOf DEF Content, Known
<1>2. \A q \in root .. Len(pb) : q \in 1 .. Len(pb) /\ src[q] \in 1 .. Len(tabs) BY <1>1 DEF Known
<1>3. \A q \in root .. Len(pb) : \A i \in FieldsOf(q) : HeldAt(src, q, i) BY <1>1 DEF Closed
<1>4. \A q \in root .. Len(pb) : \A i \in 1 .. Len(Fields[pb[q].type]) : HasField(q, src[q], i, G)
  BY <1>3, HeldHas DEF FieldsOf
<1>5. <<root, table.v>> \in G BY <1>1 DEF Known
<1>6. G \subseteq HeldRound(G)
  <2> SUFFICES ASSUME NEW q \in root .. Len(pb) PROVE <<q, src[q]>> \in HeldRound(G) OBVIOUS
  <2> HIDE DEF G
  <2> DEFINE h == <<q, src[q]>>
  <2>1. h \in (1 .. Len(pb)) \X (1 .. Len(tabs)) /\ h[1] = q /\ h[2] = src[q] BY <1>2
  <2>2. \A i \in 1 .. Len(Fields[pb[h[1]].type]) : HasField(h[1], h[2], i, G) BY <1>4, <2>1
  <2> HIDE DEF h
  <2>3. h \in HeldRound(G) BY <2>1, <2>2, Zenon DEF HeldRound
  <2> QED BY <2>3 DEF h
<1> HIDE DEF G
<1> QED BY <1>1, <1>5, <1>6, HeldIs

\* And when it does not end, the table is fatal.
LEMMA DeadFatal ==
    ASSUME IInv, NEW src, Content(src), dead
    PROVE  <<pb[root].type, table.v>> \in Fatal
<1>1. /\ Len(pb) \in Nat /\ Len(tabs) \in Nat /\ Known(src) /\ Doomed(src) /\ root \in 1 .. Len(pb)
      /\ \A o \in 1 .. Len(pb) : pb[o].type \in Types BY SizeOf DEF Content, Known
<1>2. \A o \in root .. Len(pb) : pb[o].type \in Types /\ src[o] \in 1 .. Len(tabs) BY <1>1 DEF Known
<1>3. \A o \in root + 1 .. Len(pb) : \E p \in root .. o - 1 : \E i \in 1 .. Len(Fields[pb[p].type]) :
              Nests(tabs, pb[p].type, src[p], i, pb[o].type, src[o])
  BY <1>1, Zenon DEF Known, ChildOf, FieldsOf
<1>4. PICK b \in root .. Len(pb) : \E i \in FieldsOf(b) : FatalField(pb[b].type, src[b], i, {})
  BY <1>1 DEF Doomed
<1>5. PICK c \in 1 .. Len(Fields[pb[b].type]) : FatalField(pb[b].type, src[b], c, {})
  BY <1>4 DEF FieldsOf
<1>6. <<pb[root].type, src[root]>> \in Fatal BY <1>1, <1>2, <1>3, <1>5, FatalChain
<1> QED BY <1>1, <1>6 DEF Known

----------------------------------------------------------------------------
\* The tables that a message becomes.

\* There are more tables, the old ones are for what they were for.
Extends(std, more) == /\ std \in Seq(RoleSet) /\ more \in Seq(RoleSet) /\ Len(std) <= Len(more)
                      /\ \A r \in 1 .. Len(std) : more[r] = std[r]

LEMMA PairOfMono ==
    ASSUME NEW msgs, NEW std, NEW more, Extends(std, more),
           NEW z, NEW j, NEW x, PairOf(msgs, std, z, j, x)
    PROVE  PairOf(msgs, more, z, j, x) BY DEF Extends, IsFor, Stands, PairOf

LEMMA PutRight ==
    ASSUME NEW msgs, NEW heap, NEW std, NEW r, NEW key, NEW x, NEW new, Puts(msgs, heap, std, r, key, x, new)
    PROVE  /\ AllRight(msgs, new, std) /\ Len(new) = Len(heap) /\ Len(new[r]) = Len(heap[r]) + 1
           /\ Len(heap[r]) \in Nat
           /\ \A q \in 1 .. Len(heap) : q # r => new[q] = heap[q]
<1> USE DEF Puts
<1>1. /\ std \in Seq(RoleSet) /\ Len(std) = Len(heap) /\ DOMAIN heap = 1 .. Len(heap) /\ Len(heap) \in Nat
      /\ \A q \in 1 .. Len(heap) : RoleOK(msgs, std[q]) /\ Right(msgs, std, std[q], heap[q])
  BY DEF AllRight
<1>2. PICK V : heap[r] \in Seq(V) BY <1>1, Zenon DEF Right, IsSeq
<1> DEFINE e == <<key, x>>
           S == V \cup {e}
           s == heap[r]
           t == Append(heap[r], e)
<1>3. s \in Seq(S) /\ e \in S BY <1>2
<1>4. e[1] = key /\ e[2] = x OBVIOUS
<1> HIDE DEF S, e
<1>5. /\ t \in Seq(S) /\ Len(t) = Len(s) + 1 /\ Len(s) \in Nat /\ t[Len(s) + 1] = e
      /\ \A j \in 1 .. Len(s) : t[j] = s[j] BY <1>3
<1>6. new = [heap EXCEPT ![r] = t] BY DEF Settable, e
<1> HIDE DEF t
<1>7. DOMAIN new = 1 .. Len(heap) /\ new[r] = t /\ \A q \in 1 .. Len(heap) : q # r => new[q] = heap[q]
  BY <1>1, <1>6
<1>8. Len(new) = Len(heap) BY <1>1, <1>7
<1>9. Right(msgs, std, std[r], t) BY <1>1, <1>5, <1>4 DEF Right, NextPairOf, IsSeq
<1>10. \A q \in 1 .. Len(heap) : Right(msgs, std, std[q], new[q]) BY <1>1, <1>7, <1>9
<1>11. AllRight(msgs, new, std) BY <1>1, <1>7, <1>8, <1>10 DEF AllRight
<1> QED BY <1>5, <1>7, <1>8, <1>11

LEMMA AddRight ==
    ASSUME NEW msgs, NEW heap, NEW std, NEW z, NEW pairs, NEW new, NEW std2,
           Added(msgs, heap, std, z, pairs, new, std2)
    PROVE  /\ AllRight(msgs, new, std2) /\ Len(new) = Len(heap) + 1 /\ new[Len(heap) + 1] = pairs
           /\ std2[Len(heap) + 1] = z /\ Len(heap) \in Nat
           /\ \A q \in 1 .. Len(heap) : new[q] = heap[q] /\ std2[q] = std[q]
           /\ Extends(std, std2)
<1> USE DEF Added
<1>1. /\ std \in Seq(RoleSet) /\ Len(std) = Len(heap) /\ DOMAIN heap = 1 .. Len(heap) /\ Len(heap) \in Nat
      /\ \A q \in 1 .. Len(heap) : RoleOK(msgs, std[q]) /\ Right(msgs, std, std[q], heap[q])
  BY DEF AllRight
<1>2. z \in RoleSet BY DEF RoleOK
<1>3. /\ std2 \in Seq(RoleSet) /\ Len(std2) = Len(std) + 1 /\ std2[Len(std) + 1] = z
      /\ \A q \in 1 .. Len(std) : std2[q] = std[q] BY <1>1, <1>2
<1>b. PICK V : heap \in Seq(V) BY DEF IsSeq
<1> DEFINE S == V \cup {pairs}
<1>4. heap \in Seq(S) /\ pairs \in S BY <1>b
<1> HIDE DEF S
<1>5. /\ Len(new) = Len(heap) + 1 /\ new[Len(heap) + 1] = pairs /\ DOMAIN new = 1 .. Len(heap) + 1
      /\ \A q \in 1 .. Len(heap) : new[q] = heap[q] BY <1>4
<1>c. Extends(std, std2) BY <1>1, <1>3 DEF Extends
<1>6. \A y, j, x : PairOf(msgs, std, y, j, x) => PairOf(msgs, std2, y, j, x) BY <1>c, PairOfMono
<1>7. ASSUME NEW q \in 1 .. Len(new) PROVE RoleOK(msgs, std2[q]) /\ Right(msgs, std2, std2[q], new[q])
  BY <1>1, <1>5, <1>3, <1>6 DEF Right
<1>8. AllRight(msgs, new, std2) BY <1>1, <1>3, <1>5, <1>7 DEF AllRight
<1> QED BY <1>1, <1>3, <1>5, <1>c, <1>8

LEMMA OpenPut ==
    ASSUME NEW msgs, NEW heap, NEW std, NEW st, NEW base, NEW open, NEW key, NEW x, NEW new,
           PutOn(msgs, heap, std, st, base, open, key, x, new)
    PROVE  /\ AllRight(msgs, new, std) /\ OpenOn(msgs, new, st, base, std, open)
           /\ Len(open) \in Nat /\ Len(open) >= 1 /\ open[Len(open)] \in 1 .. Len(heap)
           /\ Len(new) = Len(heap) /\ Len(heap[open[Len(open)]]) \in Nat
           /\ Len(new[open[Len(open)]]) = Len(heap[open[Len(open)]]) + 1
           /\ \A i \in 1 .. Len(open) - 1 : new[open[i]] = heap[open[i]]
<1> USE DEF PutOn
<1>0. PICK d, r : d = Len(open) /\ r = open[d] OBVIOUS
<1>1. /\ open \in Seq(1 .. Len(heap)) /\ Slots(st, base, open) /\ d \in Nat /\ d >= 1
      /\ \A i, j \in 1 .. d : i < j => open[i] < open[j]
      /\ \A i \in 1 .. d - 1 : NextPairOf(msgs, heap, std, open[i], st[base + 2 * i], Val("table", open[i + 1]))
      /\ \A q \in 1 .. Len(heap) : (\A i \in 1 .. d : open[i] # q) => Full(msgs, heap, std, q)
  BY <1>0 DEF OpenOn, Slots
<1>2. r \in 1 .. Len(heap) /\ d \in 1 .. d /\ \A i \in 1 .. d : open[i] \in 1 .. Len(heap)
  BY <1>0, <1>1
<1>3. /\ AllRight(msgs, new, std) /\ Len(new) = Len(heap) /\ Len(new[r]) = Len(heap[r]) + 1 /\ Len(heap[r]) \in Nat
      /\ \A q \in 1 .. Len(heap) : q # r => new[q] = heap[q] BY <1>0, <1>2, PutRight DEF Puts
<1>4. Len(heap) \in Nat BY DEF AllRight
<1>5. ASSUME NEW i \in 1 .. d - 1 PROVE i \in 1 .. d /\ open[i] # r /\ new[open[i]] = heap[open[i]]
  BY <1>1, <1>0, <1>2, <1>4, <1>3
<1>6. \A i \in 1 .. d - 1 : NextPairOf(msgs, new, std, open[i], st[base + 2 * i], Val("table", open[i + 1]))
  BY <1>1, <1>5, Zenon DEF NextPairOf
<1>7. ASSUME NEW q \in 1 .. Len(new), \A i \in 1 .. d : open[i] # q PROVE Full(msgs, new, std, q)
  <2>1. q # r /\ q \in 1 .. Len(heap) BY <1>0, <1>2, <1>3, <1>7
  <2>2. new[q] = heap[q] /\ Full(msgs, heap, std, q) BY <1>1, <1>3, <1>7, <2>1
  <2> QED BY <2>2 DEF Full
<1>8. OpenOn(msgs, new, st, base, std, open) BY <1>0, <1>1, <1>3, <1>6, <1>7, Zenon DEF OpenOn
<1> QED BY <1>0, <1>1, <1>2, <1>3, <1>5, <1>8

\* A new table, complete at once.
LEMMA OpenAdd ==
    ASSUME NEW msgs, NEW heap, NEW std, NEW z, NEW pairs, NEW new, NEW std2,
           Added(msgs, heap, std, z, pairs, new, std2), Len(pairs) = Width(msgs, z),
           NEW st, NEW base, NEW open, OpenOn(msgs, heap, st, base, std, open)
    PROVE  /\ AllRight(msgs, new, std2) /\ OpenOn(msgs, new, st, base, std2, open)
           /\ Len(new) = Len(heap) + 1 /\ std2[Len(heap) + 1] = z
           /\ \A q \in 1 .. Len(heap) : new[q] = heap[q] /\ std2[q] = std[q]
           /\ Extends(std, std2)
<1>1. /\ AllRight(msgs, new, std2) /\ Len(new) = Len(heap) + 1 /\ new[Len(heap) + 1] = pairs
      /\ std2[Len(heap) + 1] = z /\ Len(heap) \in Nat
      /\ \A q \in 1 .. Len(heap) : new[q] = heap[q] /\ std2[q] = std[q]
      /\ Extends(std, std2) BY AddRight
<1>0. PICK d, m : d = Len(open) /\ m = Len(heap) OBVIOUS
<1>2. /\ open \in Seq(1 .. m) /\ Slots(st, base, open) /\ d \in Nat
      /\ \A i, j \in 1 .. d : i < j => open[i] < open[j]
      /\ \A i \in 1 .. d - 1 : NextPairOf(msgs, heap, std, open[i], st[base + 2 * i], Val("table", open[i + 1]))
      /\ \A q \in 1 .. m : (\A i \in 1 .. d : open[i] # q) => Full(msgs, heap, std, q)
  BY <1>0 DEF OpenOn
<1>3. open \in Seq(1 .. m + 1) /\ \A i \in 1 .. d : open[i] \in 1 .. m BY <1>0, <1>1, <1>2
<1>4. ASSUME NEW i \in 1 .. d - 1 PROVE NextPairOf(msgs, new, std2, open[i], st[base + 2 * i], Val("table", open[i + 1]))
  <2>1. i \in 1 .. d BY <1>2
  <2>2. open[i] \in 1 .. m /\ new[open[i]] = heap[open[i]] /\ std2[open[i]] = std[open[i]]
    BY <1>0, <1>1, <1>3, <2>1
  <2>3. NextPairOf(msgs, heap, std, open[i], st[base + 2 * i], Val("table", open[i + 1])) BY <1>2
  <2> QED BY <1>0, <1>1, <2>2, <2>3, PairOfMono, Zenon DEF NextPairOf
<1>5. ASSUME NEW q \in 1 .. m + 1, \A i \in 1 .. d : open[i] # q PROVE Full(msgs, new, std2, q)
  <2>1. q \in 1 .. m \/ q = m + 1 BY <1>0, <1>1
  <2>2. CASE q \in 1 .. m BY <1>2, <1>5, <2>2, <1>0, <1>1 DEF Full
  <2>3. CASE q = m + 1 BY <1>0, <1>1, <2>3 DEF Full
  <2> QED BY <2>1, <2>2, <2>3
<1>6. OpenOn(msgs, new, st, base, std2, open)
  BY <1>0, <1>1, <1>2, <1>3, <1>4, <1>5, Zenon DEF OpenOn
<1> QED BY <1>1, <1>6

LEMMA OpenPush ==
    ASSUME NEW msgs, NEW heap, NEW std, NEW st, NEW base, NEW open, NEW key, NEW z, NEW new, NEW std2, NEW st2, NEW open2,
           PushOn(msgs, heap, std, st, base, open, key, z, new, std2, st2, open2)
    PROVE  /\ AllRight(msgs, new, std2) /\ OpenOn(msgs, new, st2, base, std2, open2)
           /\ Len(new) = Len(heap) + 1 /\ std2[Len(heap) + 1] = z /\ new[Len(heap) + 1] = <<>>
           /\ Len(open) \in Nat /\ Len(open2) = Len(open) + 1 /\ open2[Len(open) + 1] = Len(heap) + 1
           /\ \A i \in 1 .. Len(open) : open2[i] = open[i] /\ open[i] \in 1 .. Len(heap)
           /\ \A q \in 1 .. Len(heap) : new[q] = heap[q] /\ std2[q] = std[q]
<1> USE DEF PushOn
<1>0. PICK d, m, v : d = Len(open) /\ m = Len(heap) /\ v = Val("table", Len(heap) + 1) OBVIOUS
<1>a. Right(msgs, std2, z, <<>>) BY DEF IsSeq, Right
<1>1. /\ AllRight(msgs, new, std2) /\ Len(new) = m + 1 /\ new[m + 1] = <<>>
      /\ std2[m + 1] = z /\ m \in Nat
      /\ \A q \in 1 .. m : new[q] = heap[q] /\ std2[q] = std[q]
      /\ Extends(std, std2)
  <2>1. Added(msgs, heap, std, z, <<>>, new, std2) BY <1>a DEF Added
  <2>2. m = Len(heap) BY <1>0
  <2> QED BY ONLY <2>1, <2>2, AddRight
<1>2. /\ open \in Seq(1 .. m) /\ Slots(st, base, open) /\ d \in Nat
      /\ \A i, j \in 1 .. d : i < j => open[i] < open[j]
      /\ \A i \in 1 .. d - 1 : NextPairOf(msgs, heap, std, open[i], st[base + 2 * i], Val("table", open[i + 1]))
      /\ \A q \in 1 .. m : (\A i \in 1 .. d : open[i] # q) => Full(msgs, heap, std, q)
  BY <1>0 DEF OpenOn
<1>3. /\ open2 \in Seq(1 .. m + 1) /\ Len(open2) = d + 1 /\ open2[d + 1] = m + 1
      /\ \A i \in 1 .. d : open2[i] = open[i] /\ open[i] \in 1 .. m BY <1>0, <1>1, <1>2, AppendIs
<1>4. d >= 1 /\ Len(st) = base + 2 * d - 1 /\ \A i \in 1 .. d : st[base + 2 * i - 1] = Val("table", open[i])
  BY <1>0, <1>2 DEF Slots
<1>5. /\ Len(st2) = base + 2 * (d + 1) - 1 /\ st2[base + 2 * d] = key /\ st2[base + 2 * d + 1] = v
      /\ \A j \in 1 .. Len(st) : st2[j] = st[j] BY <1>0, <1>2, <1>4 DEF Grown
<1>6. Slots(st2, base, open2)
  <2>1. ASSUME NEW i \in 1 .. d + 1 PROVE st2[base + 2 * i - 1] = Val("table", open2[i])
    <3>1. i = d + 1 \/ i \in 1 .. d BY <1>2
    <3>2. CASE i = d + 1 BY <1>2, <3>2, <1>0, <1>3, <1>5
    <3>3. CASE i \in 1 .. d BY <1>2, <1>4, <3>3, <1>3, <1>5
    <3> QED BY <3>1, <3>2, <3>3
  <2>2. d + 1 >= 1 BY <1>2
  <2> QED BY <1>3, <1>5, <2>1, <2>2 DEF Slots
<1>7. \A i, j \in 1 .. d + 1 : i < j => open2[i] < open2[j]
  <2> SUFFICES ASSUME NEW i \in 1 .. d + 1, NEW j \in 1 .. d + 1, i < j PROVE open2[i] < open2[j]
    OBVIOUS
  <2>1. i \in 1 .. d /\ (j = d + 1 \/ j \in 1 .. d) BY <1>2
  <2>2. CASE j = d + 1
    <3>1. open2[j] = m + 1 /\ open2[i] \in 1 .. m BY <1>3, <2>1, <2>2
    <3>2. m \in Nat BY <1>1
    <3> QED BY ONLY <3>1, <3>2
  <2>3. CASE j \in 1 .. d BY <1>2, <1>3, <2>1, <2>3
  <2> QED BY <2>1, <2>2, <2>3
<1>8. ASSUME NEW i \in 1 .. d + 1 - 1 PROVE NextPairOf(msgs, new, std2, open2[i], st2[base + 2 * i], Val("table", open2[i + 1]))
  <2>1. i \in 1 .. d /\ (i = d \/ (i \in 1 .. d - 1 /\ i + 1 \in 1 .. d)) BY <1>2
  <2>2. /\ open2[i] = open[i] /\ open[i] \in 1 .. m /\ new[open[i]] = heap[open[i]] /\ std2[open[i]] = std[open[i]]
    BY <1>1, <1>3, <2>1
  <2>3. CASE i = d
    <3>1. open2[i + 1] = m + 1 /\ st2[base + 2 * i] = key BY <1>3, <1>5, <2>3
    <3>2. NextPairOf(msgs, heap, std2, open[i], key, v) BY <1>0, <2>3
    <3> QED BY <1>0, <2>2, <3>1, <3>2, Zenon DEF NextPairOf
  <2>4. CASE i \in 1 .. d - 1
    <3>1. base + 2 * i \in 1 .. Len(st) BY <1>2, <1>4, <2>4
    <3>2. open2[i + 1] = open[i + 1] /\ st2[base + 2 * i] = st[base + 2 * i]
      <4>1. i + 1 \in 1 .. d BY <1>2, <2>4
      <4> QED BY <1>3, <1>5, <3>1, <4>1
    <3>3. NextPairOf(msgs, heap, std, open[i], st[base + 2 * i], Val("table", open[i + 1]))
      BY <1>2, <2>4
    <3> QED BY <1>1, <2>2, <3>2, <3>3, PairOfMono, Zenon DEF NextPairOf
  <2> QED BY <2>1, <2>3, <2>4
<1>9. ASSUME NEW q \in 1 .. m + 1, \A i \in 1 .. d + 1 : open2[i] # q PROVE Full(msgs, new, std2, q)
  <2>1. q # m + 1 BY <1>2, <1>3, <1>9
  <2>2. q \in 1 .. m BY <1>1, <2>1
  <2>3. \A i \in 1 .. d : i \in 1 .. d + 1 /\ open[i] # q BY <1>2, <1>3, <1>9
  <2>4. Full(msgs, heap, std, q) BY <1>2, <2>2, <2>3
  <2> QED BY <1>1, <2>2, <2>4 DEF Full
<1>10. OpenOn(msgs, new, st2, base, std2, open2)
  <2>1. /\ open2 \in Seq(1 .. Len(new)) /\ Slots(st2, base, open2)
        /\ \A i, j \in 1 .. Len(open2) : i < j => open2[i] < open2[j] BY <1>1, <1>3, <1>6, <1>7
  <2>2. \A i \in 1 .. Len(open2) - 1 : NextPairOf(msgs, new, std2, open2[i], st2[base + 2 * i], Val("table", open2[i + 1]))
    BY <1>2, <1>3, <1>8
  <2>3. \A q \in 1 .. Len(new) : (\A i \in 1 .. Len(open2) : open2[i] # q) => Full(msgs, new, std2, q)
    BY <1>1, <1>3, <1>9
  <2> QED BY <2>1, <2>2, <2>3, Zenon DEF OpenOn
<1> QED BY <1>0, <1>1, <1>2, <1>3, <1>10

LEMMA ElementOf == ASSUME NEW S, NEW s \in Seq(S), NEW i \in 1 .. Len(s) PROVE s[i] \in S OBVIOUS

LEMMA OpenPop ==
    ASSUME NEW msgs, NEW heap, NEW std, NEW st, NEW base, NEW open, NEW new, NEW st2, NEW open2,
           PopOn(msgs, heap, std, st, base, open, new, st2, open2)
    PROVE  /\ AllRight(msgs, new, std) /\ OpenOn(msgs, new, st2, base, std, open2)
           /\ Len(new) = Len(heap) /\ Len(open) \in Nat /\ Len(open2) = Len(open) - 1
           /\ \A i \in 1 .. Len(open) - 1 : open2[i] = open[i]
           /\ \A i \in 1 .. Len(open) - 2 : new[open[i]] = heap[open[i]]
           /\ Len(heap[open[Len(open) - 1]]) \in Nat
           /\ Len(new[open[Len(open) - 1]]) = Len(heap[open[Len(open) - 1]]) + 1
<1> USE DEF PopOn
<1>0. PICK d, m, l, r : d = Len(open) /\ m = Len(heap) /\ l = d - 1 /\ r = open[d - 1] OBVIOUS
<1>1. /\ open \in Seq(1 .. m) /\ Slots(st, base, open) /\ d \in Nat /\ d > 1 /\ m \in Nat
      /\ \A i, j \in 1 .. d : i < j => open[i] < open[j]
      /\ \A i \in 1 .. d - 1 : NextPairOf(msgs, heap, std, open[i], st[base + 2 * i], Val("table", open[i + 1]))
      /\ \A q \in 1 .. m : (\A i \in 1 .. d : open[i] # q) => Full(msgs, heap, std, q)
  BY <1>0 DEF OpenOn, AllRight
<1>2. /\ l \in Nat /\ l >= 1 /\ d = l + 1 /\ l \in 1 .. d /\ l \in 1 .. d - 1 /\ d \in 1 .. d /\ r = open[l] /\ r \in 1 .. m
      /\ \A i \in 1 .. l : i \in 1 .. d /\ i \in 1 .. d - 1 BY <1>0, <1>1, ElementOf
<1>3. Len(st) = base + 2 * d - 1 /\ \A i \in 1 .. d : st[base + 2 * i - 1] = Val("table", open[i])
  BY <1>0, <1>1 DEF Slots
<1>4. Len(st) - 1 = base + 2 * l /\ Len(st) - 2 = base + 2 * l - 1 /\ Len(st) \in Nat
  BY <1>1, <1>2, <1>3
<1>5. NextPairOf(msgs, heap, std, r, st[Len(st) - 1], Val("table", open[d])) BY <1>1, <1>2, <1>4
<1>6. /\ AllRight(msgs, new, std) /\ Len(new) = m /\ Len(new[r]) = Len(heap[r]) + 1 /\ Len(heap[r]) \in Nat
      /\ \A q \in 1 .. m : q # r => new[q] = heap[q]
  <2>1. Puts(msgs, heap, std, r, st[Len(st) - 1], Val("table", open[d]), new)
    BY <1>0, <1>2, <1>5 DEF Puts
  <2>2. m = Len(heap) BY <1>0
  <2> QED BY ONLY <2>1, <2>2, PutRight
<1>7. open2 \in Seq(1 .. m) /\ Len(open2) = l /\ \A i \in 1 .. l : open2[i] = open[i]
  <2>1. 1 \in 0 .. Len(open) /\ Len(open) - 1 = l /\ open \in Seq(1 .. m) BY <1>0, <1>1
  <2>2. /\ Pop(open, 1) \in Seq(1 .. m) /\ Len(Pop(open, 1)) = Len(open) - 1
        /\ \A i \in 1 .. Len(open) - 1 : Pop(open, 1)[i] = open[i] BY <2>1, PopType
  <2> QED BY <2>1, <2>2
<1>8. \A i \in 1 .. l - 1 : /\ i \in 1 .. l /\ i + 1 \in 1 .. l /\ i \in 1 .. d - 1
                            /\ open[i] \in 1 .. m /\ open[i] # r /\ new[open[i]] = heap[open[i]]
  <2> TAKE i \in 1 .. l - 1
  <2>0. l \in Nat /\ d = l + 1 BY <1>2
  <2>1. i \in 1 .. l /\ i + 1 \in 1 .. l /\ i < l /\ i \in 1 .. d /\ i \in 1 .. d - 1 BY ONLY <2>0
  <2>2. open[i] < r /\ open[i] \in 1 .. m
    <3>1. open[i] < open[l] /\ r = open[l] BY <1>1, <1>2, <2>1
    <3>2. open \in Seq(1 .. m) /\ i \in 1 .. Len(open) BY <1>0, <1>1, <2>1
    <3>3. open[i] \in 1 .. m BY ONLY <3>2, ElementOf
    <3> QED BY <3>1, <3>3
  <2>3. open[i] # r BY <1>1, <1>2, <2>2
  <2> QED BY <1>6, <2>1, <2>2, <2>3
<1>9. Slots(st2, base, open2)
  <2>1. ASSUME NEW i \in 1 .. l PROVE st2[base + 2 * i - 1] = Val("table", open2[i])
    <3>1. base + 2 * i - 1 \in 1 .. Len(st) - 2 BY <1>2, <1>4
    <3> QED BY <1>2, <1>3, <1>7, <3>1
  <2> QED BY <1>2, <1>4, <1>7, <2>1 DEF Slots
<1>10. ASSUME NEW i \in 1 .. l - 1
       PROVE  NextPairOf(msgs, new, std, open2[i], st2[base + 2 * i], Val("table", open2[i + 1]))
  <2>1. base + 2 * i \in 1 .. Len(st) - 2 BY <1>2, <1>4
  <2>2. st2[base + 2 * i] = st[base + 2 * i] /\ open2[i] = open[i] /\ open2[i + 1] = open[i + 1] /\ new[open[i]] = heap[open[i]]
    BY <1>7, <1>8, <2>1
  <2>3. NextPairOf(msgs, heap, std, open[i], st[base + 2 * i], Val("table", open[i + 1]))
    BY <1>1, <1>8
  <2> QED BY <2>2, <2>3, Zenon DEF NextPairOf
<1>11. ASSUME NEW q \in 1 .. m, \A i \in 1 .. l : open2[i] # q PROVE Full(msgs, new, std, q)
  <2>1. q # r BY <1>2, <1>7, <1>11
  <2>2. new[q] = heap[q] BY <1>6, <2>1
  <2>3. CASE q = open[d] BY <1>0, <2>3, <2>2 DEF Full
  <2>4. CASE q # open[d]
    <3>1. \A i \in 1 .. d : open[i] # q
      <4> TAKE i \in 1 .. d
      <4>1. i = d \/ i \in 1 .. l BY <1>2
      <4> QED BY <1>7, <1>11, <2>4, <4>1
    <3>2. Full(msgs, heap, std, q) BY <1>1, <3>1
    <3> QED BY <2>2, <3>2 DEF Full
  <2> QED BY <2>3, <2>4
<1>12. OpenOn(msgs, new, st2, base, std, open2)
  <2>1. ASSUME NEW i \in 1 .. l, NEW j \in 1 .. l, i < j PROVE open2[i] < open2[j]
    <3>1. i \in 1 .. d /\ j \in 1 .. d /\ open2[i] = open[i] /\ open2[j] = open[j] BY <1>2, <1>7
    <3> QED BY <1>1, <2>1, <3>1
  <2>2. \A i \in 1 .. Len(open2) - 1 : NextPairOf(msgs, new, std, open2[i], st2[base + 2 * i], Val("table", open2[i + 1]))
    BY <1>7, <1>10
  <2> QED BY <1>6, <1>7, <1>9, <1>11, <2>1, <2>2, Zenon DEF OpenOn
<1>13. Len(open) - 1 = l /\ Len(open) - 2 = l - 1 /\ Len(open) \in Nat /\ open[Len(open) - 1] = r
  BY <1>0, <1>1, <1>2
<1> QED BY <1>0, <1>6, <1>7, <1>8, <1>12, <1>13

LEMMA OpenFirst ==
    ASSUME NEW msgs, NEW heap, NEW std, NEW base, NEW z, NEW std2, NEW new, NEW st, NEW open,
           FirstOn(msgs, heap, std, base, z, std2, new, st, open)
    PROVE  /\ AllRight(msgs, new, std2) /\ OpenOn(msgs, new, st, base, std2, open)
           /\ Len(new) = Len(heap) + 1 /\ std2[Len(heap) + 1] = z /\ new[Len(heap) + 1] = <<>>
           /\ \A q \in 1 .. Len(heap) : std2[q] = std[q]
<1> USE DEF FirstOn
<1>0. PICK m : m = Len(heap) OBVIOUS
<1>1. Right(msgs, std2, z, <<>>) BY DEF IsSeq, Right
<1>2. /\ AllRight(msgs, new, std2) /\ Len(new) = m + 1 /\ new[m + 1] = <<>>
      /\ std2[m + 1] = z /\ m \in Nat
      /\ \A q \in 1 .. m : new[q] = heap[q] /\ std2[q] = std[q]
  <2>1. Added(msgs, heap, std, z, <<>>, new, std2) BY <1>1 DEF Added
  <2>2. m = Len(heap) BY <1>0
  <2> QED BY ONLY <2>1, <2>2, AddRight
<1>3. open \in Seq(1 .. m + 1) /\ Len(open) = 1 /\ open[1] = m + 1 BY <1>0, <1>2
<1>4. Slots(st, base, open)
  <2>1. \A i \in 1 .. 1 : st[base + 2 * i - 1] = Val("table", open[i])
    <3> TAKE i \in 1 .. 1
    <3>1. i = 1 /\ base + 2 * i - 1 = base + 1 OBVIOUS
    <3> QED BY <1>0, <1>3, <3>1
  <2>2. base + 1 = base + 2 * 1 - 1 OBVIOUS
  <2> QED BY <1>3, <2>1, <2>2 DEF Slots
<1>5. ASSUME NEW q \in 1 .. m + 1, \A i \in 1 .. 1 : open[i] # q PROVE Full(msgs, new, std2, q)
  <2>1. q \in 1 .. m BY <1>2, <1>3, <1>5
  <2>2. Full(msgs, heap, std, q) BY <1>0, <2>1
  <2> QED BY <1>2, <2>1, <2>2 DEF Full
<1>6. \A i, j \in 1 .. Len(open) : ~(i < j) BY <1>3
<1>7. \A i \in 1 .. Len(open) - 1 : FALSE BY <1>3
<1>8. OpenOn(msgs, new, st, base, std2, open) BY <1>2, <1>3, <1>4, <1>5, <1>6, <1>7 DEF OpenOn
<1> QED BY <1>0, <1>2, <1>8

LEMMA RootedMore == ASSUME NEW std \in Seq(RoleSet), Rooted(std), NEW z \in RoleSet PROVE Rooted(Append(std, z))
BY DEF Rooted

LEMMA TopFacts ==
    ASSUME WInv, wframes # <<>>, NEW std, NEW open, Copies(std, open)
    PROVE  \E w : TopIs(std, open, w)
<1>1. PICK w \in 1 .. Len(open) : TopAt(tabs, std, open, old, W, w) BY DEF Copies
<1>2. Len(open) \in Nat /\ Len(stack) = old + 2 * Len(open) - 1 /\ old \in Nat
  BY DEF Copies, OpenOn, Slots, WInv, HeapOK
<1>3. w \in Nat /\ w >= 1 BY <1>2
<1>4. W \in WSet /\ Len(stack) = W.at + Waits(W) - 2 /\ Len(wframes) \in Nat \ {0} /\ W = wframes[Len(wframes)]
  BY FrameToLua
<1>5. /\ W.at = old + 2 * w - 1 /\ std[open[w]] = Role(W.type, W.obj, 0) /\ Len(tabs[open[w]]) = W.next - 1
      /\ W.loop > 0 => std[open[w + 1]] = Role(W.type, W.obj, W.next) /\ Len(tabs[open[w + 1]]) = W.loop
  BY <1>1, Zenon DEF TopAt
<1>6. (W.loop = 0 => Len(open) = w) /\ (W.loop > 0 => Len(open) = w + 1)
  BY <1>4, <1>2, <1>3, <1>5 DEF Waits, WSet
<1>7. ASSUME NEW k \in 1 .. Len(wframes) - 1 PROVE wframes[k] \in WSet /\ wframes[k].at + Waits(wframes[k]) <= W.at
  BY <1>4, ElementOf DEF WInv, WOK
<1>8. \A k \in 1 .. Len(wframes) - 1 : \E i \in 1 .. Len(open) : BelowAt(tabs, std, open, old, wframes[k], i)
  BY DEF Copies
<1> QED BY <1>2, <1>3, <1>4, <1>5, <1>6, <1>7, <1>8, Zenon DEF TopIs

LEMMA BelowStays ==
    ASSUME NEW std, NEW open, NEW w, TopIs(std, open, w), NEW heap2, NEW std2, NEW open2,
           Beneath(w, tabs, std, open, heap2, std2, open2), NEW k \in 1 .. Len(wframes) - 1
    PROVE  \E i \in 1 .. Len(open2) : BelowAt(heap2, std2, open2, old, wframes[k], i)
<1> USE DEF Beneath
<1>0. PICK f : f = wframes[k] OBVIOUS
<1>1. /\ w \in Nat /\ w >= 1 /\ old \in Nat /\ W.at = old + 2 * w - 1 /\ Len(open) \in Nat
      /\ f \in WSet /\ f.at + Waits(f) <= W.at BY <1>0 DEF TopIs
<1>2. PICK i \in 1 .. Len(open) : BelowAt(tabs, std, open, old, f, i) BY <1>0 DEF TopIs
<1>3. /\ f.at = old + 2 * i - 1 /\ std[open[i]] = Role(f.type, f.obj, 0)
      /\ f.loop = 0 => Len(tabs[open[i]]) = f.next - 2
      /\ f.loop > 0 => /\ Len(tabs[open[i]]) = f.next - 1 /\ i < Len(open)
                       /\ std[open[i + 1]] = Role(f.type, f.obj, f.next) /\ Len(tabs[open[i + 1]]) = f.loop - 1
  BY <1>2, Zenon DEF BelowAt
<1>4. i \in Nat /\ i >= 1 BY <1>1
<1>5. i + 1 <= w /\ (f.loop > 0 => i + 2 <= w)
  <2>1. Waits(f) >= 2 /\ (f.loop > 0 => Waits(f) = 4) /\ Waits(f) \in Nat BY <1>1 DEF Waits, WSet
  <2> QED BY <1>1, <1>3, <1>4, <2>1
<1>6. i \in 1 .. w - 1 /\ i \in 1 .. Len(open2) BY <1>1, <1>4, <1>5
<1>7. f.loop > 0 => i + 1 \in 1 .. w - 1 /\ i < Len(open2) BY <1>1, <1>4, <1>5
<1>8. BelowAt(heap2, std2, open2, old, f, i) BY <1>3, <1>6, <1>7, Zenon DEF BelowAt
<1> QED BY <1>0, <1>6, <1>8

\* The value of the field, from the message or from the default.
LEMMA WValueIs == WValue = From(pb, W.type, W.obj)[W.next] BY DEF WValue, From

LEMMA CopiesThen ==
    ASSUME NEW std, NEW open, pb' = pb, old' = old, Rooted(std),
           AllRight(pb, tabs', std), OpenOn(pb, tabs', stack', old, std, open),
           NEW f, W' = f, NEW w \in 1 .. Len(open), TopAt(tabs', std, open, old, f, w),
           \A k \in 1 .. Len(wframes') - 1 : \E i \in 1 .. Len(open) : BelowAt(tabs', std, open, old, wframes'[k], i)
    PROVE  Copies(std, open)' BY DEF Rooted, Copies

\* The frame goes on, the others wait.
LEMMA SetTopIs ==
    ASSUME WInv, wframes # <<>>, NEW f \in WSet, wframes' = SetTop(f)
    PROVE  /\ W' = f /\ Len(wframes') = Len(wframes) /\ Len(wframes) \in Nat
           /\ \A k \in 1 .. Len(wframes') - 1 : k \in 1 .. Len(wframes) - 1 /\ wframes'[k] = wframes[k]
<1>0. PICK n : n = Len(wframes) OBVIOUS
<1>1. wframes \in Seq(WSet) /\ n \in Nat \ {0} BY <1>0, FrameToLua DEF WInv, WOK
<1>2. /\ SetTop(f) \in Seq(WSet) /\ Len(SetTop(f)) = n
      /\ \A i \in 1 .. n : SetTop(f)[i] = IF i = n THEN f ELSE wframes[i] BY <1>0, <1>1, SetTopType
<1>3. n \in 1 .. n /\ \A k \in 1 .. n - 1 : k \in 1 .. n /\ k # n BY <1>1
<1>4. Len(wframes') = n /\ wframes'[n] = f /\ \A k \in 1 .. n - 1 : wframes'[k] = wframes[k]
  BY <1>2, <1>3
<1>5. W' = f BY <1>4 DEF W
<1> QED BY <1>0, <1>1, <1>4, <1>5

LEMMA NextIs == ASSUME W \in WSet PROVE NextField.next = W.next + 1 /\ W.next \in Nat /\ W.next >= 1
<1> DEFINE V == [W EXCEPT !.next = @ + 1]
<1>1. V \in WSet /\ V.next = W.next + 1 /\ W.next \in Nat /\ W.next >= 1 BY DEF WSet
<1>2. NextField = [V EXCEPT !.loop = 0] BY Zenon DEF NextField
<1> HIDE DEF V
<1> QED BY <1>1, <1>2 DEF WSet

LEMMA OldKept == ASSUME UNCHANGED bridge PROVE old' = old /\ table' = table /\ edits' = edits /\ route' = route /\ pc' = pc
  BY DEF bridge

\* What the frame's table is and what its next pair has to be.
LEMMA RowOf ==
    ASSUME WInv, wframes # <<>>, W.next <= Len(Fields[W.type]), NEW std, NEW open, NEW w, TopIs(std, open, w),
           NEW std2, std2[open[w]] = std[open[w]], NEW x,
           IF WField.rep THEN IsFor(std2, x, Role(W.type, W.obj, W.next)) ELSE Stands(std2, WField, x, WValue)
    PROVE  NextPairOf(pb, tabs, std2, open[w], Name(WField), x)
<1>0. PICK z : z = Role(W.type, W.obj, 0) OBVIOUS
<1>1. std2[open[w]] = z /\ Len(tabs[open[w]]) = W.next - 1 /\ W \in WSet BY <1>0 DEF TopIs
<1>2. z.type = W.type /\ z.obj = W.obj /\ z.field = 0 BY <1>0 DEF Role
<1>3. W.next \in Nat BY <1>1 DEF WSet
<1>4. Len(tabs[open[w]]) + 1 = W.next BY <1>1, <1>3
<1>5. Width(pb, z) = Len(Fields[W.type]) /\ KeyOf(z, W.next) = Name(WField)
  BY <1>2 DEF Width, KeyOf, WField
<1>6. PairOf(pb, std2, z, W.next, x) BY <1>2, WValueIs DEF WField, PairOf
<1> QED BY <1>1, <1>4, <1>5, <1>6 DEF NextPairOf

LEMMA TopTable ==
    ASSUME NEW std, NEW open, Copies(std, open), Len(open) \in Nat
    PROVE  Top = Val("table", open[Len(open)]) /\ Top.v = open[Len(open)]
BY DEF Copies, OpenOn, Slots, Top, Val

LEMMA WriteScalarCopies ==
    ASSUME WInv, wframes # <<>>, WriteScalar, UNCHANGED bridge, NEW std, NEW open, Copies(std, open)
    PROVE  Copies(std, open)'
<1>1. /\ W.next <= Len(Fields[W.type]) /\ ~WField.rep /\ WField.kind # "message"
      /\ tabs' = Settable(tabs, Top.v, Name(WField), ScalarTo(WField.kind, WValue))
      /\ wframes' = SetTop(NextField) /\ stack' = stack /\ pb' = pb BY DEF WriteScalar
<1>2. PICK w : TopIs(std, open, w) BY TopFacts
<1>3. W \in WSet /\ W.loop = 0 /\ w = Len(open) /\ w \in Nat /\ w \in 1 .. Len(open) /\ old' = old
  BY <1>1, <1>2, FrameToLua, OldKept DEF TopIs, WSet
<1> DEFINE x == ScalarTo(WField.kind, WValue)
<1>4. Stands(std, WField, x, WValue) BY <1>1 DEF Stands
<1> HIDE DEF x
<1>5. NextPairOf(pb, tabs, std, open[w], Name(WField), x) BY <1>1, <1>2, <1>4, RowOf
<1>6. tabs' = Settable(tabs, open[Len(open)], Name(WField), x) BY <1>1, <1>3, TopTable DEF x
<1>7. /\ AllRight(pb, tabs', std) /\ OpenOn(pb, tabs', stack, old, std, open)
      /\ Len(tabs'[open[w]]) = Len(tabs[open[w]]) + 1
      /\ \A i \in 1 .. w - 1 : tabs'[open[i]] = tabs[open[i]]
  <2>1. PutOn(pb, tabs, std, stack, old, open, Name(WField), x, tabs')
    BY <1>3, <1>5, <1>6 DEF Copies, PutOn
  <2>2. w = Len(open) BY <1>3
  <2> QED BY ONLY <2>1, <2>2, OpenPut
<1>8. /\ W' = NextField /\ \A k \in 1 .. Len(wframes') - 1 : k \in 1 .. Len(wframes) - 1 /\ wframes'[k] = wframes[k]
  BY <1>1, <1>3, NextFrame, SetTopIs
<1>9. TopAt(tabs', std, open, old, NextField, w)
  BY <1>3, NextFrame, NextIs, <1>2, <1>7 DEF TopIs, TopAt
<1>10. \A k \in 1 .. Len(wframes) - 1 : \E i \in 1 .. Len(open) : BelowAt(tabs', std, open, old, wframes[k], i)
  <2>1. Beneath(w, tabs, std, open, tabs', std, open) BY <1>3, <1>7 DEF Beneath
  <2> QED BY ONLY <1>2, <2>1, BelowStays
<1>11. Rooted(std) BY DEF Copies
<1> QED BY <1>1, <1>3, <1>7, <1>8, <1>9, <1>10, <1>11, CopiesThen

----------------------------------------------------------------------------
\* A frame more: the one that was on top waits for it.
LEMMA FrameMore ==
    ASSUME WInv, wframes # <<>>, NEW g \in WSet, NEW h, wframes' = Append(SetTop(g), h)
    PROVE  /\ W' = h /\ Len(wframes) \in Nat /\ Len(wframes') = Len(wframes) + 1 /\ wframes'[Len(wframes)] = g
           /\ \A k \in 1 .. Len(wframes) - 1 : wframes'[k] = wframes[k]
BY FrameToLua, SetTopType, AppendIs DEF WInv, WOK, W

LEMMA RoleIs == ASSUME NEW T, NEW p, NEW i, NEW z, z = Role(T, p, i) PROVE z.type = T /\ z.obj = p /\ z.field = i
  BY DEF Role

LEMMA TabsSeq == ASSUME HeapOK PROVE IsSeq(tabs) /\ Len(tabs) \in Nat BY DEF HeapOK, IsSeq

LEMMA NewRole ==
    ASSUME NEW T \in Types, NEW p \in Nat, p # 0 => p \in 1 .. Len(pb) /\ pb[p].type = T, NEW z, z = Role(T, p, 0)
    PROVE  RoleOK(pb, z) /\ Width(pb, z) = Len(Fields[T]) /\ 0 <= Width(pb, z) /\ Width(pb, z) \in Nat
BY RoleIs, FieldsAssumption DEF Role, RoleSet, Width, RoleOK

\* What a message field refers to.
LEMMA FitsRef ==
    ASSUME pb \in Requests, NEW field, field.kind = "message", NEW x, Fits(pb, field, x) \/ x = 0
    PROVE  x \in Nat /\ (x # 0 => x \in 1 .. Len(pb) /\ pb[x].type = field.sub)
BY RequestsAssumption DEF IsHeap, Fits

LEMMA BelowMono ==
    ASSUME NEW heap, NEW std, NEW open, NEW heap2, NEW std2, NEW open2, Beyond(heap, std, open, heap2, std2, open2),
           NEW f, NEW base, NEW i \in 1 .. Len(open), BelowAt(heap, std, open, base, f, i)
    PROVE  i \in 1 .. Len(open2) /\ BelowAt(heap2, std2, open2, base, f, i)
<1> USE DEF Beyond
<1>1. /\ f.at = base + 2 * i - 1 /\ std[open[i]] = Role(f.type, f.obj, 0)
      /\ f.loop = 0 => Len(heap[open[i]]) = f.next - 2
      /\ f.loop > 0 => /\ Len(heap[open[i]]) = f.next - 1 /\ i < Len(open)
                       /\ std[open[i + 1]] = Role(f.type, f.obj, f.next) /\ Len(heap[open[i + 1]]) = f.loop - 1
  BY Zenon DEF BelowAt
<1>2. i \in 1 .. Len(open2) /\ open2[i] = open[i] /\ heap2[open[i]] = heap[open[i]] /\ std2[open[i]] = std[open[i]]
  OBVIOUS
<1>3. f.loop > 0 => /\ i < Len(open2)
                    /\ open2[i + 1] = open[i + 1] /\ heap2[open[i + 1]] = heap[open[i + 1]]
                    /\ std2[open[i + 1]] = std[open[i + 1]] BY <1>1
<1>4. BelowAt(heap2, std2, open2, base, f, i) BY <1>1, <1>2, <1>3, Zenon DEF BelowAt
<1> QED BY <1>2, <1>4

LEMMA PushBeyond ==
    ASSUME NEW msgs, NEW heap, NEW std, NEW st, NEW base, NEW open, NEW key, NEW z, NEW new, NEW std2, NEW st2, NEW open2,
           PushOn(msgs, heap, std, st, base, open, key, z, new, std2, st2, open2)
    PROVE  Beyond(heap, std, open, new, std2, open2) BY OpenPush DEF Beyond

LEMMA EnterCopies ==
    ASSUME WInv, wframes # <<>>, pb' = pb, old' = old, NEW heap, NEW std, NEW st, NEW open, NEW g, NEW key, NEW z,
           NEW std2, NEW open2, Entered(heap, std, st, open, g, key, z, std2, open2)
    PROVE  Copies(std2, open2)'
<1>0. PICK d, h : d = Len(open) + 1 /\ h = WFrame(z.type, z.obj, Len(stack'), TRUE) OBVIOUS
<1>1. PushOn(pb, heap, std, st, old, open, key, z, tabs', std2, stack', open2) BY DEF Entered
<1>2. /\ AllRight(pb, tabs', std2) /\ OpenOn(pb, tabs', stack', old, std2, open2)
      /\ std2[Len(heap) + 1] = z /\ tabs'[Len(heap) + 1] = <<>>
      /\ Len(open) \in Nat /\ Len(open2) = Len(open) + 1 /\ open2[Len(open) + 1] = Len(heap) + 1
  BY ONLY <1>1, OpenPush
<1>3. Beyond(heap, std, open, tabs', std2, open2) BY ONLY <1>1, PushBeyond
<1>4. /\ g \in WSet /\ (\E i \in 1 .. Len(open) : BelowAt(heap, std, open, old, g, i))
      /\ (\A k \in 1 .. Len(wframes) - 1 : \E i \in 1 .. Len(open) : BelowAt(heap, std, open, old, wframes[k], i))
      /\ z = Role(z.type, z.obj, 0) /\ wframes' = Append(SetTop(g), h) BY <1>0 DEF Entered
<1>5. /\ W' = h /\ Len(wframes) \in Nat /\ Len(wframes') = Len(wframes) + 1 /\ wframes'[Len(wframes)] = g
      /\ \A k \in 1 .. Len(wframes) - 1 : wframes'[k] = wframes[k] BY <1>4, FrameMore
<1>6. /\ h.type = z.type /\ h.obj = z.obj /\ h.at = Len(stack') /\ h.next = 1 /\ h.loop = 0
  BY <1>0 DEF WFrame
<1>7. TopAt(tabs', std2, open2, old, h, d)
  <2>1. Len(stack') = old + 2 * d - 1 BY <1>0, <1>2 DEF OpenOn, Slots
  <2>2. open2[d] = Len(heap) + 1 /\ Len(tabs'[open2[d]]) = 1 - 1 BY <1>0, <1>2
  <2> QED BY <1>2, <1>4, <1>6, <2>1, <2>2 DEF TopAt
<1>8. \A f, i : i \in 1 .. Len(open) /\ BelowAt(heap, std, open, old, f, i) =>
                   i \in 1 .. Len(open2) /\ BelowAt(tabs', std2, open2, old, f, i)
  BY ONLY <1>3, BelowMono
<1>9. \A k \in 1 .. Len(wframes') - 1 : \E i \in 1 .. Len(open2) : BelowAt(tabs', std2, open2, old, wframes'[k], i)
  <2> TAKE k \in 1 .. Len(wframes') - 1
  <2>1. k = Len(wframes) \/ k \in 1 .. Len(wframes) - 1 BY <1>5
  <2>2. CASE k = Len(wframes) BY <1>4, <1>5, <1>8, <2>2, Zenon
  <2>3. CASE k \in 1 .. Len(wframes) - 1 BY <1>4, <1>5, <1>8, <2>3, Zenon
  <2> QED BY <2>1, <2>2, <2>3
<1>10. d \in 1 .. Len(open2) BY <1>0, <1>2
<1>11. Rooted(std2) BY <1>1, RootedMore DEF PushOn, AllRight, RoleOK, Entered
<1> QED BY <1>2, <1>5, <1>7, <1>9, <1>10, <1>11, CopiesThen

\* The table of a message field.
LEMMA OpenMessageCopies ==
    ASSUME WInv, wframes # <<>>, OpenMessage, UNCHANGED bridge, NEW std, NEW open, Copies(std, open)
    PROVE  \E std2, open2 : Copies(std2, open2)'
<1>0. PICK m, z : m = Len(tabs) /\ z = Role(WField.sub, WValue, 0) OBVIOUS
<1>z. z.type = WField.sub /\ z.obj = WValue /\ z.field = 0 BY <1>0, RoleIs
<1>1. /\ W.next <= Len(Fields[W.type]) /\ ~WField.rep /\ WField.kind = "message"
      /\ stack' = stack \o <<Name(WField), Val("table", m + 1)>> /\ tabs' = Append(tabs, <<>>) /\ pb' = pb
      /\ wframes' = Append(SetTop(NextField), WFrame(z.type, z.obj, Len(stack'), TRUE))
  BY <1>0, <1>z DEF OpenMessage
<1>2. PICK w : TopIs(std, open, w) BY TopFacts
<1>3. W \in WSet /\ W.loop = 0 /\ w = Len(open) /\ w \in Nat /\ w \in 1 .. Len(open) /\ old' = old /\ pb \in Requests
  <2>1. W \in WSet /\ pb \in Requests /\ (W.loop > 0 => WField.rep) /\ W.loop \in Nat
    BY FrameToLua DEF WSet
  <2>2. W.loop = 0 BY <1>1, <2>1
  <2> QED BY <1>2, <2>1, <2>2, OldKept DEF TopIs
<1>4. /\ IsSeq(tabs) /\ m \in Nat /\ old \in Nat /\ stack \in Seq(Values(m))
  BY <1>0, TabsSeq DEF WInv, HeapOK
<1>5. RoleOK(pb, z) /\ 0 <= Width(pb, z)
  <2>1. WField.sub \in Types /\ (Fits(pb, WField, WValue) \/ WValue = 0) BY <1>1, ValueToLua
  <2>2. WValue \in Nat /\ (WValue # 0 => WValue \in 1 .. Len(pb) /\ pb[WValue].type = WField.sub)
    BY <1>1, <1>3, <2>1, FitsRef
  <2> QED BY <1>0, <2>1, <2>2, NewRole
<1> PICK std2, open2 : std2 = Append(std, z) /\ open2 = Append(open, m + 1) OBVIOUS
<1>6. AllRight(pb, tabs, std) /\ OpenOn(pb, tabs, stack, old, std, open) BY DEF Copies
<1>7. std2[m + 1] = z /\ Len(std2) = m + 1 /\ \A r \in 1 .. m : std2[r] = std[r]
  BY <1>0, <1>5, <1>6 DEF AllRight, RoleOK
<1>8. open[w] \in 1 .. m BY <1>0, <1>6, <1>3, ElementOf DEF OpenOn
<1>9. NextPairOf(pb, tabs, std2, open[w], Name(WField), Val("table", m + 1))
  <2>1. IsFor(std2, Val("table", m + 1), z) BY <1>4, <1>7 DEF IsFor, Val
  <2>2. Stands(std2, WField, Val("table", m + 1), WValue) BY <1>0, <1>1, <2>1 DEF Stands
  <2> QED BY <1>1, <1>2, <1>7, <1>8, <2>2, RowOf
<1>10. Grown(stack, stack', Name(WField), Val("table", m + 1))
  <2>1. stack \in Seq(Values(m + 1)) /\ Name(WField) \in Values(m + 1) /\ Val("table", m + 1) \in Values(m + 1) /\ Len(stack) \in Nat
    <3>1. m + 1 \in Nat /\ m <= m + 1 /\ m + 1 \in 1 .. m + 1 BY <1>4
    <3>2. stack \in Seq(Values(m + 1)) BY <1>0, <1>4, <3>1, HeapMono DEF WInv, HeapOK
    <3>3. Name(WField) \in Values(m + 1) BY <1>1, ValueToLua
    <3>4. Val("table", m + 1) \in Values(m + 1) BY <3>1, TableValue
    <3> QED BY <1>4, <3>2, <3>3, <3>4
  <2> QED BY <1>1, <2>1, PushTwo DEF Grown
<1>11. PushOn(pb, tabs, std, stack, old, open, Name(WField), z, tabs', std2, stack', open2)
  BY <1>0, <1>1, <1>3, <1>4, <1>5, <1>6, <1>9, <1>10 DEF PushOn
<1>12. BelowAt(tabs, std, open, old, NextField, w) /\ NextField \in WSet
  BY <1>3, NextFrame, NextIs, <1>2 DEF TopIs, BelowAt
<1>13. Entered(tabs, std, stack, open, NextField, Name(WField), z, std2, open2)
  <2>1. Rooted(std) /\ \A k \in 1 .. Len(wframes) - 1 : \E i \in 1 .. Len(open) : BelowAt(tabs, std, open, old, wframes[k], i)
    BY DEF Copies
  <2> QED BY <1>0, <1>1, <1>3, <1>11, <1>12, <1>z, <2>1, Zenon DEF Entered
<1> QED BY <1>1, <1>3, <1>13, EnterCopies

----------------------------------------------------------------------------
\* Arrays.
LEMMA ArrayRole ==
    ASSUME WInv, wframes # <<>>, W.next <= Len(Fields[W.type]), WField.rep, NEW z, z = Role(W.type, W.obj, W.next)
    PROVE  /\ RoleOK(pb, z) /\ Width(pb, z) = Len(WValue) /\ 0 <= Width(pb, z) /\ Len(WValue) \in Nat
           /\ z.type = W.type /\ z.obj = W.obj /\ z.field = W.next /\ W.next # 0
           /\ \A j : KeyOf(z, j) = Val("number", j)
           /\ \A std, j, x : PairOf(pb, std, z, j, x) <=> Stands(std, WField, x, WValue[j])
<1>1. z.type = W.type /\ z.obj = W.obj /\ z.field = W.next BY RoleIs
<1>2. W \in WSet /\ W = wframes[Len(wframes)] /\ Len(wframes) \in 1 .. Len(wframes) BY FrameToLua
<1>3. W.type \in Types /\ W.obj \in Nat /\ W.next \in Nat \ {0} BY <1>2 DEF WSet
<1>4. z \in RoleSet BY <1>3 DEF Role, RoleSet
<1>5. W.obj # 0 => W.obj \in 1 .. Len(pb) /\ pb[W.obj].type = W.type BY <1>2 DEF WInv, WOK
<1>6. W.next \in 1 .. Len(Fields[W.type]) /\ Len(WValue) \in Nat BY ValueToLua
<1>7. RoleOK(pb, z) BY <1>1, <1>4, <1>5, <1>6 DEF RoleOK, WField
<1>8. Width(pb, z) = Len(WValue) BY <1>1, <1>3, WValueIs DEF Width
<1>9. \A j : KeyOf(z, j) = Val("number", j) BY <1>1, <1>3 DEF KeyOf
<1>10. \A std, j, x : PairOf(pb, std, z, j, x) <=> Stands(std, WField, x, WValue[j])
  BY <1>1, <1>3, WValueIs, Zenon DEF PairOf, WField
<1> QED BY <1>1, <1>3, <1>6, <1>7, <1>8, <1>9, <1>10

LEMMA PutAppend ==
    ASSUME NEW heap, IsSeq(heap), NEW r \in 1 .. Len(heap), NEW key, NEW x, NEW e
    PROVE  Append(Settable(heap, r, key, x), e) = Settable(Append(heap, e), r, key, x)
<1>0. PICK m, p : m = Len(heap) /\ p = Append(heap[r], <<key, x>>) OBVIOUS
<1>1. PICK V : heap \in Seq(V) BY DEF IsSeq
<1> DEFINE S == V \cup {p, e}
<1>2. heap \in Seq(S) /\ p \in S /\ e \in S /\ m \in Nat /\ r \in 1 .. m BY <1>0, <1>1
<1> HIDE DEF S
<1> PICK a, b : a = Settable(heap, r, key, x) /\ b = Append(heap, e) OBVIOUS
<1>3. a = [heap EXCEPT ![r] = p] BY <1>0 DEF Settable
<1>4. a \in Seq(S) /\ Len(a) = m /\ \A i \in 1 .. m : a[i] = IF i = r THEN p ELSE heap[i]
  BY <1>0, <1>2, <1>3
<1>5. b \in Seq(S) /\ Len(b) = m + 1 /\ b[m + 1] = e /\ \A i \in 1 .. m : b[i] = heap[i]
  BY <1>0, <1>2
<1>6. Settable(b, r, key, x) = [b EXCEPT ![r] = p] BY <1>0, <1>2, <1>5 DEF Settable
<1> PICK c, d : c = Append(a, e) /\ d = [b EXCEPT ![r] = p] OBVIOUS
<1>7. c \in Seq(S) /\ Len(c) = m + 1 /\ c[m + 1] = e /\ \A i \in 1 .. m : c[i] = a[i]
  <2>1. a \in Seq(S) /\ e \in S BY <1>2, <1>4
  <2>2. /\ Append(a, e) \in Seq(S) /\ Len(Append(a, e)) = Len(a) + 1 /\ Append(a, e)[Len(a) + 1] = e
        /\ \A i \in 1 .. Len(a) : Append(a, e)[i] = a[i] BY ONLY <2>1, AppendIs
  <2> QED BY <1>4, <2>2
<1>8. d \in Seq(S) /\ Len(d) = m + 1 /\ \A i \in 1 .. m + 1 : d[i] = IF i = r THEN p ELSE b[i]
  <2>1. r \in 1 .. m + 1 /\ b \in Seq(S) /\ Len(b) = m + 1 /\ p \in S /\ d = [b EXCEPT ![r] = p] /\ m + 1 \in Nat
    BY <1>2, <1>5
  <2> QED BY ONLY <2>1
<1>9. \A i \in 1 .. m + 1 : c[i] = d[i]
  <2> TAKE i \in 1 .. m + 1
  <2>1. i = m + 1 \/ i \in 1 .. m BY <1>2
  <2>2. CASE i = m + 1 BY <1>2, <2>2, <1>5, <1>7, <1>8
  <2>3. CASE i \in 1 .. m BY <1>4, <1>7, <2>3, <1>5, <1>8
  <2> QED BY <2>1, <2>2, <2>3
<1>10. c = d BY <1>7, <1>8, <1>9, SeqEqual
<1> QED BY <1>6, <1>10

LEMMA WrittenCopies ==
    ASSUME WInv, wframes # <<>>, pb' = pb, old' = old, wframes' = SetTop(NextField), NEW std, NEW open, NEW w,
           NEW std2, NEW open2, Written(w, std, open, tabs', std2, open2)
    PROVE  Copies(std2, open2)'
<1>1. /\ Rooted(std2) /\ TopIs(std, open, w) /\ AllRight(pb, tabs', std2) /\ OpenOn(pb, tabs', stack', old, std2, open2)
      /\ Len(open2) \in Nat /\ w <= Len(open2)
      /\ open2[w] = open[w] /\ std2[open[w]] = std[open[w]] /\ Len(tabs'[open[w]]) = Len(tabs[open[w]]) + 1
      /\ \A j \in 1 .. w - 1 : open2[j] = open[j] /\ tabs'[open[j]] = tabs[open[j]] /\ std2[open[j]] = std[open[j]]
  BY Zenon DEF Written
<1>2. W \in WSet /\ w \in Nat /\ w >= 1 BY <1>1 DEF TopIs
<1>3. /\ W' = NextField /\ \A k \in 1 .. Len(wframes') - 1 : k \in 1 .. Len(wframes) - 1 /\ wframes'[k] = wframes[k]
  BY <1>2, NextFrame, SetTopIs
<1>4. TopAt(tabs', std2, open2, old, NextField, w) BY <1>2, NextFrame, NextIs, <1>1 DEF TopIs, TopAt
<1>5. \A k \in 1 .. Len(wframes) - 1 : \E i \in 1 .. Len(open2) : BelowAt(tabs', std2, open2, old, wframes[k], i)
  <2>1. Beneath(w, tabs, std, open, tabs', std2, open2) BY <1>1 DEF Beneath
  <2> QED BY ONLY <1>1, <2>1, BelowStays
<1>6. w \in 1 .. Len(open2) BY <1>1, <1>2
<1> QED BY <1>1, <1>3, <1>4, <1>5, <1>6, CopiesThen

LEMMA WriteArrayCopies ==
    ASSUME WInv, wframes # <<>>, WriteArray, UNCHANGED bridge, NEW std, NEW open, Copies(std, open)
    PROVE  \E std2, open2 : Copies(std2, open2)'
<1>0. PICK m, z, elements, ref : /\ m = Len(tabs) /\ z = Role(W.type, W.obj, W.next) /\ ref = Val("table", Len(tabs) + 1)
                                 /\ elements = [i \in 1 .. Len(WValue) |->
                                                  <<Val("number", i), ScalarTo(WField.kind, WValue[i])>>]
  OBVIOUS
<1>1. /\ W.next <= Len(Fields[W.type]) /\ WField.rep /\ W.loop = 0
      /\ WField.kind # "message" \/ WValue = <<>>
      /\ tabs' = Append(Settable(tabs, Top.v, Name(WField), ref), elements)
      /\ wframes' = SetTop(NextField) /\ stack' = stack /\ pb' = pb BY <1>0 DEF WriteArray
<1>2. PICK w : TopIs(std, open, w) BY TopFacts
<1>3. W \in WSet /\ w = Len(open) /\ w \in Nat /\ w \in 1 .. Len(open) /\ old' = old
  BY <1>1, <1>2, OldKept DEF TopIs
<1>4. IsSeq(tabs) /\ m \in Nat BY <1>0, TabsSeq DEF WInv
<1>5. /\ RoleOK(pb, z) /\ Width(pb, z) = Len(WValue) /\ Len(WValue) \in Nat
      /\ \A j : KeyOf(z, j) = Val("number", j)
      /\ \A s, j, x : PairOf(pb, s, z, j, x) <=> Stands(s, WField, x, WValue[j])
  BY <1>0, <1>1, ArrayRole
<1> PICK std2, mid : std2 = Append(std, z) /\ mid = Append(tabs, elements) OBVIOUS
<1>6. AllRight(pb, tabs, std) /\ OpenOn(pb, tabs, stack, old, std, open) BY DEF Copies
<1>7. Right(pb, std2, z, elements) /\ Len(elements) = Width(pb, z)
  <2>1. Len(elements) = Len(WValue) /\ IsSeq(elements)
    <3> DEFINE S == {elements[j] : j \in 1 .. Len(WValue)}
    <3>1. elements \in Seq(S) /\ Len(elements) = Len(WValue) BY <1>0, <1>5
    <3> QED BY <3>1 DEF IsSeq
  <2>2. ASSUME NEW j \in 1 .. Len(elements)
        PROVE  elements[j][1] = KeyOf(z, j) /\ PairOf(pb, std2, z, j, elements[j][2])
    BY <1>1, <2>1, <1>0, <1>5 DEF Stands
  <2>3. Len(elements) <= Width(pb, z) BY <1>5, <2>1
  <2> QED BY <1>5, <2>1, <2>2, <2>3, Zenon DEF Right
<1>8. /\ AllRight(pb, mid, std2) /\ OpenOn(pb, mid, stack, old, std2, open)
      /\ std2[m + 1] = z /\ Len(mid) = m + 1
      /\ \A q \in 1 .. m : mid[q] = tabs[q] /\ std2[q] = std[q]
  <2>1. /\ Added(pb, tabs, std, z, elements, mid, std2) /\ Len(elements) = Width(pb, z)
        /\ OpenOn(pb, tabs, stack, old, std, open) BY <1>4, <1>5, <1>6, <1>7 DEF Added
  <2>2. m = Len(tabs) BY <1>0
  <2> QED BY ONLY <2>1, <2>2, OpenAdd
<1>9. \A i \in 1 .. Len(open) : open[i] \in 1 .. m BY <1>0, <1>6, ElementOf DEF OpenOn
<1>10. NextPairOf(pb, mid, std2, open[w], Name(WField), ref)
  <2>1. open[w] \in 1 .. m BY <1>3, <1>9
  <2>2. IsFor(std2, ref, z) BY <1>8, <1>0, <1>4 DEF AllRight, IsFor, Val
  <2>3. NextPairOf(pb, tabs, std2, open[w], Name(WField), ref)
    <3>1. std2[open[w]] = std[open[w]] BY <1>8, <2>1
    <3>2. WField.rep /\ IsFor(std2, ref, Role(W.type, W.obj, W.next)) /\ W.next <= Len(Fields[W.type])
      BY <1>0, <1>1, <2>2
    <3>3. WInv /\ wframes # <<>> /\ TopIs(std, open, w) BY <1>2
    <3> QED BY ONLY <3>1, <3>2, <3>3, RowOf, Zenon
  <2> QED BY <1>8, <2>1, <2>3 DEF NextPairOf
<1>11. tabs' = Settable(mid, open[w], Name(WField), ref)
  <2>1. Top.v = open[w] /\ open[w] \in 1 .. Len(tabs) BY <1>0, <1>3, <1>9, TopTable
  <2> QED BY <1>1, <1>4, <2>1, PutAppend
<1>12. /\ AllRight(pb, tabs', std2) /\ OpenOn(pb, tabs', stack, old, std2, open)
       /\ Len(tabs'[open[w]]) = Len(mid[open[w]]) + 1
       /\ \A i \in 1 .. w - 1 : tabs'[open[i]] = mid[open[i]]
  <2>1. PutOn(pb, mid, std2, stack, old, open, Name(WField), ref, tabs')
    BY <1>3, <1>8, <1>10, <1>11 DEF PutOn
  <2>2. w = Len(open) BY <1>3
  <2> QED BY ONLY <2>1, <2>2, OpenPut
<1>13. \A i \in 1 .. w : mid[open[i]] = tabs[open[i]] /\ std2[open[i]] = std[open[i]]
  BY <1>3, <1>8, <1>9
<1>14. Written(w, std, open, tabs', std2, open)
  <2>1. w \in 1 .. w /\ (\A j \in 1 .. w - 1 : j \in 1 .. w) /\ w <= Len(open) /\ Len(open) \in Nat
    BY <1>3
  <2>2. std2[open[w]] = std[open[w]] /\ Len(tabs'[open[w]]) = Len(tabs[open[w]]) + 1
    BY <1>12, <1>13, <2>1
  <2>3. \A j \in 1 .. w - 1 : tabs'[open[j]] = tabs[open[j]] /\ std2[open[j]] = std[open[j]]
    <3> TAKE j \in 1 .. w - 1
    <3>1. mid[open[j]] = tabs[open[j]] /\ std2[open[j]] = std[open[j]] BY <1>13, <2>1
    <3>2. tabs'[open[j]] = mid[open[j]] BY <1>12
    <3> QED BY <3>1, <3>2
  <2>4. OpenOn(pb, tabs', stack', old, std2, open) BY <1>1, <1>12
  <2>5. Rooted(std2) BY <1>5, <1>6, RootedMore DEF AllRight, RoleOK, Copies
  <2> QED BY <1>2, <1>12, <2>1, <2>2, <2>3, <2>4, <2>5, Zenon DEF Written
<1> QED BY <1>1, <1>3, <1>14, WrittenCopies

\* The table on top goes into the one below it.
LEMMA BelowTop ==
    ASSUME NEW st, NEW base \in Nat, NEW open, Slots(st, base, open), Len(open) \in Nat, Len(open) > 1
    PROVE  st[Len(st) - 2].v = open[Len(open) - 1] /\ st[Len(st)] = Val("table", open[Len(open)])
<1>0. PICK d, l : d = Len(open) /\ l = d - 1 OBVIOUS
<1>1. l \in 1 .. d /\ d \in 1 .. d /\ l \in Nat /\ d = l + 1 BY <1>0
<1>2. Len(st) = base + 2 * d - 1 /\ st[base + 2 * d - 1] = Val("table", open[d]) /\ st[base + 2 * l - 1] = Val("table", open[l])
  BY <1>0, <1>1 DEF Slots
<1>3. Len(st) - 2 = base + 2 * l - 1 BY <1>1, <1>2
<1> QED BY <1>0, <1>2, <1>3 DEF Val

LEMMA ClosedTable ==
    ASSUME WInv, wframes # <<>>, NEW std, NEW open, Copies(std, open), Len(open) \in Nat, Len(open) > 1,
           Full(pb, tabs, std, open[Len(open)]), stack' = Pop(stack, 2),
           tabs' = Settable(tabs, stack[Len(stack) - 2].v, stack[Len(stack) - 1], Top)
    PROVE  PopOn(pb, tabs, std, stack, old, open, tabs', stack', Pop(open, 1))
<1>1. AllRight(pb, tabs, std) /\ OpenOn(pb, tabs, stack, old, std, open) /\ Slots(stack, old, open)
  BY DEF Copies, OpenOn
<1>2. old \in Nat /\ stack \in Seq(Values(Len(tabs))) /\ Len(stack) \in Nat BY DEF WInv, HeapOK
<1>3. stack[Len(stack) - 2].v = open[Len(open) - 1] /\ Top = Val("table", open[Len(open)])
  BY <1>1, <1>2, BelowTop DEF Top
<1>4. Len(stack') = Len(stack) - 2 /\ \A j \in 1 .. Len(stack) - 2 : stack'[j] = stack[j]
  <2>1. Len(stack) = old + 2 * Len(open) - 1 BY <1>1 DEF Slots
  <2>2. 2 \in 0 .. Len(stack) BY <1>2, <2>1
  <2> QED BY <1>2, <2>2, PopType
<1> QED BY <1>1, <1>2, <1>3, <1>4 DEF PopOn

LEMMA CloseArrayCopies ==
    ASSUME WInv, wframes # <<>>, CloseArray, UNCHANGED bridge, NEW std, NEW open, Copies(std, open)
    PROVE  \E std2, open2 : Copies(std2, open2)'
<1>1. /\ W.next <= Len(Fields[W.type]) /\ WField.rep /\ W.loop > 0 /\ W.loop = Len(WValue)
      /\ tabs' = Settable(tabs, stack[Len(stack) - 2].v, stack[Len(stack) - 1], Top)
      /\ stack' = Pop(stack, 2) /\ wframes' = SetTop(NextField) /\ pb' = pb BY DEF CloseArray
<1>2. PICK w : TopIs(std, open, w) BY TopFacts
<1>3. /\ W \in WSet /\ Len(open) = w + 1 /\ w \in Nat /\ w >= 1 /\ old' = old
      /\ std[open[w + 1]] = Role(W.type, W.obj, W.next) /\ Len(tabs[open[w + 1]]) = W.loop
  BY <1>1, <1>2, OldKept DEF TopIs
<1>4. Full(pb, tabs, std, open[Len(open)]) BY <1>1, <1>3, ArrayRole DEF Full
<1> PICK open2 : open2 = Pop(open, 1) OBVIOUS
<1>5. PopOn(pb, tabs, std, stack, old, open, tabs', stack', open2) BY <1>1, <1>3, <1>4, ClosedTable
<1>6. /\ AllRight(pb, tabs', std) /\ OpenOn(pb, tabs', stack', old, std, open2)
      /\ Len(open) \in Nat /\ Len(open2) = Len(open) - 1
      /\ \A i \in 1 .. Len(open) - 1 : open2[i] = open[i]
      /\ \A i \in 1 .. Len(open) - 2 : tabs'[open[i]] = tabs[open[i]]
      /\ Len(tabs'[open[Len(open) - 1]]) = Len(tabs[open[Len(open) - 1]]) + 1 BY ONLY <1>5, OpenPop
<1>7. Len(open) - 1 = w /\ Len(open) - 2 = w - 1 /\ w \in 1 .. w /\ \A j \in 1 .. w - 1 : j \in 1 .. w
  BY <1>3
<1>8. Written(w, std, open, tabs', std, open2) BY <1>2, <1>3, <1>6, <1>7 DEF Written, Copies
<1> QED BY <1>1, <1>3, <1>8, WrittenCopies

----------------------------------------------------------------------------
\* An element of an array, the array's table being the one on top.
LEMMA OneEmpty == ASSUME NEW S, NEW s \in Seq(S), NEW e \in S PROVE s \o [i \in 1 .. 1 |-> e] = Append(s, e)
OBVIOUS

LEMMA TwoEmpty == ASSUME NEW S, NEW s \in Seq(S), NEW e \in S PROVE s \o [i \in 1 .. 2 |-> e] = Append(Append(s, e), e)
<1>1. [i \in 1 .. 2 |-> e] = <<e, e>> OBVIOUS
<1>2. /\ s \o <<e, e>> \in Seq(S) /\ Len(s \o <<e, e>>) = Len(s) + 2
      /\ (s \o <<e, e>>)[Len(s) + 1] = e /\ (s \o <<e, e>>)[Len(s) + 2] = e
      /\ \A i \in 1 .. Len(s) : (s \o <<e, e>>)[i] = s[i] BY PushTwo
<1> PICK a, b, c : a = Append(s, e) /\ b = Append(a, e) /\ c = s \o <<e, e>> OBVIOUS
<1>3. a \in Seq(S) /\ Len(a) = Len(s) + 1 /\ a[Len(s) + 1] = e /\ \A i \in 1 .. Len(s) : a[i] = s[i]
  OBVIOUS
<1>4. b \in Seq(S) /\ Len(b) = Len(a) + 1 /\ b[Len(a) + 1] = e /\ \A i \in 1 .. Len(a) : b[i] = a[i]
  BY <1>3, AppendIs
<1>5. Len(s) \in Nat /\ Len(b) = Len(c) BY <1>2, <1>3, <1>4
<1>6. \A i \in 1 .. Len(b) : b[i] = c[i]
  <2> TAKE i \in 1 .. Len(b)
  <2>1. i \in 1 .. Len(s) \/ i = Len(s) + 1 \/ i = Len(s) + 2 BY <1>3, <1>4, <1>5
  <2>2. CASE i \in 1 .. Len(s) BY <1>2, <1>3, <1>5, <2>2, <1>4
  <2>3. CASE i = Len(s) + 1 BY <1>2, <1>3, <1>5, <2>3, <1>4
  <2>4. CASE i = Len(s) + 2 BY <1>2, <1>3, <1>5, <2>4, <1>4
  <2> QED BY <2>1, <2>2, <2>3, <2>4
<1>7. b = c BY <1>2, <1>4, <1>5, <1>6, SeqEqual
<1> QED BY <1>1, <1>7

LEMMA ElementCopies ==
    ASSUME WInv, wframes # <<>>, OpenElement, UNCHANGED bridge,
           NEW heap, NEW std, NEW st, NEW open, NEW w, ElementReady(heap, std, st, open, w)
    PROVE  \E std2, open2 : Copies(std2, open2)'
<1>0. PICK m, obj, z, key, ref : /\ m = Len(heap) /\ obj = WValue[W.loop + 1] /\ z = Role(WField.sub, obj, 0)
                                 /\ key = Val("number", W.loop + 1) /\ ref = Val("table", m + 1)
  OBVIOUS
<1>z. z.type = WField.sub /\ z.obj = obj /\ z.field = 0 BY <1>0, RoleIs
<1> PICK g : g = [W EXCEPT !.loop = @ + 1] OBVIOUS
<1>1. /\ W.next <= Len(Fields[W.type]) /\ WField.rep /\ WField.kind = "message"
      /\ W.loop < Len(WValue) /\ pb' = pb
      /\ wframes' = Append(SetTop(g), WFrame(z.type, z.obj, Len(stack'), TRUE))
  BY <1>0, <1>z DEF OpenElement
<1>2. W \in WSet /\ W.loop \in Nat /\ pb \in Requests BY FrameToLua DEF WSet
<1>3. /\ g \in WSet /\ g.type = W.type /\ g.obj = W.obj /\ g.at = W.at /\ g.next = W.next /\ g.loop = W.loop + 1 /\ g.loop > 0
  BY <1>2 DEF WSet
<1>4. /\ Rooted(std)
      /\ AllRight(pb, heap, std) /\ IsSeq(heap) /\ OpenOn(pb, heap, st, old, std, open) /\ old \in Nat
      /\ w \in Nat /\ w >= 1 /\ Len(open) = w + 1 /\ W.at = old + 2 * w - 1
      /\ std[open[w]] = Role(W.type, W.obj, 0) /\ Len(heap[open[w]]) = W.next - 1
      /\ std[open[w + 1]] = Role(W.type, W.obj, W.next) /\ Len(heap[open[w + 1]]) = W.loop
      /\ \A k \in 1 .. Len(wframes) - 1 : \E i \in 1 .. Len(open) : BelowAt(heap, std, open, old, wframes[k], i)
      /\ tabs' = Append(heap, <<>>) /\ Grown(st, stack', key, ref) BY <1>0, Zenon DEF ElementReady
<1>5. RoleOK(pb, z) /\ 0 <= Width(pb, z)
  <2>1. WField.sub \in Types /\ Len(WValue) \in Nat /\ \A j \in 1 .. Len(WValue) : Fits(pb, WField, WValue[j])
    BY <1>1, ValueToLua
  <2>2. W.loop + 1 \in 1 .. Len(WValue) BY <1>1, <1>2, <2>1
  <2>3. Fits(pb, WField, obj) BY <1>0, <2>1, <2>2
  <2>4. obj \in Nat /\ (obj # 0 => obj \in 1 .. Len(pb) /\ pb[obj].type = WField.sub)
    BY <1>1, <1>2, <2>3, FitsRef
  <2> QED BY <1>0, <2>1, <2>4, NewRole
<1> PICK std2, open2 : std2 = Append(std, z) /\ open2 = Append(open, m + 1) OBVIOUS
<1>6. m \in Nat /\ Len(std2) = m + 1 /\ std2[m + 1] = z /\ \A r \in 1 .. m : std2[r] = std[r]
  BY <1>0, <1>4, <1>5 DEF AllRight, RoleOK
<1>7. open[w + 1] \in 1 .. m
  <2>1. open \in Seq(1 .. m) /\ w + 1 \in 1 .. Len(open) BY <1>0, <1>4 DEF OpenOn
  <2> QED BY <2>1, ElementOf
<1>8. NextPairOf(pb, heap, std2, open[Len(open)], key, ref)
  <2> PICK y : y = Role(W.type, W.obj, W.next) OBVIOUS
  <2>1. /\ Width(pb, y) = Len(WValue) /\ Len(WValue) \in Nat /\ \A j : KeyOf(y, j) = Val("number", j)
        /\ \A s, j, x : PairOf(pb, s, y, j, x) <=> Stands(s, WField, x, WValue[j])
    BY <1>1, ArrayRole
  <2>2. std2[open[Len(open)]] = y /\ Len(heap[open[Len(open)]]) = W.loop BY <1>4, <1>6, <1>7
  <2>3. W.loop + 1 <= Len(WValue) BY <1>1, <1>2, <2>1
  <2>4. IsFor(std2, ref, z) BY <1>0, <1>6 DEF IsFor, Val
  <2>5. Stands(std2, WField, ref, WValue[W.loop + 1]) BY <1>0, <1>1, <2>4 DEF Stands
  <2>6. PairOf(pb, std2, y, W.loop + 1, ref) /\ key = KeyOf(y, W.loop + 1) BY <1>0, <2>1, <2>5
  <2> QED BY <2>1, <2>2, <2>3, <2>6 DEF NextPairOf
<1>9. PushOn(pb, heap, std, st, old, open, key, z, tabs', std2, stack', open2)
  BY <1>0, <1>4, <1>5, <1>8 DEF PushOn
<1>10. BelowAt(heap, std, open, old, g, w)
  <2>1. W.loop = g.loop - 1 /\ w < Len(open) BY <1>2, <1>3, <1>4
  <2> QED BY <1>3, <1>4, <2>1 DEF BelowAt
<1>11. Entered(heap, std, st, open, g, key, z, std2, open2)
  <2>1. w \in 1 .. Len(open) BY <1>4
  <2> QED BY <1>0, <1>1, <1>3, <1>4, <1>9, <1>10, <1>z, <2>1, Zenon DEF Entered
<1> QED BY <1>1, <1>11, EnterCopies, OldKept

\* The first element finds the array's table not yet there.
LEMMA FirstElement ==
    ASSUME WInv, wframes # <<>>, OpenElement, W.loop = 0, NEW std, NEW open, Copies(std, open)
    PROVE  \E heap2, std2, st2, open2, w : ElementReady(heap2, std2, st2, open2, w)
<1>0. PICK m, z, ref, key : /\ m = Len(tabs) /\ z = Role(W.type, W.obj, W.next) /\ ref = Val("table", m + 1)
                            /\ key = Val("number", W.loop + 1) OBVIOUS
<1>1. /\ W.next <= Len(Fields[W.type]) /\ WField.rep /\ WField.kind = "message"
      /\ tabs' = tabs \o [i \in 1 .. 2 |-> <<>>]
      /\ stack' = stack \o <<Name(WField), ref>> \o <<key, Val("table", Len(tabs'))>>
  BY <1>0 DEF OpenElement, Opened
<1>2. PICK w : TopIs(std, open, w) BY TopFacts
<1>3. /\ W \in WSet /\ w = Len(open) /\ w \in Nat /\ w >= 1 /\ w \in 1 .. Len(open) /\ old \in Nat
      /\ W.at = old + 2 * w - 1 /\ std[open[w]] = Role(W.type, W.obj, 0) /\ Len(tabs[open[w]]) = W.next - 1
  BY <1>2 DEF TopIs
<1>4. IsSeq(tabs) /\ m \in Nat /\ tabs \in Seq(Seq(Pairs(m))) /\ stack \in Seq(Values(m)) /\ Len(stack) \in Nat
  BY <1>0, TabsSeq DEF WInv, HeapOK
<1>5. RoleOK(pb, z) /\ 0 <= Width(pb, z) BY <1>0, <1>1, ArrayRole
<1> PICK std1, open1, mid, st1 : /\ std1 = Append(std, z) /\ open1 = Append(open, m + 1) /\ mid = Append(tabs, <<>>)
                                 /\ st1 = stack \o <<Name(WField), ref>> OBVIOUS
<1>6. AllRight(pb, tabs, std) /\ OpenOn(pb, tabs, stack, old, std, open) BY DEF Copies
<1>7. std1[m + 1] = z /\ Len(std1) = m + 1 /\ \A r \in 1 .. m : std1[r] = std[r]
  BY <1>0, <1>5, <1>6, <1>4 DEF AllRight, RoleOK
<1>8. \A i \in 1 .. Len(open) : open[i] \in 1 .. m BY <1>0, <1>6, ElementOf DEF OpenOn
<1>9. NextPairOf(pb, tabs, std1, open[w], Name(WField), ref)
  <2>1. IsFor(std1, ref, z) BY <1>0, <1>4, <1>7 DEF IsFor, Val
  <2>2. std1[open[w]] = std[open[w]] BY <1>3, <1>7, <1>8
  <2> QED BY <1>0, <1>1, <1>2, <2>1, <2>2, RowOf
<1>10. /\ stack \in Seq(Values(m + 2)) /\ Name(WField) \in Values(m + 2) /\ ref \in Values(m + 2)
       /\ Val("table", m + 2) \in Values(m + 2) /\ key \in Values(m + 2) /\ m + 1 \in Nat /\ m + 2 \in Nat
  BY <1>4, HeapMono, <1>1, ValueToLua, <1>0, TableValue, PlainValue
<1>11. /\ st1 \in Seq(Values(m + 2)) /\ Len(st1) = Len(stack) + 2
       /\ Grown(stack, st1, Name(WField), ref) BY <1>4, <1>10, PushTwo DEF Grown
<1>12. PushOn(pb, tabs, std, stack, old, open, Name(WField), z, mid, std1, st1, open1)
  BY <1>0, <1>3, <1>4, <1>5, <1>6, <1>9, <1>11 DEF PushOn
<1>13. /\ AllRight(pb, mid, std1) /\ OpenOn(pb, mid, st1, old, std1, open1)
       /\ Len(mid) = m + 1 /\ mid[m + 1] = <<>> /\ Len(open1) = w + 1 /\ open1[w + 1] = m + 1
       /\ \A i \in 1 .. w : open1[i] = open[i]
       /\ \A q \in 1 .. m : mid[q] = tabs[q] /\ std1[q] = std[q]
  <2>1. m = Len(tabs) /\ w = Len(open) BY <1>0, <1>3
  <2> QED BY ONLY <1>12, <2>1, OpenPush
<1>14. Beyond(tabs, std, open, mid, std1, open1) BY ONLY <1>12, PushBeyond
<1>15. \A k \in 1 .. Len(wframes) - 1 : \E i \in 1 .. Len(open1) : BelowAt(mid, std1, open1, old, wframes[k], i)
  BY <1>14, BelowMono DEF Copies
<1>16. tabs' = Append(mid, <<>>) /\ IsSeq(mid) /\ Len(tabs') = m + 2
  <2>1. <<>> \in Seq(Pairs(m)) OBVIOUS
  <2>2. mid \in Seq(Seq(Pairs(m))) BY <1>4, <2>1
  <2>3. tabs' = Append(mid, <<>>) BY <1>1, <1>4, <2>1, TwoEmpty
  <2>4. Len(tabs') = Len(mid) + 1 BY <2>1, <2>2, <2>3
  <2>5. Len(mid) = m + 1 /\ m \in Nat BY <1>4, <1>13
  <2>6. Len(mid) + 1 = m + 2 BY ONLY <2>5
  <2>7. IsSeq(mid) BY <2>2, Zenon DEF IsSeq
  <2> QED BY <2>3, <2>4, <2>6, <2>7
<1>17. Grown(st1, stack', key, Val("table", Len(mid) + 1))
  <2>1. stack' = st1 \o <<key, Val("table", m + 2)>> /\ Len(mid) + 1 = m + 2
    <3>1. Len(mid) = m + 1 /\ m \in Nat BY <1>4, <1>13
    <3>2. Len(mid) + 1 = m + 2 BY ONLY <3>1
    <3>3. stack' = st1 \o <<key, Val("table", Len(tabs'))>> BY <1>1
    <3> QED BY <1>16, <3>2, <3>3
  <2> QED BY <1>4, <1>10, <1>11, <2>1, PushTwo DEF Grown
<1>18. std1[open1[w]] = Role(W.type, W.obj, 0) /\ Len(mid[open1[w]]) = W.next - 1
  <2>1. open1[w] = open[w] /\ open[w] \in 1 .. m BY <1>3, <1>8, <1>13
  <2> QED BY <1>3, <1>13, <2>1
<1>19. std1[open1[w + 1]] = Role(W.type, W.obj, W.next) /\ Len(mid[open1[w + 1]]) = W.loop
  BY <1>0, <1>7, <1>13
<1>20. ElementReady(mid, std1, st1, open1, w)
  <2>1. Rooted(std1) BY <1>5, <1>6, RootedMore DEF AllRight, RoleOK, Copies
  <2> QED BY <1>0, <1>3, <1>13, <1>15, <1>16, <1>17, <1>18, <1>19, <2>1, Zenon DEF ElementReady
<1> QED BY <1>20

LEMMA OtherElement ==
    ASSUME WInv, wframes # <<>>, OpenElement, W.loop # 0, NEW std, NEW open, Copies(std, open)
    PROVE  \E w : ElementReady(tabs, std, stack, open, w)
<1>0. PICK m, key : m = Len(tabs) /\ key = Val("number", W.loop + 1) OBVIOUS
<1>1. /\ W.next <= Len(Fields[W.type]) /\ WField.rep
      /\ tabs' = tabs \o [i \in 1 .. 1 |-> <<>>]
      /\ stack' = stack \o <<>> \o <<key, Val("table", Len(tabs'))>> BY <1>0 DEF OpenElement, Opened
<1>2. PICK w : TopIs(std, open, w) BY TopFacts
<1>3. W \in WSet /\ W.loop > 0 BY <1>2 DEF TopIs, WSet
<1>4. /\ Len(open) = w + 1 /\ w \in Nat /\ w >= 1 /\ old \in Nat
      /\ W.at = old + 2 * w - 1 /\ std[open[w]] = Role(W.type, W.obj, 0) /\ Len(tabs[open[w]]) = W.next - 1
      /\ std[open[w + 1]] = Role(W.type, W.obj, W.next) /\ Len(tabs[open[w + 1]]) = W.loop
  BY <1>2, <1>3 DEF TopIs
<1>5. IsSeq(tabs) /\ m \in Nat /\ tabs \in Seq(Seq(Pairs(m))) /\ stack \in Seq(Values(m)) /\ Len(stack) \in Nat
  BY <1>0, TabsSeq DEF WInv, HeapOK
<1>6. tabs' = Append(tabs, <<>>) /\ Len(tabs') = m + 1 BY <1>1, <1>5, OneEmpty, <1>0
<1>7. Grown(stack, stack', key, Val("table", m + 1))
  <2>1. m + 1 \in Nat /\ m <= m + 1 /\ m + 1 \in 1 .. m + 1 BY <1>5
  <2>2. stack \in Seq(Values(m + 1)) /\ Val("table", m + 1) \in Values(m + 1)
    BY <1>5, <2>1, HeapMono, TableValue
  <2>3. key \in Values(m + 1) BY <1>3, <1>0, PlainValue DEF WSet
  <2>4. stack' = stack \o <<key, Val("table", m + 1)>>
    <3>1. stack \o <<>> = stack BY <1>5, ConcatEmptySeq
    <3> QED BY <1>1, <1>6, <3>1
  <2> QED BY <1>5, <2>2, <2>3, <2>4, PushTwo DEF Grown
<1>8. /\ Rooted(std) /\ AllRight(pb, tabs, std) /\ OpenOn(pb, tabs, stack, old, std, open)
      /\ \A k \in 1 .. Len(wframes) - 1 : \E i \in 1 .. Len(open) : BelowAt(tabs, std, open, old, wframes[k], i)
  BY DEF Copies
<1>9. ElementReady(tabs, std, stack, open, w)
  BY <1>0, <1>4, <1>5, <1>6, <1>7, <1>8, Zenon DEF ElementReady
<1> QED BY <1>9

LEMMA OpenElementCopies ==
    ASSUME WInv, wframes # <<>>, OpenElement, UNCHANGED bridge, NEW std, NEW open, Copies(std, open)
    PROVE  \E std2, open2 : Copies(std2, open2)' BY FirstElement, OtherElement, ElementCopies

LEMMA TopIsDone ==
    ASSUME WInv, wframes # <<>>, W.next > Len(Fields[W.type]), NEW std, NEW open, NEW w, TopIs(std, open, w),
           AllRight(pb, tabs, std), open[w] \in 1 .. Len(tabs)
    PROVE  W.loop = 0 /\ Len(open) = w /\ Full(pb, tabs, std, open[w])
<1>1. /\ W \in WSet /\ w \in Nat /\ Len(tabs[open[w]]) = W.next - 1 /\ std[open[w]] = Role(W.type, W.obj, 0)
      /\ W.loop = 0 => Len(open) = w BY DEF TopIs
<1>2. W.next \in Nat /\ W.loop \in Nat /\ Len(Fields[W.type]) \in Nat /\ (W.loop > 0 => W.next <= Len(Fields[W.type]))
  BY <1>1, FrameToLua, FieldsAssumption DEF WSet
<1>3. W.loop = 0 BY <1>2
<1> PICK z : z = Role(W.type, W.obj, 0) OBVIOUS
<1>4. Width(pb, z) = Len(Fields[W.type]) BY RoleIs DEF Width
<1>5. Len(tabs[open[w]]) <= Width(pb, z) BY <1>1 DEF AllRight, Right
<1>6. Len(tabs[open[w]]) = Width(pb, z) BY <1>1, <1>2, <1>4, <1>5
<1> QED BY <1>1, <1>3, <1>6 DEF Full

LEMMA LastFrameDone ==
    ASSUME WInv, wframes # <<>>, CloseMessage, ~W.settable, UNCHANGED bridge, NEW std, NEW open, Copies(std, open)
    PROVE  wframes' = <<>> /\ Done(std)'
<1>1. W.next > Len(Fields[W.type]) /\ wframes' = Pop(wframes, 1) /\ pb' = pb /\ tabs' = tabs
  BY DEF CloseMessage
<1>2. Len(wframes) = 1 /\ wframes \in Seq(WSet) /\ W.at = old + 1 /\ old \in Nat
  <2>1. Len(wframes) \in Nat \ {0} /\ W.settable = (Len(wframes) > 1) /\ W = wframes[Len(wframes)]
    BY FrameToLua
  <2>a. ~(Len(wframes) > 1) BY <2>1, Zenon
  <2>2. Len(wframes) = 1 BY <2>1, <2>a
  <2> QED BY <2>1, <2>2 DEF WInv, WOK, HeapOK
<1>3. wframes' = <<>>
  <2>1. 1 \in 0 .. Len(wframes) BY <1>2
  <2>2. Pop(wframes, 1) \in Seq(WSet) /\ Len(Pop(wframes, 1)) = Len(wframes) - 1
    BY <1>2, <2>1, PopType
  <2>3. wframes' \in Seq(WSet) /\ Len(wframes') = 0 BY <1>1, <1>2, <2>2
  <2> QED BY <2>3
<1>4. PICK w : TopIs(std, open, w) BY TopFacts
<1>5. w \in Nat /\ w \in 1 .. Len(open) /\ W.at = old + 2 * w - 1 BY <1>4 DEF TopIs
<1>6. w = 1 BY <1>2, <1>5
<1>7. /\ Rooted(std) /\ Rooted(std)' /\ AllRight(pb, tabs, std) /\ open \in Seq(1 .. Len(tabs))
      /\ \A r \in 1 .. Len(tabs) : (\A i \in 1 .. Len(open) : open[i] # r) => Full(pb, tabs, std, r)
  BY <1>1 DEF Copies, OpenOn, Rooted
<1>8. open[w] \in 1 .. Len(tabs) BY <1>5, <1>7, ElementOf
<1>9. Len(open) = 1 /\ Full(pb, tabs, std, open[1]) BY <1>1, <1>4, <1>6, <1>7, <1>8, TopIsDone
<1>10. ASSUME NEW r \in 1 .. Len(tabs) PROVE Full(pb, tabs, std, r) BY <1>9, <1>7
<1> QED BY <1>1, <1>3, <1>7, <1>10 DEF Done

LEMMA CloseMessageCopies ==
    ASSUME WInv, wframes # <<>>, CloseMessage, W.settable, UNCHANGED bridge, NEW std, NEW open, Copies(std, open)
    PROVE  wframes' # <<>> /\ \E std2, open2 : Copies(std2, open2)'
<1>0. PICK n, f : n = Len(wframes) /\ f = wframes[n - 1] OBVIOUS
<1>1. /\ W.next > Len(Fields[W.type]) /\ wframes' = Pop(wframes, 1) /\ pb' = pb
      /\ tabs' = Settable(tabs, stack[Len(stack) - 2].v, stack[Len(stack) - 1], Top) /\ stack' = Pop(stack, 2)
  BY DEF CloseMessage
<1>2. n \in Nat /\ n > 1 /\ wframes \in Seq(WSet) /\ old' = old
  <2>1. n \in Nat \ {0} /\ n > 1 BY <1>0, FrameToLua
  <2> QED BY <2>1, OldKept DEF WInv, WOK
<1>3. /\ Len(wframes') = n - 1 /\ W' = f /\ wframes' # <<>>
      /\ \A k \in 1 .. n - 1 : wframes'[k] = wframes[k]
  <2>1. 1 \in 0 .. Len(wframes) /\ n - 1 \in 1 .. n - 1 /\ n - 1 # 0 BY <1>0, <1>2
  <2>2. Pop(wframes, 1) \in Seq(WSet) /\ Len(Pop(wframes, 1)) = Len(wframes) - 1
        /\ \A i \in 1 .. Len(wframes) - 1 : Pop(wframes, 1)[i] = wframes[i] BY <1>2, <2>1, PopType
  <2>3. Len(wframes') = n - 1 /\ \A k \in 1 .. n - 1 : wframes'[k] = wframes[k] BY <1>0, <1>1, <2>2
  <2>4. W' = f BY <1>0, <2>1, <2>3 DEF W
  <2> QED BY <2>1, <2>3, <2>4
<1>4. PICK w : TopIs(std, open, w) BY TopFacts
<1>5. /\ w \in Nat /\ w \in 1 .. Len(open) /\ W.at = old + 2 * w - 1 /\ old \in Nat
      /\ \A k \in 1 .. n - 1 : /\ wframes[k] \in WSet /\ wframes[k].at + Waits(wframes[k]) <= W.at
                               /\ \E i \in 1 .. Len(open) : BelowAt(tabs, std, open, old, wframes[k], i)
  BY <1>0, <1>4 DEF TopIs
<1>6. AllRight(pb, tabs, std) /\ open \in Seq(1 .. Len(tabs)) BY DEF Copies, OpenOn
<1>7. open[w] \in 1 .. Len(tabs) BY <1>5, <1>6, ElementOf
<1>8. W.loop = 0 /\ Len(open) = w /\ Full(pb, tabs, std, open[w])
  BY <1>1, <1>4, <1>6, <1>7, TopIsDone
\* the frame below and its place
<1>9. f \in WSet /\ f.at + Waits(f) = W.at BY <1>0, <1>2, <1>5 DEF WInv, ToLuaShape, W
<1>10. PICK v \in 1 .. Len(open) : BelowAt(tabs, std, open, old, f, v) BY <1>2, <1>0, <1>5
<1>11. /\ f.at = old + 2 * v - 1 /\ std[open[v]] = Role(f.type, f.obj, 0)
       /\ f.loop = 0 => Len(tabs[open[v]]) = f.next - 2
       /\ f.loop > 0 => /\ Len(tabs[open[v]]) = f.next - 1 /\ v < Len(open)
                        /\ std[open[v + 1]] = Role(f.type, f.obj, f.next) /\ Len(tabs[open[v + 1]]) = f.loop - 1
  BY <1>10, Zenon DEF BelowAt
<1>12. v \in Nat /\ v >= 1 /\ f.loop \in Nat /\ f.next \in Nat /\ w > 1 /\ v < w
       /\ (f.loop = 0 => v = w - 1) /\ (f.loop > 0 => v = w - 2)
  BY <1>5, <1>8, <1>9, <1>11 DEF WSet, Waits
<1> PICK open2 : open2 = Pop(open, 1) OBVIOUS
<1>13. PopOn(pb, tabs, std, stack, old, open, tabs', stack', open2)
  BY <1>1, <1>8, <1>12, ClosedTable
<1>14. /\ AllRight(pb, tabs', std) /\ OpenOn(pb, tabs', stack', old, std, open2)
       /\ Len(open2) = w - 1
       /\ \A i \in 1 .. w - 1 : open2[i] = open[i]
       /\ \A i \in 1 .. w - 2 : tabs'[open[i]] = tabs[open[i]]
       /\ Len(tabs'[open[w - 1]]) = Len(tabs[open[w - 1]]) + 1
       /\ Len(tabs[open[w - 1]]) \in Nat
  <2>1. /\ AllRight(pb, tabs', std) /\ OpenOn(pb, tabs', stack', old, std, open2)
        /\ Len(open2) = Len(open) - 1
        /\ \A i \in 1 .. Len(open) - 1 : open2[i] = open[i]
        /\ \A i \in 1 .. Len(open) - 2 : tabs'[open[i]] = tabs[open[i]]
        /\ Len(tabs[open[Len(open) - 1]]) \in Nat
        /\ Len(tabs'[open[Len(open) - 1]]) = Len(tabs[open[Len(open) - 1]]) + 1
    BY ONLY <1>13, OpenPop
  <2>2. w = Len(open) BY <1>8
  <2> QED BY <2>1, <2>2
<1>15. TopAt(tabs', std, open2, old, f, v)
  <2>1. CASE f.loop = 0
    <3>1. v = w - 1 /\ v \in 1 .. w - 1 /\ open2[v] = open[v] BY <1>12, <1>14, <2>1
    <3>2. Len(tabs'[open[v]]) = f.next - 1
      <4>1. Len(tabs'[open[v]]) = Len(tabs[open[v]]) + 1 BY <1>14, <3>1
      <4>2. Len(tabs[open[v]]) = f.next - 2 /\ f.next \in Nat BY <1>11, <1>12, <2>1
      <4> QED BY ONLY <4>1, <4>2
    <3> QED BY <1>11, <2>1, <3>1, <3>2 DEF TopAt
  <2>2. CASE f.loop > 0
    <3>1. v = w - 2 /\ v \in 1 .. w - 1 /\ v \in 1 .. w - 2 /\ v + 1 \in 1 .. w - 1 /\ v + 1 = w - 1
      BY <1>5, <1>12, <2>2
    <3>2. open2[v] = open[v] /\ open2[v + 1] = open[v + 1] /\ v < Len(open2) /\ tabs'[open[v]] = tabs[open[v]]
      BY <1>14, <3>1
    <3>3. Len(tabs'[open[v + 1]]) = f.loop
      <4>1. Len(tabs'[open[v + 1]]) = Len(tabs[open[v + 1]]) + 1 BY <1>14, <3>1
      <4>2. Len(tabs[open[v + 1]]) = f.loop - 1 /\ f.loop \in Nat BY <1>11, <1>12, <2>2
      <4> QED BY ONLY <4>1, <4>2
    <3> QED BY <1>11, <2>2, <3>1, <3>2, <3>3 DEF TopAt
  <2> QED BY <1>12, <2>1, <2>2
<1>16. ASSUME NEW k \in 1 .. n - 2
       PROVE  \E i \in 1 .. Len(open2) : BelowAt(tabs', std, open2, old, wframes[k], i)
  <2>1. k \in 1 .. n - 1 /\ k < n - 1 /\ n - 1 \in 1 .. n /\ k \in 1 .. n BY <1>2
  <2>2. PICK i \in 1 .. Len(open) : BelowAt(tabs, std, open, old, wframes[k], i) BY <1>5, <2>1
  <2> PICK e : e = wframes[k] OBVIOUS
  <2>3. e \in WSet /\ e.at + Waits(e) <= f.at
    <3>1. wframes[k].at + Waits(wframes[k]) <= wframes[n - 1].at BY <1>0, <2>1 DEF WInv, WOK
    <3> QED BY <1>0, <1>5, <2>1, <3>1
  <2>4. /\ e.at = old + 2 * i - 1 /\ std[open[i]] = Role(e.type, e.obj, 0)
        /\ e.loop = 0 => Len(tabs[open[i]]) = e.next - 2
        /\ e.loop > 0 => /\ Len(tabs[open[i]]) = e.next - 1 /\ i < Len(open)
                         /\ std[open[i + 1]] = Role(e.type, e.obj, e.next) /\ Len(tabs[open[i + 1]]) = e.loop - 1
    BY <2>2, Zenon DEF BelowAt
  <2>5. i \in Nat /\ i >= 1 /\ e.loop \in Nat BY <1>5, <1>8, <2>3 DEF WSet
  <2>6. (e.loop = 0 => Waits(e) = 2) /\ (e.loop > 0 => Waits(e) = 4) BY <2>5 DEF Waits
  <2>7. i + 1 <= v /\ (e.loop > 0 => i + 2 <= v) BY <1>5, <1>11, <1>12, <2>3, <2>4, <2>5, <2>6
  \* the table that changed is v's own, or that of v's array
  <2>8. i \in 1 .. w - 2 /\ i \in 1 .. w - 1 /\ i \in 1 .. Len(open2)
    BY <1>5, <1>12, <1>14, <2>5, <2>7
  <2>9. e.loop > 0 => i + 1 \in 1 .. w - 2 /\ i + 1 \in 1 .. w - 1 /\ i < Len(open2)
    BY <1>5, <1>12, <1>14, <2>5, <2>7
  <2>10. BelowAt(tabs', std, open2, old, e, i) BY <1>14, <2>4, <2>8, <2>9, Zenon DEF BelowAt
  <2> QED BY <2>8, <2>10
<1>17. \A k \in 1 .. Len(wframes') - 1 : \E i \in 1 .. Len(open2) : BelowAt(tabs', std, open2, old, wframes'[k], i)
  <2> TAKE k \in 1 .. Len(wframes') - 1
  <2>1. k \in 1 .. n - 2 /\ k \in 1 .. n - 1 BY <1>2, <1>3
  <2> QED BY <1>3, <1>16, <2>1
<1>18. v \in 1 .. Len(open2) BY <1>5, <1>12, <1>14
<1>19. Copies(std, open2)' BY <1>1, <1>2, <1>3, <1>14, <1>15, <1>17, <1>18, CopiesThen DEF Copies
<1> QED BY <1>3, <1>19

LEMMA SetTopStays == ASSUME WInv, wframes # <<>>, NEW f \in WSet, wframes' = SetTop(f) PROVE wframes' # <<>>
BY SetTopType DEF WInv, WOK

LEMMA ToLuaConverts == ASSUME WInv, WInv', ToLuaStep, UNCHANGED bridge, Converting PROVE Converting'
<1>1. wframes # <<>> BY DEF ToLuaStep
<1>2. PICK std, open : Copies(std, open) BY <1>1 DEF Converting
<1>3. CASE CloseMessage /\ W.settable BY <1>1, <1>2, <1>3, CloseMessageCopies DEF Converting
<1>4. CASE CloseMessage /\ ~W.settable BY <1>1, <1>2, <1>4, LastFrameDone DEF Converting
<1>5. CASE WriteScalar \/ OpenMessage \/ WriteArray \/ OpenElement \/ CloseArray
  <2>1. wframes' # <<>>
    <3>1. W \in WSet /\ NextField \in WSet /\ wframes \in Seq(WSet)
      BY <1>1, FrameToLua, NextFrame DEF WInv, WOK
    <3>2. CASE WriteScalar \/ WriteArray \/ CloseArray
      BY <1>1, <3>1, <3>2, SetTopStays DEF WriteScalar, WriteArray, CloseArray
    <3>3. CASE OpenMessage \/ OpenElement
      <4>1. \E s, h : wframes' = Append(s, h) BY <3>3 DEF OpenMessage, OpenElement
      <4> QED BY <4>1
    <3> QED BY <1>5, <3>2, <3>3
  <2>2. \E std2, open2 : Copies(std2, open2)'
    BY <1>1, <1>2, WriteScalarCopies, OpenMessageCopies, WriteArrayCopies, OpenElementCopies, CloseArrayCopies, <1>5
  <2> QED BY <2>1, <2>2 DEF Converting
<1>6. W.settable \in BOOLEAN BY <1>1, FrameToLua DEF WSet
<1> QED BY <1>3, <1>4, <1>5, <1>6 DEF ToLuaStep

----------------------------------------------------------------------------
\* Where it starts: a table for a message, in front of it the tables of before.
LEMMA StartCopies ==
    ASSUME HeapOK, NEW std, AllRight(pb, tabs, std), \A r \in 1 .. Len(tabs) : Full(pb, tabs, std, r),
           NEW T \in Types, NEW p \in Nat, p # 0 => p \in 1 .. Len(pb) /\ pb[p].type = T,
           NEW S, NEW lua \in Seq(S), StartToLua(T, p, lua), old' = Len(lua), pb' = pb,
           NEW std2, std2 = Append(std, Role(T, p, 0)), Rooted(std2), NEW open, open = <<Len(tabs) + 1>>
    PROVE  wframes' # <<>> /\ Copies(std2, open)'
<1>0. PICK z, h : z = Role(T, p, 0) /\ h = WFrame(T, p, Len(stack'), FALSE) OBVIOUS
<1>1. stack' = Append(lua, Val("table", Len(tabs) + 1)) /\ tabs' = Append(tabs, <<>>) /\ wframes' = <<h>>
  BY <1>0 DEF StartToLua
<1>2. Len(lua) \in Nat /\ Len(stack') = Len(lua) + 1 /\ stack'[Len(lua) + 1] = Val("table", Len(tabs) + 1)
  BY AppendIs, <1>1
<1>3. IsSeq(tabs) /\ Len(tabs) \in Nat BY TabsSeq
<1>4. RoleOK(pb, z) /\ 0 <= Width(pb, z) BY <1>0, NewRole
<1>5. /\ AllRight(pb, tabs', std2) /\ OpenOn(pb, tabs', stack', Len(lua), std2, open)
      /\ Len(tabs') = Len(tabs) + 1 /\ std2[Len(tabs) + 1] = z /\ tabs'[Len(tabs) + 1] = <<>>
  <2>1. FirstOn(pb, tabs, std, Len(lua), z, std2, tabs', stack', open)
    BY <1>0, <1>1, <1>2, <1>3, <1>4 DEF FirstOn
  <2> QED BY ONLY <2>1, OpenFirst
<1>6. open[1] = Len(tabs) + 1 /\ Len(open) = 1 BY <1>0
<1>7. TopAt(tabs', std2, open, old', h, 1)
  <2>1. h.type = T /\ h.obj = p /\ h.at = Len(stack') /\ h.next = 1 /\ h.loop = 0 BY <1>0 DEF WFrame
  <2>2. Len(tabs'[open[1]]) = 1 - 1 /\ std2[open[1]] = Role(T, p, 0)
    <3>1. Len(<<>>) = 0 OBVIOUS
    <3>2. tabs'[open[1]] = <<>> /\ std2[open[1]] = z BY <1>5, <1>6, Zenon
    <3>3. Len(tabs'[open[1]]) = 1 - 1 BY ONLY <3>1, <3>2
    <3>4. std2[open[1]] = Role(T, p, 0) BY ONLY <1>0, <3>2
    <3> QED BY <3>3, <3>4, Zenon
  <2>3. h.at = old' + 2 * 1 - 1 BY <1>2, <2>1
  <2>4. Len(tabs'[open[1]]) = h.next - 1 /\ ~(h.loop > 0) /\ std2[open[1]] = Role(h.type, h.obj, 0)
    <3>1. Len(tabs'[open[1]]) = h.next - 1 /\ ~(h.loop > 0) BY ONLY <2>1, <2>2
    <3>2. std2[open[1]] = Role(h.type, h.obj, 0) BY ONLY <2>1, <2>2
    <3> QED BY <3>1, <3>2, Zenon
  <2> QED BY <2>3, <2>4 DEF TopAt
<1>8. Len(wframes') = 1 /\ W' = h /\ wframes' # <<>> BY <1>1 DEF W
<1>9. Rooted(std2)' BY DEF Rooted
<1>10. \A k \in 1 .. Len(wframes') - 1 : FALSE BY <1>8
<1>11. Copies(std2, open)' BY <1>5, <1>6, <1>7, <1>8, <1>9, <1>10 DEF Copies
<1> QED BY <1>0, <1>8, <1>11

LEMMA ReceiveConverts == ASSUME IInv, exe_OnLuaVMRecvMessage, tabs = <<>> PROVE Converting'
<1>1. pb \in Requests /\ StartToLua(pb[1].type, 1, Arguments) /\ old' = Len(Arguments) /\ pb' = pb /\ HeapOK
  BY DEF exe_OnLuaVMRecvMessage, IInv, PhaseOK, Before
<1>2. 1 \in 1 .. Len(pb) /\ pb[1].type \in Types BY <1>1, RequestsAssumption DEF IsHeap
<1> DEFINE z == Role(pb[1].type, 1, 0)
<1>3. z \in RoleSet BY <1>2 DEF Role, RoleSet
<1> PICK std2 : std2 = Append(<<>>, z) OBVIOUS
<1>4. std2 = <<z>> /\ Len(std2) = 1 /\ std2[1] = z OBVIOUS
<1>5. Rooted(std2) BY <1>4 DEF Rooted
<1>6. AllRight(pb, tabs, <<>>) /\ Len(tabs) = 0 BY DEF AllRight
<1>7. Arguments \in Seq({Arguments[i] : i \in 1 .. 8}) BY DEF Arguments
<1>8. \A r \in 1 .. Len(tabs) : Full(pb, tabs, <<>>, r) BY <1>6
<1> PICK open : open = <<Len(tabs) + 1>> OBVIOUS
<1>9. wframes' # <<>> /\ Copies(std2, open)' BY <1>1, <1>2, <1>5, <1>6, <1>7, <1>8, StartCopies
<1> QED BY <1>9, Zenon DEF Converting

LEMMA CreateConverts ==
    ASSUME IInv, NEW T \in Types, CreateNewProtobufByCmd(T), NEW std, Done(std), T \in Registered
    PROVE  Converting'
<1>1. StartToLua(T, 0, <<>>) /\ old' = 0 /\ pb' = pb /\ HeapOK BY DEF CreateNewProtobufByCmd, IInv
<1>2. Rooted(std) /\ AllRight(pb, tabs, std) /\ \A r \in 1 .. Len(tabs) : Full(pb, tabs, std, r)
  BY DEF Done
<1> PICK std2 : std2 = Append(std, Role(T, 0, 0)) OBVIOUS
<1>3. Rooted(std2)
  <2>1. std \in Seq(RoleSet) /\ Role(T, 0, 0) \in RoleSet BY <1>2 DEF AllRight, Role, RoleSet
  <2> QED BY <1>2, <2>1, RootedMore
<1>4. <<>> \in Seq({}) /\ Len(<<>>) = 0 OBVIOUS
<1> PICK open : open = <<Len(tabs) + 1>> OBVIOUS
<1>5. wframes' # <<>> /\ Copies(std2, open)' BY <1>1, <1>2, <1>3, <1>4, StartCopies
<1> QED BY <1>5, Zenon DEF Converting

\* No key comes twice in a table of a conversion.
LEMMA RightUnique == ASSUME NEW std, AllRight(pb, tabs, std) PROVE UniqueKeys
<1> SUFFICES ASSUME NEW r \in 1 .. Len(tabs), NEW i \in 1 .. Len(tabs[r]), NEW j \in 1 .. Len(tabs[r]),
                    tabs[r][i][1] = tabs[r][j][1]
             PROVE  i = j BY DEF UniqueKeys, Uniq
<1> PICK z : z = std[r] OBVIOUS
<1>1. RoleOK(pb, z) /\ Right(pb, std, z, tabs[r]) BY DEF AllRight
<1>2. KeyOf(z, i) = KeyOf(z, j) /\ Len(tabs[r]) <= Width(pb, z) BY <1>1, Zenon DEF Right
<1>3. CASE z.field # 0 BY <1>2, <1>3 DEF KeyOf, Val
<1>4. CASE z.field = 0
  <2>1. Fields[z.type][i].name = Fields[z.type][j].name /\ Len(tabs[r]) <= Len(Fields[z.type])
    BY <1>2, <1>4 DEF KeyOf, Name, Val, Width
  <2>2. z.type \in Types /\ Len(Fields[z.type]) \in Nat
    BY <1>1, FieldsAssumption DEF RoleOK, RoleSet
  <2>3. Len(tabs[r]) \in Nat BY <1>1 DEF Right, IsSeq
  <2>4. i \in 1 .. Len(Fields[z.type]) /\ j \in 1 .. Len(Fields[z.type]) BY <2>1, <2>2, <2>3
  <2> QED BY <2>1, <2>2, <2>4, NamesAssumption
<1> QED BY <1>3, <1>4

LEMMA ScalarNotNil ==
    ASSUME NEW kind \in Scalars, NEW v, v \in RangeOf(kind) PROVE ScalarTo(kind, v) # LuaNil
BY DEF RangeOf, ScalarTo, LuaNil, Val, Scalars, Int64To

\* What a field of a message, or of the default one, holds.
LEMMA FromFits ==
    ASSUME NEW msgs \in Requests, NEW T \in Types, NEW p, p # 0 => p \in 1 .. Len(msgs) /\ msgs[p].type = T,
           NEW i \in 1 .. Len(Fields[T]), NEW field, field = Fields[T][i], NEW x, x = From(msgs, T, p)[i]
    PROVE  /\ field \in FieldSet
           /\ field.rep => Len(x) \in Nat /\ \A j \in 1 .. Len(x) : Fits(msgs, field, x[j])
           /\ ~field.rep => Fits(msgs, field, x) \/ (field.kind = "message" /\ x = 0)
<1>1. field \in FieldSet BY FieldsAssumption
<1>2. CASE p # 0 BY RequestsAssumption, <1>1, <1>2 DEF IsHeap, From
<1>3. CASE p = 0
  <2>1. x = Unset(field) BY <1>3 DEF From, Default
  <2>2. CASE field.rep BY <2>1, <2>2, <1>1 DEF Unset
  <2>3. CASE ~field.rep
    <3>1. field.kind = "message" => x = 0 BY <2>1, <2>3 DEF Unset
    <3>2. field.kind = "string" => x \in RangeOf(field.kind) BY <2>1, <2>3 DEF Unset, RangeOf, Val
    <3>3. ASSUME field.kind \notin {"string", "message"} PROVE x \in RangeOf(field.kind)
      <4>1. x = 0 /\ field.kind \in Scalars /\ Half32 \in Nat \ {0} /\ Half64 \in Nat \ {0}
        BY <1>1, <2>1, <2>3, <3>3, RangesAssumption DEF Unset, FieldSet
      <4>2. /\ 0 \in Int32s /\ 0 \in Int64s /\ 0 \in UInt32s /\ 0 \in UInt64s
            /\ 0 \in {0, 1} /\ 0 \in 0 .. Half32 - 1 BY <4>1 DEF Int32s, Int64s, UInt32s, UInt64s
      <4> QED BY <3>3, <4>1, <4>2 DEF RangeOf, Scalars
    <3> QED BY <1>1, <2>3, <3>1, <3>2, <3>3 DEF Fits
  <2> QED BY <2>2, <2>3
<1> QED BY <1>2, <1>3

LEMMA RightNoNil ==
    ASSUME pb \in Requests, NEW std, AllRight(pb, tabs, std), NEW r \in 1 .. Len(tabs)
    PROVE  NoNil(tabs[r])
<1> SUFFICES ASSUME NEW j \in 1 .. Len(tabs[r]) PROVE tabs[r][j][2] # LuaNil BY DEF NoNil
<1> PICK z, x, v : z = std[r] /\ x = tabs[r][j][2] /\ v = From(pb, z.type, z.obj) OBVIOUS
<1>1. RoleOK(pb, z) /\ Right(pb, std, z, tabs[r]) BY DEF AllRight
<1>2. PairOf(pb, std, z, j, x) /\ Len(tabs[r]) <= Width(pb, z) /\ Len(tabs[r]) \in Nat
  BY <1>1 DEF Right, IsSeq
<1>3. /\ z.type \in Types /\ z.field \in Nat /\ Len(Fields[z.type]) \in Nat
      /\ z.obj # 0 => z.obj \in 1 .. Len(pb) /\ pb[z.obj].type = z.type
      /\ z.field # 0 => z.field \in 1 .. Len(Fields[z.type]) /\ Fields[z.type][z.field].rep
  BY <1>1, FieldsAssumption DEF RoleOK, RoleSet
<1>4. \A y : IsFor(std, x, y) => x # LuaNil BY DEF IsFor, LuaNil, Val
<1>5. ASSUME NEW field \in FieldSet, NEW a, Fits(pb, field, a) \/ field.kind = "message", Stands(std, field, x, a)
      PROVE  x # LuaNil BY <1>4, <1>5, ScalarNotNil DEF Stands, FieldSet, Fits
<1>6. CASE z.field # 0
  <2> PICK field, y : field = Fields[z.type][z.field] /\ y = v[z.field] OBVIOUS
  <2>1. field \in FieldSet /\ Len(y) \in Nat /\ \A k \in 1 .. Len(y) : Fits(pb, field, y[k])
    <3> PICK c, T, p : c = z.field /\ T = z.type /\ p = z.obj OBVIOUS
    <3>1. field.rep /\ c \in 1 .. Len(Fields[T]) /\ field = Fields[T][c] /\ y = From(pb, T, p)[c]
      BY <1>3, <1>6
    <3>2. pb \in Requests /\ T \in Types /\ (p # 0 => p \in 1 .. Len(pb) /\ pb[p].type = T) BY <1>3
    <3>3. /\ field \in FieldSet
          /\ field.rep => Len(y) \in Nat /\ \A k \in 1 .. Len(y) : Fits(pb, field, y[k])
      BY ONLY <3>1, <3>2, FromFits
    <3> QED BY ONLY <3>1, <3>3
  <2>2. Stands(std, field, x, y[j]) /\ Width(pb, z) = Len(y) BY <1>2, <1>6 DEF PairOf, Width
  <2>3. j \in 1 .. Len(y) BY <1>2, <2>1, <2>2
  <2> QED BY <1>5, <2>1, <2>2, <2>3
<1>7. CASE z.field = 0
  <2> PICK field, y : field = Fields[z.type][j] /\ y = v[j] OBVIOUS
  <2>1. j \in 1 .. Len(Fields[z.type]) BY <1>2, <1>3, <1>7 DEF Width
  <2>2. CASE field.rep BY <1>2, <1>4, <1>7, <2>2 DEF PairOf
  <2>3. CASE ~field.rep BY <1>3, <2>1, <2>3, FromFits, <1>2, <1>7, <1>5 DEF PairOf
  <2> QED BY <2>2, <2>3
<1> QED BY <1>6, <1>7

\* A sequence without its element c.
LEMMA WithoutOne ==
    ASSUME NEW S, NEW s \in Seq(S), NEW c \in 1 .. Len(s),
           NEW t, t = SubSeq(s, 1, c - 1) \o SubSeq(s, c + 1, Len(s))
    PROVE  /\ Len(t) = Len(s) - 1
           /\ \A j \in 1 .. c - 1 : t[j] = s[j]
           /\ \A j \in c .. Len(s) - 1 : t[j] = s[j + 1]
<1> PICK n, a, b : n = Len(s) /\ a = SubSeq(s, 1, c - 1) /\ b = SubSeq(s, c + 1, n) OBVIOUS
<1>1. n \in Nat /\ c \in 1 .. n /\ n - c \in Nat /\ c - 1 \in Nat OBVIOUS
<1>2. a \in Seq(S) /\ Len(a) = c - 1 /\ \A j \in 1 .. c - 1 : a[j] = s[j] OBVIOUS
<1>3. b \in Seq(S) /\ Len(b) = n - c OBVIOUS
<1>4. ASSUME NEW j \in 1 .. n - c PROVE b[j] = s[c + j] OBVIOUS
<1>5. t = a \o b OBVIOUS
<1>6. Len(t) = (c - 1) + (n - c) /\ \A j \in 1 .. (c - 1) + (n - c) : t[j] = IF j <= c - 1 THEN a[j] ELSE b[j - (c - 1)]
  <2>1. Len(a \o b) = Len(a) + Len(b) /\ \A j \in 1 .. Len(a) + Len(b) : (a \o b)[j] = IF j <= Len(a) THEN a[j] ELSE b[j - Len(a)]
    BY ONLY <1>2, <1>3, ConcatProperties
  <2> QED BY ONLY <1>2, <1>3, <1>5, <2>1
<1>7. Len(t) = n - 1 /\ (c - 1) + (n - c) = n - 1 BY ONLY <1>1, <1>6
<1>8. ASSUME NEW j \in 1 .. c - 1 PROVE t[j] = s[j]
  <2>1. j \in 1 .. (c - 1) + (n - c) /\ j <= c - 1 BY <1>1
  <2> QED BY ONLY <1>2, <1>6, <1>8, <2>1
<1>9. ASSUME NEW j \in c .. n - 1 PROVE t[j] = s[j + 1]
  <2>1. j \in 1 .. (c - 1) + (n - c) /\ ~(j <= c - 1) /\ j - (c - 1) \in 1 .. n - c /\ c + (j - (c - 1)) = j + 1
    BY <1>1
  <2>2. t[j] = b[j - (c - 1)] BY ONLY <1>6, <2>1
  <2> QED BY <1>4, <2>1, <2>2
<1> QED BY <1>7, <1>8, <1>9

\* A value is put, replaced or removed.
LEMMA PutUnique ==
    ASSUME NEW S, NEW pairs \in Seq(S), Uniq(pairs), NoNil(pairs), NEW key, NEW x
    PROVE  Uniq(Put(pairs, key, x)) /\ NoNil(Put(pairs, key, x))
<1>0. PICK n, e : n = Len(pairs) /\ e = <<key, x>> OBVIOUS
<1>1. n \in Nat /\ DOMAIN pairs = 1 .. n /\ pairs \in Seq(S \cup {e}) /\ e \in S \cup {e} /\ e[1] = key /\ e[2] = x
  BY <1>0
<1> DEFINE Q == S \cup {e}
<1> HIDE DEF Q
<1>2. pairs \in Seq(Q) /\ e \in Q BY <1>1 DEF Q
<1>3. CASE Get(pairs, key) = LuaNil BY <1>0, GetIs, <1>3, <1>2, <1>1 DEF NoNil, Put, Uniq
<1>4. CASE Get(pairs, key) # LuaNil
  <2>1. \E i \in 1 .. n : pairs[i][1] = key BY <1>0, <1>4 DEF Get
  <2> PICK c : c = PlaceOf(pairs, key) OBVIOUS
  <2>2. c \in 1 .. n /\ pairs[c][1] = key BY <1>0, <2>1 DEF PlaceOf
  <2>3. Put(pairs, key, x) = IF x = LuaNil THEN SubSeq(pairs, 1, c - 1) \o SubSeq(pairs, c + 1, n)
                             ELSE [pairs EXCEPT ![c] = e] BY <1>0, <1>4 DEF Put
  <2>4. CASE x = LuaNil
    <3> PICK t : t = SubSeq(pairs, 1, c - 1) \o SubSeq(pairs, c + 1, n) OBVIOUS
    <3>4. Len(t) = n - 1 /\ (\A j \in 1 .. c - 1 : t[j] = pairs[j]) /\ \A j \in c .. n - 1 : t[j] = pairs[j + 1]
      <4>1. c \in 1 .. Len(pairs) /\ t = SubSeq(pairs, 1, c - 1) \o SubSeq(pairs, c + 1, Len(pairs))
        BY <1>0, <2>2
      <4>2. /\ Len(t) = Len(pairs) - 1
            /\ (\A j \in 1 .. c - 1 : t[j] = pairs[j]) /\ \A j \in c .. Len(pairs) - 1 : t[j] = pairs[j + 1]
        BY ONLY <1>2, <4>1, WithoutOne
      <4> QED BY ONLY <1>0, <4>2
    <3> DEFINE k(j) == IF j < c THEN j ELSE j + 1
    <3>5. ASSUME NEW j \in 1 .. n - 1 PROVE k(j) \in 1 .. n /\ t[j] = pairs[k(j)]
      <4>1. CASE j < c BY <1>1, <2>2, <4>1, <3>4
      <4>2. CASE ~(j < c)
        <5>1. j \in c .. n - 1 /\ j + 1 \in 1 .. n /\ k(j) = j + 1 BY <1>1, <2>2, <4>2
        <5> QED BY <3>4, <5>1
      <4> QED BY <4>1, <4>2
    <3>6. \A i, j \in 1 .. n - 1 : k(i) = k(j) => i = j BY <1>1, <2>2
    <3> HIDE DEF k
    <3>7. Uniq(t)
      <4> SUFFICES ASSUME NEW i \in 1 .. n - 1, NEW j \in 1 .. n - 1, t[i][1] = t[j][1] PROVE i = j
        BY <3>4 DEF Uniq
      <4>1. k(i) \in 1 .. n /\ k(j) \in 1 .. n /\ pairs[k(i)][1] = pairs[k(j)][1] BY <3>5
      <4>2. k(i) = k(j) BY <1>0, <4>1 DEF Uniq
      <4> QED BY <3>6, <4>2
    <3>8. NoNil(t)
      <4> SUFFICES ASSUME NEW j \in 1 .. n - 1 PROVE t[j][2] # LuaNil BY <3>4 DEF NoNil
      <4>1. k(j) \in 1 .. n /\ t[j] = pairs[k(j)] BY <3>5
      <4> QED BY <1>0, <4>1 DEF NoNil
    <3> QED BY <2>3, <2>4, <3>7, <3>8
  <2>5. CASE x # LuaNil BY <1>0, <1>2, <2>2, <1>1, <2>5, <2>3 DEF Uniq, NoNil
  <2> QED BY <2>4, <2>5
<1> QED BY <1>3, <1>4

LEMMA OwnUnique ==
    ASSUME NEW e \in Edits, NEW i \in 1 .. Len(e.new) PROVE Uniq(OwnTable(e.new[i]))
<1> PICK p, t : p = e.new[i] /\ t = OwnTable(p) OBVIOUS
<1>1. Len(p) \in Nat /\ \A j, k \in 1 .. Len(p) : p[j][1] = p[k][1] => j = k BY EditsAssumption
<1>2. t = [j \in 1 .. Len(p) |-> <<p[j][1], Own(p[j][2])>>] BY DEF OwnTable
<1>3. Len(t) = Len(p) /\ \A j \in 1 .. Len(p) : t[j] = <<p[j][1], Own(p[j][2])>> BY <1>1, <1>2
<1>4. \A j \in 1 .. Len(p) : t[j][1] = p[j][1] BY <1>3
<1> QED BY <1>1, <1>3, <1>4 DEF Uniq

----------------------------------------------------------------------------
\* What the script makes of its table, and Lua of their order.
LEMMA ScriptUnique ==
    ASSUME IInv, ScriptEdits, UniqueKeys, NoNil(tabs[table.v])
    PROVE  UniqueKeys' /\ NoNil(tabs'[table'.v])
<1> PICK m, r, x, pairs : m = Len(tabs) /\ r = table.v /\ pairs = tabs[r] /\ x = tabs OBVIOUS
<1>1. HeapOK /\ table.t = "table" /\ table' = table BY DEF ScriptEdits, IInv
<1>2. m \in Nat /\ tabs \in Seq(Seq(Pairs(m))) /\ r \in 1 .. m BY <1>1 DEF HeapOK, Values
<1>3. PICK e \in Edits : tabs' = [tabs EXCEPT ![table.v] = Put(@, e.key, Own(e.val))]
                                 \o [i \in 1 .. Len(e.new) |-> OwnTable(e.new[i])]
  BY DEF ScriptEdits
<1> PICK k, own, a, b, q : /\ k = Len(e.new) /\ own = Own(e.val) /\ q = Put(pairs, e.key, own)
                           /\ a = [tabs EXCEPT ![r] = q] /\ b = [i \in 1 .. k |-> OwnTable(e.new[i])]
  OBVIOUS
<1>4. tabs' = a \o b /\ k \in Nat BY <1>3, EditsAssumption
<1>5. pairs \in Seq(Pairs(m)) /\ Uniq(pairs) /\ NoNil(pairs) BY <1>2 DEF UniqueKeys
<1>6. Uniq(q) /\ NoNil(q) BY <1>5, PutUnique
<1>7. \A i \in 1 .. k : Uniq(OwnTable(e.new[i])) BY OwnUnique
<1>8. Len(a) = m /\ DOMAIN a = 1 .. m /\ a[r] = q /\ \A i \in 1 .. m : i # r => a[i] = tabs[i]
  BY <1>2
<1>9. Len(b) = k /\ DOMAIN b = 1 .. k /\ \A i \in 1 .. k : b[i] = OwnTable(e.new[i]) BY <1>4
<1>10. \A i \in 1 .. m : Uniq(a[i]) BY <1>2, <1>6, <1>8 DEF UniqueKeys
<1> PICK Q : Q = Seq(Pairs(m)) \cup {q} \cup {b[i] : i \in 1 .. k} OBVIOUS
<1>11. a \in Seq(Q) /\ b \in Seq(Q) BY <1>2, SeqMono, <1>4
<1> PICK t : t = a \o b OBVIOUS
<1>12. Len(t) = m + k /\ \A i \in 1 .. m + k : t[i] = IF i <= m THEN a[i] ELSE b[i - m]
  BY <1>11, ConcatProperties, <1>8, <1>9
<1>13. ASSUME NEW i \in 1 .. m + k PROVE Uniq(t[i]) BY <1>2, <1>12, <1>10, <1>4, <1>7, <1>9
<1>14. NoNil(t[r]) BY <1>2, <1>4, <1>6, <1>8, <1>12
<1>15. tabs' = t /\ table'.v = r BY <1>1, <1>4
<1> QED BY <1>12, <1>13, <1>14, <1>15 DEF UniqueKeys

LEMMA ReversedUnique ==
    ASSUME HeapOK, UniqueKeys, tabs' \in {tabs, [i \in 1 .. Len(tabs) |-> Reversed(tabs[i])]}
    PROVE  UniqueKeys' /\ Len(tabs') = Len(tabs)
<1> PICK m, t : m = Len(tabs) /\ t = [i \in 1 .. m |-> Reversed(tabs[i])] OBVIOUS
<1>1. m \in Nat /\ tabs \in Seq(Seq(Pairs(m))) BY DEF HeapOK
<1>2. Len(t) = m /\ \A i \in 1 .. m : t[i] = Reversed(tabs[i]) BY <1>1
<1>3. CASE tabs' = tabs BY <1>3 DEF UniqueKeys
<1>4. CASE tabs' = t
  <2>1. ASSUME NEW i \in 1 .. m PROVE Uniq(t[i])
    <3> PICK s, n : s = tabs[i] /\ n = Len(s) OBVIOUS
    <3>1. s \in Seq(Pairs(m)) /\ Uniq(s) /\ n \in Nat BY <1>1 DEF UniqueKeys
    <3> PICK u : u = Reversed(s) OBVIOUS
    <3>2. Len(u) = n /\ \A j \in 1 .. n : u[j] = s[n + 1 - j] BY <3>1 DEF Reversed
    <3>3. ASSUME NEW j \in 1 .. n, NEW l \in 1 .. n, s[n + 1 - j][1] = s[n + 1 - l][1] PROVE j = l
      BY <3>1, <3>3 DEF Uniq
    <3>4. Uniq(u)
      <4> SUFFICES ASSUME NEW j \in 1 .. n, NEW l \in 1 .. n, u[j][1] = u[l][1] PROVE j = l
        BY <3>2 DEF Uniq
      <4> QED BY ONLY <3>2, <3>3, u[j][1] = u[l][1]
    <3> QED BY <1>2, <3>4
  <2> QED BY <1>2, <1>4, <2>1 DEF UniqueKeys
<1> QED BY <1>3, <1>4

Resting == UNCHANGED <<stack, tabs, pb, rframes, scan, dead, table, root>>

LEMMA RestingParts ==
    ASSUME Resting, NEW src
    PROVE  /\ Objs(src)' = Objs(src)
           /\ \A o : FieldsOf(o)' = FieldsOf(o)
           /\ \A k : Passed(k)' = Passed(k)
           /\ \A k, i : Current(k, i)' = Current(k, i)
           /\ \A k : Left(k)' = Left(k) /\ Scans(k)' = Scans(k)
BY DEF Resting, Objs, FieldsOf, Passed, Current, Left, Scans

LEMMA HeldStays == ASSUME Resting, NEW src PROVE \A o, i : HeldAt(src, o, i)' = HeldAt(src, o, i)
BY RestingParts DEF Resting, HeldAt

LEMMA ContentStays == ASSUME Resting, NEW src, Content(src) PROVE Content(src)'
<1>1. /\ stack' = stack /\ tabs' = tabs /\ pb' = pb /\ rframes' = rframes /\ scan' = scan /\ dead' = dead
      /\ table' = table /\ root' = root BY DEF Resting
<1>2. Known(src)' BY <1>1 DEF Content, Known, ChildOf, FieldsOf
<1>3. Closed(src)' /\ Rising' BY <1>1 DEF Content, Closed, Rising, FieldsOf, HeldAt, Objs
<1>4. ASSUME NEW k \in 1 .. Len(rframes) PROVE FrameBase(src, k)' /\ FrameNow(src, k)'
  <2>1. FrameBase(src, k) /\ FrameNow(src, k) BY DEF Content
  <2>2. FrameBase(src, k)' BY <1>1, <2>1, RestingParts DEF FrameBase
  <2>3. FrameNow(src, k)' BY <1>1, <2>1, RestingParts, HeldStays DEF FrameNow
  <2> QED BY <2>2, <2>3
<1>5. ScanNow(src)' BY <1>1, RestingParts, Zenon DEF Content, ScanNow
<1>6. dead' => Doomed(src)' BY <1>1 DEF Content, FatalField, Doomed, FieldsOf
<1> QED BY <1>1, <1>2, <1>3, <1>4, <1>5, <1>6 DEF Content

LEMMA InitCInv == Init => CInv BY DEF Init, CInv

\* A step in which no conversion runs the other way.
LEMMA NotSending ==
    ASSUME IInv, pc \in Before, UNCHANGED dead, edits' \in Nat, pc' \notin {"idle", "send", "sent"},
           pc' \in {"recv", "create"} => edits' = 0 /\ Converting',
           pc' = "script" => /\ UniqueKeys' /\ (table'.t = "table" => NoNil(tabs'[table'.v]))
                             /\ edits' = 0 => \E std : Done(std)'
    PROVE  CInv' BY DEF IInv, PhaseOK, CInv

\* The tables that the script gets are right.
LEMMA DoneScript ==
    ASSUME pb \in Requests, NEW std, Done(std)
    PROVE  UniqueKeys /\ \A r \in 1 .. Len(tabs) : NoNil(tabs[r])
BY RightNoNil, RightUnique DEF Done

LEMMA DoneStays == ASSUME NEW std, Done(std), UNCHANGED <<tabs, pb>> PROVE Done(std)'
BY DEF Done, Rooted

LEMMA CallScriptC == ASSUME IInv, IInv', CInv, CallScript \/ Created PROVE CInv'
<1>1. /\ pc \in {"recv", "create"} /\ wframes = <<>> /\ pc' \in {"script", "exited"}
      /\ UNCHANGED <<tabs, pb, toLua, toProto, edits>> BY DEF CallScript, Created
<1>2. edits = 0 /\ edits' \in Nat /\ pb \in Requests /\ dead' = dead /\ HeapOK' /\ pc \in Before
  BY <1>1 DEF CInv, IInv, PhaseOK, Before, toProto
<1>3. PICK std : Done(std) BY <1>1 DEF CInv, Converting
<1>4. Done(std)' BY <1>1, <1>3, DoneStays
<1>5. UniqueKeys' /\ (table'.t = "table" => NoNil(tabs'[table'.v]))
  BY <1>1, <1>2, <1>3, DoneScript DEF HeapOK, Values, UniqueKeys
<1> QED BY <1>1, <1>2, <1>4, <1>5, NotSending

LEMMA ScriptEditsC == ASSUME IInv, IInv', CInv, ScriptEdits PROVE CInv'
<1>1. pc = "script" /\ pc' = "script" /\ edits' = edits + 1 /\ table.t = "table" /\ UNCHANGED toProto /\ edits \in Nat
  BY DEF ScriptEdits, CInv
<1>2. UniqueKeys' /\ NoNil(tabs'[table'.v]) BY <1>1, ScriptUnique DEF CInv
<1>3. edits' \in Nat /\ edits' # 0 /\ pc \in Before /\ dead' = dead BY <1>1 DEF Before, toProto
<1> QED BY <1>1, <1>2, <1>3, NotSending

LEMMA ReceiveC == ASSUME IInv, IInv', CInv, exe_OnLuaVMRecvMessage PROVE CInv'
BY ReceiveConverts, NotSending DEF exe_OnLuaVMRecvMessage, CInv, Before, toProto

LEMMA CreateC ==
    ASSUME IInv, IInv', CInv, NEW T \in Types, CreateNewProtobufByCmd(T) PROVE CInv'
BY CreateConverts, NotSending, DoneStays
   DEF CreateNewProtobufByCmd, Before, toProto, CInv, LuaNil, Val, UniqueKeys

LEMMA Lua2ProtobufC ==
    ASSUME IInv, IInv', CInv, NEW T \in Types, Lua2Protobuf(T) PROVE CInv'
<1>1. pc = "script" /\ UNCHANGED <<table, edits>> BY Zenon DEF Lua2Protobuf
<1>2. HeapOK /\ UniqueKeys /\ scan = NoScan /\ dead = FALSE /\ edits' \in Nat /\ pc \in Before /\ table \in Values(Len(tabs))
  BY <1>1 DEF IInv, CInv, PhaseOK, Before, HeapOK
<1>3. CASE pc' \in {"exited", "refused"} /\ UNCHANGED toProto BY <1>2, <1>3, NotSending DEF toProto
<1>4. CASE /\ table.t = "table" /\ StartToProto(T, table) /\ root' = Len(pb) + 1 /\ pc' = "send"
           /\ tabs' \in {tabs, [i \in 1 .. Len(tabs) |-> Reversed(tabs[i])]}
  <2>1. UniqueKeys' /\ Len(tabs') = Len(tabs) BY <1>2, <1>4, ReversedUnique
  <2>2. \E src : Content(src)' BY <1>1, <1>2, <1>4, <2>1, StartContent
  <2> QED BY <1>2, <1>4, <2>1, <2>2 DEF CInv
<1> QED BY <1>3, <1>4, Zenon DEF Lua2Protobuf

LEMMA SendC == ASSUME IInv, IInv', CInv, Send \/ Exits PROVE CInv'
BY ContentStays DEF Send, Exits, Resting, toProto, CInv

LEMMA ConvertC == ASSUME IInv, IInv', CInv, Convert PROVE CInv'
<1>1. CASE pc \in {"recv", "create"} /\ ToLuaStep /\ UNCHANGED <<toProto, bridge>>
  BY <1>1, ToLuaConverts, NotSending DEF IInv, WInv, CInv, bridge, toProto, Before
<1>2. CASE pc = "send" /\ ToProtoStep /\ UNCHANGED <<toLua, bridge>>
  <2>1. pc' = "send" /\ edits' = edits /\ edits \in Nat /\ UniqueKeys BY <1>2 DEF bridge, CInv
  <2>2. PICK src : Content(src) BY <1>2 DEF CInv
  <2>3. ~dead /\ tabs' = tabs
    BY <1>2 DEF ToProtoStep, LoseKey, SkipPair, SetScalar, FillMessage, BeginArray, AddScalar, AddMessage, EndFrame
  <2>4. \E src2 : Content(src2)' BY <1>2, <2>1, <2>2, <2>3, ToProtoContent DEF Sending
  <2>5. UniqueKeys' BY <2>1, <2>3 DEF UniqueKeys
  <2> QED BY <2>1, <2>4, <2>5 DEF CInv
<1> QED BY <1>1, <1>2 DEF Convert

LEMMA CopiesStay ==
    ASSUME NEW std, NEW open, Copies(std, open), UNCHANGED <<stack, tabs, pb, wframes, old>>
    PROVE  Copies(std, open)' BY DEF W, Copies, Rooted

LEMMA StutterC == ASSUME CInv, UNCHANGED vars PROVE CInv'
BY DoneStays, CopiesStay, ContentStays DEF vars, Resting, Converting, UniqueKeys, CInv

LEMMA NextKeepsC == IInv /\ CInv /\ [Next]_vars => IInv' /\ CInv'
<1> SUFFICES ASSUME IInv, CInv, [Next]_vars PROVE IInv' /\ CInv' OBVIOUS
<1>0. IInv' BY NextKeeps
<1>1. CASE exe_OnLuaVMRecvMessage BY <1>0, <1>1, ReceiveC
<1>2. CASE CallScript \/ Created BY <1>0, <1>2, CallScriptC
<1>3. CASE ScriptEdits BY <1>0, <1>3, ScriptEditsC
<1>4. ASSUME NEW T \in Types, CreateNewProtobufByCmd(T) \/ Lua2Protobuf(T) PROVE CInv'
  BY <1>0, <1>4, CreateC, Lua2ProtobufC
<1>5. CASE Send \/ Exits BY <1>0, <1>5, SendC
<1>6. CASE Convert BY <1>0, <1>6, ConvertC
<1>7. CASE UNCHANGED vars BY <1>0, <1>7, StutterC
<1> QED BY <1>0, <1>1, <1>2, <1>3, <1>4, <1>5, <1>6, <1>7 DEF Next

\* Whatever the script makes of its table, the message that is sent has in every
\* field what the table says, element by element and at every depth, and the
\* process ends in a conversion only at a value that does not survive it.
THEOREM SentIsFaithful == Spec => []Faithful
<1>1. Init => IInv /\ CInv BY InitOK, InitCInv
<1>2. IInv /\ CInv => Faithful BY EndHeld, DeadFatal DEF CInv, Faithful
<1> QED BY <1>1, <1>2, NextKeepsC, PTL DEF Spec

----------------------------------------------------------------------------
\* The way back.  The messages that arrived lie in front of the one that is sent,
\* and no round of the conversion touches them.
SameBelow(heap, new) == \A o \in 1 .. root - 1 : new[o] = heap[o]

LEMMA SetBelow ==
    ASSUME NEW heap, Typed(heap), root \in 1 .. Len(heap), NEW q \in root .. Len(heap), NEW d
    PROVE  /\ SameBelow(heap, SetVal(heap, q, d)) /\ Typed(SetVal(heap, q, d))
           /\ Len(SetVal(heap, q, d)) = Len(heap)
<1>1. Typed(SetVal(heap, q, d)) /\ Len(SetVal(heap, q, d)) = Len(heap) /\ Len(heap) \in Nat
  BY HeapAssign
<1>2. PICK V : heap \in Seq(V) BY DEF Typed
<1>3. ASSUME NEW o \in 1 .. root - 1 PROVE SetVal(heap, q, d)[o] = heap[o] BY <1>1, <1>2 DEF SetVal
<1> QED BY <1>1, <1>3 DEF SameBelow

LEMMA AddBelow ==
    ASSUME NEW heap, Typed(heap), root \in 1 .. Len(heap), NEW T \in Types, NEW base, SameBelow(base, heap)
    PROVE  SameBelow(base, Append(heap, Default(T))) BY AddedIs DEF SameBelow

LEMMA ToProtoBelow ==
    ASSUME Sending, ToProtoStep, NEW src, Content(src)
    PROVE  SameBelow(pb, pb')
<1>1. Typed(pb) /\ root \in 1 .. Len(pb) /\ Len(pb) \in Nat
  BY SizeOf DEF Sending, IInv, Content, Known
<1>2. CASE pb' = pb BY <1>2 DEF SameBelow
<1>3. CASE SetScalar
  <2>1. CASE pb' = pb BY <1>2, <2>1
  <2>2. CASE pb' # pb
    <3>1. PICK x : pb' = Assign(FieldOf(Key), x) /\ HasPair BY <1>3, <2>2 DEF SetScalar
    <3>2. pb' = SetVal(pb, R.obj, [pb[R.obj].val EXCEPT ![FieldOf(Key)] = x])
      BY <3>1 DEF Assign, SetVal
    <3>3. R.obj \in root .. Len(pb) BY <3>1, NamedField
    <3> QED BY <1>1, <3>2, <3>3, SetBelow
  <2> QED BY <2>1, <2>2
<1>4. CASE FillMessage
  <2> PICK f, sub, heap : f = FieldOf(Key) /\ sub = RFields[f].sub /\ heap = Assign(f, Len(pb) + 1)
    OBVIOUS
  <2>1. HasPair /\ f # 0 /\ pb' = Append(heap, Default(sub)) BY <1>4 DEF FillMessage
  <2>2. /\ R.obj \in root .. Len(pb) /\ f \in FieldsOf(R.obj) /\ pb[R.obj].type \in Types
        /\ RFields = Fields[pb[R.obj].type] BY <2>1, NamedField
  <2>3. sub \in Types BY <2>2, FieldType DEF FieldsOf
  <2>4. heap = SetVal(pb, R.obj, [pb[R.obj].val EXCEPT ![f] = Len(pb) + 1]) BY DEF Assign, SetVal
  <2>5. SameBelow(pb, heap) /\ Typed(heap) /\ Len(heap) = Len(pb) BY <1>1, <2>2, <2>4, SetBelow
  <2>6. root \in 1 .. Len(heap) BY <1>1, <2>5
  <2> QED BY <2>1, <2>3, <2>5, <2>6, AddBelow
<1>5. CASE AddScalar \/ AddMessage
  <2>1. scan # NoScan BY <1>5 DEF AddScalar, AddMessage
  <2>2. PICK q, own, f, v, field, pairs : ScanIs(src, q, own, f, v, field, pairs) BY <2>1, ScanFacts
  <2>3. q = rframes[scan.own].obj /\ q \in root .. Len(pb) /\ field = Field /\ field = Fields[pb[q].type][f]
        /\ f \in FieldsOf(q) /\ pb[q].type \in Types BY <2>2, Zenon DEF ScanIs
  <2>4. field.sub \in Types BY <2>3, FieldType DEF FieldsOf
  <2>5. ASSUME NEW x
        PROVE  SameBelow(pb, AddTo(pb, x)) /\ Typed(AddTo(pb, x)) /\ Len(AddTo(pb, x)) = Len(pb)
    <3>1. AddTo(pb, x) = SetVal(pb, q, [pb[q].val EXCEPT ![scan.field] = Append(@, x)])
      BY <2>3 DEF AddTo, SetVal
    <3> QED BY <1>1, <2>3, <3>1, SetBelow
  <2>6. CASE AddScalar BY <2>6, <1>2, <2>5 DEF AddScalar
  <2>7. CASE AddMessage
    <3>1. pb' = pb \/ pb' = Append(AddTo(pb, Len(pb) + 1), Default(field.sub))
      BY <2>3, <2>7 DEF AddMessage
    <3> PICK heap : heap = AddTo(pb, Len(pb) + 1) OBVIOUS
    <3>2. SameBelow(pb, heap) /\ Typed(heap) /\ Len(heap) = Len(pb) BY <2>5
    <3>3. SameBelow(pb, Append(heap, Default(field.sub))) BY <1>1, <2>4, <3>2, AddBelow
    <3> QED BY <1>2, <3>1, <3>3
  <2> QED BY <1>5, <2>6, <2>7
<1>6. CASE LoseKey \/ SkipPair \/ BeginArray \/ EndFrame
  BY <1>2, <1>6 DEF LoseKey, SkipPair, BeginArray, EndFrame
<1> QED BY <1>3, <1>4, <1>5, <1>6 DEF ToProtoStep

LEMMA ReversedGet ==
    ASSUME NEW S, NEW s \in Seq(S), Uniq(s), NEW t, t = Reversed(s)
    PROVE  Len(t) = Len(s) /\ \A key : Get(t, key) = Get(s, key)
<1> PICK n : n = Len(s) OBVIOUS
<1>1. n \in Nat /\ Len(t) = n /\ \A j \in 1 .. n : t[j] = s[n + 1 - j] BY DEF Reversed
<1>2. \A j \in 1 .. n : n + 1 - j \in 1 .. n /\ n + 1 - (n + 1 - j) = j BY <1>1
<1>3. Uniq(t)
  <2> SUFFICES ASSUME NEW j \in 1 .. n, NEW l \in 1 .. n, t[j][1] = t[l][1] PROVE j = l
    BY <1>1 DEF Uniq
  <2>1. n + 1 - j \in 1 .. n /\ n + 1 - l \in 1 .. n /\ s[n + 1 - j][1] = s[n + 1 - l][1]
    BY <1>1, <1>2
  <2>2. n + 1 - j = n + 1 - l BY <2>1 DEF Uniq
  <2> QED BY <1>1, <2>2
<1>4. ASSUME NEW key PROVE Get(t, key) = Get(s, key)
  <2>1. CASE \E j \in 1 .. n : s[j][1] = key
    <3>1. PICK j \in 1 .. n : s[j][1] = key BY <2>1
    <3> PICK l : l = n + 1 - j OBVIOUS
    <3>2. l \in 1 .. n /\ t[l] = s[j] BY <1>1, <1>2
    <3>3. Get(s, key) = s[j][2] BY <3>1, GetIs
    <3>4. Get(t, t[l][1]) = t[l][2] BY <1>1, <1>3, <3>2, GetIs
    <3> QED BY <3>1, <3>2, <3>3, <3>4
  <2>2. CASE \A j \in 1 .. n : s[j][1] # key BY <1>1, <1>2, <2>2, GetNone
  <2> QED BY <2>1, <2>2
<1> QED BY <1>1, <1>4

LEMMA DoneProper ==
    ASSUME pb \in Requests, NEW std, Done(std), NEW r \in 1 .. Len(tabs)
    PROVE  RoleOK(pb, std[r]) /\ Proper(pb, std, std[r], tabs[r])
<1> PICK z, pairs : z = std[r] /\ pairs = tabs[r] OBVIOUS
<1>1. RoleOK(pb, z) /\ Right(pb, std, z, pairs) /\ Len(pairs) = Width(pb, z)
  BY DEF Done, AllRight, Full
<1>2. Uniq(pairs) BY RightUnique DEF Done, UniqueKeys
<1>3. Len(pairs) \in Nat BY <1>1 DEF Right, IsSeq
<1>4. ASSUME NEW j \in 1 .. Len(pairs) PROVE PairOf(pb, std, z, j, Get(pairs, KeyOf(z, j)))
  BY <1>1, <1>2, GetIs DEF Right
<1>5. ASSUME z.field # 0, NEW n \in Nat, n \notin 1 .. Len(pairs) PROVE Get(pairs, Val("number", n)) = LuaNil
  <2>1. ASSUME NEW j \in 1 .. Len(pairs) PROVE pairs[j][1] # Val("number", n)
    <3>1. pairs[j][1] = Val("number", j) BY <1>1, <1>5 DEF Right, KeyOf
    <3>2. Val("number", j).v = j /\ Val("number", n).v = n BY DEF Val
    <3> QED BY <1>5, <3>1, <3>2
  <2> QED BY <2>1, GetNone
<1> QED BY <1>1, <1>3, <1>4, <1>5 DEF Proper

LEMMA ProperReversed ==
    ASSUME NEW S, NEW s \in Seq(S), Uniq(s), NEW msgs, NEW std, NEW z, Proper(msgs, std, z, s)
    PROVE  Proper(msgs, std, z, Reversed(s)) BY ReversedGet DEF Proper

LEMMA KeptStart ==
    ASSUME IInv, pc = "script", NEW std, Done(std), NEW T \in Types, pb' = Append(pb, Default(T)), root' = Len(pb) + 1,
           tabs' \in {tabs, [i \in 1 .. Len(tabs) |-> Reversed(tabs[i])]}
    PROVE  \E msgs : Kept(msgs, std)'
<1> PICK msgs : msgs = pb OBVIOUS
<1>1. pb \in Requests /\ HeapOK /\ Typed(pb) /\ Len(pb) \in Nat BY SizeOf DEF IInv, PhaseOK, Before
<1>2. /\ std \in Seq(RoleSet) /\ Len(std) = Len(tabs) /\ Len(std) >= 1 /\ std[1] = Role(pb[1].type, 1, 0)
      /\ UniqueKeys BY RightUnique DEF Done, Rooted, AllRight
<1>3. \A o \in 1 .. Len(pb) : pb'[o] = pb[o] BY <1>1, AddedIs
<1>4. Len(tabs') = Len(tabs) BY <1>1, <1>2, ReversedUnique
<1>5. ASSUME NEW r \in 1 .. Len(tabs) PROVE RoleOK(pb, std[r]) /\ Proper(pb, std, std[r], tabs'[r])
  BY <1>1, DoneProper, <1>2, ProperReversed DEF HeapOK, UniqueKeys
<1>6. /\ msgs \in Requests /\ Len(msgs) \in Nat /\ root' = Len(msgs) + 1
      /\ \A o \in 1 .. Len(msgs) : pb'[o] = msgs[o] BY <1>1, <1>3
<1>7. /\ std \in Seq(RoleSet) /\ Len(std) = Len(tabs') /\ Len(std) >= 1 /\ std[1] = Role(msgs[1].type, 1, 0)
      /\ \A r \in 1 .. Len(tabs') : RoleOK(msgs, std[r]) /\ Proper(msgs, std, std[r], tabs'[r])
  BY <1>2, <1>4, <1>5
<1>8. Kept(msgs, std)' BY <1>6, <1>7 DEF Kept
<1> QED BY <1>8

LEMMA KeptStays ==
    ASSUME NEW msgs, NEW std, Kept(msgs, std), tabs' = tabs, root' = root, SameBelow(pb, pb')
    PROVE  Kept(msgs, std)' BY DEF Kept, SameBelow

\* The element of an array whose length Lua tells.
LEMMA ProperLength ==
    ASSUME NEW msgs, NEW std, NEW z, NEW pairs, Proper(msgs, std, z, pairs), z.field # 0,
           \A j \in 1 .. Len(pairs) : Get(pairs, Val("number", j)) # LuaNil
    PROVE  Lengths(pairs) = {Len(pairs)} BY DEF Proper, Borders, Lengths

\* What a field of a message's table is, and what the elements of its array are.
LEMMA FieldStands ==
    ASSUME NEW msgs, NEW std, Kept(msgs, std), NEW r \in 1 .. Len(tabs), NEW T, NEW p, std[r] = Role(T, p, 0),
           NEW i \in 1 .. Len(Fields[T]), NEW field, field = Fields[T][i],
           NEW x, x = Get(tabs[r], Name(field)), NEW v, v = From(msgs, T, p)[i]
    PROVE  /\ T \in Types /\ field \in FieldSet /\ p \in Nat /\ (p # 0 => p \in 1 .. Len(msgs) /\ msgs[p].type = T)
           /\ ~field.rep => /\ Stands(std, field, x, v)
                            /\ Fits(msgs, field, v) \/ (field.kind = "message" /\ v = 0)
           /\ field.rep => IsFor(std, x, Role(T, p, i)) /\ Len(v) \in Nat /\ \A j \in 1 .. Len(v) : Fits(msgs, field, v[j])
<1> PICK z, pairs : z = Role(T, p, 0) /\ pairs = tabs[r] OBVIOUS
<1>1. msgs \in Requests /\ RoleOK(msgs, z) /\ Proper(msgs, std, z, pairs) BY DEF Kept
<1>2. z.type = T /\ z.obj = p /\ z.field = 0 BY DEF Role
<1>3. T \in Types /\ p \in Nat /\ (p # 0 => p \in 1 .. Len(msgs) /\ msgs[p].type = T)
  BY <1>1, <1>2 DEF RoleOK, RoleSet
<1>4. /\ field \in FieldSet
      /\ field.rep => Len(v) \in Nat /\ \A j \in 1 .. Len(v) : Fits(msgs, field, v[j])
      /\ ~field.rep => Fits(msgs, field, v) \/ (field.kind = "message" /\ v = 0)
  BY <1>1, <1>3, FromFits
<1>5. Len(pairs) = Len(Fields[T]) /\ KeyOf(z, i) = Name(field)
  BY <1>1, <1>2 DEF Proper, Width, KeyOf
<1>6. PairOf(msgs, std, z, i, x) BY <1>1, <1>5 DEF Proper
<1>7. IF field.rep THEN IsFor(std, x, Role(T, p, i)) ELSE Stands(std, field, x, v)
  BY <1>2, <1>6 DEF PairOf
<1> QED BY <1>3, <1>4, <1>7

LEMMA StandsNotNil ==
    ASSUME NEW msgs, NEW std, NEW field \in FieldSet, NEW x, NEW v, Stands(std, field, x, v),
           Fits(msgs, field, v) \/ field.kind = "message"
    PROVE  /\ x # LuaNil /\ Takes(field.kind, x)
           /\ field.kind # "message" => ScalarOf(field.kind, x) = {Trim(field.kind, v)}
BY ScalarsComeBack, ScalarNotNil DEF Stands, IsFor, Takes, LuaNil, Val, FieldSet, Fits

IsArray(msgs, std, T, p, i, field, v, x, array) ==
    /\ i \in 1 .. Len(Fields[T]) /\ field = Fields[T][i] /\ field \in FieldSet
    /\ v = From(msgs, T, p)[i] /\ Len(v) \in Nat /\ \A j \in 1 .. Len(v) : Fits(msgs, field, v[j])
    /\ IsFor(std, x, Role(T, p, i)) /\ array = tabs[x.v]

LEMMA ArrayStands ==
    ASSUME NEW msgs, NEW std, Kept(msgs, std), NEW T, NEW p, NEW i, NEW field, NEW v, NEW x, NEW array,
           IsArray(msgs, std, T, p, i, field, v, x, array)
    PROVE  /\ Lengths(array) = {Len(v)}
           /\ \A j \in 1 .. Len(v) : Stands(std, field, Item(array, j), v[j])
<1>0. /\ i \in 1 .. Len(Fields[T]) /\ field = Fields[T][i] /\ field \in FieldSet
      /\ v = From(msgs, T, p)[i] /\ Len(v) \in Nat /\ \A j \in 1 .. Len(v) : Fits(msgs, field, v[j])
      /\ IsFor(std, x, Role(T, p, i)) /\ array = tabs[x.v] BY DEF IsArray
<1> PICK z : z = Role(T, p, i) OBVIOUS
<1>1. x.v \in 1 .. Len(tabs) /\ std[x.v] = z BY <1>0 DEF IsFor, Kept
<1>2. Proper(msgs, std, z, array) BY <1>0, <1>1 DEF Kept
<1>3. z.type = T /\ z.obj = p /\ z.field = i /\ i # 0 BY <1>0 DEF Role
<1>4. Len(array) = Len(v) /\ \A j : KeyOf(z, j) = Val("number", j)
  BY <1>0, <1>2, <1>3 DEF Proper, Width, KeyOf
<1>5. ASSUME NEW j \in 1 .. Len(v) PROVE Stands(std, field, Item(array, j), v[j])
  BY <1>2, <1>4, <1>0, <1>3 DEF Proper, PairOf, Item
<1>6. \A j \in 1 .. Len(array) : Get(array, Val("number", j)) # LuaNil
  <2> SUFFICES ASSUME NEW j \in 1 .. Len(v) PROVE Item(array, j) # LuaNil BY <1>4 DEF Item
  <2>1. Stands(std, field, Item(array, j), v[j]) /\ Fits(msgs, field, v[j]) BY <1>0, <1>5
  <2> QED BY <1>0, <2>1, StandsNotNil
<1>7. Lengths(array) = {Len(array)} BY <1>2, <1>3, <1>6, ProperLength
<1> QED BY <1>4, <1>5, <1>7

\* Each message that is sent comes from a table made of a message of its type.
LEMMA NestsRole ==
    ASSUME NEW msgs, NEW std, Kept(msgs, std), NEW r \in 1 .. Len(tabs), NEW T, NEW p, std[r] = Role(T, p, 0),
           NEW i \in 1 .. Len(Fields[T]), NEW sub, NEW ref, Nests(tabs, T, r, i, sub, ref)
    PROVE  \E v : std[ref] = Role(sub, v, 0)
<1> PICK field, x, v : field = Fields[T][i] /\ x = Get(tabs[r], Name(field)) /\ v = From(msgs, T, p)[i]
  OBVIOUS
<1>1. field.kind = "message" /\ field.sub = sub /\ x.t = "table" BY DEF Nests
<1>2. /\ field \in FieldSet
      /\ ~field.rep => Stands(std, field, x, v)
      /\ field.rep => IsFor(std, x, Role(T, p, i)) /\ Len(v) \in Nat /\ \A j \in 1 .. Len(v) : Fits(msgs, field, v[j])
  BY FieldStands
<1>3. CASE ~field.rep BY <1>3, <1>1, <1>2 DEF Nests, Stands, IsFor
<1>4. CASE field.rep
  <2> PICK array : array = tabs[x.v] OBVIOUS
  <2>1. PICK n \in Lengths(array) : \E j \in 1 .. n : Item(array, j) = Val("table", ref)
    BY <1>4 DEF Nests
  <2>2. PICK j \in 1 .. n : Item(array, j) = Val("table", ref) BY <2>1
  <2>3. Lengths(array) = {Len(v)} /\ \A k \in 1 .. Len(v) : Stands(std, field, Item(array, k), v[k])
    <3>1. IsArray(msgs, std, T, p, i, field, v, x, array) /\ Kept(msgs, std)
      BY <1>2, <1>4 DEF IsArray
    <3> QED BY ONLY <3>1, ArrayStands
  <2>4. Stands(std, field, Val("table", ref), v[j]) BY <2>1, <2>2, <2>3
  <2>5. Val("table", ref).v = ref BY DEF Val
  <2> QED BY <1>1, <2>4, <2>5 DEF Stands, IsFor
<1> QED BY <1>3, <1>4

RoleFor(std, src, o) == std[src[o]] = Role(pb[o].type, std[src[o]].obj, 0)

LEMMA RolesAre ==
    ASSUME Len(pb) \in Nat, NEW src, Known(src), NEW msgs, NEW std, Kept(msgs, std), table.v = 1, pb[root].type = pb[1].type
    PROVE  \A o \in root .. Len(pb) : RoleFor(std, src, o)
<1>1. /\ root \in 1 .. Len(pb) /\ src[root] = table.v /\ src \in Seq(1 .. Len(tabs)) /\ Len(src) = Len(pb)
  BY DEF Known
<1> DEFINE N == Len(pb)
           T == {m \in 0 .. N - root : \A o \in root .. root + m : RoleFor(std, src, o)}
<1>2. 0 \in T
  <2>1. \A o \in root .. root + 0 : o = root BY <1>1
  <2>2. RoleFor(std, src, root)
    <3>1. Len(msgs) \in Nat \ {0} BY RequestTyped DEF Kept
    <3>2. pb[1] = msgs[1] BY <3>1 DEF Kept
    <3>3. std[src[root]] = Role(pb[root].type, 1, 0) BY <1>1, <3>2 DEF Kept
    <3> QED BY <3>3 DEF RoleFor, Role
  <2>3. 0 \in 0 .. N - root BY <1>1
  <2> QED BY <2>1, <2>2, <2>3
<1>3. \A m \in 1 .. N - root : m - 1 \in T => m \in T
  <2> TAKE m \in 1 .. N - root
  <2> HAVE m - 1 \in T
  <2> SUFFICES ASSUME NEW o \in root .. root + m PROVE RoleFor(std, src, o) OBVIOUS
  <2>1. CASE o \in root .. root + (m - 1) BY <2>1
  <2>2. CASE o = root + m
    <3>1. o \in root + 1 .. N BY <1>1, <2>2
    <3>2. PICK p \in root .. o - 1 : \E i \in FieldsOf(p) : Nests(tabs, pb[p].type, src[p], i, pb[o].type, src[o])
      BY <3>1 DEF Known, ChildOf
    <3>3. PICK i \in FieldsOf(p) : Nests(tabs, pb[p].type, src[p], i, pb[o].type, src[o]) BY <3>2
    <3>4. p \in root .. root + (m - 1) /\ p \in 1 .. N BY <1>1, <2>2, <3>1
    <3>5. RoleFor(std, src, p) /\ src[p] \in 1 .. Len(tabs) BY <1>1, <3>4
    <3>6. \E v : std[src[o]] = Role(pb[o].type, v, 0) BY <3>3, <3>5, NestsRole DEF RoleFor, FieldsOf
    <3> QED BY <3>6 DEF RoleFor, Role
  <2>3. o \in root .. root + (m - 1) \/ o = root + m BY <1>1
  <2> QED BY <2>1, <2>2, <2>3
<1> HIDE DEF T
<1>4. N - root \in Nat BY <1>1
<1>5. \A m \in 0 .. N - root : m \in T BY <1>2, <1>3, <1>4, LoopInduction
<1> SUFFICES ASSUME NEW o \in root .. N PROVE RoleFor(std, src, o) OBVIOUS
<1>6. N - root \in T /\ o \in root .. root + (N - root) BY <1>1, <1>4, <1>5
<1> QED BY <1>6 DEF T

\* An array all of whose elements are taken has them at their own places.
LEMMA AllPlaces ==
    ASSUME NEW kind, NEW pairs, NEW n \in Nat, \A j \in 1 .. n : Takes(kind, Item(pairs, j))
    PROVE  Len(Places(kind, pairs, n)) = n /\ \A j \in 1 .. n : Places(kind, pairs, n)[j] = j
<1> DEFINE Own1(s, k) == s \in Seq(Nat) /\ Len(s) = k /\ \A j \in 1 .. k : s[j] = j
           T == {k \in 0 .. n : Own1(Places(kind, pairs, k), k)}
<1>1. 0 \in T BY PlacesNext
<1>2. \A k \in 1 .. n : k - 1 \in T => k \in T
  <2> TAKE k \in 1 .. n
  <2> HAVE k - 1 \in T
  <2> PICK s, t : s = Places(kind, pairs, k - 1) /\ t = Append(s, k) OBVIOUS
  <2>1. s \in Seq(Nat) /\ Len(s) = k - 1 /\ \A j \in 1 .. k - 1 : s[j] = j OBVIOUS
  <2>2. k - 1 \in Nat /\ (k - 1) + 1 = k /\ k \in Nat OBVIOUS
  <2>3. Places(kind, pairs, (k - 1) + 1) = PlaceRound(kind, pairs, (k - 1) + 1, s)
    BY <2>2, PlacesNext
  <2>4. Places(kind, pairs, k) = t BY <2>2, <2>3 DEF PlaceRound
  <2>5. t \in Seq(Nat) /\ Len(t) = (k - 1) + 1 /\ t[(k - 1) + 1] = k /\ \A j \in 1 .. k - 1 : t[j] = s[j]
    BY <2>1, <2>2
  <2>6. \A j \in 1 .. k : j \in 1 .. k - 1 \/ j = k OBVIOUS
  <2>7. Own1(t, k) BY ONLY <2>1, <2>2, <2>5, <2>6
  <2>8. k \in 0 .. n OBVIOUS
  <2> QED BY <2>4, <2>7, <2>8, Zenon
<1>3. \A k \in 0 .. n : k \in T
  <2> HIDE DEF T
  <2> QED BY <1>1, <1>2, LoopInduction
<1> QED BY <1>3

SameAs(field, a, v, alike) == IF field.kind = "message" THEN <<a, v>> \in alike /\ pb[a].type = field.sub
                              ELSE a = Trim(field.kind, v)

Matching(src, std, alike) == /\ \A o \in root .. Len(pb) : RoleFor(std, src, o)
                             /\ alike = {<<o, std[src[o]].obj>> : o \in root .. Len(pb)}

LEMMA ValueSame ==
    ASSUME NEW src, NEW msgs, NEW std, NEW alike, Matching(src, std, alike),
           NEW field \in FieldSet, NEW a, NEW b, NEW v, Stands(std, field, b, v), Fits(msgs, field, v) \/ field.kind = "message",
           FieldIs(field, a, b, Objs(src))
    PROVE  SameAs(field, a, v, alike)
<1>1. CASE field.kind = "message" BY <1>1 DEF FieldIs, Objs, Stands, IsFor, Role, Matching, SameAs
<1>2. CASE field.kind # "message"
  BY <1>2, ScalarsComeBack DEF FieldSet, Fits, Stands, FieldIs, SameAs
<1> QED BY <1>1, <1>2

LEMMA FieldSame ==
    ASSUME NEW src, Known(src), NEW msgs, NEW std, Kept(msgs, std), NEW alike, Matching(src, std, alike),
           Len(pb) \in Nat, NEW q \in root .. Len(pb), NEW i \in FieldsOf(q), HeldAt(src, q, i), NEW p, p = std[src[q]].obj
    PROVE  SameField(q, p, i, alike)
<1> PICK T, r, field, x, v, y : /\ T = pb[q].type /\ r = src[q] /\ field = Fields[T][i] /\ x = Get(tabs[r], Name(field))
                                /\ v = From(msgs, T, p)[i] /\ y = pb[q].val[i] OBVIOUS
<1>a. Matching(src, std, alike) OBVIOUS
<1>1. r \in 1 .. Len(tabs) /\ std[r] = Role(T, p, 0) /\ i \in 1 .. Len(Fields[T])
  BY DEF Known, Matching, RoleFor, FieldsOf
<1>2. /\ field \in FieldSet /\ p \in Nat /\ (p # 0 => p \in 1 .. Len(msgs))
      /\ ~field.rep => /\ Stands(std, field, x, v)
                       /\ Fits(msgs, field, v) \/ field.kind = "message"
      /\ field.rep => IsFor(std, x, Role(T, p, i)) /\ Len(v) \in Nat /\ \A j \in 1 .. Len(v) : Fits(msgs, field, v[j])
  <2>1. /\ Kept(msgs, std) /\ r \in 1 .. Len(tabs) /\ std[r] = Role(T, p, 0) /\ i \in 1 .. Len(Fields[T])
        /\ field = Fields[T][i] /\ x = Get(tabs[r], Name(field)) /\ v = From(msgs, T, p)[i] BY <1>1
  <2>2. /\ field \in FieldSet /\ p \in Nat /\ (p # 0 => p \in 1 .. Len(msgs) /\ msgs[p].type = T)
        /\ ~field.rep => /\ Stands(std, field, x, v)
                         /\ Fits(msgs, field, v) \/ (field.kind = "message" /\ v = 0)
        /\ field.rep => IsFor(std, x, Role(T, p, i)) /\ Len(v) \in Nat /\ \A j \in 1 .. Len(v) : Fits(msgs, field, v[j])
    BY ONLY <2>1, FieldStands
  <2> QED BY ONLY <2>2
<1>3. Fetched(T, p)[i] = v BY <1>2 DEF Fetched, From, Kept
<1>4. HeldBy(tabs, T, r, i, y, Objs(src)) BY DEF HeldAt
<1>5. CASE ~field.rep
  <2>1. Takes(field.kind, x) BY <1>2, <1>5, StandsNotNil
  <2>2. FieldIs(field, y, x, Objs(src)) BY <1>4, <1>5, <2>1, Zenon DEF HeldBy
  <2>3. SameAs(field, y, v, alike) BY <1>2, <1>5, <1>a, <2>2, ValueSame
  <2> QED BY <1>3, <1>5, <2>3, Zenon DEF SameField, SameAs
<1>6. CASE field.rep
  <2> PICK array, places : array = tabs[x.v] /\ places = Places(field.kind, array, Len(v)) OBVIOUS
  <2>1. Lengths(array) = {Len(v)} /\ \A j \in 1 .. Len(v) : Stands(std, field, Item(array, j), v[j])
    <3>1. /\ Kept(msgs, std) /\ i \in 1 .. Len(Fields[T]) /\ field = Fields[T][i] /\ v = From(msgs, T, p)[i]
          /\ array = tabs[x.v] BY <1>1
    <3>2. /\ field \in FieldSet /\ Len(v) \in Nat /\ (\A k \in 1 .. Len(v) : Fits(msgs, field, v[k]))
          /\ IsFor(std, x, Role(T, p, i)) BY <1>2, <1>6, Zenon
    <3>3. IsArray(msgs, std, T, p, i, field, v, x, array) BY ONLY <3>1, <3>2 DEF IsArray
    <3> QED BY ONLY <3>1, <3>3, ArrayStands
  <2>2. x.t = "table" BY <1>2, <1>6, Zenon DEF IsFor
  <2>3. PICK n \in Lengths(array) : FilledTo(field, array, n, y, Objs(src))
    BY <1>4, <1>6, <2>2, Zenon DEF HeldBy
  <2>4. FilledTo(field, array, Len(v), y, Objs(src)) BY <2>1, <2>3, Zenon
  <2>5. \A j \in 1 .. Len(v) : Takes(field.kind, Item(array, j))
    BY <1>2, <1>6, <2>1, StandsNotNil, Zenon
  <2>6. Len(places) = Len(v) /\ \A j \in 1 .. Len(v) : places[j] = j
    <3>1. Len(v) \in Nat /\ places = Places(field.kind, array, Len(v)) BY <1>2, <1>6, Zenon
    <3>2. Len(Places(field.kind, array, Len(v))) = Len(v) /\ \A j \in 1 .. Len(v) : Places(field.kind, array, Len(v))[j] = j
      BY ONLY <2>5, <3>1, AllPlaces
    <3> QED BY ONLY <3>1, <3>2
  <2>7. Len(y) = Len(places) /\ \A j \in 1 .. Len(y) : FieldIs(field, y[j], Item(array, places[j]), Objs(src))
    BY <2>4, Zenon DEF FilledTo
  <2>8. Len(y) = Len(v) /\ \A j \in 1 .. Len(v) : FieldIs(field, y[j], Item(array, j), Objs(src))
    <3>1. Len(y) = Len(v) BY ONLY <2>6, <2>7
    <3>2. ASSUME NEW j \in 1 .. Len(v) PROVE FieldIs(field, y[j], Item(array, j), Objs(src))
      <4>1. j \in 1 .. Len(y) /\ places[j] = j BY ONLY <2>6, <3>1, j \in 1 .. Len(v)
      <4>2. FieldIs(field, y[j], Item(array, places[j]), Objs(src)) BY ONLY <2>7, <4>1
      <4> QED BY ONLY <4>1, <4>2
    <3> QED BY ONLY <3>1, <3>2
  <2>9. ASSUME NEW j \in 1 .. Len(v) PROVE SameAs(field, y[j], v[j], alike)
    <3>1. /\ Stands(std, field, Item(array, j), v[j]) /\ FieldIs(field, y[j], Item(array, j), Objs(src))
          /\ Fits(msgs, field, v[j]) /\ field \in FieldSet BY <1>2, <1>6, <2>1, <2>8, Zenon
    <3> QED BY ONLY <1>a, <3>1, ValueSame
  <2> QED BY <1>3, <1>6, <2>8, <2>9, Zenon DEF SameField, SameAs
<1> QED BY <1>5, <1>6

\* What is sent is alike to what has arrived.
LEMMA EndAlike ==
    ASSUME IInv, NEW src, Content(src), rframes = <<>>, NEW msgs, NEW std, Kept(msgs, std),
           table.v = 1, pb[root].type = pb[1].type
    PROVE  <<root, 1>> \in Alike
<1>1. /\ Len(pb) \in Nat /\ Known(src) /\ Closed(src) /\ root \in 1 .. Len(pb) /\ Len(rframes) = 0
  BY SizeOf DEF Content, Known
<1> PICK alike : alike = {<<o, std[src[o]].obj>> : o \in root .. Len(pb)} OBVIOUS
<1>2. Matching(src, std, alike) BY <1>1, RolesAre DEF Matching
<1>3. Len(msgs) \in Nat /\ root = Len(msgs) + 1 /\ \A o \in 1 .. Len(msgs) : pb[o] = msgs[o]
  BY DEF Kept
<1>4. ASSUME NEW q \in root .. Len(pb) PROVE <<q, std[src[q]].obj>> \in AlikeRound(alike)
  <2> PICK p : p = std[src[q]].obj OBVIOUS
  <2>1. q \in 1 .. Len(pb) /\ src[q] \in 1 .. Len(tabs) BY <1>1 DEF Known
  <2>2. std[src[q]] = Role(pb[q].type, p, 0) /\ RoleOK(msgs, std[src[q]])
    BY <1>2, <2>1 DEF Matching, RoleFor, Kept
  <2>3. p \in Nat /\ (p # 0 => p \in 1 .. Len(msgs) /\ msgs[p].type = pb[q].type)
    BY <2>2 DEF RoleOK, RoleSet, Role
  <2>4. p \in 0 .. Len(pb) /\ (p # 0 => pb[p].type = pb[q].type) BY <1>1, <1>3, <2>3
  <2>5. ASSUME NEW i \in 1 .. Len(Fields[pb[q].type]) PROVE SameField(q, p, i, alike)
    BY <1>1, <1>2, FieldSame DEF FieldsOf, Closed
  <2> PICK h : h = <<q, p>> OBVIOUS
  <2>6. h \in (1 .. Len(pb)) \X (0 .. Len(pb)) /\ h[1] = q /\ h[2] = p BY <2>1, <2>4
  <2>7. h \in AlikeRound(alike) BY <2>4, <2>5, <2>6, Zenon DEF AlikeRound
  <2> QED BY <2>7
<1>5. alike \subseteq AlikeRound(alike) BY <1>4
<1>6. <<root, 1>> \in alike BY <1>1 DEF Known, Kept, Role
<1> QED BY <1>1, <1>5, <1>6, AlikeIs

RouteOf(ty, x, y, c) == [type |-> ty, p1 |-> x, p2 |-> y, p3 |-> c]

IsRoute(q, ty, x, y, c) == q = RouteOf(ty, x, y, c)

IsSet(w, q, x, y) == w = [q EXCEPT !.p1 = x, !.p2 = y]

LEMMA RouteSet ==
    ASSUME NEW ty, NEW x, NEW y, NEW c, NEW x2, NEW y2, NEW q, IsRoute(q, ty, x, y, c),
           NEW w, IsSet(w, q, x2, y2)
    PROVE  w = RouteOf(ty, x2, y2, c)
<1>0. q = RouteOf(ty, x, y, c) /\ w = [q EXCEPT !.p1 = x2, !.p2 = y2] BY DEF IsRoute, IsSet
<1>1. DOMAIN q = {"type", "p1", "p2", "p3"} BY <1>0 DEF RouteOf
<1>2. w = [i \in {"type", "p1", "p2", "p3"} |-> IF i = "p2" THEN y2 ELSE IF i = "p1" THEN x2 ELSE q[i]]
  BY <1>0, <1>1, Zenon
<1>3. w.type = ty /\ w.p1 = x2 /\ w.p2 = y2 /\ w.p3 = c /\ DOMAIN w = {"type", "p1", "p2", "p3"}
  BY <1>0, <1>2 DEF RouteOf
<1> QED BY <1>2, <1>3 DEF RouteOf

LEMMA RouteText ==
    ASSUME NEW ty, NEW a, NEW b, NEW c
    PROVE  Texts(RouteOf(ty, Val("number", a), Val("number", b), c)) = RouteOf(ty, Val("digits", a), Val("digits", b), c)
<1>1. ASSUME NEW x PROVE [[t |-> "number", v |-> x] EXCEPT !.t = "digits"] = [t |-> "digits", v |-> x]
  OBVIOUS
<1> PICK x, y, x2, y2, q : /\ x = [t |-> "number", v |-> a] /\ y = [t |-> "number", v |-> b]
                           /\ x2 = [x EXCEPT !.t = "digits"] /\ y2 = [y EXCEPT !.t = "digits"]
                           /\ q = RouteOf(ty, x, y, c) OBVIOUS
<1>2. x2 = [t |-> "digits", v |-> a] /\ y2 = [t |-> "digits", v |-> b] BY <1>1
<1>3. q.p1 = x /\ q.p2 = y BY DEF RouteOf
<1>4. Texts(q) = [q EXCEPT !.p1 = x2, !.p2 = y2] BY <1>3 DEF Texts
<1> PICK w : w = [q EXCEPT !.p1 = x2, !.p2 = y2] OBVIOUS
<1>5. w = RouteOf(ty, x2, y2, c)
  <2>1. IsRoute(q, ty, x, y, c) /\ IsSet(w, q, x2, y2) BY Zenon DEF IsRoute, IsSet
  <2> QED BY ONLY <2>1, RouteSet
<1>6. x = Val("number", a) /\ y = Val("number", b) /\ x2 = Val("digits", a) /\ y2 = Val("digits", b)
  BY <1>2 DEF Val
<1> QED BY <1>4, <1>5, <1>6

LEMMA RouteBack ==
    ASSUME NEW q \in Routes, NEW p1 \in UInt64Of(Texts(q).p1), NEW p2 \in Int64Of(Texts(q).p2)
    PROVE  [Texts(q) EXCEPT !.p1 = Val("number", p1), !.p2 = Val("number", p2)] = q
<1>1. q \in [type : Int, p1 : [t : {"number"}, v : UInt64s], p2 : [t : {"number"}, v : Int64s], p3 : LuaSet]
  BY RequestsAssumption
<1> PICK a, b, t : a = q.p1.v /\ b = q.p2.v /\ t = Texts(q) OBVIOUS
<1>2. a \in UInt64s /\ b \in Int64s /\ q = RouteOf(q.type, Val("number", a), Val("number", b), q.p3)
  BY <1>1 DEF RouteOf, Val
<1>3. t = RouteOf(q.type, Val("digits", a), Val("digits", b), q.p3) BY <1>2, RouteText, Zenon
<1>a. t.p1 = Val("digits", a) /\ t.p2 = Val("digits", b) BY <1>3 DEF RouteOf
<1>4. p1 = a BY <1>a, <1>2, ScalarsComeBack DEF ScalarOf, ScalarTo, Int64To, Scalars, RangeOf, Trim
<1>5. p2 = b BY <1>a, <1>2, ScalarsComeBack DEF ScalarOf, ScalarTo, Int64To, Scalars, RangeOf, Trim
<1> PICK x, y : x = Val("number", p1) /\ y = Val("number", p2) OBVIOUS
<1> PICK w : w = [t EXCEPT !.p1 = x, !.p2 = y] OBVIOUS
<1>6. w = RouteOf(q.type, x, y, q.p3)
  <2>1. IsRoute(t, q.type, Val("digits", a), Val("digits", b), q.p3) /\ IsSet(w, t, x, y)
    BY <1>3, Zenon DEF IsRoute, IsSet
  <2> QED BY ONLY <2>1, RouteSet
<1> QED BY <1>2, <1>4, <1>5, <1>6

LEMMA InitBack == Init => BackInv BY DEF Init, BackInv

\* What has begun to be sent is kept until it is sent.
LEMMA SentKept ==
    ASSUME BackInv, pc = "send", UNCHANGED <<tabs, root, route, edits>>, SameBelow(pb, pb'), pc' \in {"send", "sent", "exited"}
    PROVE  BackInv'
<1>1. tabs' = tabs /\ root' = root /\ route' = route /\ edits' = edits OBVIOUS
<1>2. route \in Routes /\ (edits = 0 => \E msgs, std : Kept(msgs, std)) BY DEF BackInv
<1>3. ASSUME edits = 0 PROVE \E msgs, std : Kept(msgs, std)'
  <2>1. PICK msgs, std : Kept(msgs, std) BY <1>2, <1>3
  <2>2. Kept(msgs, std)' BY ONLY <1>1, <2>1, KeptStays, SameBelow(pb, pb')
  <2> QED BY <2>2
<1> QED BY <1>1, <1>2, <1>3 DEF BackInv

LEMMA Lua2ProtobufBack ==
    ASSUME IInv, CInv, BackInv, NEW T \in Types, Lua2Protobuf(T) PROVE BackInv'
<1>1. pc = "script" /\ edits' = edits BY Zenon DEF Lua2Protobuf
<1>2. CASE pc' \in {"exited", "refused"} BY <1>2 DEF BackInv
<1>3. CASE /\ \E p1 \in UInt64Of(route.p1), p2 \in Int64Of(route.p2) :
                 route' = [route EXCEPT !.p1 = Val("number", p1), !.p2 = Val("number", p2)]
           /\ StartToProto(T, table) /\ root' = Len(pb) + 1 /\ pc' = "send"
           /\ tabs' \in {tabs, [i \in 1 .. Len(tabs) |-> Reversed(tabs[i])]}
  <2>1. PICK q \in Routes : route = Texts(q) BY <1>1 DEF BackInv
  <2>2. route' = q BY <1>3, <2>1, RouteBack, Zenon
  <2>3. ASSUME edits = 0 PROVE \E msgs, std : Kept(msgs, std)'
    BY <1>1, <2>3, <1>3, KeptStart DEF CInv, StartToProto
  <2> QED BY <1>1, <1>3, <2>2, <2>3 DEF BackInv
<1> QED BY <1>2, <1>3, Zenon DEF Lua2Protobuf

LEMMA NextKeepsBack == IInv /\ CInv /\ BackInv /\ [Next]_vars => BackInv'
<1> SUFFICES ASSUME IInv, CInv, BackInv, [Next]_vars PROVE BackInv' OBVIOUS
<1>0. SameBelow(pb, pb) BY DEF SameBelow
<1>1. CASE exe_OnLuaVMRecvMessage BY <1>1 DEF exe_OnLuaVMRecvMessage, BackInv
<1>2. CASE CallScript
  <2>1. pc = "recv" /\ pc' \in {"script", "exited"} /\ route' = Texts(route)
    BY <1>2 DEF CallScript, Texts
  <2> QED BY <2>1 DEF BackInv
<1>3. CASE ScriptEdits \/ Created \/ \E T \in Types : CreateNewProtobufByCmd(T)
  BY <1>3 DEF ScriptEdits, Created, CreateNewProtobufByCmd, BackInv
<1>4. ASSUME NEW T \in Types, Lua2Protobuf(T) PROVE BackInv' BY <1>4, Lua2ProtobufBack
<1>5. CASE Send \/ Exits BY <1>0, <1>5, SentKept DEF Send, Exits
<1>6. CASE pc \in {"recv", "create"} /\ ToLuaStep /\ UNCHANGED <<toProto, bridge>>
  BY <1>6 DEF BackInv, bridge
<1>7. CASE pc = "send" /\ ToProtoStep /\ UNCHANGED <<toLua, bridge>>
  <2>1. pc' = pc /\ route' = route /\ edits' = edits /\ root' = root BY <1>7 DEF bridge
  <2>2. ~dead /\ tabs' = tabs
    BY <1>7 DEF ToProtoStep, LoseKey, SkipPair, SetScalar, FillMessage, BeginArray, AddScalar, AddMessage, EndFrame
  <2>3. PICK src : Content(src) BY <1>7 DEF CInv
  <2>4. Sending BY <1>7, <2>2 DEF Sending, CInv
  <2>5. SameBelow(pb, pb') BY <1>7, <2>3, <2>4, ToProtoBelow
  <2> QED BY <1>7, <2>1, <2>2, <2>5, SentKept
<1>8. CASE UNCHANGED vars BY <1>8, <1>0, KeptStays DEF vars, BackInv
<1> QED BY <1>1, <1>2, <1>3, <1>4, <1>5, <1>6, <1>7, <1>8 DEF Next, Convert

\* What a script sends back unchanged is, at every depth and element by element,
\* the message that arrived, save the ends of its texts; and it goes to where it
\* came from.
THEOREM SentComesBack == Spec => []RoundTrip
<1>1. Init => IInv /\ CInv /\ BackInv BY InitOK, InitCInv, InitBack
<1>2. IInv /\ CInv /\ BackInv /\ [Next]_vars => IInv' /\ CInv' /\ BackInv'
  BY NextKeepsC, NextKeepsBack
<1>3. IInv /\ CInv /\ BackInv => RoundTrip BY EndAlike DEF RoundTrip, CInv, BackInv
<1> QED BY <1>1, <1>2, <1>3, PTL DEF Spec
============================================================================
