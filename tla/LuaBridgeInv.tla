---------------------------- MODULE LuaBridgeInv ----------------------------
(***************************************************************************)
(* What the two conversions keep from one round to the next: the shapes of  *)
(* the stack and the frames, and what the messages say on the way back.     *)
(***************************************************************************)
EXTENDS LuaBridgeProps

\* Keys are no tables, and a reference leads to a table that exists.
Keys == {k \in LuaSet : k.t # "table"}
Values(n) == {x \in LuaSet : x.t = "table" => x.v \in 1 .. n}
Pairs(n) == Keys \X Values(n)

HeapOK == /\ tabs \in Seq(Seq(Pairs(Len(tabs))))
          /\ stack \in Seq(Values(Len(tabs)))
          /\ table \in Values(Len(tabs))
          /\ old \in Nat

\* Which conversion may run, and that messages are made only by the second one.
Before == {"idle", "recv", "script", "create"}
PhaseOK == /\ pc \in Before \cup {"send", "sent", "refused", "exited"}
           /\ pc \in Before => /\ pb \in Requests /\ rframes = <<>>
                               /\ scan = NoScan /\ dead = FALSE
           /\ pc \notin {"recv", "create"} => wframes = <<>>
           /\ pc = "idle" => route \in Routes
           /\ pc = "send" => old = 1

WSet == [type : Types, obj : Nat, at : Nat, next : Nat \ {0}, settable : BOOLEAN, loop : Nat]

WOK == /\ wframes \in Seq(WSet)
       /\ \A i \in 1 .. Len(wframes) :
             /\ wframes[i].obj # 0 => /\ wframes[i].obj \in 1 .. Len(pb)
                                      /\ pb[wframes[i].obj].type = wframes[i].type
             /\ i > 1 => stack[wframes[i].at - 1] \in Keys
             /\ wframes[i].loop > 0 => stack[wframes[i].at + 1] \in Keys
       /\ \A i, j \in 1 .. Len(wframes) : i < j => wframes[i].at + Waits(wframes[i]) <= wframes[j].at
       /\ wframes # <<>> => wframes[1].at = old + 1

WInv == HeapOK /\ PhaseOK /\ WOK /\ ToLuaShape /\ Balanced

----------------------------------------------------------------------------
\* The frames on the way to a message.

RSet == [obj : Nat, at : Nat, fresh : BOOLEAN, pops : Nat]

StackedOn(st, f, g) ==
    \/ f.fresh /\ g.at = f.at + 1 /\ g.pops = 1
    \/ ~f.fresh /\ g.at = f.at + 2 /\ g.pops = 1
    \/ ~f.fresh /\ g.at = f.at + 3 /\ st[f.at + 2].t = "table" /\ g.pops \in {1, 2}

FramesOn(st, fr) ==
    /\ fr \in Seq(RSet)
    /\ Len(fr) > 0 => fr[1].at = 1 /\ fr[1].pops = 0
    /\ \A i \in 1 .. Len(fr) : fr[i].at \in 1 .. Len(st) /\ st[fr[i].at].t = "table"
    /\ \A i \in 1 .. Len(fr) - 1 : StackedOn(st, fr[i], fr[i + 1])
    /\ \A i, j \in 1 .. Len(fr) : i < j => fr[i].at < fr[j].at

\* What the innermost frame finds on the stack, and the frames of an array.
TopOn(st, fr) ==
    LET r == fr[Len(fr)]
    IN \/ Len(st) = r.at + (IF r.fresh THEN 0 ELSE 1)
       \/ ~r.fresh /\ Len(st) = r.at + 2 /\ st[r.at + 2].t = "table"

ArrayOn(st, fr, sc) ==
    /\ sc.own \in 1 .. Len(fr) /\ ~fr[sc.own].fresh
    /\ sc.at = fr[sc.own].at + 2 /\ st[sc.at].t = "table"
    /\ \A i \in sc.own + 1 .. Len(fr) : fr[i].fresh /\ fr[i].at = sc.at + i - sc.own
    /\ Len(st) = sc.at + Len(fr) - sc.own
    /\ sc.idx \in 1 .. sc.n
    /\ sc.idx = 1 => Len(fr) = sc.own

RoundOn(st, fr, sc) == IF sc = NoScan THEN TopOn(st, fr) ELSE ArrayOn(st, fr, sc)

ScanSet == [idx : Nat, n : Nat, own : Nat, at : Nat, field : Nat]

Typed(heap) == \E V : heap \in Seq([type : Types, val : V])

ROK == /\ FramesOn(stack, rframes)
       /\ \A i \in 1 .. Len(rframes) : rframes[i].obj \in 1 .. Len(pb)
       /\ scan \in ScanSet /\ dead \in BOOLEAN
       /\ rframes = <<>> => scan = NoScan
       /\ rframes # <<>> /\ ~dead =>
             /\ RoundOn(stack, rframes, scan)
             /\ scan # NoScan /\ Field.kind # "message" => Len(rframes) = scan.own

FieldOK == scan # NoScan => scan.field \in 1 .. Len(Fields[Owner.type])

RInv == HeapOK /\ PhaseOK /\ Typed(pb) /\ ROK /\ FieldOK /\ Balanced

\* What Assign and AddTo do to the heap: one message gets other values.
SetVal(heap, o, d) == [heap EXCEPT ![o] = [heap[o] EXCEPT !.val = d]]

----------------------------------------------------------------------------
\* The shapes of both.

IInv == HeapOK /\ PhaseOK /\ WOK /\ ToLuaShape /\ Typed(pb) /\ ROK /\ FieldOK /\ Balanced

----------------------------------------------------------------------------
\* What a message has of its table while the conversion to it goes on.  The
\* objects of objs are known by number, type and table.

\* No key stands twice in a table.
Uniq(pairs) == \A i, j \in 1 .. Len(pairs) : pairs[i][1] = pairs[j][1] => i = j
UniqueKeys == \A r \in 1 .. Len(tabs) : Uniq(tabs[r])

FieldIs(field, a, b, objs) == IF field.kind = "message" THEN <<a, field.sub, b.v>> \in objs
                              ELSE a \in ScalarOf(field.kind, b)

FilledTo(field, pairs, n, y, objs) ==
    /\ \E V : y \in Seq(V)
    /\ Len(y) = Len(Places(field.kind, pairs, n))
    /\ \A j \in 1 .. Len(y) : FieldIs(field, y[j], Item(pairs, Places(field.kind, pairs, n)[j]), objs)

HeldBy(tb, T, ref, i, y, objs) ==
    LET field == Fields[T][i]
        x == Get(tb[ref], Name(field))
    IN IF ~field.rep THEN IF Takes(field.kind, x) THEN FieldIs(field, y, x, objs)
                          ELSE y = Unset(field) /\ ~Throws(field.kind, x)
       ELSE IF x.t # "table" THEN y = <<>>
       ELSE \E n \in Lengths(tb[x.v]) : ~Breaks(field.kind, tb[x.v], n) /\ FilledTo(field, tb[x.v], n, y, objs)

\* The field of a message of type T leads to another message and its table.
Nests(tb, T, ref, i, sub, ref2) ==
    LET field == Fields[T][i]
        x == Get(tb[ref], Name(field))
    IN /\ field.kind = "message" /\ field.sub = sub /\ x.t = "table"
       /\ IF field.rep THEN \E n \in Lengths(tb[x.v]) : \E j \in 1 .. n : Item(tb[x.v], j) = Val("table", ref2)
          ELSE x.v = ref2

\* After c pairs of the table: a field none of them names is not set, and one
\* that a pair before the last one names has what the table says.
SoFar(tb, T, ref, c, i, y, objs) ==
    /\ (\A j \in 1 .. c : tb[ref][j][1] # Name(Fields[T][i])) => y = Unset(Fields[T][i])
    /\ (\E j \in 1 .. c - 1 : tb[ref][j][1] = Name(Fields[T][i])) => HeldBy(tb, T, ref, i, y, objs)

----------------------------------------------------------------------------
\* The messages that a conversion to protobuf makes, and the tables they stand
\* for: src[o] is that of the object o.  They go from root on.

Objs(src) == {<<o, pb[o].type, src[o]>> : o \in root .. Len(pb)}
FieldsOf(o) == 1 .. Len(Fields[pb[o].type])
HeldAt(src, o, i) == HeldBy(tabs, pb[o].type, src[o], i, pb[o].val[i], Objs(src))

\* How many pairs of its table a frame has taken, and whether the last one names
\* the field.
Passed(k) == IF rframes[k].fresh THEN 0
             ELSE PlaceOf(tabs[stack[rframes[k].at].v], stack[rframes[k].at + 1])
Current(k, i) == ~rframes[k].fresh /\ stack[rframes[k].at + 1] = Name(Fields[pb[rframes[k].obj].type][i])

\* The frame's array stays on the stack, or will: that of an array whose first
\* element is no table.
Left(k) == IF k = Len(rframes) THEN Len(stack) = rframes[k].at + 2
           ELSE rframes[k + 1].at = rframes[k].at + 3 /\ rframes[k + 1].pops = 1
Broken(tb, T, ref, i) ==
    LET field == Fields[T][i]
        x == Get(tb[ref], Name(field))
    IN /\ field.rep /\ field.kind = "message" /\ x.t = "table"
       /\ \E n \in Lengths(tb[x.v]) : Breaks(field.kind, tb[x.v], n)
Scans(k) == scan # NoScan /\ scan.own = k

FrameBase(src, k) ==
    LET f == rframes[k]
        o == f.obj
    IN /\ o \in root .. Len(pb) /\ src[o] = stack[f.at].v
       /\ ~f.fresh => \E j \in 1 .. Len(tabs[src[o]]) : tabs[src[o]][j][1] = stack[f.at + 1]
       /\ \A i \in FieldsOf(o) : SoFar(tabs, pb[o].type, src[o], Passed(k), i, pb[o].val[i], Objs(src))

FrameNow(src, k) ==
    LET o == rframes[k].obj
    IN ~rframes[k].fresh /\ ~Scans(k) =>
          IF Left(k) THEN \E i \in FieldsOf(o) : Current(k, i) /\ Broken(tabs, pb[o].type, src[o], i)
          ELSE \A i \in FieldsOf(o) : Current(k, i) => HeldAt(src, o, i)

\* In the middle of an array: what has been seen of it.
ScanNow(src) ==
    scan # NoScan =>
      LET o == rframes[scan.own].obj
          field == Fields[pb[o].type][scan.field]
          array == stack[scan.at]
          pairs == tabs[array.v]
      IN /\ scan.field \in FieldsOf(o) /\ Current(scan.own, scan.field) /\ field.rep
         /\ Get(tabs[src[o]], Name(field)) = array /\ scan.n \in Lengths(pairs)
         /\ FilledTo(field, pairs, scan.idx - 1, pb[o].val[scan.field], Objs(src))
         /\ \A j \in 1 .. scan.idx - 1 : ~Throws(field.kind, Item(pairs, j))
         /\ field.kind = "message" /\ scan.own < Len(rframes) /\ Item(pairs, 1).t # "table" =>
               rframes[scan.own + 1].pops = 1
         /\ field.kind = "message" /\ scan.own < Len(rframes) /\ Item(pairs, 1).t = "table" =>
               rframes[scan.own + 1].pops = 2
         /\ field.kind = "message" /\ scan.own = Len(rframes) /\ scan.idx > 1 => Item(pairs, 1).t # "table"

ChildOf(src, o) == \E p \in root .. o - 1 : \E i \in FieldsOf(p) :
                      Nests(tabs, pb[p].type, src[p], i, pb[o].type, src[o])
Doomed(src) == \E o \in root .. Len(pb) : \E i \in FieldsOf(o) : FatalField(pb[o].type, src[o], i, {})

Known(src) == /\ src \in Seq(1 .. Len(tabs)) /\ Len(src) = Len(pb) /\ root \in 1 .. Len(pb)
              /\ src[root] = table.v
              /\ \A o \in root .. Len(pb) : DOMAIN pb[o].val = FieldsOf(o)
              /\ \A o \in root + 1 .. Len(pb) : ChildOf(src, o)
Closed(src) == \A o \in root .. Len(pb) :
                  (\A k \in 1 .. Len(rframes) : rframes[k].obj # o) => \A i \in FieldsOf(o) : HeldAt(src, o, i)
Rising == \A k, l \in 1 .. Len(rframes) : k < l => rframes[k].obj < rframes[l].obj

Content(src) == /\ Known(src) /\ Closed(src) /\ Rising
                /\ \A k \in 1 .. Len(rframes) : FrameBase(src, k) /\ FrameNow(src, k)
                /\ ScanNow(src)
                /\ dead => Doomed(src)
=============================================================================
