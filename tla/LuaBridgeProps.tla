-------------------------- MODULE LuaBridgeProps ---------------------------
(***************************************************************************)
(* What the two conversions promise, against definitions of what a table    *)
(* and a message have in common.  The definitions go down from the outermost *)
(* message: no message lies deeper than there are messages.                 *)
(***************************************************************************)
EXTENDS LuaBridge

\* A text that crosses as a C string is cut at its first NUL.
CutText(s) == IF s.t = "text" /\ s.v \in NulTexts THEN Val("text", Cut[s.v]) ELSE s
Trim(kind, x) == IF kind = "string" THEN CutText(x) ELSE x

Fetched(T, p) == (IF p = 0 THEN Default(T) ELSE pb[p]).val

\* A field of the message o has what it has in p, when alike holds the pairs of
\* messages that are.
SameField(o, p, i, alike) ==
  LET field == Fields[pb[o].type][i]
      y == pb[o].val[i]
      x == Fetched(pb[o].type, p)[i]
      Same(a, b) == IF field.kind = "message" THEN <<a, b>> \in alike /\ pb[a].type = field.sub
                    ELSE a = Trim(field.kind, b)
  IN IF field.rep THEN Len(y) = Len(x) /\ \A j \in 1 .. Len(x) : Same(y[j], x[j]) ELSE Same(y, x)

\* The messages that are alike, but for the ends of texts: a message field that is
\* not set, message 0, reads as its default.
Alike ==
  LET alike[d \in 0 .. Len(pb)] ==
        {h \in (1 .. Len(pb)) \X (0 .. Len(pb)) :
           d # 0 => /\ h[2] # 0 => pb[h[2]].type = pb[h[1]].type
                    /\ \A i \in 1 .. Len(Fields[pb[h[1]].type]) : SameField(h[1], h[2], i, alike[d - 1])}
  IN alike[Len(pb)]

\* A handler that sends back what it has got sends the same message to where it
\* came from, save that a text (a bytes field) ends at its first NUL: to Lua it
\* goes with its length, and back as a C string.
RoundTrip == pc = "sent" /\ edits = 0 /\ table.v = 1 /\ pb[root].type = pb[1].type =>
                <<root, 1>> \in Alike /\ route \in Routes

----------------------------------------------------------------------------
\* A value that a field of the kind takes, and the places of those values among
\* the first n elements of an array.
Takes(kind, x) == IF kind = "message" THEN x.t = "table" ELSE ScalarOf(kind, x) # {}

Item(pairs, j) == Get(pairs, Val("number", j))

Places(kind, pairs, n) ==
  LET places[j \in 0 .. n] == IF j = 0 THEN <<>>
                              ELSE IF Takes(kind, Item(pairs, j)) THEN Append(places[j - 1], j)
                              ELSE places[j - 1]
  IN places[n]

\* What the conversion does not survive: a text where a 64-bit integer belongs,
\* and an array of messages whose first element is missing or no table.
Breaks(kind, pairs, n) == IF kind = "message" THEN n > 0 /\ Item(pairs, 1).t # "table"
                          ELSE \E j \in 1 .. n : Throws(kind, Item(pairs, j))

\* A field of the message o has what the table ref says: its value, converted, or
\* of an array the elements of the right type in their order.  The pairs of a
\* message and the table that it stands for are in held.
HasField(o, ref, i, held) ==
  LET field == Fields[pb[o].type][i]
      x == Get(tabs[ref], Name(field))
      y == pb[o].val[i]
      Is(a, b) == IF field.kind = "message" THEN <<a, b.v>> \in held /\ pb[a].type = field.sub
                  ELSE a \in ScalarOf(field.kind, b)
  IN IF ~field.rep THEN IF Takes(field.kind, x) THEN Is(y, x) ELSE y = Unset(field) /\ ~Throws(field.kind, x)
     ELSE IF x.t # "table" THEN y = <<>>
     ELSE \E n \in Lengths(tabs[x.v]) :
            /\ ~Breaks(field.kind, tabs[x.v], n)
            /\ LET places == Places(field.kind, tabs[x.v], n)
               IN Len(y) = Len(places) /\ \A j \in 1 .. Len(places) : Is(y[j], Item(tabs[x.v], places[j]))

Held ==
  LET held[d \in 0 .. Len(pb)] ==
        {h \in (1 .. Len(pb)) \X (1 .. Len(tabs)) :
           d # 0 => \A i \in 1 .. Len(Fields[pb[h[1]].type]) : HasField(h[1], h[2], i, held[d - 1])}
  IN held[Len(pb)]

\* A table in which a message of type T finds what the conversion does not survive,
\* or another such table.
FatalField(T, ref, i, fatal) ==
  LET field == Fields[T][i]
      x == Get(tabs[ref], Name(field))
      Dies(b) == field.kind = "message" /\ b.t = "table" /\ <<field.sub, b.v>> \in fatal
  IN IF field.rep THEN x.t = "table" /\ \E n \in Lengths(tabs[x.v]) :
                         Breaks(field.kind, tabs[x.v], n) \/ \E j \in 1 .. n : Dies(Item(tabs[x.v], j))
     ELSE Throws(field.kind, x) \/ Dies(x)

Fatal ==
  LET fatal[d \in 0 .. Len(pb)] ==
        {h \in Types \X (1 .. Len(tabs)) :
           d # 0 /\ \E i \in 1 .. Len(Fields[h[1]]) : FatalField(h[1], h[2], i, fatal[d - 1])}
  IN fatal[Len(pb)]

\* What the script passes is what is sent, whatever it has made of the table, or
\* the process ends; and it ends only for the two reasons above.
Faithful == /\ pc = "sent" => <<root, table.v>> \in Held
            /\ dead => <<pb[root].type, table.v>> \in Fatal

\* Every conversion comes to its end.
Halts == /\ pc = "recv" ~> pc # "recv"
         /\ pc = "create" ~> pc # "create"
         /\ pc = "send" ~> pc # "send"
============================================================================
