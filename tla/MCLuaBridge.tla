---------------------------- MODULE MCLuaBridge ----------------------------
(***************************************************************************)
(* Three message types with every kind of field and every shape: message    *)
(* fields, arrays of scalars and of messages, and an array of messages      *)
(* within one.  Integers have 2 and 3 bits.                                 *)
(***************************************************************************)
EXTENDS LuaBridgeProps

CONSTANTS Outer, Inner, Kinds

F(name, kind, rep, sub) == [name |-> name, kind |-> kind, rep |-> rep, sub |-> sub]

MCTypes == {Outer, Inner, Kinds}
MCFields ==
  [T \in MCTypes |->
     CASE T = Outer -> <<F(1, "int32", FALSE, Inner), F(2, "int64", TRUE, Inner),
                         F(3, "message", FALSE, Inner), F(4, "message", TRUE, Inner)>>
       [] T = Inner -> <<F(5, "string", FALSE, Inner), F(6, "message", TRUE, Kinds)>>
       [] T = Kinds -> <<F(7, "uint32", FALSE, Inner), F(8, "uint64", FALSE, Inner),
                         F(9, "float", FALSE, Inner), F(10, "bool", FALSE, Inner),
                         F(11, "double", FALSE, Inner), F(12, "enum", FALSE, Inner),
                         F(13, "string", TRUE, Inner)>>]
MCCut == [s \in {2} |-> 1]
MCRegistered == {Outer, Kinds}

Obj(T, val) == [type |-> T, val |-> val]
KindsObj(n) == Obj(Kinds, <<n, 7 - n, -n, n % 2, n, n % 2, <<Val("text", n), Val("digits", n)>>>>)

\* An unset message and empty arrays; all set, a NUL among the texts; each kind.
MCRequests ==
  {<<Obj(Outer, <<0, <<>>, 0, <<>>>>)>>,
   <<Obj(Outer, <<-2, <<-4, 3>>, 2, <<3, 4>>>>), Obj(Inner, <<Val("text", 2), <<>>>>),
     Obj(Inner, <<Val("digits", 1), <<5>>>>), Obj(Inner, <<Val("text", 1), <<>>>>), KindsObj(2)>>,
   <<KindsObj(1)>>}

MCRoutes == {[type |-> 1, p1 |-> Val("number", 7), p2 |-> Val("number", 1), p3 |-> Val("text", 0)]}

Num(n) == Val("number", n)
Key1(f) == Val("name", f)
Edit(key, x, new) == [key |-> key, val |-> x, new |-> new]
T1 == Val("table", 1)
T2 == Val("table", 2)

\* Values of the wrong type, out of range, unprintable, missing; arrays with
\* gaps, with strange elements, with a first element that is no table.
MCEdits ==
  {Edit(Key1(1), x, <<>>) : x \in {Num(5), Val("digits", 3), Val("text", 1)}}
  \cup {Edit(Key1(2), T1, <<pairs>>) :
          pairs \in {<<<<Num(1), Val("text", 1)>>>>,
                     <<<<Num(1), Num(4)>>, <<Num(2), Val("boolean", 1)>>, <<Num(3), Val("digits", -3)>>>>}}
  \cup {Edit(Key1(3), x, <<>>) : x \in {Num(1), LuaNil}}
  \cup {Edit(Key1(4), T1, <<<<<<Num(i), T2>>, <<Num(3 - i), x>>, <<Num(3), T2>>>>, <<<<Key1(5), Num(2)>>>>>>) :
          i \in {1, 2}, x \in {Num(1), T2}}
  \cup {Edit(Key1(99), Num(1), <<>>), Edit(Num(1), Num(1), <<>>)}
  \cup {Edit(Key1(8), Val("digits", -1), <<>>), Edit(Key1(8), Val("text", 1), <<>>), Edit(Key1(9), Num(5), <<>>),
        Edit(Key1(10), Num(1), <<>>)}
============================================================================
