----------------------------- MODULE MCFrontend -----------------------------
(* Instances of Frontend for TLC: two members, h with two fields and u with *)
(* one.  The first compilation is given every small program, the second,    *)
(* whose input has the same stem, one of a few.                             *)
EXTENDS Frontend

MCStructs == <<[name |-> "H", fields |-> <<[name |-> "f", bits |-> 1], [name |-> "g", bits |-> 2]>>],
               [name |-> "U", fields |-> <<[name |-> "x", bits |-> 2], [name |-> "y", bits |-> 1]>>]>>

MCMembers == <<[name |-> "h", type |-> "H"], [name |-> "u", type |-> "U"]>>

Program(body) == [structs |-> MCStructs, phvs |-> <<MCMembers>>,
                  functions |-> <<[name |-> "parse", body |-> body]>>]

Ext(m)      == [op |-> "extract", member |-> m]
Accepts     == [op |-> "return", verdict |-> "ACCEPT"]
Rejects     == [op |-> "return", verdict |-> "REJECT"]
Test(rel, m, f, k, v) == [rel |-> rel, attr |-> <<m, f>>, mask |-> k, value |-> v]
If(t, a, b) == [op |-> "if", test |-> t, then |-> a, else |-> b]

MCTests == {Test("==", "h", "f", NoMask, 1), Test("!=", "h", "g", NoMask, 2),
            Test("==", "h", "g", 1, 1), Test("&", "h", "g", NoMask, 1)}

Branches == {Ext("u"), Rejects, Block(<<Ext("u"), Accepts>>), Block(<<Accepts, Ext("u")>>),
             If(Test("!=", "h", "g", NoMask, 3), Block(<<Ext("u")>>), NoElse),
             If(Test("==", "h", "f", NoMask, 0), Rejects, Accepts)}

Bodies == {If(t, a, b) : t \in MCTests, a \in Branches,
                         b \in {NoElse, Ext("u"), Rejects, If(Test("!=", "h", "f", NoMask, 0), Rejects, Accepts)}}

Legal == {Program(Block(<<Ext("h"), x, y>>)) :
            x \in Bodies \cup {Ext("u")}, y \in {Accepts, Ext("u"), If(Test("==", "h", "g", NoMask, 3), Rejects, Accepts)}}

(* Programs the Collector must not hand on. *)
Sound   == Program(Block(<<Ext("h"), Accepts>>))
Illegal == {[Sound EXCEPT !.phvs = @ \o @],
            [Sound EXCEPT !.phvs[1] = <<[name |-> "h", type |-> "V"]>>],
            [Sound EXCEPT !.structs[1].fields[1].bits = 0],
            [Sound EXCEPT !.functions[1].name = "main"],
            Program(Block(<<Ext("v"), Accepts>>)),
            Program(Block(<<Ext("h"), Block(<<Accepts>>)>>)),
            Program(Block(<<Ext("h"), If(Test("==", "u", "f", NoMask, 1), Rejects, Accepts)>>))}

MCSources == [c \in {1, 2} |-> IF c = 1 THEN Legal \cup Illegal ELSE {Program(Block(<<Ext("h"), Rejects>>))}]
MCStem    == [c \in {1, 2} |-> "a"]
MCFlags   == [c \in {1, 2} |-> IF c = 1 THEN BOOLEAN ELSE {TRUE}]
=============================================================================
