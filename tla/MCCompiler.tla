----------------------------- MODULE MCCompiler -----------------------------
(* Instances of Compiler for TLC: a header h with a field of two bits and   *)
(* one that nobody compares, and headers b, u and w of one bit.             *)
EXTENDS Compiler

MCStructs == <<[name |-> "H", fields |-> <<[name |-> "g", bits |-> 1], [name |-> "f", bits |-> 2]>>],
               [name |-> "B", fields |-> <<[name |-> "y", bits |-> 1]>>]>>

MCMembers == <<[name |-> "h", type |-> "H"], [name |-> "b", type |-> "B"],
               [name |-> "u", type |-> "B"], [name |-> "w", type |-> "B"]>>

Declares(members, body) ==
  [structs |-> MCStructs, phvs |-> <<members>>,
   functions |-> <<[name |-> "parse", body |-> [op |-> "block", body |-> body]]>>]

Program(body) == Declares(MCMembers, body)

Ext(m)     == [op |-> "extract", member |-> m]
Accepts    == [op |-> "return", verdict |-> "ACCEPT"]
Rejects    == [op |-> "return", verdict |-> "REJECT"]
F(v)       == [rel |-> "==", attr |-> <<"h", "f">>, mask |-> NoMask, value |-> v]
Y(v)       == [rel |-> "==", attr |-> <<"b", "y">>, mask |-> NoMask, value |-> v]
If(t, a, b) == [op |-> "if", test |-> t, then |-> Block(a), else |-> Block(b)]

Off == [not_always_extract |-> FALSE, drop_uncompared |-> FALSE,
        field_min |-> TRUE, constant_synthesis |-> TRUE]
Drop == [Off EXCEPT !.drop_uncompared = TRUE]
Wide(fl) == [fl EXCEPT !.field_min = FALSE]

With(bodies, fl) == {[source |-> Program(b), flags |-> x] : b \in bodies, x \in fl}

Tails == {<<Ext("u")>>, <<Ext("w"), Ext("u")>>}

(* Uncompared headers behind the last compared one of every path. *)
Branches == {<<Ext("h"), If(F(v), s \o <<x>>, t \o <<Accepts>>)>> :
               v \in {2}, s \in Tails, t \in Tails, x \in {Accepts, Rejects}}

Later == {<<Ext("h"), Ext("b"), If(F(2), s, t), If(Y(1), <<Accepts>>, <<x>>)>> :
            s \in Tails, t \in Tails, x \in {Accepts, Rejects}}

Nested == {<<Ext("h"), If(F(2), <<Ext("b"), If(Y(0), s \o <<Accepts>>, t \o <<Rejects>>)>>,
                                <<Ext("u"), Rejects>>)>> : s \in Tails, t \in Tails}

Chain == {<<Ext("h"), If(F(1), s \o <<Accepts>>, <<If(F(3), <<Ext("u"), Rejects>>, t \o <<x>>)>>)>> :
            s \in Tails, t \in Tails, x \in {Accepts}}

Straight == {<<Ext("h")>> \o s \o <<x>> : s \in Tails, x \in {Accepts, Rejects}}


(* Programs for which no machine can skip the dropped header in front.      *)
Leading == {<<Ext("u"), Ext("h"), If(F(2), <<Accepts>>, <<Rejects>>)>>}

(* With all headers kept. *)
Small == {<<Ext("h"), If(t, s \o <<Rejects>>, <<Accepts>>)>> :
            s \in {<<>>, <<Ext("u")>>}, t \in {F(2), [F(1) EXCEPT !.mask = 1]}}

Late == {<<Ext("h"), Ext("b"), If(F(2), <<Rejects>>, <<Accepts>>)>>}

Illegal == {<<Ext("u"), If(F(2), <<Accepts>>, <<Rejects>>)>>}

Second == [Off EXCEPT !.not_always_extract = TRUE]

MCStitching ==
  With(Branches \cup Later \cup Nested \cup Chain \cup Straight \cup Leading, {Drop})
    \cup With(Small, {Off, Wide(Off), Second})
    \cup With(Late, {Second})
    \cup With(Illegal, {Off, Drop})
    \cup With(Late, {[Drop EXCEPT !.not_always_extract = TRUE]})

-----------------------------------------------------------------------------
(* if (f == 1) { Extract(u); return ACCEPT; } else if (f == 2) return       *)
(* REJECT; return ACCEPT;                                                   *)
MCLostEntry ==
  With({<<Ext("h"), If(F(1), <<Ext("u"), Accepts>>, <<If(F(2), <<Rejects>>, <<Accepts>>)>>)>>}, {Drop})

(* if ((y & 1) == 1) return ACCEPT; if (f == 2) return ACCEPT; return REJECT; *)
MCTernary ==
  {[source |-> Declares(SubSeq(MCMembers, 1, 2),
                        <<Ext("h"), If(F(2), <<Ext("b"), If([Y(1) EXCEPT !.mask = 1],
                                                            <<Accepts>>, <<Rejects>>)>>, <<Rejects>>)>>),
    flags |-> Off]}

(* if (y == 1) { Extract(u); Extract(w); } else { Extract(w); Extract(u); } *)
(* return ACCEPT;                                                           *)
MCEitherOrder ==
  {[source |-> Declares(SubSeq(MCMembers, 2, 4),
                        <<Ext("b"), If(Y(1), <<Ext("u"), Ext("w")>>, <<Ext("w"), Ext("u")>>), Accepts>>),
    flags |-> Second]}

(* if (y == 1) return ACCEPT; return REJECT;                                *)
MCFlag ==
  {[source |-> Declares(SubSeq(MCMembers, 2, 2), <<Ext("b"), If(Y(1), <<Accepts>>, <<Rejects>>)>>),
    flags |-> [Wide(Off) EXCEPT !.constant_synthesis = FALSE]]}
=============================================================================
