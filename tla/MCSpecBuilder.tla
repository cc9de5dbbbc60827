---------------------------- MODULE MCSpecBuilder ----------------------------
(* Instances of SpecBuilder for TLC: graphs of seven nodes, of which the    *)
(* first extracts attribute 0 (two bits) and the last two are ACCEPT and    *)
(* REJECT.  Attributes 0 and 2 are compared, attribute 1 is not.            *)
EXTENDS SpecBuilder

MCAttrSize == [a \in 0 .. 2 |-> IF a = 0 THEN 2 ELSE 1]
MCCompared == {0, 2}

(* The fields of the synthesiser: the compared attributes. *)
MCComparedSizes == [f \in 0 .. 1 |-> IF f = 0 THEN 2 ELSE 1]

One == [b \in 0 .. MaxFieldSize - 1 |-> IF b = 0 THEN 1 ELSE 0]

Extraction(n) == [kind : {"extract"}, attr : 0 .. 2, next : n + 1 .. 7]

Comparison(n) ==
  {c \in [kind : {"if"}, attr : MCCompared, value : {One},
          mask : IF n = 5 THEN {One} ELSE {FullMask},
          next_true : n + 1 .. 7, next_false : n + 1 .. 7] :
     IF n = 5 THEN c.next_true # c.next_false ELSE c.next_true < c.next_false}

Inner(n) == Extraction(n) \cup Comparison(n)

Graph(inner) ==
  <<[kind |-> "extract", attr |-> 0, next |-> 2]>> \o inner \o
  <<[kind |-> "exit", accept |-> TRUE], [kind |-> "exit", accept |-> FALSE]>>

(* Every attribute counted as compared is compared somewhere. *)
MCGraphs ==
  {Graph(inner) :
     inner \in {i \in Inner(2) \X Inner(3) \X Inner(4) \X Inner(5) :
                  {i[k].attr : k \in {j \in 1 .. 4 : i[j].kind = "if"}} = MCCompared}}

MCValues == {One}
MCMasks  == {FullMask}
=============================================================================
