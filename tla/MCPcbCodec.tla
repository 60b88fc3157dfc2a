----------------------------- MODULE MCPcbCodec -----------------------------
\* Up to three columns of up to nine rows in up to three parts: empty parts,
\* names and texts that end off a boundary, a bitmap of more than a byte.
EXTENDS PcbCodec

Num(n, parts) == [name |-> n, type |-> "int", parts |-> parts]
Real(n, parts) == [name |-> n, type |-> "float", parts |-> parts]
Text(n, parts) == [name |-> n, type |-> "utf8", parts |-> parts]
Bool(n, parts) == [name |-> n, type |-> "bool", parts |-> parts]

A == <<97>>
Abc == <<97, 98, 99>>
E2 == <<195, 169>>

\* The cuts of three rows, and of no row.
Cuts(r) == {<<r>>, <<SubSeq(r, 1, 1), SubSeq(r, 2, 3)>>, <<<<>>, r>>, <<SubSeq(r, 1, 2), <<>>, SubSeq(r, 3, 3)>>}
Split(p, q, s) == <<Text(Abc, p), Num(A, q), Text(<<>>, s)>>

Nine(x) == [i \in 1..9 |-> IF i \in {2, 9} THEN Null ELSE x]

MCBatches ==
    {Split(p, q, s) : p \in Cuts(<<A, E2, Abc>>), q \in Cuts(<<1, 300, 70000>>), s \in Cuts(<<<<>>, A, <<>>>>)}
    \cup {<<>>, <<Text(A, <<>>), Num(A, <<>>)>>, <<Real(Abc, <<<<7, 0>>, <<255>>>>)>>}
    \cup {<<Num(A, <<Nine(5)>>), Bool(Abc, <<Nine(TRUE)>>), Text(<<>>, <<Nine(Abc)>>)>>,
          <<Bool(A, <<[i \in 1..8 |-> i % 3 = 0]>>), Text(Abc, <<[i \in 1..8 |-> E2]>>)>>,
          <<Bool(Abc, <<<<>>>>), Num(A, <<<<>>>>)>>, <<Text(Abc, <<<<Null, A>>>>), Real(A, <<<<Null, 9>>>>)>>}
=============================================================================
