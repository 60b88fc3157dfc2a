---------------------------- MODULE MCOrmEngine ----------------------------
(* Instances of OrmEngine for TLC: two users, up to three posts, where         *)
(* objects two levels deep.                                                    *)
EXTENDS OrmEngine

C(col, op, v) == [col |-> col, op |-> op, args |-> <<v>>]
MCIn(vs) == [col |-> "user_id", op |-> "in", args |-> vs]
Group(conds, and, or, not) == [conds |-> conds, and |-> and, or |-> or, not |-> not]
Leaf(cs) == Group(cs, <<>>, <<>>, <<>>)

MCConds == {C("user_id", "eq", 1), C("user_id", "ne", 1), C("user_id", "eq", Null),
            C("user_id", "ne", Null), C("id", "gt", 1), C("id", "lte", 2),
            C("live", "eq", 2), C("user_id", "lt", 2),
            MCIn(<<>>), MCIn(<<1, Null>>), C("id", "contains", 1), C("ghost", "eq", 1)}
MCLeaves == {<<>>, <<C("user_id", "eq", 1)>>, <<C("id", "gt", 1), C("live", "eq", 1)>>,
             <<C("id", "contains", 1)>>}
MCLists == {<<>>} \cup {<<Leaf(a)>> : a \in MCLeaves}
           \cup {<<Leaf(<<C("user_id", "eq", 1)>>), Leaf(a)>> : a \in MCLeaves}
MCNested == {<<Group(<<>>, <<>>, <<l>>, <<>>)>> : l \in MCLists}

MCWheres == {Leaf(<<c>>) : c \in MCConds}
            \cup {Group(cs, <<>>, <<l>>, <<>>) : cs \in {<<>>, <<C("id", "lte", 2)>>}, l \in MCLists}
            \cup {Group(<<C("id", "lte", 2)>>, <<>>, <<>>, l) : l \in MCLists}
            \cup {Group(<<C("live", "eq", 1)>>, n, <<>>, <<>>) : n \in MCNested}
            \cup {Group(<<>>, <<>>, <<>>, n) : n \in MCNested}

MCData == {("live" :> 0), ("user_id" :> 1 @@ "user" :> 1), ("user" :> 1), ("ghost" :> 1)}

Row(i, u, l) == [id |-> i, user_id |-> u, live |-> l]
MCBatches == {<<Row(1, Null, 1), Row(2, 1, 0), Row(3, 2, 1)>>,
              <<Row(1, 1, 1), Row(1, 1, 0)>>,
              <<Row(2, 1, 1), [id |-> 3, live |-> 0], Row(1, 1, 1)>>,
              <<Row(3, Null, 1), [id |-> 2, user_id |-> 1, live |-> 1, user |-> 1],
                [id |-> 1, live |-> 0]>>,
              <<[user |-> 1]>>, <<Row(2, 2, 0)>>}
=============================================================================
