----------------------------- MODULE MCPickling -----------------------------
EXTENDS Pickling

N(kind, args) == [kind |-> kind, args |-> args]
Words == {Num(5)} \cup {Ptr(i) : i \in 1..3}

\* The nodes below the root; node 4 is a string, the name of the handler.
Nodes == {N(k, <<w>>) : k \in {"CELL", "TAG", "CONCRETE"}, w \in Words}
           \cup {N("CLOSURE", <<w, Ptr(1)>>) : w \in Words}
           \cup {N("FUTURE", <<>>), N("UNIQUE", <<Ptr(4)>>), N("SITED", <<>>),
                 N("MCHUNK", <<Num(7)>>)}
Name == N("CHUNK", [i \in 1..14 |-> Num(i)])

MCGraphs ==
    {g \in {<<N("TUPLE", <<w, x>>), n, m, Name>> :
              w \in Words, x \in Words, n \in Nodes, m \in Nodes} :
       {2, 3} \subseteq Reachable(g, {1})}
MCAssigned == {Num(-1), Ptr(1), Ptr(3)}
=============================================================================
