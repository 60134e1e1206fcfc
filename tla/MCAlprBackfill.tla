--------------------------- MODULE MCAlprBackfill ---------------------------
(* Small instances of AlprBackfill.                                        *)
EXTENDS AlprBackfill, TLC

\* Two routes; the second has two fcamera segments.
MCNames   == <<1, 2>>
MCFootage == {<<1, 0>>, <<2, 0>>, <<2, 1>>}

\* The same with one segment each.
MCShort == {<<1, 0>>, <<2, 0>>}

\* Requests are interchangeable.
MCSymmetry == Permutations(Handlers)

Everything == [routes |-> Routes, newest |-> FALSE, max |-> 0]
NewestOne  == [routes |-> Routes, newest |-> TRUE, max |-> 1]

MCFilters    == {Everything, NewestOne}
MCNoCap      == {Everything}
MCOps        == {"start", "pause", "resume", "cancel"}
=============================================================================
