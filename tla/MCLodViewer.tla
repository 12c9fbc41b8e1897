---------------------------- MODULE MCLodViewer ----------------------------
EXTENDS LodViewer

\* r is split into w and e, w into a and b, e into c and d; b is twice as large
\* as the other leaves, the proxies are as large as b.
TreeOrder == <<"a", "b", "c", "d", "e", "r", "w">>
TreeParent == [n \in {"a", "b", "c", "d", "e", "w"} |->
                 IF n \in {"a", "b"} THEN "w" ELSE IF n \in {"c", "d"} THEN "e" ELSE "r"]
TreeRecords == [n \in {"a", "b", "c", "d", "e", "r", "w"} |->
                 IF n \in {"a", "c", "d"} THEN 1 ELSE 2]

\* Every complete cut, nearest tile first from either side, and cuts of a
\* viewer that drops what is out of view.
TreeCuts == {<<"r">>, <<"w", "e">>, <<"a", "b", "e">>, <<"e", "b", "a">>, <<"c", "d", "w">>,
             <<"a", "b", "c", "d">>, <<"d", "c", "b", "a">>, <<"e">>, <<"a", "c">>, <<>>}
=============================================================================
