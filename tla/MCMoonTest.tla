----------------------------- MODULE MCMoonTest -----------------------------
EXTENDS MoonTest

File(name, ranges) == [name |-> name, ranges |-> ranges]
Ranges == {<<>>, <<<<0, 2>>>>, <<<<1, 1>>>>, <<<<0, 1>>, <<2, 3>>>>, <<<<2, 0>>>>}

MCSpecs ==
    {[package |-> "p", files |-> <<>>]}
    \cup {[package |-> "p", files |-> <<File("a", r)>>] : r \in Ranges}
    \cup {[package |-> "p", files |-> <<File("a", r), File("b", q)>>] : r \in Ranges, q \in Ranges}

MCLayouts ==
    {<<"package", "file_and_index">>, <<"package", "ends first">>, <<"file_and_index", "package">>, <<"file_and_index">>, <<>>,
     <<"no package", "file_and_index">>, <<"package">>, <<"other", "file_and_index">>, <<"broken range">>}
=============================================================================
