------------------------------ MODULE MCQuery ------------------------------
EXTENDS Query, TLC

MoonBitArray(elem) == Ref(Struct(<<Ref(ArrayOf(elem)), I32>>))

AllPgTypes == Texts \cup Times \cup
    {"bool", "int4", "int8", "date", "float4", "float8", "int2[]", "int4[]", "numeric"}

AllWasmTypes ==
    {I32, I64, Plain("f32"), Plain("f64"), Plain("externref"), Ref(Extern), RefNull(Extern),
     MoonBitArray(I32), MoonBitArray(I64), RefNull(Struct(<<Ref(ArrayOf(I32)), I32>>)),
     Ref(Struct(<<I32, I32>>)), Ref(Struct(<<Ref(ArrayOf(I32)), I64>>)), Ref(ArrayOf(I32))}

Unit(fields) == IF fields = <<>> THEN I32 ELSE RefNull(Struct(fields))

QueryType(args, rets) ==
    Ref(Struct(<<I64, Ref(Extern), MoonBitArray(I32), Unit(args), Ref(Struct(<<Unit(rets)>>))>>))

Returning(type, oids, kind, cols, junk, statements) ==
    [type |-> type, oids |-> oids, kind |-> kind, columns |-> cols, junk |-> junk,
     statements |-> statements]

\* One argument or one column, of every type against every type.
Pairs ==
    {Returning(QueryType(<<w>>, <<>>), <<t>>, "other", <<>>, 0, 1) : w \in AllWasmTypes, t \in AllPgTypes}
    \cup {Returning(QueryType(<<>>, <<w>>), <<>>, "select", <<t>>, 0, 1) : w \in AllWasmTypes, t \in AllPgTypes}

\* Declarations with something wrong in the type, the OIDs or the text.
Good == <<I64, Ref(Extern), MoonBitArray(I32), I32, Ref(Struct(<<I32>>))>>
BadTypes ==
    {RefNull(Struct(Good)), Ref(Struct(SubSeq(Good, 1, 4))), Ref(ArrayOf(I32))}
    \cup {Ref(Struct([Good EXCEPT ![i] = t])) : i \in 1 .. 5, t \in AllWasmTypes}
    \cup {Ref(Struct([Good EXCEPT ![5] = Ref(Struct(<<t, I32>>))])) : t \in AllWasmTypes}
    \cup {Ref(Struct([Good EXCEPT ![5] = Ref(Struct(<<t>>))])) : t \in AllWasmTypes}
Wrong ==
    {Returning(t, <<>>, "other", <<>>, 0, 1) : t \in BadTypes}
    \cup {Returning(QueryType(<<>>, <<>>), oids, kind, <<>>, 0, n) :
            oids \in {<<>>, <<"int4">>}, kind \in {"other", "utility", "select"}, n \in 0 .. 2}

\* Two columns, or one returned and others to sort by, of a few types.
FewPg == {"int4", "int8", "text", "bytea"}
FewWasm == {I32, I64, Ref(Extern)}
Wide ==
    {Returning(QueryType(<<I32>>, ws), <<"int8">>, kind, cols, junk, 1) :
        ws \in UNION {[1 .. n -> FewWasm] : n \in 1 .. 2},
        cols \in UNION {[1 .. n -> FewPg] : n \in 1 .. 2}, kind \in {"select", "returning"}, junk \in 0 .. 1}

MCDeclared == Pairs \cup Wrong \cup Wide
=============================================================================
