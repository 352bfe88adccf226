---------------------------- MODULE QueryProofs ----------------------------
(***************************************************************************)
(* Proofs about queries (compiler.c, query.c): the tables of a plan never   *)
(* overlap, the converters the compiler numbers are those the loader looks  *)
(* up, and they fit all but NULL while no table is altered.                 *)
(***************************************************************************)
EXTENDS Query, SequenceTheorems, TLAPS

(* The pointer arithmetic of rst_init_query_plan is right for all numbers:  *)
(* the tables stay inside their block and apart, each where its elements    *)
(* may begin.                                                               *)
THEOREM LayoutTiled == \A nargs, nattrs \in Nat : Tiled(nargs, nattrs)
<1> SUFFICES ASSUME NEW nargs \in Nat, NEW nattrs \in Nat,
                    NEW i \in 1 .. 5, NEW j \in 1 .. 5 \ {i}
             PROVE  LET r == Regions(nargs, nattrs)[i]
                        q == Regions(nargs, nattrs)[j] IN
                    /\ r.first >= 0 /\ r.first + r.size <= AllocationSize(nargs, nattrs)
                    /\ r.first % r.elem = 0
                    /\ \/ r.size = 0 \/ q.size = 0
                       \/ r.first + r.size <= q.first \/ q.first + q.size <= r.first
  BY SMTT(30) DEF Tiled
<1> DEFINE r == Regions(nargs, nattrs)[i]
           q == Regions(nargs, nattrs)[j]
<1>1. /\ r.first >= 0 /\ r.first + r.size <= AllocationSize(nargs, nattrs)
      /\ \/ r.size = 0 \/ q.size = 0
         \/ r.first + r.size <= q.first \/ q.first + q.size <= r.first
  BY DEF Regions, Region, AllocationSize, ret_field_types, argtypes, rettypes
<1>2. r.first % r.elem = 0
  <2>1. /\ 0 % 8 = 0 /\ (8 * nargs) % 8 = 0
        /\ ret_field_types(nargs, nattrs) % 8 = 0
    BY DEF ret_field_types
  <2>2. argtypes(nargs, nattrs) % 4 = 0 /\ rettypes(nargs, nattrs) % 4 = 0
    BY DEF ret_field_types, argtypes, rettypes
  <2>3. /\ i \in {1, 2, 3} => r.elem = 8
        /\ i \in {4, 5} => r.elem = 4
        /\ i = 1 => r.first = 0
        /\ i = 2 => r.first = 8 * nargs
        /\ i = 3 => r.first = ret_field_types(nargs, nattrs)
        /\ i = 4 => r.first = argtypes(nargs, nattrs)
        /\ i = 5 => r.first = rettypes(nargs, nattrs)
    BY DEF Regions, Region
  <2>4. i \in {1, 2, 3, 4, 5}
    OBVIOUS
  <2> HIDE DEF r
  <2> QED
    BY <2>1, <2>2, <2>3, <2>4
<1> QED
  BY <1>1, <1>2

(* What a plan counts are lengths of sequences: of the declared OIDs, which *)
(* the row keeps, and of the columns, however the table is altered.         *)
CountsOK ==
    /\ query \in Declared
    /\ columns \in Seq(PgTypes)
    /\ phase = "compiled" => row.arg_oids \in Seq(PgTypes)
    /\ plan.nargs \in Nat /\ plan.nattrs \in Nat

LEMMA CountsInit == Init => CountsOK
BY QueryAssumption DEF Init, CountsOK, NoPlan

LEMMA CountsCompiled == CountsOK /\ (compile_query_type \/ compile_query) => CountsOK'
<1> SUFFICES ASSUME CountsOK, compile_query_type \/ compile_query
             PROVE  CountsOK'
  OBVIOUS
<1>1. CASE compile_query_type
  BY <1>1 DEF compile_query_type, CountsOK, Refuse
<1>2. CASE compile_query
  <2>1. query.oids \in Seq(PgTypes)
    BY QueryAssumption DEF CountsOK
  <2>2. CASE phase' = "refused" /\ UNCHANGED <<query, columns, row, plan, alters, misread>>
    BY <2>2 DEF CountsOK
  <2>3. CASE row'.arg_oids = query.oids /\ UNCHANGED <<query, columns, plan, alters, misread>>
    BY <2>1, <2>3 DEF CountsOK
  <2> QED
    BY <1>2, <2>2, <2>3 DEF compile_query, Refuse
<1> QED
  BY <1>1, <1>2

LEMMA CountsPlanned == CountsOK /\ rst_init_query_plan => CountsOK'
<1> SUFFICES ASSUME CountsOK, rst_init_query_plan
             PROVE  CountsOK'
  OBVIOUS
<1>1. CASE phase' = "unloadable" /\ UNCHANGED <<query, columns, row, plan, alters, misread>>
  BY <1>1 DEF CountsOK
<1>2. CASE /\ phase' = "planned" /\ UNCHANGED <<query, columns, row, alters, misread>>
           /\ plan'.nargs = Len(row.arg_oids) /\ plan'.nattrs = Len(columns)
  <2>1. row.arg_oids \in Seq(PgTypes)
    BY DEF CountsOK, rst_init_query_plan
  <2> QED
    BY <1>2, <2>1 DEF CountsOK
<1> QED
  BY <1>1, <1>2 DEF rst_init_query_plan, Refuse

LEMMA CountsExecuted == CountsOK /\ (BindArguments \/ env_tuple_lower) => CountsOK'
<1> SUFFICES ASSUME CountsOK, BindArguments \/ env_tuple_lower
             PROVE  CountsOK'
  OBVIOUS
<1>1. UNCHANGED <<query, columns, row, plan>> /\ phase' # "compiled"
  BY DEF BindArguments, env_tuple_lower
<1> QED
  BY <1>1 DEF CountsOK

LEMMA CountsAltered == CountsOK /\ Alter => CountsOK'
<1> SUFFICES ASSUME CountsOK, Alter
             PROVE  CountsOK'
  OBVIOUS
<1>1. columns \in Seq(PgTypes) /\ Len(columns) > 0
  BY DEF CountsOK, Alter
<1>2. Front(columns) \in Seq(PgTypes)
  BY <1>1 DEF Front
<1>3. \A t \in PgTypes : Append(columns, t) \in Seq(PgTypes)
  BY <1>1
<1>4. \A i \in DOMAIN columns, t \in PgTypes : [columns EXCEPT ![i] = t] \in Seq(PgTypes)
  BY <1>1
<1>5. columns' \in Seq(PgTypes)
  BY <1>2, <1>3, <1>4, SMTT(30) DEF Alter
<1> QED
  BY <1>5 DEF Alter, CountsOK

(* No plan has tables that overlap or leave the allocation they share.      *)
THEOREM PlansTiled == Spec => []PlansAreTiled
<1>1. CountsOK /\ [Next]_vars => CountsOK'
  <2> SUFFICES ASSUME CountsOK, [Next]_vars
               PROVE  CountsOK'
    OBVIOUS
  <2>1. CASE UNCHANGED vars
    BY <2>1 DEF vars, CountsOK
  <2> QED
    BY <2>1, CountsCompiled, CountsPlanned, CountsExecuted, CountsAltered DEF Next
<1>2. CountsOK => PlansAreTiled
  BY LayoutTiled DEF CountsOK, PlansAreTiled
<1> QED
  BY <1>1, <1>2, CountsInit, PTL DEF Spec

-----------------------------------------------------------------------------
(* Converters                                                               *)

ArgumentConverters == {"i32 bool", "i32 int4", "i64 int8", "f32 float4", "f64 float8",
                   "externref datum", "array int2[]", "array int4[]"}
ColumnConverters == {"bool i32", "int4 i32", "int8 i64", "float4 f32", "float8 f64",
                   "datum obj", "int2[] array", "int4[] array"}

(* Both sides number the converters alike: what the compiler writes is what *)
(* the loader looks up.                                                     *)
LEMMA ArgumentNumbersTable ==
    /\ DOMAIN wasm_to_pg_fn = 1 .. 8 /\ wasm_to_pg_funcs = wasm_to_pg_fn
    /\ wasm_to_pg_fn[1] = "i32 bool" /\ wasm_to_pg_fn[2] = "i32 int4"
       /\ wasm_to_pg_fn[3] = "i64 int8" /\ wasm_to_pg_fn[4] = "f32 float4"
       /\ wasm_to_pg_fn[5] = "f64 float8" /\ wasm_to_pg_fn[6] = "externref datum"
       /\ wasm_to_pg_fn[7] = "array int2[]" /\ wasm_to_pg_fn[8] = "array int4[]"
<1>1. DOMAIN wasm_to_pg_fn = 1 .. 8
  BY DEF wasm_to_pg_fn
<1>2. wasm_to_pg_funcs = wasm_to_pg_fn
  BY DEF wasm_to_pg_funcs, wasm_to_pg_fn
<1>3. /\ wasm_to_pg_fn[1] = "i32 bool" /\ wasm_to_pg_fn[2] = "i32 int4"
       /\ wasm_to_pg_fn[3] = "i64 int8" /\ wasm_to_pg_fn[4] = "f32 float4"
       /\ wasm_to_pg_fn[5] = "f64 float8" /\ wasm_to_pg_fn[6] = "externref datum"
       /\ wasm_to_pg_fn[7] = "array int2[]" /\ wasm_to_pg_fn[8] = "array int4[]"
  BY DEF wasm_to_pg_fn
<1> QED
  BY <1>1, <1>2, <1>3

LEMMA ArgumentNumbers ==
    ASSUME NEW f \in ArgumentConverters
    PROVE  wasm_to_pg_funcs[Index(wasm_to_pg_fn, f) + 1] = f
<1> DEFINE i == CHOOSE j \in DOMAIN wasm_to_pg_fn : wasm_to_pg_fn[j] = f
<1>1. \E j \in 1 .. 8 : wasm_to_pg_fn[j] = f
  <2>1. 1 \in 1 .. 8 /\ 2 \in 1 .. 8 /\ 3 \in 1 .. 8 /\ 4 \in 1 .. 8
        /\ 5 \in 1 .. 8 /\ 6 \in 1 .. 8 /\ 7 \in 1 .. 8 /\ 8 \in 1 .. 8
    OBVIOUS
  <2> QED
    BY <2>1, ArgumentNumbersTable, Zenon DEF ArgumentConverters
<1>2. DOMAIN wasm_to_pg_fn = 1 .. 8
  BY ArgumentNumbersTable
<1>3. i \in 1 .. 8 /\ wasm_to_pg_fn[i] = f
  BY <1>1, <1>2, Zenon
<1> HIDE DEF i
<1>4. Index(wasm_to_pg_fn, f) + 1 = i
  <2>1. Index(wasm_to_pg_fn, f) = i - 1
    BY DEF Index, i
  <2> QED
    BY <1>3, <2>1
<1> QED
  BY <1>3, <1>4, ArgumentNumbersTable

LEMMA ColumnNumbersTable ==
    /\ DOMAIN pg_to_wasm_fn = 1 .. 8 /\ pg_to_wasm_funcs = pg_to_wasm_fn
    /\ pg_to_wasm_fn[1] = "bool i32" /\ pg_to_wasm_fn[2] = "int4 i32"
       /\ pg_to_wasm_fn[3] = "int8 i64" /\ pg_to_wasm_fn[4] = "float4 f32"
       /\ pg_to_wasm_fn[5] = "float8 f64" /\ pg_to_wasm_fn[6] = "datum obj"
       /\ pg_to_wasm_fn[7] = "int2[] array" /\ pg_to_wasm_fn[8] = "int4[] array"
<1>1. DOMAIN pg_to_wasm_fn = 1 .. 8
  BY DEF pg_to_wasm_fn
<1>2. pg_to_wasm_funcs = pg_to_wasm_fn
  BY DEF pg_to_wasm_funcs, pg_to_wasm_fn
<1>3. /\ pg_to_wasm_fn[1] = "bool i32" /\ pg_to_wasm_fn[2] = "int4 i32"
       /\ pg_to_wasm_fn[3] = "int8 i64" /\ pg_to_wasm_fn[4] = "float4 f32"
       /\ pg_to_wasm_fn[5] = "float8 f64" /\ pg_to_wasm_fn[6] = "datum obj"
       /\ pg_to_wasm_fn[7] = "int2[] array" /\ pg_to_wasm_fn[8] = "int4[] array"
  BY DEF pg_to_wasm_fn
<1> QED
  BY <1>1, <1>2, <1>3

LEMMA ColumnNumbers ==
    ASSUME NEW f \in ColumnConverters
    PROVE  pg_to_wasm_funcs[Index(pg_to_wasm_fn, f) + 1] = f
<1> DEFINE i == CHOOSE j \in DOMAIN pg_to_wasm_fn : pg_to_wasm_fn[j] = f
<1>1. \E j \in 1 .. 8 : pg_to_wasm_fn[j] = f
  <2>1. 1 \in 1 .. 8 /\ 2 \in 1 .. 8 /\ 3 \in 1 .. 8 /\ 4 \in 1 .. 8
        /\ 5 \in 1 .. 8 /\ 6 \in 1 .. 8 /\ 7 \in 1 .. 8 /\ 8 \in 1 .. 8
    OBVIOUS
  <2> QED
    BY <2>1, ColumnNumbersTable, Zenon DEF ColumnConverters
<1>2. DOMAIN pg_to_wasm_fn = 1 .. 8
  BY ColumnNumbersTable
<1>3. i \in 1 .. 8 /\ pg_to_wasm_fn[i] = f
  BY <1>1, <1>2, Zenon
<1> HIDE DEF i
<1>4. Index(pg_to_wasm_fn, f) + 1 = i
  <2>1. Index(pg_to_wasm_fn, f) = i - 1
    BY DEF Index, i
  <2> QED
    BY <1>3, <2>1
<1> QED
  BY <1>3, <1>4, ColumnNumbersTable

(* The converter chosen for an argument reads the guest's type and gives    *)
(* PostgreSQL's.                                                            *)
LEMMA ArgumentRight ==
    ASSUME NEW t, NEW pg, NEW f \in ArgumentWith(t, pg)
    PROVE  /\ f \in ArgumentConverters
           /\ ReadsArgument(f, t) /\ GivesArgument(f, pg)
BY DEF ArgumentConverters, ArgumentWith, ReadsArgument, GivesArgument, validate_moonbit_array, Refers

LEMMA ColumnRight ==
    ASSUME NEW t, NEW pg, NEW f \in ResultWith(pg, t)
    PROVE  /\ f \in ColumnConverters
           /\ ReadsColumn(f, pg, pg) /\ GivesColumn(f, t)
BY DEF ColumnConverters, ResultWith, ReadsColumn, GivesColumn, validate_moonbit_array

(* What the compiler chooses is found again by its number.                  *)
LEMMA ArgumentChosen ==
    ASSUME NEW t, NEW pg, ArgumentWith(t, pg) # {},
           NEW n, n = Index(wasm_to_pg_fn, CHOOSE f \in ArgumentWith(t, pg) : TRUE)
    PROVE  /\ ReadsArgument(wasm_to_pg_funcs[n + 1], t)
           /\ GivesArgument(wasm_to_pg_funcs[n + 1], pg)
<1> DEFINE c == CHOOSE f \in ArgumentWith(t, pg) : TRUE
<1>1. c \in ArgumentWith(t, pg)
  BY Zenon
<1> HIDE DEF c
<1>2. c \in ArgumentConverters /\ ReadsArgument(c, t) /\ GivesArgument(c, pg)
  BY <1>1, ArgumentRight
<1>3. wasm_to_pg_funcs[n + 1] = c
  BY <1>2, ArgumentNumbers DEF c
<1> QED
  BY <1>2, <1>3

LEMMA ColumnChosen ==
    ASSUME NEW t, NEW pg, ResultWith(pg, t) # {},
           NEW n, n = Index(pg_to_wasm_fn, CHOOSE f \in ResultWith(pg, t) : TRUE)
    PROVE  /\ pg_to_wasm_funcs[n + 1] \in ColumnConverters
           /\ ReadsColumn(pg_to_wasm_funcs[n + 1], pg, pg)
           /\ GivesColumn(pg_to_wasm_funcs[n + 1], t)
<1> DEFINE c == CHOOSE f \in ResultWith(pg, t) : TRUE
<1>1. c \in ResultWith(pg, t)
  BY Zenon
<1> HIDE DEF c
<1>2. c \in ColumnConverters /\ ReadsColumn(c, pg, pg) /\ GivesColumn(c, t)
  BY <1>1, ColumnRight
<1>3. pg_to_wasm_funcs[n + 1] = c
  BY <1>2, ColumnNumbers DEF c
<1> QED
  BY <1>2, <1>3

-----------------------------------------------------------------------------
(* The row and the plan                                                     *)

FieldList(fs) == fs \in Seq({fs[i] : i \in DOMAIN fs})

(* What the compiler read is what the table has, as long as it is unaltered. *)
ColumnsInv ==
    /\ query \in Declared /\ columns \in Seq(PgTypes) /\ alters \in Nat
    /\ alters = 0 => columns = query.columns

TypedInv ==
    phase = "typed" => FieldList(row.arg_field_types) /\ FieldList(row.ret_field_types)

(* Each number in the row is of a converter between the types beside it.    *)
ArgsRight ==
    /\ row.arg_oids \in Seq(PgTypes)
    /\ DOMAIN row.arg_field_fn = 1 .. Len(row.arg_oids)
    /\ \A i \in 1 .. Len(row.arg_oids) :
          /\ ReadsArgument(wasm_to_pg_funcs[row.arg_field_fn[i] + 1], row.arg_field_types[i])
          /\ GivesArgument(wasm_to_pg_funcs[row.arg_field_fn[i] + 1], row.arg_oids[i])

ColsRight ==
    /\ row.ret_oids \in Seq(PgTypes)
    /\ Len(row.ret_field_fn) = Len(row.ret_oids)
    /\ \A i \in 1 .. Len(row.ret_oids) :
          /\ pg_to_wasm_funcs[row.ret_field_fn[i] + 1] \in ColumnConverters
          /\ ReadsColumn(pg_to_wasm_funcs[row.ret_field_fn[i] + 1], row.ret_oids[i], row.ret_oids[i])
          /\ GivesColumn(pg_to_wasm_funcs[row.ret_field_fn[i] + 1], row.ret_field_types[i])

(* The row has an OID more for each column only sorted by.                  *)
AsReturned ==
    alters = 0 => /\ Len(row.ret_oids) = Len(columns) + query.junk
                  /\ query.junk = 0 => row.ret_oids = columns

RowInv == phase \in {"compiled", "planned"} => ArgsRight /\ ColsRight /\ AsReturned

PlanInv ==
    phase = "planned" =>
       /\ plan.nargs = Len(row.arg_oids) /\ plan.nattrs = Len(row.ret_oids)
       /\ \A i \in 1 .. plan.nargs :
             plan.wasm_to_pg[i] = wasm_to_pg_funcs[row.arg_field_fn[i] + 1]
       /\ \A i \in 1 .. plan.nattrs :
             plan.pg_to_wasm[i] = pg_to_wasm_funcs[row.ret_field_fn[i] + 1]
       /\ plan.rettypes = [i \in 1 .. plan.nattrs |-> row.ret_oids[i]]
       /\ alters = 0 => plan.nattrs = Len(columns)

IInv == ColumnsInv /\ TypedInv /\ RowInv /\ PlanInv /\ OnlyNullsMisread

LEMMA ListLength ==
    ASSUME NEW n \in Nat, NEW f, f = [i \in 1 .. n |-> f[i]]
    PROVE  Len(f) = n
<1> DEFINE S == {f[i] : i \in 1 .. n}
<1>1. f \in [1 .. n -> S]
  OBVIOUS
<1> HIDE DEF S
<1>2. f \in Seq(S)
  BY <1>1, SeqDef
<1>3. DOMAIN f = 1 .. n
  BY <1>1
<1> QED
  BY <1>2, <1>3, LenProperties

LEMMA EmptyIfNone ==
    ASSUME NEW S, NEW seq \in Seq(S), Len(seq) = 0
    PROVE  seq = <<>>
BY EmptySeq

(* With nothing altered a plan has no column that is only sorted by, since  *)
(* the row would have one more than the statement returns.                  *)
LEMMA PlanAsCompiled ==
    ASSUME IInv, phase = "planned", alters = 0
    PROVE  query.junk = 0 /\ row.ret_oids = columns /\ plan.rettypes = columns
<1>1. columns \in Seq(PgTypes) /\ query.junk \in Nat
  BY QueryAssumption DEF IInv, ColumnsInv
<1>2. Len(row.ret_oids) = Len(columns) + query.junk
  BY DEF IInv, RowInv, AsReturned
<1>3. query.junk = 0 => row.ret_oids = columns
  BY DEF IInv, RowInv, AsReturned
<1>4. Len(row.ret_oids) = Len(columns) /\ plan.nattrs = Len(columns)
  BY DEF IInv, PlanInv
<1>5. plan.rettypes = [i \in 1 .. Len(columns) |-> row.ret_oids[i]]
  BY <1>4 DEF IInv, PlanInv
<1>6. query.junk = 0
  <2>1. Len(columns) \in Nat
    BY <1>1
  <2> QED
    BY <1>1, <1>2, <1>4, <2>1
<1>7. columns = [i \in 1 .. Len(columns) |-> columns[i]]
  BY <1>1
<1> QED
  BY <1>3, <1>5, <1>6, <1>7

-----------------------------------------------------------------------------
(* The steps                                                                *)

LEMMA QueryInit == Init => IInv
BY QueryAssumption
DEF Init, IInv, ColumnsInv, TypedInv, RowInv, PlanInv, OnlyNullsMisread

LEMMA QueryTyped ==
    ASSUME IInv, compile_query_type
    PROVE  IInv'
<1>1. CASE Refuse("refused")
  BY <1>1 DEF Refuse, IInv, ColumnsInv, TypedInv, RowInv, PlanInv, OnlyNullsMisread
<1>2. CASE ~ Refuse("refused")
  <2> DEFINE f == query.type.heap[2]
  <2>1. /\ QueryTypeIsRight(query.type) /\ phase' = "typed"
        /\ row' = [row EXCEPT !.arg_field_types = FieldsOf(f[4]),
                              !.ret_field_types = FieldsOf(f[5].heap[2][1])]
        /\ UNCHANGED <<query, columns, plan, alters, misread>>
    BY <1>2 DEF compile_query_type
  <2>2. /\ row'.arg_field_types = FieldsOf(f[4])
        /\ row'.ret_field_types = FieldsOf(f[5].heap[2][1])
    BY <2>1 DEF IInv
  <2>3. query \in Declared
    BY DEF IInv, ColumnsInv
  <2>4. FieldList(FieldsOf(f[4])) /\ FieldList(FieldsOf(f[5].heap[2][1]))
    BY <2>1, <2>3, TypesAssumption DEF FieldList
  <2> QED
    BY <2>1, <2>2, <2>4 DEF IInv, ColumnsInv, TypedInv, RowInv, PlanInv, OnlyNullsMisread
<1> QED
  BY <1>1, <1>2

(* What compile_query writes, given the types it took from the declaration. *)
LEMMA QueryCompiled ==
    ASSUME IInv, compile_query
    PROVE  IInv'
<1>1. CASE Refuse("refused")
  BY <1>1 DEF Refuse, IInv, ColumnsInv, TypedInv, RowInv, PlanInv, OnlyNullsMisread
<1>2. CASE ~ Refuse("refused")
  <2> DEFINE args == row.arg_field_types
             rets == row.ret_field_types
             oids == query.oids
             targets == describe_query_results
  <2>1. PICK ret \in RetArrays(targets) :
          /\ ArgumentsFit(args, oids) /\ Len(rets) = list_length(targets)
          /\ \A i \in DOMAIN rets : ResultWith(ret[i], rets[i]) # {}
          /\ phase' = "compiled"
          /\ row' = [arg_field_types |-> args, ret_field_types |-> rets,
               arg_oids |-> oids, ret_oids |-> ret,
               arg_field_fn |-> [i \in DOMAIN args |->
                   Index(wasm_to_pg_fn, CHOOSE f \in ArgumentWith(args[i], oids[i]) : TRUE)],
               ret_field_fn |-> [i \in DOMAIN rets |->
                   Index(pg_to_wasm_fn, CHOOSE f \in ResultWith(ret[i], rets[i]) : TRUE)]]
          /\ UNCHANGED <<query, columns, plan, alters, misread>>
    BY <1>2 DEF compile_query
  <2>2. /\ query \in Declared /\ columns \in Seq(PgTypes) /\ alters \in Nat
        /\ FieldList(args) /\ FieldList(rets) /\ oids \in Seq(PgTypes) /\ query.junk \in Nat
        /\ query.kind = "other" => query.columns = <<>> /\ query.junk = 0
    BY QueryAssumption DEF IInv, ColumnsInv, TypedInv, compile_query
  <2>3. /\ DOMAIN args = 1 .. Len(args) /\ Len(args) \in Nat
        /\ DOMAIN rets = 1 .. Len(rets) /\ Len(rets) \in Nat
    BY <2>2 DEF FieldList
  <2>4. ArgsRight'
    <3>1. Len(oids) = Len(args) /\ \A i \in 1 .. Len(args) : ArgumentWith(args[i], oids[i]) # {}
      BY <2>1, <2>3 DEF ArgumentsFit
    <3>2. row'.arg_oids = oids /\ row'.arg_field_types = args
      BY <2>1
    <3>3. DOMAIN row'.arg_field_fn = 1 .. Len(oids)
      BY <2>1, <2>3, <3>1
    <3>4. ASSUME NEW i \in 1 .. Len(oids)
          PROVE  /\ ReadsArgument(wasm_to_pg_funcs[row'.arg_field_fn[i] + 1], args[i])
                 /\ GivesArgument(wasm_to_pg_funcs[row'.arg_field_fn[i] + 1], oids[i])
      <4>1. i \in DOMAIN args /\ ArgumentWith(args[i], oids[i]) # {}
        BY <2>3, <3>1
      <4>2. row'.arg_field_fn[i] =
               Index(wasm_to_pg_fn, CHOOSE f \in ArgumentWith(args[i], oids[i]) : TRUE)
        BY <2>1, <4>1
      <4> QED
        BY <4>1, <4>2, ArgumentChosen
    <3> QED
      BY <2>2, <3>2, <3>3, <3>4 DEF ArgsRight
  <2>5. PICK rest \in [1 .. targets.junk -> PgTypes] : ret = targets.returned \o rest
    BY <2>1 DEF RetArrays
  <2>6. /\ targets.returned \in Seq(PgTypes) /\ targets.junk \in Nat
        /\ alters = 0 => targets.returned = columns /\ targets.junk = query.junk
    BY <2>2 DEF describe_query_results, IInv, ColumnsInv
  <2> HIDE DEF targets
  <2>7. rest \in Seq(PgTypes) /\ Len(rest) = targets.junk
    <3>1. rest \in Seq(PgTypes) /\ DOMAIN rest = 1 .. targets.junk
      BY <2>5, <2>6, SeqDef
    <3> QED
      BY <2>6, <3>1, LenProperties
  <2>8. /\ ret \in Seq(PgTypes) /\ Len(ret) = Len(rets)
        /\ Len(ret) = Len(targets.returned) + targets.junk
    <3>1. ret \in Seq(PgTypes) /\ Len(ret) = Len(targets.returned) + Len(rest)
      BY <2>5, <2>6, <2>7, ConcatProperties
    <3> QED
      BY <2>1, <2>7, <3>1 DEF list_length
  <2>9. ColsRight'
    <3>1. row'.ret_oids = ret /\ row'.ret_field_types = rets
      BY <2>1
    <3>2. row'.ret_field_fn = [i \in 1 .. Len(rets) |-> row'.ret_field_fn[i]]
      BY <2>1, <2>3
    <3>3. Len(row'.ret_field_fn) = Len(rets)
      BY <2>3, <3>2, ListLength
    <3>4. ASSUME NEW i \in 1 .. Len(ret)
          PROVE  /\ pg_to_wasm_funcs[row'.ret_field_fn[i] + 1] \in ColumnConverters
                 /\ ReadsColumn(pg_to_wasm_funcs[row'.ret_field_fn[i] + 1], ret[i], ret[i])
                 /\ GivesColumn(pg_to_wasm_funcs[row'.ret_field_fn[i] + 1], rets[i])
      <4>1. i \in DOMAIN rets /\ ResultWith(ret[i], rets[i]) # {}
        BY <2>1, <2>3, <2>8
      <4>2. row'.ret_field_fn[i] =
               Index(pg_to_wasm_fn, CHOOSE f \in ResultWith(ret[i], rets[i]) : TRUE)
        BY <2>1, <4>1
      <4> QED
        BY <4>1, <4>2, ColumnChosen
    <3> QED
      BY <2>8, <3>1, <3>3, <3>4 DEF ColsRight
  <2>10. AsReturned'
    <3>1. row'.ret_oids = ret /\ UNCHANGED <<alters, columns, query>>
      BY <2>1
    <3>2. Len(ret) = Len(targets.returned) + targets.junk
      BY <2>8
    <3>3. targets.junk = 0 => ret = targets.returned
      <4>1. targets.junk = 0 => rest = <<>>
        BY <2>7, EmptyIfNone
      <4> QED
        BY <2>5, <2>6, <4>1, ConcatEmptySeq
    <3> QED
      BY <2>6, <3>1, <3>2, <3>3 DEF AsReturned
  <2>11. RowInv' /\ TypedInv' /\ PlanInv'
    BY <2>1, <2>4, <2>9, <2>10 DEF RowInv, TypedInv, PlanInv
  <2>12. ColumnsInv' /\ OnlyNullsMisread'
    BY <2>1 DEF IInv, ColumnsInv, OnlyNullsMisread
  <2> QED
    BY <2>11, <2>12 DEF IInv
<1> QED
  BY <1>1, <1>2

LEMMA QueryPlanned ==
    ASSUME IInv, rst_init_query_plan
    PROVE  IInv'
<1>1. CASE Refuse("unloadable")
  BY <1>1 DEF Refuse, IInv, ColumnsInv, TypedInv, RowInv, PlanInv, OnlyNullsMisread
<1>2. CASE ~ Refuse("unloadable")
  <2> DEFINE nattrs == Len(columns)
  <2>1. /\ RowFits(nattrs) /\ phase = "compiled" /\ phase' = "planned"
        /\ plan' = [nargs |-> Len(row.arg_oids), nattrs |-> nattrs,
                     wasm_to_pg |-> [i \in DOMAIN row.arg_field_fn |->
                                        wasm_to_pg_funcs[row.arg_field_fn[i] + 1]],
                     pg_to_wasm |-> [i \in 1 .. nattrs |->
                                        pg_to_wasm_funcs[row.ret_field_fn[i] + 1]],
                     rettypes |-> [i \in 1 .. nattrs |-> row.ret_oids[i]]]
        /\ UNCHANGED <<query, columns, row, alters, misread>>
    BY <1>2 DEF rst_init_query_plan
  <2>2. ArgsRight /\ ColsRight /\ AsReturned
    BY <2>1 DEF IInv, RowInv
  <2>3. RowInv'
    BY <2>1, <2>2 DEF RowInv, ArgsRight, ColsRight, AsReturned
  <2>4. nattrs = Len(row.ret_oids)
    BY <2>1, <2>2 DEF RowFits, ColsRight
  <2>5. PlanInv'
    <3>1. /\ plan'.nargs = Len(row.arg_oids) /\ plan'.nattrs = nattrs
          /\ plan'.rettypes = [i \in 1 .. nattrs |-> row.ret_oids[i]]
      BY <2>1
    <3>2. \A i \in DOMAIN row.arg_field_fn :
             plan'.wasm_to_pg[i] = wasm_to_pg_funcs[row.arg_field_fn[i] + 1]
      BY <2>1
    <3>3. \A i \in 1 .. nattrs : plan'.pg_to_wasm[i] = pg_to_wasm_funcs[row.ret_field_fn[i] + 1]
      BY <2>1
    <3>4. DOMAIN row.arg_field_fn = 1 .. Len(row.arg_oids)
      BY <2>2 DEF ArgsRight
    <3> QED
      BY <2>1, <2>4, <3>1, <3>2, <3>3, <3>4 DEF PlanInv
  <2>6. ColumnsInv' /\ TypedInv' /\ OnlyNullsMisread'
    BY <2>1 DEF IInv, ColumnsInv, TypedInv, OnlyNullsMisread
  <2> QED
    BY <2>3, <2>5, <2>6 DEF IInv
<1> QED
  BY <1>1, <1>2

(* What a converter makes of NULL tells of the column it was chosen for.    *)
LEMMA NullOfColumn ==
    ASSUME NEW f \in ColumnConverters, NEW pg, ReadsColumn(f, pg, pg)
    PROVE  /\ FromNull(f) \in {"an empty object", "an array", "zero"}
           /\ FromNull(f) = "an empty object" => pg \in Texts
           /\ FromNull(f) = "an array" => pg \in IntArrays
           /\ FromNull(f) = "zero" => pg \notin Texts
BY DEF ColumnConverters, ReadsColumn, FromNull, Texts, Times, IntArrays

(* Arguments are converted between the types the row was made for, whatever *)
(* the table is now; columns are only while nothing was altered, and then   *)
(* nothing but NULL is taken for what it is not.                            *)
LEMMA QueryExecuted ==
    ASSUME IInv, BindArguments \/ env_tuple_lower
    PROVE  IInv'
<1>1. /\ phase = "planned" /\ UNCHANGED <<query, columns, row, plan, alters>>
      /\ phase' \in {"planned", "crashed"}
  BY DEF BindArguments, env_tuple_lower
<1>2. ColumnsInv' /\ TypedInv' /\ RowInv' /\ PlanInv'
  <2>1. RowInv'
    BY <1>1 DEF IInv, RowInv, ArgsRight, ColsRight, AsReturned
  <2> QED
    BY <1>1, <2>1 DEF IInv, ColumnsInv, TypedInv, PlanInv
<1>3. ArgsRight /\ ColsRight
  BY <1>1 DEF IInv, RowInv
<1>4. ASSUME alters = 0, BindArguments
      PROVE  misread' = misread
  <2>1. ASSUME NEW i \in 1 .. plan.nargs
        PROVE  /\ ReadsArgument(plan.wasm_to_pg[i], row.arg_field_types[i])
               /\ GivesArgument(plan.wasm_to_pg[i], row.arg_oids[i])
    <3>1. /\ i \in 1 .. Len(row.arg_oids)
          /\ plan.wasm_to_pg[i] = wasm_to_pg_funcs[row.arg_field_fn[i] + 1]
      BY <1>1 DEF IInv, PlanInv
    <3> QED
      BY <1>3, <3>1 DEF ArgsRight
  <2>2. {w \in {"another type"} : \E i \in 1 .. plan.nargs :
            \/ ~ ReadsArgument(plan.wasm_to_pg[i], row.arg_field_types[i])
            \/ ~ GivesArgument(plan.wasm_to_pg[i], row.arg_oids[i])} = {}
    BY <2>1, Zenon
  <2> QED
    BY <1>4, <2>2, Zenon DEF BindArguments
<1>5. ASSUME alters = 0, NEW cells \in Cells(Len(columns)), NEW i \in 1 .. plan.nattrs
      PROVE  /\ i \in DOMAIN columns
             /\ Taken(i, cells) \subseteq {"an empty object", "an array", "zero"}
             /\ "an empty object" \in Taken(i, cells) => columns[i] \in Texts
             /\ "an array" \in Taken(i, cells) => columns[i] \in IntArrays
             /\ "zero" \in Taken(i, cells) => columns[i] \notin Texts
  <2>1. row.ret_oids = columns /\ plan.rettypes = columns /\ columns \in Seq(PgTypes)
    BY <1>1, <1>5, PlanAsCompiled DEF IInv, ColumnsInv
  <2>2. /\ i \in 1 .. Len(columns)
        /\ plan.pg_to_wasm[i] = pg_to_wasm_funcs[row.ret_field_fn[i] + 1]
    BY <1>1, <2>1 DEF IInv, PlanInv
  <2>3. i \in DOMAIN columns /\ ~ (i > Len(columns))
    BY <2>1, <2>2
  <2>4. /\ plan.pg_to_wasm[i] \in ColumnConverters
        /\ ReadsColumn(plan.pg_to_wasm[i], columns[i], columns[i])
        /\ GivesColumn(plan.pg_to_wasm[i], row.ret_field_types[i])
    BY <1>3, <2>1, <2>2 DEF ColsRight
  <2>5. CASE cells[i] = "null"
    <3>1. Taken(i, cells) = {FromNull(plan.pg_to_wasm[i])}
      BY <2>3, <2>5 DEF Taken
    <3> QED
      BY <2>3, <2>4, <3>1, NullOfColumn
  <2>6. CASE cells[i] = "holed"
    <3>1. Taken(i, cells) = {"zero"}
      BY <2>1, <2>3, <2>4, <2>6 DEF Taken
    <3>2. columns[i] \in IntArrays
      BY <2>2, <2>6 DEF Cells
    <3>3. columns[i] \notin Texts
      BY <3>2 DEF IntArrays, Texts
    <3> QED
      BY <2>3, <3>1, <3>3
  <2>7. CASE cells[i] \notin {"null", "holed"}
    <3>1. Taken(i, cells) = {}
      BY <2>1, <2>3, <2>4, <2>7 DEF Taken
    <3> QED
      BY <2>3, <3>1
  <2> QED
    BY <2>5, <2>6, <2>7
<1>6. ASSUME alters = 0, env_tuple_lower
      PROVE  OnlyNullsMisread'
  <2>1. PICK cells \in Cells(Len(columns)) :
           misread' = misread \cup UNION {Taken(i, cells) : i \in 1 .. plan.nattrs}
    BY <1>6 DEF env_tuple_lower
  <2>2. ASSUME NEW w \in misread', w \notin misread
        PROVE  \E i \in 1 .. plan.nattrs : w \in Taken(i, cells)
    BY <2>1, <2>2
  <2>3. OnlyNullsMisread
    BY DEF IInv
  <2>4. ASSUME NEW w \in misread'
        PROVE  /\ w \in {"an empty object", "an array", "zero"}
               /\ w = "an empty object" => \E i \in DOMAIN columns : columns[i] \in Texts
               /\ w = "an array" => \E i \in DOMAIN columns : columns[i] \in IntArrays
               /\ w = "zero" => \E i \in DOMAIN columns : columns[i] \notin Texts
    <3>1. CASE w \in misread
      BY <1>6, <2>3, <3>1 DEF OnlyNullsMisread
    <3>2. CASE w \notin misread
      <4>1. PICK i \in 1 .. plan.nattrs : w \in Taken(i, cells)
        BY <2>2, <3>2
      <4> QED
        BY <1>5, <1>6, <4>1, Zenon
    <3> QED
      BY <3>1, <3>2
  <2> QED
    BY <1>1, <2>4 DEF OnlyNullsMisread
<1>7. OnlyNullsMisread'
  <2>1. CASE alters # 0
    BY <1>1, <2>1 DEF OnlyNullsMisread
  <2>2. CASE alters = 0 /\ BindArguments
    BY <1>1, <1>4, <2>2 DEF IInv, OnlyNullsMisread
  <2> QED
    BY <1>6, <2>1, <2>2
<1> QED
  BY <1>2, <1>7 DEF IInv

(* Once a table was altered only what was written before can be relied on.  *)
LEMMA QueryAltered ==
    ASSUME IInv, Alter
    PROVE  IInv'
<1>1. /\ alters' = alters + 1 /\ alters \in Nat /\ phase # "typed"
      /\ UNCHANGED <<phase, query, row, plan, misread>>
  BY DEF Alter, IInv, ColumnsInv
<1>2. alters' # 0 /\ alters' \in Nat
  BY <1>1
<1>3. columns' \in Seq(PgTypes)
  <2>1. columns \in Seq(PgTypes) /\ Len(columns) > 0
    BY DEF IInv, ColumnsInv, Alter
  <2>2. Front(columns) \in Seq(PgTypes)
    BY <2>1 DEF Front
  <2>3. \A t \in PgTypes : Append(columns, t) \in Seq(PgTypes)
    BY <2>1
  <2>4. \A i \in DOMAIN columns, t \in PgTypes : [columns EXCEPT ![i] = t] \in Seq(PgTypes)
    BY <2>1
  <2> QED
    BY <2>2, <2>3, <2>4, SMTT(30) DEF Alter
<1>4. RowInv'
  BY <1>1, <1>2 DEF IInv, RowInv, ArgsRight, ColsRight, AsReturned
<1>5. ColumnsInv' /\ TypedInv' /\ PlanInv' /\ OnlyNullsMisread'
  BY <1>1, <1>2, <1>3 DEF IInv, ColumnsInv, TypedInv, PlanInv, OnlyNullsMisread
<1> QED
  BY <1>4, <1>5 DEF IInv

LEMMA QuerySteps == IInv /\ [Next]_vars => IInv'
<1> SUFFICES ASSUME IInv, [Next]_vars
             PROVE  IInv'
  OBVIOUS
<1>1. CASE UNCHANGED vars
  <2>1. RowInv'
    BY <1>1 DEF vars, IInv, RowInv, ArgsRight, ColsRight, AsReturned
  <2> QED
    BY <1>1, <2>1 DEF vars, IInv, ColumnsInv, TypedInv, PlanInv, OnlyNullsMisread
<1> QED
  BY <1>1, QueryTyped, QueryCompiled, QueryPlanned, QueryExecuted, QueryAltered DEF Next

(* Whatever types a query declares, while no table has changed every value  *)
(* but NULL is converted by a function that reads the type it has and gives *)
(* the type the other side expects (wasm_to_pg, pg_to_wasm and their two    *)
(* tables), and what NULL is taken for follows from the type of a column.   *)
THEOREM ConvertersAgree == Spec => []OnlyNullsMisread
<1>1. IInv => OnlyNullsMisread
  BY DEF IInv
<1> QED
  BY <1>1, QueryInit, QuerySteps, PTL DEF Spec

(* No plan is made of a row with OIDs compile_query never wrote, unless a   *)
(* column was added since.                                                  *)
THEOREM JunkIsNotLoaded == Spec => []UnwrittenNeverLoaded
<1>1. IInv => UnwrittenNeverLoaded
  BY PlanAsCompiled DEF UnwrittenNeverLoaded
<1> QED
  BY <1>1, QueryInit, QuerySteps, PTL DEF Spec
=============================================================================
