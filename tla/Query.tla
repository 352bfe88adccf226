-------------------------------- MODULE Query --------------------------------
(***************************************************************************)
(* One query of a module from its declaration in the guest to the rows it   *)
(* returns: compiled into a row of rustica.queries (compiler.c), loaded as  *)
(* a QueryPlan by a worker, later and in another process, and executed      *)
(* (query.c).  Only the row travels between the three, and the tables the   *)
(* query reads may be altered at any time.                                  *)
(***************************************************************************)
EXTENDS Integers, Sequences, FiniteSets, SequencesExt

CONSTANTS
    PgTypes,      \* the types of PostgreSQL the queries meet
    Declared,     \* what a guest may declare: see Init
    MaxAlters     \* bound: times a table is altered

\* A statement that is neither a query nor has RETURNING returns nothing.
ASSUME QueryAssumption ==
    /\ MaxAlters \in Nat
    /\ \A q \in Declared :
          /\ q.oids \in Seq(PgTypes) /\ q.columns \in Seq(PgTypes) /\ q.junk \in Nat
          /\ q.kind = "other" => q.columns = <<>> /\ q.junk = 0

-----------------------------------------------------------------------------
(* WASM types: a value type and the heap type it refers to                  *)

Plain(v) == [value |-> v, heap |-> <<"none">>]
I32 == Plain("i32")
I64 == Plain("i64")
Ref(h) == [value |-> "ref", heap |-> h]
RefNull(h) == [value |-> "ref null", heap |-> h]
Struct(fields) == <<"struct", fields>>
ArrayOf(elem) == <<"array", <<elem>>>>
Extern == <<"extern">>

Refers(t, kind, nullable) ==
    t.value = (IF nullable THEN "ref null" ELSE "ref") /\ t.heap[1] = kind

wasm_ref_type_is_ref_extern(t) == t = Ref(Extern)

\* A MoonBit array: a struct of the elements and their number.
validate_moonbit_array(t, elem) ==
    /\ Refers(t, "struct", FALSE)
    /\ Len(t.heap[2]) = 2
    /\ Refers(t.heap[2][1], "array", FALSE)
    /\ t.heap[2][2].value = "i32"
    /\ t.heap[2][1].heap[2][1].value = elem.value

IsExternref(t) == t.value = "externref" \/ t.heap = Extern

Texts == {"text", "varchar", "uuid", "json", "jsonb", "bytea", "interval"}
Times == {"timestamp", "timestamptz", "time"}
IntArrays == {"int2[]", "int4[]"}

(* The converters are numbered by an enum of the compiler and looked up in  *)
(* a table of the loader.                                                   *)
wasm_to_pg_fn ==
    <<"i32 bool", "i32 int4", "i64 int8", "f32 float4", "f64 float8",
      "externref datum", "array int2[]", "array int4[]">>

wasm_to_pg_funcs ==
    <<"i32 bool", "i32 int4", "i64 int8", "f32 float4", "f64 float8",
      "externref datum", "array int2[]", "array int4[]">>

pg_to_wasm_fn ==
    <<"bool i32", "int4 i32", "int8 i64", "float4 f32", "float8 f64",
      "datum obj", "int2[] array", "int4[] array">>

\* Slip: the table in alphabetical order.
SortedFuncs ==
    <<"bool i32", "datum obj", "float4 f32", "float8 f64", "int2[] array",
      "int4 i32", "int4[] array", "int8 i64">>

pg_to_wasm_funcs ==
    <<"bool i32", "int4 i32", "int8 i64", "float4 f32", "float8 f64",
      "datum obj", "int2[] array", "int4[] array">>

Index(table, f) == (CHOOSE i \in DOMAIN table : table[i] = f) - 1

\* wasm_to_pg: the converters for an argument; none is an error.
ArgumentWith(t, pg) ==
    CASE pg = "bool" /\ t.value = "i32" -> {"i32 bool"}
      [] pg \in {"int4", "date", "int8"} /\ t.value = "i32" -> {"i32 int4"}
      [] pg \in {"int8"} \cup Times /\ t.value = "i64" -> {"i64 int8"}
      [] pg = "float4" /\ t.value = "f32" -> {"f32 float4"}
      [] pg = "float8" /\ t.value = "f64" -> {"f64 float8"}
      [] pg \in Texts /\ IsExternref(t) -> {"externref datum"}
      [] pg = "int2[]" /\ validate_moonbit_array(t, I32) -> {"array int2[]"}
      [] pg = "int4[]" /\ validate_moonbit_array(t, I32) -> {"array int4[]"}
      [] OTHER -> {}

\* pg_to_wasm: the same for a column of the result.
ResultWith(pg, t) ==
    CASE pg = "bool" /\ t.value = "i32" -> {"bool i32"}
      [] pg \in {"int4", "date"} /\ t.value = "i32" -> {"int4 i32"}
      [] pg \in {"int8"} \cup Times /\ t.value = "i64" -> {"int8 i64"}
      [] pg = "float4" /\ t.value = "f32" -> {"float4 f32"}
      [] pg = "float8" /\ t.value = "f64" -> {"float8 f64"}
      [] pg \in Texts /\ IsExternref(t) -> {"datum obj"}
      [] pg = "int2[]" /\ validate_moonbit_array(t, I32) -> {"int2[] array"}
      [] pg = "int4[]" /\ validate_moonbit_array(t, I32) -> {"int4[] array"}
      [] OTHER -> {}

-----------------------------------------------------------------------------
VARIABLES
    phase,      \* declared, typed, compiled, planned, or why it ended
    query,      \* what the guest declares
    columns,    \* the types of the columns the statement returns now
    row,        \* the row of rustica.queries
    plan,       \* the QueryPlan of the worker
    alters,
    misread     \* what values have been taken for: see Taken

vars == <<phase, query, columns, row, plan, alters, misread>>

NoPlan == [nargs |-> 0, nattrs |-> 0, wasm_to_pg |-> <<>>, pg_to_wasm |-> <<>>, rettypes |-> <<>>]
NoRow == [arg_field_types |-> <<>>, ret_field_types |-> <<>>, arg_oids |-> <<>>,
          arg_field_fn |-> <<>>, ret_oids |-> <<>>, ret_field_fn |-> <<>>]

(* A declaration: the struct type of the query, the OIDs it lists, and its  *)
(* text, that is the number of statements in it, their kind, the columns    *)
(* they return, and how many more the planner adds to sort by.              *)
Init ==
    /\ phase = "declared"
    /\ query \in Declared
    /\ columns = query.columns
    /\ row = NoRow /\ plan = NoPlan
    /\ alters = 0 /\ misread = {}

Refuse(why) == phase' = why /\ UNCHANGED <<query, columns, row, plan, alters, misread>>

\* MoonBit's Unit, or a nullable struct: the types of its fields.
UnitOrStruct(t) == t.value = "i32" \/ Refers(t, "struct", TRUE)
FieldsOf(t) == IF t.value = "i32" THEN <<>> ELSE t.heap[2]

QueryTypeIsRight(t) ==
    /\ Refers(t, "struct", FALSE)
    /\ Len(t.heap[2]) >= 5
    /\ LET f == t.heap[2] IN
       /\ f[1].value \in {"i32", "i64"}
       /\ wasm_ref_type_is_ref_extern(f[2])
       /\ validate_moonbit_array(f[3], I32)
       /\ UnitOrStruct(f[4])
       /\ Len(FieldsOf(f[4])) <= 65535
       /\ Refers(f[5], "struct", FALSE)
       /\ Len(f[5].heap[2]) = 1
       /\ UnitOrStruct(f[5].heap[2][1])

\* The fields of a struct are a list.
ASSUME TypesAssumption ==
    \A q \in Declared : QueryTypeIsRight(q.type) =>
       \A t \in {q.type.heap[2][4], q.type.heap[2][5].heap[2][1]} :
          FieldsOf(t) \in Seq({FieldsOf(t)[i] : i \in DOMAIN FieldsOf(t)})

compile_query_type ==
    /\ phase = "declared"
    /\ IF ~ QueryTypeIsRight(query.type) THEN Refuse("refused")
       ELSE LET f == query.type.heap[2] IN
            /\ phase' = "typed"
            /\ row' = [row EXCEPT !.arg_field_types = FieldsOf(f[4]),
                                  !.ret_field_types = FieldsOf(f[5].heap[2][1])]
            /\ UNCHANGED <<query, columns, plan, alters, misread>>

\* The target list: what is returned, then what is only sorted by.
describe_query_results ==
    IF query.kind = "other" THEN [returned |-> <<>>, junk |-> 0]
    ELSE [returned |-> columns, junk |-> query.junk]

list_length(targets) == Len(targets.returned) + targets.junk

Describable == query.statements = 1 /\ query.kind # "utility"

(* ret_array: an entry only sorted by is counted and not written, so that   *)
(* the last elements are whatever the stack holds.                          *)
RetArrays(targets) ==
    {targets.returned \o rest : rest \in [1 .. targets.junk -> PgTypes]}

ArgumentsFit(args, oids) ==
    Len(oids) = Len(args) /\ \A i \in DOMAIN args : ArgumentWith(args[i], oids[i]) # {}

compile_query ==
    /\ phase = "typed"
    /\ LET oids == query.oids
           args == row.arg_field_types
           rets == row.ret_field_types
           targets == describe_query_results
           accepted == /\ ArgumentsFit(args, oids)
                       /\ Describable /\ Len(rets) = list_length(targets)
       IN
       \/ ~ accepted /\ Refuse("refused")
       \/ /\ accepted
          /\ \E ret \in RetArrays(targets) :
                IF \E i \in DOMAIN rets : ResultWith(ret[i], rets[i]) = {}
                THEN Refuse("refused")
                ELSE /\ phase' = "compiled"
                     /\ row' = [arg_field_types |-> args, ret_field_types |-> rets,
                          arg_oids |-> oids, ret_oids |-> ret,
                          arg_field_fn |-> [i \in DOMAIN args |->
                              Index(wasm_to_pg_fn, CHOOSE f \in ArgumentWith(args[i], oids[i]) : TRUE)],
                          ret_field_fn |-> [i \in DOMAIN rets |->
                              Index(pg_to_wasm_fn, CHOOSE f \in ResultWith(ret[i], rets[i]) : TRUE)]]
                     /\ UNCHANGED <<query, columns, plan, alters, misread>>

\* Slip: a row with more than the columns there are will do.
EnoughIsEnough(nattrs) == Len(row.ret_oids) >= nattrs /\ Len(row.ret_field_fn) >= nattrs

\* The checks of rst_init_query_plan on the columns the statement has now.
RowFits(nattrs) ==
    /\ Len(row.arg_field_fn) = Len(row.arg_oids)
    /\ nattrs > 0 => Len(row.ret_oids) = nattrs /\ Len(row.ret_field_types) = nattrs
    /\ Len(row.ret_field_fn) = nattrs

rst_init_query_plan ==
    /\ phase = "compiled"
    /\ LET nattrs == Len(columns) IN
       IF ~ RowFits(nattrs) THEN Refuse("unloadable")
       ELSE /\ phase' = "planned"
            /\ plan' = [nargs |-> Len(row.arg_oids), nattrs |-> nattrs,
                        wasm_to_pg |-> [i \in DOMAIN row.arg_field_fn |->
                                           wasm_to_pg_funcs[row.arg_field_fn[i] + 1]],
                        pg_to_wasm |-> [i \in 1 .. nattrs |->
                                           pg_to_wasm_funcs[row.ret_field_fn[i] + 1]],
                        rettypes |-> [i \in 1 .. nattrs |-> row.ret_oids[i]]]
            /\ UNCHANGED <<query, columns, row, alters, misread>>

(* The plan's tables share one allocation, described by where each starts,  *)
(* how long it is and how long an element is: two of pointers, the result's *)
(* reference types, and two of OIDs.                                        *)
Region(first, n, elem) == [first |-> first, size |-> elem * n, elem |-> elem]
AllocationSize(nargs, nattrs) == 8 * (nargs + nattrs) + 8 * nattrs + 4 * (nargs + nattrs)

ret_field_types(nargs, nattrs) == 8 * (nargs + nattrs)

argtypes(nargs, nattrs) ==
    IF nattrs > 0 THEN ret_field_types(nargs, nattrs) + 8 * nattrs ELSE 8 * nargs

\* Slip: the number of arguments is taken for their size.
RetTypesTooEarly(nargs, nattrs) ==
    IF nargs > 0 THEN argtypes(nargs, nattrs) + nargs
    ELSE ret_field_types(nargs, nattrs) + 8 * nattrs

rettypes(nargs, nattrs) ==
    IF nargs > 0 THEN argtypes(nargs, nattrs) + 4 * nargs
    ELSE ret_field_types(nargs, nattrs) + 8 * nattrs

Regions(nargs, nattrs) ==
    << Region(0, nargs, 8),
       Region(8 * nargs, nattrs, 8),
       Region(ret_field_types(nargs, nattrs), nattrs, 8),
       Region(argtypes(nargs, nattrs), nargs, 4),
       Region(rettypes(nargs, nattrs), nattrs, 4) >>

-----------------------------------------------------------------------------
(* Execution                                                                *)

\* What the WASM and the PostgreSQL side of each converter must be.
ReadsArgument(f, t) ==
    CASE f \in {"i32 bool", "i32 int4"} -> t.value = "i32"
      [] f = "i64 int8" -> t.value = "i64"
      [] f = "f32 float4" -> t.value = "f32"
      [] f = "f64 float8" -> t.value = "f64"
      [] f = "externref datum" -> IsExternref(t)
      [] OTHER -> t.heap[1] = "struct"

\* PG_RETURN_INT32 sign-extends into the datum, so it also gives an int8.
GivesArgument(f, pg) ==
    CASE f = "i32 bool" -> pg = "bool"
      [] f = "i32 int4" -> pg \in {"int4", "date", "int8"}
      [] f = "i64 int8" -> pg \in {"int8"} \cup Times
      [] f = "f32 float4" -> pg = "float4"
      [] f = "f64 float8" -> pg = "float8"
      [] f = "externref datum" -> pg \in Texts    \* checked against the object's OID
      [] f = "array int2[]" -> pg = "int2[]"
      [] f = "array int4[]" -> pg = "int4[]"

\* A datum object carries the OID of the plan, which later reads trust.
ReadsColumn(f, pg, rettype) ==
    CASE f = "bool i32" -> pg = "bool"
      [] f = "int4 i32" -> pg \in {"int4", "date"}
      [] f = "int8 i64" -> pg \in {"int8"} \cup Times
      [] f = "float4 f32" -> pg = "float4"
      [] f = "float8 f64" -> pg = "float8"
      [] f = "datum obj" -> pg = rettype /\ pg \in Texts
      [] f = "int2[] array" -> pg = "int2[]"
      [] f = "int4[] array" -> pg = "int4[]"

GivesColumn(f, t) ==
    CASE f \in {"bool i32", "int4 i32"} -> t.value = "i32"
      [] f = "int8 i64" -> t.value = "i64"
      [] f = "float4 f32" -> t.value = "f32"
      [] f = "float8 f64" -> t.value = "f64"
      [] f = "datum obj" -> IsExternref(t)
      [] OTHER -> Refers(t, "struct", FALSE)

\* env_execute_statement and env_cursor_open convert the arguments alike.
BindArguments ==
    /\ phase = "planned" /\ plan.nargs > 0
    /\ misread' = misread \cup {w \in {"another type"} :
                       \E i \in 1 .. plan.nargs :
                          \/ ~ ReadsArgument(plan.wasm_to_pg[i], row.arg_field_types[i])
                          \/ ~ GivesArgument(plan.wasm_to_pg[i], row.arg_oids[i])}
    /\ UNCHANGED <<phase, query, columns, row, plan, alters>>

\* A null datum is converted like any other: isnull is fetched and not read.
FromNull(f) ==
    CASE f = "datum obj" -> "an empty object"
      [] f \in {"int2[] array", "int4[] array"} -> "an array"    \* the crash
      [] OTHER -> "zero"

\* A column holds a value, NULL, or an array with a NULL among its elements.
Cells(n) ==
    {cells \in [1 .. n -> {"value", "null", "holed"}] :
        \A i \in 1 .. n : cells[i] = "holed" => columns[i] \in IntArrays}

(* What column i is taken for that it is not.  A column that is not there   *)
(* any more reads as a null datum, one of another type as the type it had.  *)
Taken(i, cells) ==
    IF i > Len(columns) THEN {FromNull(plan.pg_to_wasm[i])}
    ELSE IF cells[i] = "null" THEN {FromNull(plan.pg_to_wasm[i])}
    ELSE IF /\ ReadsColumn(plan.pg_to_wasm[i], columns[i], plan.rettypes[i])
            /\ GivesColumn(plan.pg_to_wasm[i], row.ret_field_types[i])
    THEN IF cells[i] = "holed" THEN {"zero"} ELSE {}
    ELSE {"another type"}

\* env_tuple_lower trusts the plan.
env_tuple_lower ==
    /\ phase = "planned" /\ plan.nattrs > 0
    /\ \E cells \in Cells(Len(columns)) :
          LET taken == UNION {Taken(i, cells) : i \in 1 .. plan.nattrs} IN
          /\ misread' = misread \cup taken
          /\ phase' = IF "an array" \in taken THEN "crashed" ELSE phase
    /\ UNCHANGED <<query, columns, row, plan, alters>>

\* Someone alters the table: another type, a column more or less.
Alter ==
    /\ phase \in {"compiled", "planned"} /\ alters < MaxAlters
    /\ Len(columns) > 0 /\ query.kind # "other"
    /\ columns' \in {Front(columns)} \cup {Append(columns, t) : t \in PgTypes}
                    \cup {[columns EXCEPT ![i] = t] : i \in DOMAIN columns, t \in PgTypes}
    /\ columns' # columns
    /\ alters' = alters + 1
    /\ UNCHANGED <<phase, query, row, plan, misread>>

Next == compile_query_type \/ compile_query \/ rst_init_query_plan
        \/ BindArguments \/ env_tuple_lower \/ Alter

Spec == Init /\ [][Next]_vars

-----------------------------------------------------------------------------
(* Properties                                                               *)

(* While no table has changed, every value but NULL is converted by a        *)
(* function that reads the type the value has and gives the type the other   *)
(* side expects, although the function was chosen in another process: by     *)
(* number, from types that were then looked at.  NULL is taken for something *)
(* else (query.c:632), and the type of the column tells for what: a text is   *)
(* an object with nothing in it, an array a null pointer that is followed, so *)
(* that the worker crashes, anything else, and an element of an array, 0.     *)
OnlyNullsMisread ==
    alters = 0 =>
       /\ misread \subseteq {"an empty object", "an array", "zero"}
       /\ "an empty object" \in misread => \E i \in DOMAIN columns : columns[i] \in Texts
       /\ "an array" \in misread => \E i \in DOMAIN columns : columns[i] \in IntArrays
       /\ "zero" \in misread => \E i \in DOMAIN columns : columns[i] \notin Texts

(* A statement whose target list has entries that are only sorted by never  *)
(* gets a plan while its table is as compiled: the compiler may take it,    *)
(* with OIDs it never wrote, but the loader finds one column too many.      *)
UnwrittenNeverLoaded ==
    phase = "planned" /\ alters = 0 =>
        query.junk = 0 /\ plan.rettypes = columns

(* The tables that share a plan's allocation lie inside it, one beside the  *)
(* other, whatever the numbers of arguments and columns, and each begins at  *)
(* a multiple of the size of its elements, as the block itself does.         *)
Tiled(nargs, nattrs) ==
    \A i \in 1 .. 5 :
       LET r == Regions(nargs, nattrs)[i] IN
       /\ r.first >= 0 /\ r.first + r.size <= AllocationSize(nargs, nattrs)
       /\ r.first % r.elem = 0
       /\ \A j \in 1 .. 5 \ {i} :
             LET q == Regions(nargs, nattrs)[j] IN
             \/ r.size = 0 \/ q.size = 0
             \/ r.first + r.size <= q.first \/ q.first + q.size <= r.first

PlansAreTiled == phase = "planned" => Tiled(plan.nargs, plan.nattrs)
=============================================================================
