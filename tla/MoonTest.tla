------------------------------ MODULE MoonTest ------------------------------
(***************************************************************************)
(* The test runner (moontest.c): PostgreSQL's JSON parser walks the test     *)
(* specification and calls the semantic actions below, which keep in one     *)
(* variable what they expect next and run the tests of a range where its     *)
(* object ends.                                                             *)
(***************************************************************************)
EXTENDS Integers, Sequences, SequencesExt

CONSTANTS
    Specs,      \* specifications: a package and, per file, its ranges
    Layouts     \* how each is written: which fields, in which order

ASSUME MoonTestAssumption == Specs # {} /\ Layouts # {}

Unknown == "<unknown package>"
NoFile == "no file"

\* Tokens, each a kind and a value.
T(k) == <<k>>
Field(f) == <<"field", f>>
String(s) == <<"string", s>>
Number(n) == <<"number", n>>

\* The two keys of a range, in either order.
Keys(r) == [start |-> <<Field("start"), Number(r[1])>>, end |-> <<Field("end"), Number(r[2])>>]
RangeTokens(r, first, then) == <<T("{")>> \o Keys(r)[first] \o Keys(r)[then] \o <<T("}")>>

FileTokens(f, first, then) ==
    <<T("["), String(f.name), T("[")>>
      \o FlattenSeq([i \in DOMAIN f.ranges |-> RangeTokens(f.ranges[i], first, then)]) \o <<T("]"), T("]")>>

FilesTokens(files, first, then) ==
    <<Field("file_and_index"), T("[")>>
      \o FlattenSeq([i \in DOMAIN files |-> FileTokens(files[i], first, then)]) \o <<T("]")>>

FieldTokens(spec, field) ==
    CASE field = "package" -> <<Field("package"), String(spec.package)>>
      [] field = "no package" -> <<Field("package"), T("null")>>
      [] field = "file_and_index" -> FilesTokens(spec.files, "start", "end")
      [] field = "ends first" -> FilesTokens(spec.files, "end", "start")
      [] field = "other" -> <<Field("other"), String("x")>>
      [] field = "broken range" ->
            <<Field("file_and_index"), T("["), T("["), String("f"), T("["),
              T("{"), Field("start"), Number(0), T("}"), T("]"), T("]"), T("]")>>

TokensOf(spec, layout) ==
    <<T("{")>> \o FlattenSeq([i \in DOMAIN layout |-> FieldTokens(spec, layout[i])]) \o <<T("}")>>

VARIABLES
    spec, layout, at,
    expect,
    package, filename,
    range,         \* start and end, each present or not
    running,       \* the test of the range to run next, or none
    pending,       \* the guest's exception
    failed,        \* the call of a test returned false and is to be reported
    executed,      \* tests run, in order, with the file's name
    trapped,       \* those of them that trapped
    reported,      \* results printed of tests that failed
    finished,      \* moonbit_test_driver_finish was called
    result

vars == <<spec, layout, at, expect, package, filename, range, running, pending,
          failed, executed, trapped, reported, finished, result>>

Absent == -1
NoRange == [start |-> Absent, end |-> Absent]

Init ==
    /\ spec \in Specs /\ layout \in Layouts /\ at = 1
    /\ expect = "E_TOP"
    /\ package = Unknown /\ filename = NoFile
    /\ range = NoRange /\ running = Absent /\ pending = FALSE
    /\ failed = FALSE /\ executed = <<>> /\ trapped = <<>> /\ reported = <<>>
    /\ finished = FALSE /\ result = "none"

Input == TokensOf(spec, layout)
Parsing == result = "none" /\ running = Absent /\ at <= Len(Input)
Token(k) == Parsing /\ Input[at][1] = k
Value == Input[at][2]
NullFollows == at < Len(Input) /\ Input[at + 1][1] = "null"

Given == <<spec, layout>>
Outcome == <<pending, failed, executed, trapped, reported>>

Expects(e) == expect' = e /\ at' = at + 1

\* JSON_SEM_ACTION_FAILED ends the parse; its verdict is not looked at.
Refuses == result' = "ignored" /\ UNCHANGED <<at, expect>>

Raises == result' = "error" /\ UNCHANGED <<at, expect>>

json_object_start_cb ==
    /\ Token("{")
    /\ \/ expect = "E_TOP" /\ Expects("E_TOP_FIELD") /\ UNCHANGED <<range, result>>
       \/ expect = "E_RANGE_OBJECT" /\ Expects("E_RANGE_FIELD") /\ range' = NoRange /\ UNCHANGED result
       \/ expect \notin {"E_TOP", "E_RANGE_OBJECT"} /\ Refuses /\ UNCHANGED range
    /\ UNCHANGED <<Given, package, filename, running, Outcome, finished>>

\* A range that is whole starts its tests; the last brace finishes the driver.
json_object_end_cb ==
    /\ Token("}")
    /\ \/ /\ expect = "E_RANGE_FIELD" /\ Absent \in {range.start, range.end}
          /\ Raises /\ UNCHANGED <<running, finished>>
       \/ /\ expect = "E_RANGE_FIELD" /\ Absent \notin {range.start, range.end}
          /\ running' = range.start /\ UNCHANGED <<at, expect, finished, result>>
       \/ /\ expect = "E_TOP_FIELD"
          /\ Expects("E_END") /\ finished' = TRUE /\ UNCHANGED <<running, result>>
       \/ /\ expect \notin {"E_RANGE_FIELD", "E_TOP_FIELD"}
          /\ Refuses /\ UNCHANGED <<running, finished>>
    /\ UNCHANGED <<Given, package, filename, range, Outcome>>

\* Slip: the exception of a test that failed stays.
StaysPending == TRUE

Cleared == FALSE

InRange(i) == i < range.end

(* One test of the range.  A call returns false whenever an exception is    *)
(* pending, whosever it is; an error that the code the test calls throws     *)
(* leaves the parser and ends the program.                                  *)
RunTest ==
    /\ result = "none" /\ running # Absent /\ InRange(running) /\ ~ failed
    /\ executed' = Append(executed, <<filename, running>>)
    /\ \/ \E trap \in BOOLEAN :
             /\ trapped' = IF trap THEN Append(trapped, <<filename, running>>) ELSE trapped
             /\ pending' = (pending \/ trap)
             /\ failed' = pending'
             /\ running' = IF failed' THEN running ELSE running + 1
             /\ UNCHANGED result
       \/ result' = "error" /\ UNCHANGED <<running, pending, failed, trapped>>
    /\ UNCHANGED <<Given, at, expect, package, filename, range, reported, finished>>

ReportFailure ==
    /\ result = "none" /\ failed
    /\ reported' = Append(reported, <<package, filename, running>>)
    /\ pending' = Cleared /\ failed' = FALSE
    /\ running' = running + 1
    /\ UNCHANGED <<Given, at, expect, package, filename, range, executed, trapped, finished, result>>

RangeDone ==
    /\ result = "none" /\ running # Absent /\ ~ InRange(running)
    /\ running' = Absent /\ Expects("E_RANGE_OBJECT")
    /\ UNCHANGED <<Given, package, filename, range, Outcome, finished, result>>

json_array_start_cb ==
    /\ Token("[")
    /\ \/ expect = "E_FILE_ARRAY" /\ Expects("E_FILE_TUPLE") /\ UNCHANGED result
       \/ expect = "E_FILE_TUPLE" /\ Expects("E_FILE_NAME") /\ UNCHANGED result
       \/ expect = "E_RANGE_ARRAY" /\ Expects("E_RANGE_OBJECT") /\ UNCHANGED result
       \/ expect \notin {"E_FILE_ARRAY", "E_FILE_TUPLE", "E_RANGE_ARRAY"} /\ Refuses
    /\ UNCHANGED <<Given, package, filename, range, running, Outcome, finished>>

\* Slip: the end of a file is taken for the end of the files.
OneFileOnly == [E_RANGE_OBJECT |-> "E_FILE_END", E_FILE_END |-> "E_TOP_FIELD"]

\* The end of the array of files is not among them.
AfterArray == [E_RANGE_OBJECT |-> "E_FILE_END", E_FILE_END |-> "E_FILE_TUPLE"]

json_array_end_cb ==
    /\ Token("]")
    /\ IF expect \in DOMAIN AfterArray
       THEN /\ Expects(AfterArray[expect]) /\ UNCHANGED result
            /\ filename' = IF expect = "E_FILE_END" THEN NoFile ELSE filename
       ELSE Refuses /\ UNCHANGED filename
    /\ UNCHANGED <<Given, package, range, running, Outcome, finished>>

\* A null is not waited for: the scalar that follows is not expected.
json_object_field_start_cb ==
    /\ Token("field")
    /\ LET after == CASE expect = "E_TOP_FIELD" /\ Value = "package" -> "E_PACKAGE_NAME"
                      [] expect = "E_TOP_FIELD" /\ Value = "file_and_index" -> "E_FILE_ARRAY"
                      [] expect = "E_RANGE_FIELD" /\ Value = "start" -> "E_RANGE_START"
                      [] expect = "E_RANGE_FIELD" /\ Value = "end" -> "E_RANGE_END"
                      [] OTHER -> "unexpected"
       IN \/ after # "unexpected" /\ Expects(IF NullFollows THEN expect ELSE after) /\ UNCHANGED result
          \/ after = "unexpected" /\ expect \in {"E_TOP_FIELD", "E_RANGE_FIELD"} /\ Raises
          \/ after = "unexpected" /\ expect \notin {"E_TOP_FIELD", "E_RANGE_FIELD"} /\ Refuses
    /\ UNCHANGED <<Given, package, filename, range, running, Outcome, finished>>

json_scalar_cb ==
    /\ Parsing /\ Input[at][1] \in {"string", "number", "null"}
    /\ LET is(k) == Input[at][1] = k IN
       \/ /\ expect = "E_PACKAGE_NAME" /\ is("string")
          /\ package' = Value /\ Expects("E_TOP_FIELD") /\ UNCHANGED <<filename, range, result>>
       \/ /\ expect = "E_FILE_NAME" /\ is("string")
          /\ filename' = Value /\ Expects("E_RANGE_ARRAY")
          /\ UNCHANGED <<package, range, result>>
       \/ /\ expect = "E_RANGE_START" /\ is("number")
          /\ range' = [range EXCEPT !.start = Value] /\ Expects("E_RANGE_FIELD")
          /\ UNCHANGED <<package, filename, result>>
       \/ /\ expect = "E_RANGE_END" /\ is("number")
          /\ range' = [range EXCEPT !.end = Value] /\ Expects("E_RANGE_FIELD")
          /\ UNCHANGED <<package, filename, result>>
       \/ /\ \/ expect \in {"E_PACKAGE_NAME", "E_FILE_NAME"} /\ ~ is("string")
             \/ expect \in {"E_RANGE_START", "E_RANGE_END"} /\ ~ is("number")
          /\ Raises /\ UNCHANGED <<package, filename, range>>
       \/ /\ expect \notin {"E_PACKAGE_NAME", "E_FILE_NAME", "E_RANGE_START", "E_RANGE_END"}
          /\ Refuses /\ UNCHANGED <<package, filename, range>>
    /\ UNCHANGED <<Given, running, Outcome, finished>>

moontest_run ==
    /\ result = "none" /\ at > Len(Input)
    /\ result' = "done"
    /\ UNCHANGED <<Given, at, expect, package, filename, range, running, Outcome, finished>>

Next == json_object_start_cb \/ json_object_end_cb \/ RunTest \/ ReportFailure \/ RangeDone
        \/ json_array_start_cb \/ json_array_end_cb \/ json_object_field_start_cb
        \/ json_scalar_cb \/ moontest_run

Spec == Init /\ [][Next]_vars

-----------------------------------------------------------------------------
(* Properties                                                               *)

RangeTests(name, r) == [n \in 1 .. (IF r[2] > r[1] THEN r[2] - r[1] ELSE 0) |-> <<name, r[1] + n - 1>>]

Listed == FlattenSeq([i \in DOMAIN spec.files |->
             FlattenSeq([j \in DOMAIN spec.files[i].ranges |->
                RangeTests(spec.files[i].name, spec.files[i].ranges[j])])])

ListsFiles == \E i \in DOMAIN layout : layout[i] \in {"file_and_index", "ends first"}

(* The tests run are those the specification lists, under the name of their  *)
(* own file, in its order and each once; one that traps does not keep the     *)
(* next from running.  The failures reported are the tests that trapped: one   *)
(* that passes never answers for the exception of another.  They are reported  *)
(* under the package's name if the specification gave it before the files.    *)
RunsWhatIsListed ==
    /\ layout # <<"broken range">> => IsPrefix(executed, Listed)
    /\ [i \in DOMAIN reported |-> <<reported[i][2], reported[i][3]>>]
          = IF failed THEN Front(trapped) ELSE trapped
    /\ \A r \in Range(reported) :
          r[1] = IF layout[1] = "package" THEN spec.package ELSE Unknown

(* A runner that does not end in an error has run every test of the files it  *)
(* was given, although it ignores where its own callbacks stop the parser,    *)
(* and the driver is told to finish only after all of them.                   *)
NoTestForgotten ==
    /\ result \in {"ignored", "done"} /\ ListsFiles /\ ~ Contains(layout, "no package")
          => executed = Listed
    /\ finished /\ ListsFiles => executed = Listed
=============================================================================
