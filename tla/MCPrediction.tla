---------------------------- MODULE MCPrediction ----------------------------
(***************************************************************************)
(* Command lines with and without the flags and limits, in good and in bad *)
(* order, one of them with binary witnesses only, as the runner script has *)
(* it ready for the predictor it does not run.  Text files of a few lines, *)
(* with threads of two bits and targets of one: 3 is the last thread and 4 *)
(* the first that does not fit; two names fit, the third does not.         *)
(***************************************************************************)
EXTENDS Prediction, TLC

\* -1 is accepted by std::stoul and is the greatest of its numbers.
SmallNumbers == ("0" :> 0) @@ ("1" :> 1) @@ ("2" :> 2) @@ ("-1" :> 15)

Line(type, thread, name, value) ==
    [type |-> type, thread |-> thread, name |-> name, value |-> value]

SmallNumerals == ("0" :> 0) @@ ("1" :> 1) @@ ("2" :> 2)

SmallLines == {
    Line("begin", 3, "0", 0), Line("begin", 4, "0", 0), Line("end", 1, "0", 0),
    Line("fork", 0, "1", 0), Line("join", 1, "2", 0), Line("fork", 0, "t1", 0),
    Line("read", 3, "X", 3), Line("write", 1, "Y", 1), Line("write", 2, "Z", 3),
    Line("acq", 3, "X", 0), Line("rel", 0, "Y", 0), Line("acq", 4, "Z", 0),
    Line("write", 1, "X", Malformed), Line("lock", 1, "X", 0) }

LogBoth == <<"--log-witness", "--log-binary-witness">>

OneFlag == {
    <<"--log-binary-witness", "-f", "trace">>,
    <<"-f", "trace">> }

CommandLines == OneFlag \cup {
    <<"-f", "trace">> \o LogBoth,
    <<"-f", "trace", "--human">> \o LogBoth,
    <<"-f", "trace", "-c", "2">> \o LogBoth,
    <<"-r", "1", "-f", "trace">> \o LogBoth,
    <<"-c", "2", "-r", "2", "-f", "trace", "--log-witness">>,
    <<"-f", "trace", "-c", "-1", "-r", "0">> \o LogBoth,
    <<"-f", "trace", "--log-witness", "-c">>,     \* no value: no limit
    <<"-f", "trace", "-r", "-c", "2">>,           \* -c is not a number
    <<"--log-witness", "-f">> }

\* Lengths inside, at and beyond the end of the file, and the length 0.
FewWitnesses == <<
    {<<1, 2>>, <<2, 1>>, <<4, 1, 2>>},
    {<<3, 1>>, <<2, 3, 1>>},
    {<<4, 2>>, <<1, 4, 2>>} >>

\* Only the first program to run is given a text file, and the last one
\* verifies.
Sessions ==
    /\ pc = "read" => runs = 1
    /\ runs = MaxRuns => program = "verifier"
=============================================================================
