----------------------------- MODULE RangeExport -----------------------------
(* Exporting a range of frames: output-dialog.ts turns what the user enters   *)
(* into a display filter, binding/session.rs compiles it and starts a writer, *)
(* which is given every frame that passes.                                    *)
EXTENDS DisplayFilter, FiniteSets

CONSTANTS MaxIndex,     \* the last frame of the session
          MaxSafe       \* Number.MAX_SAFE_INTEGER

VARIABLES entered,      \* the numbers between the commas, -1 for none
          result,       \* of the call to createWriter: "none", "ok", "error"
          writer        \* the frames the writer is given

vars == <<entered, result, writer>>

\* One entry, <<n>> or <<n, m>>, as an interval: an open end is 0 or MaxSafe.
Interval(nums) ==
    LET begin == IF nums[1] = -1 THEN 0 ELSE nums[1]
        end == IF nums[2] = -1 THEN MaxSafe ELSE nums[2]
    IN  IF Len(nums) = 1 THEN <<begin, begin>>
        ELSE IF begin < end THEN <<begin, end>> ELSE <<end, begin>>

\* Intervals that touch the last one so far are merged into it.
Merge(merged, r) ==
    LET n == Len(merged)
        end == merged[n][2]
    IN  IF n > 0 /\ end >= r[1]
        THEN [merged EXCEPT ![n][2] = IF r[2] > end THEN r[2] ELSE end]
        ELSE Append(merged, r)

Index == Primary(<<"member", "$.index">>)
Num(n) == Primary(<<"integer", Word(n)>>)
Paren(text) == Primary(<<"paren", text>>)
Condition(r) ==
    CASE r = <<0, MaxSafe>> -> <<>>
      [] r[1] = 0 /\ r[2] # MaxSafe -> <<Paren(<<Index, "<=", Num(r[2])>>)>>
      [] r[1] # 0 /\ r[2] = MaxSafe -> <<Paren(<<Num(r[1]), "<=", Index>>)>>
      [] OTHER -> <<Paren(<<Num(r[1]), "<=", Index, "&&", Index, "<=", Num(r[2])>>)>>

\* parseRange: entries with no number at all are dropped.
ParseRange(entries) ==
    LET ranges == [i \in DOMAIN entries |-> Interval(entries[i])]
        sorted == SortSeq(ranges, LAMBDA a, b : a[1] < b[1])
        parts == FoldLeft(Merge, <<>>, sorted)
        Join(text, r) == IF text = <<>> THEN Condition(r)
                         ELSE text \o <<"||">> \o Condition(r)
    IN  FoldLeft(Join, <<>>, parts)

Init == /\ entered \in UNION {[1..n -> {<<i>> : i \in 0..MaxIndex}
                                \union ((-1..MaxIndex) \X (-1..MaxIndex))]
                                : n \in 1..2}
        /\ result = "none"
        /\ writer = {}

\* createWriter: a filter that does not compile throws, and the writer starts
\* all the same, with no filter.  No layer has an attribute $.index.
CreateWriter ==
    /\ result = "none"
    /\ LET text == ParseRange(entered)
           filter == Compile(text)
           none == text = <<>> \/ ~filter.ok
       IN  /\ result' = IF text = <<>> \/ filter.ok THEN "ok" ELSE "error"
           /\ writer' = {f \in 0..MaxIndex : none \/ Test(filter.val, <<>>)}
    /\ UNCHANGED entered

Next == CreateWriter \/ (result # "none" /\ UNCHANGED vars)

Spec == Init /\ [][Next]_vars

\* The placeholder of the field, 'e.g. 0-20, 51, 60-' (output-dialog.ts:148),
\* says what a range is: a writer gets frames of the entered ranges only.
RangeSelects ==
    result # "none" =>
        writer = {f \in 0..MaxIndex : \E i \in DOMAIN entered :
                     LET r == Interval(entered[i]) IN r[1] <= f /\ f <= r[2]}
=============================================================================
