----------------------------- MODULE JsonValues -----------------------------
(***************************************************************************)
(* JSON values as the runner, the proxy and the demo service see them, and *)
(* the selection of a value by a JSON pointer. A value is a record with    *)
(* one field named for its kind, so that values of different kinds differ  *)
(* without being compared; a pointer is the sequence of its tokens.        *)
(***************************************************************************)
EXTENDS Naturals, Sequences, SequencesExt, TLC

Null == [null |-> TRUE]
Num(n) == [num |-> n]
Str(s) == [str |-> s]
Time(t) == [time |-> t]          \* a date-time string
Arr(values) == [arr |-> values]
Obj(fields) == [obj |-> fields]  \* fields: name -> value
Var(name) == [var |-> name]      \* {"$var": name}

Missing == [missing |-> TRUE]    \* no value, as opposed to null

IsKind(value, kind) == kind \in DOMAIN value
IsString(value) == IsKind(value, "str") \/ IsKind(value, "time")

\* Bound: no array is addressed beyond its third item.
ArrayIndex == "0" :> 0 @@ "1" :> 1 @@ "2" :> 2

Child(value, token) ==
  IF IsKind(value, "obj") /\ token \in DOMAIN value.obj THEN value.obj[token]
  ELSE IF /\ IsKind(value, "arr")
          /\ token \in DOMAIN ArrayIndex
          /\ ArrayIndex[token] < Len(value.arr)
       THEN value.arr[ArrayIndex[token] + 1]
  ELSE Missing

Select(value, pointer) == FoldLeft(Child, value, pointer)

\* Bound: values nest at most this deep.
MaxNesting == 3

\* start, what Inner finds in it, what Inner finds in that, and so on.
Nested(start, Inner(_)) ==
  LET level[n \in 1..MaxNesting] ==
        IF n = 1 THEN Inner(start) ELSE UNION {Inner(found) : found \in level[n - 1]}
  IN {start} \cup UNION {level[n] : n \in 1..MaxNesting}

Children(value) ==
  IF IsKind(value, "obj") THEN {value.obj[name] : name \in DOMAIN value.obj}
  ELSE IF IsKind(value, "arr") THEN {value.arr[i] : i \in DOMAIN value.arr}
  ELSE {}

\* The value and everything in it.
Parts(value) == Nested(value, Children)

\* The value with its child at token replaced, or dropped if new is Missing.
Without(values, i) == SubSeq(values, 1, i - 1) \o SubSeq(values, i + 1, Len(values))

WithChild(value, token, new) ==
  IF IsKind(value, "obj")
  THEN IF new = Missing
       THEN Obj([name \in DOMAIN value.obj \ {token} |-> value.obj[name]])
       ELSE Obj([value.obj EXCEPT ![token] = new])
  ELSE LET i == ArrayIndex[token] + 1
       IN Arr(IF new = Missing THEN Without(value.arr, i) ELSE [value.arr EXCEPT ![i] = new])

\* The value with what pointer selects replaced or dropped.
WithSelected(value, pointer, new) ==
  LET rebuilt[k \in 0..Len(pointer)] ==
        IF k = Len(pointer) THEN new
        ELSE WithChild(Select(value, SubSeq(pointer, 1, k)), pointer[k + 1], rebuilt[k + 1])
  IN rebuilt[0]

(***************************************************************************)
(* The text a scalar becomes in a path or a query. Numbers and strings of  *)
(* the same text are not told apart any more.                              *)
(***************************************************************************)
IsScalar(value) == \E kind \in {"null", "num", "str", "time"} : IsKind(value, kind)

Text(value) ==
  CASE IsKind(value, "null") -> ""
    [] IsKind(value, "num")  -> ToString(value.num)
    [] IsKind(value, "str")  -> value.str
    [] IsKind(value, "time") -> "time-" \o ToString(value.time)

\* Bound: numbers in paths and queries are below 10.
Digits == [n \in 0..9 |-> ToString(n)]
IsNumeral(text) == \E n \in 0..9 : Digits[n] = text
Numeral(text) == CHOOSE n \in 0..9 : Digits[n] = text
=============================================================================
