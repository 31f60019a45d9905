------------------------------ MODULE MCTransfer ------------------------------
(* Instances of Transfer for TLC: tables whose columns differ in case or look *)
(* like the names a scan generates, and a column name with an apostrophe and  *)
(* what looks like a placeholder in it.                                       *)
EXTENDS Transfer

CONSTANTS id, day, now, ten, may

Name(word, form, suffix) == [name |-> <<word, form, suffix>>, family |-> "number", nullable |-> TRUE]

ID    == Name(id, "upper", <<>>)
lower == Name(id, "lower", <<>>)
ID_1  == Name(id, "upper", <<1>>)
id_1  == Name(id, "lower", <<1>>)
DAY   == Name(day, "upper", <<>>)

MCTables == { <<>>, <<ID>>, <<lower, ID>>, <<ID, lower, ID_1>>, <<id_1, ID, lower>>,
              <<[DAY EXCEPT !.nullable = FALSE], ID>>, <<ID, [DAY EXCEPT !.family = "unsupported"]>>,
              <<ID_1, DAY, lower>>, <<DAY, [lower EXCEPT !.family = "varchar"], ID>> }

(* id is spelled i'd:b1 in lower case and I'D:B1 in upper case. *)
MCSpelling(name) ==
  (IF name[1] = day THEN <<Word("DAY")>>
   ELSE IF name[2] = "upper" THEN <<Word("I"), Single, Word("D:B1")>> ELSE <<Word("i"), Single, Word("d"), Placeholder(1)>>)
  \o [k \in DOMAIN name[3] |-> Word("_1")]

Comparison(op, column, binds) == [op |-> op, column |-> column, binds |-> binds]

MCFilters == { <<>>,
  << <<Comparison("date", 1, <<may, may>>)>>, <<Comparison("eq", 1, <<ten>>), Comparison("null", 1, <<>>)>> >>,
  << <<Comparison("ts", 1, <<may>>), Comparison("eq", 1, <<ten>>)>>, <<Comparison("in", 1, <<may, ten>>)>> >> }

MCSelects == {<<>>} \cup UNION {[1 .. n -> 1 .. 3] : n \in 1 .. 2}

MCQueries ==
  {[select |-> s, filters |-> <<>>, copy |-> TRUE, skip_index_maintenance |-> k] :
     s \in MCSelects \ {<<>>}, k \in BOOLEAN}
  \cup {[select |-> s, filters |-> f, copy |-> FALSE, skip_index_maintenance |-> FALSE] :
          s \in {<<>>, <<1>>, <<2, 2, 1>>}, f \in MCFilters}

Rowids(lo, hi, inclusive) == [kind |-> "range", lo |-> lo, hi |-> hi, hi_inclusive |-> inclusive]
Bucket(k) == [kind |-> "hash", buckets |-> 2, bucket |-> k]

MCPlans == {
  [scn |-> NoScn, slices |-> <<>>],
  [scn |-> NoScn, slices |-> <<[kind |-> "none"]>>],
  [scn |-> NoScn, slices |-> <<Rowids(1, 2, TRUE)>>],
  [scn |-> now, slices |-> <<Rowids(1, 2, FALSE), Rowids(2, 4, FALSE)>>],
  [scn |-> now, slices |-> <<Bucket(0), Bucket(1)>>] }
=============================================================================
