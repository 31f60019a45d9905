---------------------------- MODULE FilterPushdown ----------------------------
(***************************************************************************)
(* Filters of a query, moved from DuckDB into Oracle's WHERE clause:        *)
(* oraduck_scan_filters.cpp turns a DuckDB expression into a FilterNode,     *)
(* filter_sql.cpp turns the node into SQL with binds, and DuckDB no longer  *)
(* applies what was pushed.  The two databases compare differently: texts   *)
(* ('' is NULL, trailing blanks, the order of characters), dates (seconds),  *)
(* numbers (exact or DOUBLE).  The state is one column, one cell in it and   *)
(* the filters of the query; Oracle (external) filters the cell, the scan    *)
(* reads it and DuckDB (external) applies the filters that are left.         *)
(***************************************************************************)
EXTENDS ColumnValues

CONSTANTS
  kMaxInList,  \* 1000
  MaxPasses,   \* bound: passes of the optimizer over the filters
  Cases,       \* bound: a sequence of columns, each with the setting for unconstrained
               \* NUMBERs and the values (sources, cells) and queries to try on it
  Infinite,    \* DuckDB's infinite TIMESTAMP, also the infinity of a DOUBLE
  NoFilter     \* std::nullopt: not pushed

VARIABLES
  column, unconstrained,  \* the Oracle column and the setting for unconstrained NUMBERs
  source,       \* the value a COPY wrote, Null for a cell of another session
  cell,         \* what Oracle stores
  query,        \* the filters of the query
  filters,      \* those DuckDB still applies
  i,            \* the loop of PushdownComplexFilter
  bind_filters, \* bind.filters: the fragments of the WHERE clause
  passes,
  pc,
  out           \* "row", "none", "oracle error", "read error"

vars == <<column, unconstrained, source, cell, query, filters, i, bind_filters, passes, pc, out>>

target == <<column, unconstrained>>

-----------------------------------------------------------------------------
(* Texts, by name: "a_" is 'a' with a trailing blank, "bmp" a character at   *)
(* the end of the basic plane, "sup" a supplementary one, "?" the            *)
(* replacement character, "long" more than kMaxBindTextBytes bytes, "nul" a  *)
(* text with a zero byte and "invalid" not UTF-8.                            *)
Utf8  == <<"", "?", "A", "a", "a_", "long", "nul", "bmp", "sup", "invalid">>
Utf16 == <<"", "?", "A", "a", "a_", "long", "nul", "sup", "bmp", "invalid">>
Rank(order, text) == CHOOSE k \in DOMAIN order : order[k] = text
IsAscii(text) == text \notin {"bmp", "sup"}
Unbindable == {"long", "nul"}

(* Three values of logic, and "E" for an error. *)
Truth(p) == IF p THEN "T" ELSE "F"
Not(t) == CASE t = "T" -> "F" [] t = "F" -> "T" [] OTHER -> t
AllOf(s) == IF "E" \in s THEN "E" ELSE IF "F" \in s THEN "F" ELSE IF "N" \in s THEN "N" ELSE "T"
AnyOf(s) == Not(AllOf({Not(t) : t \in s}))

Compare(op, less, equal) ==
  CASE op = "eq" -> equal           [] op = "ne" -> ~equal
    [] op = "lt" -> less            [] op = "le" -> less \/ equal
    [] op = "gt" -> ~less /\ ~equal [] op = "ge" -> ~less

-----------------------------------------------------------------------------
(* DuckDB (external): an expression on a value v of the column. *)
DuckType(plan) ==
  IF plan.duck = "NUMBER TEXT" THEN <<"VARCHAR", 0, 0>> ELSE <<plan.duck, plan.width, plan.scale>>
ColumnType == DuckType(PlanReadColumn(column, unconstrained))

DuckLess(a, b) ==
  IF a = Infinite \/ b = Infinite THEN a # Infinite
  ELSE IF ColumnType[1] = "VARCHAR" THEN Rank(Utf8, a) < Rank(Utf8, b) ELSE a < b

DuckCompare(op, a, b) ==
  IF op = "distinct" THEN Truth(a # b)
  ELSE IF a = Null \/ b = Null THEN "N"
  ELSE Truth(Compare(op, DuckLess(a, b), a = b))

DuckDate(v) == IF v = Null THEN Null ELSE SplitMicros(v).days

RECURSIVE Eval(_, _)
Eval(expr, v) ==
  CASE expr.class = "comparison" ->
         LET left == IF expr.cast = "none" THEN v ELSE DuckDate(v)
         IN IF expr.flipped THEN DuckCompare(expr.op, expr.k.value, left)
            ELSE DuckCompare(expr.op, left, expr.k.value)
    [] expr.class = "between" ->
         AllOf({DuckCompare(IF expr.lower_inclusive THEN "ge" ELSE "gt", v, expr.lower.value),
                DuckCompare(IF expr.upper_inclusive THEN "le" ELSE "lt", v, expr.upper.value)})
    [] expr.class = "is null" -> Truth(v = Null)
    [] expr.class = "is not null" -> Truth(v # Null)
    [] expr.class = "in" -> AnyOf({DuckCompare("eq", v, expr.ks[n].value) : n \in DOMAIN expr.ks})
    [] expr.class = "and" -> AllOf({Eval(expr.children[n], v) : n \in DOMAIN expr.children})
    [] expr.class = "or" -> AnyOf({Eval(expr.children[n], v) : n \in DOMAIN expr.children})
    [] expr.class = "other" -> Truth(v # Null)

-----------------------------------------------------------------------------
(* oraduck_scan_filters.cpp: from an expression to a FilterNode.  "other" is  *)
(* anything that is not on a bare column of the scan.                         *)
Node(op, constants) == [op |-> op, constants |-> constants]

(* A constant of exactly the given type, finite and not NULL. *)
ToConstant(k, type) ==
  LET kind == CASE type[1] \in {"SMALLINT", "BIGINT"} -> "integer"
                [] type[1] = "DECIMAL" -> "decimal"
                [] type[1] = "DOUBLE" -> "double"
                [] type[1] = "VARCHAR" -> "string"
                [] type[1] = "TIMESTAMP" -> "timestamp"
                [] type[1] = "DATE" -> "date"
                [] OTHER -> "none"
  IN IF k.type # type \/ k.value = Null \/ kind = "none" THEN NoFilter
     ELSE IF k.value = Infinite /\ kind \in {"timestamp", "date"} THEN NoFilter
     ELSE [kind |-> kind, value |-> k.value, scale |-> type[3]]

ComparisonOp(op) == IF op \in {"eq", "ne", "lt", "le", "gt", "ge"} THEN op ELSE NoFilter

Flip(op) == CASE op = "lt" -> "gt" [] op = "le" -> "ge" [] op = "gt" -> "lt" [] op = "ge" -> "le" [] OTHER -> op

ColumnComparison(op, k) ==
  LET constant == ToConstant(k, ColumnType)
  IN IF constant = NoFilter THEN NoFilter ELSE Node(op, <<constant>>)

(* CAST(timestamp column AS DATE) = DATE constant; TRY_CAST is another predicate. *)
DateEquality(expr) ==
  LET constant == ToConstant(expr.k, <<"DATE", 0, 0>>)
  IN IF expr.cast # "cast" \/ ColumnType[1] # "TIMESTAMP" \/ constant = NoFilter THEN NoFilter
     ELSE Node("dateeq", <<constant>>)

Comparison(expr) ==
  LET op == ComparisonOp(expr.op)
  IN IF op = NoFilter THEN NoFilter
     ELSE IF expr.cast = "none" THEN ColumnComparison(IF expr.flipped THEN Flip(op) ELSE op, expr.k)
     ELSE IF op = "eq" THEN DateEquality(expr) ELSE NoFilter

Branch(op, children) ==
  IF NoFilter \in Range(children) \/ children = <<>> THEN NoFilter ELSE [op |-> op, children |-> children]

Between(expr) ==
  Branch("and", <<ColumnComparison(IF expr.lower_inclusive THEN "ge" ELSE "gt", expr.lower),
                  ColumnComparison(IF expr.upper_inclusive THEN "le" ELSE "lt", expr.upper)>>)

InList(expr) ==
  LET constants == [n \in DOMAIN expr.ks |-> ToConstant(expr.ks[n], ColumnType)]
  IN IF NoFilter \in Range(constants) THEN NoFilter ELSE Node("in", constants)

RECURSIVE ExpressionToFilterNode(_)
ExpressionToFilterNode(expr) ==
  CASE expr.class \in {"and", "or"} ->
         Branch(expr.class, [n \in DOMAIN expr.children |-> ExpressionToFilterNode(expr.children[n])])
    [] expr.class = "comparison" -> Comparison(expr)
    [] expr.class = "between" -> Between(expr)
    [] expr.class = "in" -> InList(expr)
    [] expr.class \in {"is null", "is not null"} -> Node(expr.class, <<>>)
    [] OTHER -> NoFilter

-----------------------------------------------------------------------------
(* filter_sql.cpp and sql_binds.cpp: from a FilterNode to SQL and binds. *)
IsUtf8Charset(charset) == charset \in {"AL32UTF8", "UTF8"}

(* The column's setting plays no part: an unconstrained NUMBER is never pushed. *)
Classify ==
  LET exact == PlanReadColumn(column, [kind |-> "DOUBLE"]).duck \in {"SMALLINT", "BIGINT", "DECIMAL"}
  IN CASE column.type = "NUMBER" /\ exact -> "number"
       [] column.type = "BINARY_DOUBLE" -> "double"
       [] column.type = "DATE" -> "date"
       [] column.type = "TIMESTAMP" /\ column.scale <= 6 -> "timestamp"
       [] IsChar(column) -> "char"
       [] column.type = "CLOB" -> "lob"
       [] OTHER -> "other"

(* NumberBind and BindDate throw for a value Oracle cannot hold: not pushed. *)
OrNoFilter(bytes) == IF bytes = <<>> THEN NoFilter ELSE bytes

NumberBind(value, scale) ==
  LET magnitude == IF value < 0 THEN -value ELSE value
  IN OrNoFilter(EncodeOracleNumber(magnitude \div Word, magnitude % Word, value < 0, scale))

BindDate(micros) == OrNoFilter(EncodeOracleDate(SplitMicros(micros).days, SplitMicros(micros).micros))

BindVarchar(text) == text

DateMicros(k) ==
  IF k.kind = "timestamp" THEN k.value
  ELSE IF k.kind = "date" /\ k.value \in -4000000 .. 4000000 THEN k.value * kMicrosPerDay
  ELSE NoFilter

IsRange(op) == op \in {"lt", "le", "gt", "ge"}

(* Constants Oracle compares as DuckDB does. *)
MutComparableText(op, text) == text # "" /\ text \notin Unbindable /\ column.collation = "BINARY"

ComparableText(op, text) ==
  /\ text # "" /\ text \notin Unbindable /\ column.collation = "BINARY"
  /\ IsRange(op) => column.charset = "AL32UTF8" /\ ~column.national
  /\ IsUtf8Charset(column.charset) \/ IsAscii(text)

ComparableDate(micros) == micros % kMicrosPerSecond = 0

Operand(op, k) ==
  LET kind == Classify
      micros == DateMicros(k)
  IN CASE kind = "number" /\ k.kind \in {"integer", "decimal"} -> NumberBind(k.value, k.scale)
       [] kind = "double" /\ k.kind = "double" /\ k.value # Infinite -> k.value
       [] kind = "date" /\ micros # NoFilter ->
            IF ComparableDate(micros) THEN BindDate(micros) ELSE NoFilter
       [] kind = "timestamp" /\ micros # NoFilter ->
            OrNoFilter(FormatDateTimeText(SplitMicros(micros).days, SplitMicros(micros).micros))
       [] kind = "char" /\ k.kind = "string" ->
            IF ComparableText(op, k.value) THEN BindVarchar(k.value) ELSE NoFilter
       [] OTHER -> NoFilter

(* The day after d must be a DATE too. *)
HasNextDay(k) == k.value < DaysFromCivil(9999, 12, 31)

Fragment(op, binds) == IF NoFilter \in Range(binds) THEN NoFilter ELSE [op |-> op, binds |-> binds]

Leaf(node) ==
  LET kind == Classify
      k == node.constants[1]
      operands == [n \in DOMAIN node.constants |-> Operand(node.op, node.constants[n])]
  IN CASE node.op \in {"is null", "is not null"} ->
            IF kind = "other" /\ column.type # "NUMBER" THEN NoFilter ELSE Fragment(node.op, <<>>)
       [] node.op = "dateeq" ->
            IF kind = "date" /\ DateMicros(k) # NoFilter /\ HasNextDay(k)
              THEN Fragment("dateeq", <<BindDate(DateMicros(k)), BindDate(DateMicros(k))>>) ELSE NoFilter
       [] node.op = "in" ->
            IF Len(node.constants) \in 1 .. kMaxInList THEN Fragment("in", operands) ELSE NoFilter
       [] OTHER -> Fragment(node.op, operands)

(* The whole node or nothing. *)
RECURSIVE TranslateFilter(_)
TranslateFilter(node) ==
  IF node.op \in {"and", "or"}
    THEN Branch(node.op, [n \in DOMAIN node.children |-> TranslateFilter(node.children[n])])
    ELSE Leaf(node)

(* The statement's text has placeholders, the display has the values. *)
RECURSIVE Sql(_)
Sql(fragment) ==
  IF fragment.op \in {"and", "or"}
    THEN [fragment EXCEPT !.children = [n \in DOMAIN @ |-> Sql(@[n])]]
    ELSE [fragment EXCEPT !.binds = Len(@)]
Display(fragment) == fragment

SameFragment(a, b) == Sql(a) = Sql(b) /\ Display(a) = Display(b)

-----------------------------------------------------------------------------
(* Oracle (external): a fragment on the cell.  Numbers, dates and timestamps  *)
(* compare as their bytes.                                                    *)
BytesLess(a, b) ==
  \/ IsStrictPrefix(a, b)
  \/ \E n \in 1 .. Min({Len(a), Len(b)}) : SubSeq(a, 1, n - 1) = SubSeq(b, 1, n - 1) /\ a[n] < b[n]

(* A bind reaches the column in the database's character set. *)
Converted(text) == IF IsUtf8Charset(column.charset) \/ IsAscii(text) THEN text ELSE "?"
Folded(text) == IF column.collation = "NOCASE" /\ text = "A" THEN "a" ELSE text
OracleRank(text) ==
  Rank(IF column.charset = "AL32UTF8" /\ ~column.national THEN Utf8 ELSE Utf16, Folded(text))

CompareBytes(op, a, b) == Truth(Compare(op, BytesLess(a, b), a = b))

OracleCompare(op, bind) ==
  LET text == Converted(bind)
  IN IF cell = Null THEN "N"
     ELSE CASE IsTimestamp(column) -> CompareBytes(op, cell, ToTimestamp(bind, 6))
            [] IsChar(column) ->
                 IF text \in Unbindable THEN "E" ELSE IF text = "" THEN "N"
                 ELSE Truth(Compare(op, OracleRank(cell) < OracleRank(text), OracleRank(cell) = OracleRank(text)))
            [] column.type = "BINARY_DOUBLE" -> Truth(Compare(op, cell < bind, cell = bind))
            [] OTHER -> CompareBytes(op, cell, bind)

(* DATE + 1. *)
NextDay(bytes) ==
  LET split == SplitMicros(DecodeOracleDate(bytes).micros)
  IN EncodeOracleDate(split.days + 1, split.micros)

RECURSIVE OracleEval(_)
OracleEval(fragment) ==
  CASE fragment.op = "and" -> AllOf({OracleEval(fragment.children[n]) : n \in DOMAIN fragment.children})
    [] fragment.op = "or" -> AnyOf({OracleEval(fragment.children[n]) : n \in DOMAIN fragment.children})
    [] fragment.op = "is null" -> Truth(cell = Null)
    [] fragment.op = "is not null" -> Truth(cell # Null)
    [] fragment.op = "in" ->
         IF Len(fragment.binds) > kMaxInList THEN "E"
         ELSE AnyOf({OracleCompare("eq", fragment.binds[n]) : n \in DOMAIN fragment.binds})
    [] fragment.op = "dateeq" ->
         IF NextDay(fragment.binds[2]) = <<>> THEN "E"
         ELSE AllOf({OracleCompare("ge", fragment.binds[1]), OracleCompare("lt", NextDay(fragment.binds[2]))})
    [] OTHER -> OracleCompare(fragment.op, fragment.binds[1])

-----------------------------------------------------------------------------
(* The cell is another session's, or a COPY is about to write it. *)
Init ==
  /\ \E n \in DOMAIN Cases : \E case \in {Cases[n]} :
       /\ column = case.column /\ unconstrained = case.unconstrained
       /\ query \in case.queries
       /\ \/ pc = "push" /\ source = Null /\ cell \in case.cells
          \/ pc = "copy" /\ source \in case.sources /\ cell = Null
  /\ filters = query /\ i = 1 /\ bind_filters = <<>> /\ passes = 1 /\ out = "none"

(* The COPY writes the value, or fails. *)
Load ==
  /\ pc = "copy"
  /\ LET written == WriteCell(source, column)
     IN /\ cell' = IF written = OutOfRange THEN Null ELSE written
        /\ pc' = IF written = OutOfRange THEN "failed" ELSE "push"
  /\ UNCHANGED <<target, source, query, filters, i, bind_filters, passes, out>>

(* OraduckScanPushdownComplexFilter, one filter. *)
Pushed ==
  LET node == ExpressionToFilterNode(filters[i])
  IN IF node = NoFilter THEN NoFilter ELSE TranslateFilter(node)

KeepFilter ==
  /\ pc = "push" /\ i <= Len(filters)
  /\ Pushed = NoFilter
  /\ i' = i + 1
  /\ UNCHANGED <<target, source, cell, query, filters, bind_filters, passes, pc, out>>

(* Pushed once, and erased: the next filter takes its place. *)
PushFilter ==
  /\ pc = "push" /\ i <= Len(filters)
  /\ Pushed # NoFilter
  /\ bind_filters' = IF \E n \in DOMAIN bind_filters : SameFragment(bind_filters[n], Pushed)
                       THEN bind_filters ELSE Append(bind_filters, Pushed)
  /\ filters' = RemoveAt(filters, i)
  /\ UNCHANGED <<target, source, cell, query, i, passes, pc, out>>

(* A later pass may hand over a filter already pushed. *)
NextPass ==
  /\ pc = "push" /\ i > Len(filters) /\ passes < MaxPasses
  /\ \E f \in Range(query) : filters' = Append(filters, f)
  /\ i' = 1 /\ passes' = passes + 1
  /\ UNCHANGED <<target, source, cell, query, bind_filters, pc, out>>

(* Oracle filters, the scan reads, DuckDB filters. *)
Outcome(oracle, read) ==
  IF oracle = "E" THEN "oracle error"
  ELSE IF oracle # "T" THEN "none"
  ELSE IF read.status # "ok" THEN "read error"
  ELSE IF \A n \in DOMAIN filters : Eval(filters[n], read.value) = "T" THEN "row" ELSE "none"

Scan ==
  /\ pc = "push" /\ i > Len(filters)
  /\ out' = Outcome(AllOf({OracleEval(bind_filters[n]) : n \in DOMAIN bind_filters}),
                    ReadCell(column, unconstrained, cell))
  /\ pc' = "end"
  /\ UNCHANGED <<target, source, cell, query, filters, i, bind_filters, passes>>

Next == Load \/ KeepFilter \/ PushFilter \/ NextPass \/ Scan

Spec == Init /\ [][Next]_vars

-----------------------------------------------------------------------------
Read == ReadCell(column, unconstrained, cell)

Answer(read) ==
  IF read.status # "ok" THEN {"none", "read error"}
  ELSE {IF \A n \in DOMAIN query : Eval(query[n], read.value) = "T" THEN "row" ELSE "none"}

(* Pushing filters changes no answer: what Oracle and DuckDB let through      *)
(* between them is what DuckDB alone would, and no pushed filter makes Oracle *)
(* raise an error.  A cell the scan cannot read may be filtered out first.    *)
SameRows == pc = "end" => out \in Answer(Read)

(* The calendar by its definition. *)
Leap(y) == y % 4 = 0 /\ (y % 100 # 0 \/ y % 400 = 0)
MonthDays(y, m) == IF m = 2 THEN IF Leap(y) THEN 29 ELSE 28 ELSE IF m \in {4, 6, 9, 11} THEN 30 ELSE 31
LeapsBefore(y) == ((y - 1) \div 4) - ((y - 1) \div 100) + ((y - 1) \div 400)
DaysBefore(y, m) ==
  <<0, 31, 59, 90, 120, 151, 181, 212, 243, 273, 304, 334>>[m] + (IF m > 2 /\ Leap(y) THEN 1 ELSE 0)
DateOf(bytes) ==
  LET written == (bytes[1] - 100) * 100 + bytes[2] - 100
      y == IF written < 0 THEN written + 1 ELSE written
  IN [valid |-> bytes[4] <= MonthDays(y, bytes[3]),
      micros |-> (365 * (y - 1) + LeapsBefore(y) + DaysBefore(y, bytes[3]) + bytes[4] - 1 - 719162) * kMicrosPerDay
                 + (((bytes[5] - 1) * MinutesPerHour + bytes[6] - 1) * SecondsPerMinute + bytes[7] - 1) * kMicrosPerSecond]
Micros(bytes) == IF Len(bytes) = 7 THEN 0 ELSE (bytes[10] * 256 + bytes[11]) \div 1000

(* A NUMBER by its format, in units of 100^-2. *)
Units(bytes) ==
  LET negative == bytes[1] < 128
      exponent == IF negative THEN 62 - bytes[1] ELSE bytes[1] - 193
      digits == SelectSeq(Tail(bytes), LAMBDA b : ~(negative /\ b = 102))
      pairs == [n \in DOMAIN digits |-> IF negative THEN digits[n] - 101 ELSE digits[n] - 1]
  IN IF bytes = <<128>> THEN 0 ELSE Horner(100, 0, pairs) * 100 ^ (exponent + 3 - Len(pairs))
Magnitude(n) == IF n < 0 THEN -n ELSE n
Sign(n) == IF n < 0 THEN -1 ELSE 1
TextUnits(text) ==
  LET digits == text.integer \o text.fraction
  IN (IF text.negative THEN -1 ELSE 1) * Horner(10, 0, digits) * 10 ^ (4 - Len(text.fraction))

Plan == PlanReadColumn(column, unconstrained)

(* What a scan may make of a cell: the number in units of 10^-scale, or     *)
(* the moment by the calendar.                                               *)
ReadsNumber(plan, read, units) ==
  LET unit == 10 ^ (4 - plan.scale)
      rounded == Sign(units) * ((Magnitude(units) + (unit \div 2)) \div unit)
  IN CASE plan.duck = "NUMBER TEXT" -> TextUnits(read.value) = units
       [] plan.duck # "NUMBER TEXT" /\ ~plan.round -> read.status = "ok" /\ read.value * unit = units
       [] plan.duck # "NUMBER TEXT" /\ plan.round ->
            IF Magnitude(rounded) < 10 ^ plan.width THEN read = Value(rounded) ELSE read.status # "ok"
ReadsMoment(read, date, micros) ==
  IF date.valid THEN read = Value(date.micros + micros) ELSE read.status # "ok"

(* A scan reads the value of the cell: a NUMBER(p,s) and the text of any      *)
(* NUMBER exactly, under the setting DECIMAL(p,s) rounded half up and refused *)
(* only when it has too many digits, and a date as the calendar has it, or    *)
(* not at all when the calendar has no such day.                              *)
ReadIsExact ==
  pc = "push" /\ cell # Null =>
    CASE Plan.duck \in {"SMALLINT", "BIGINT", "DECIMAL", "NUMBER TEXT"} -> ReadsNumber(Plan, Read, Units(cell))
      [] Plan.duck \in {"TIMESTAMP", "TIMESTAMP_TZ"} -> ReadsMoment(Read, DateOf(cell), Micros(cell))
      [] OTHER -> TRUE

(* What DuckDB holds of a loaded value: '' is NULL, a DATE column drops the   *)
(* fraction of a second and a TIMESTAMP(p) rounds it to p digits.             *)
SourceMicros == IF source.type = "DATE" THEN source.value * kMicrosPerDay ELSE source.value
ToSecond(micros, addend) == ((micros + addend) \div kMicrosPerSecond) * kMicrosPerSecond
AsLoaded ==
  LET v == source.value
  IN IF v = Null THEN Null
     ELSE CASE source.type = "VARCHAR" -> IF v = "" THEN Null ELSE v
            [] source.type = "DECIMAL" -> v * 10 ^ (Plan.scale - source.scale)
            [] source.type \in {"DATE", "TIMESTAMP"} ->
                 IF column.type = "DATE" THEN ToSecond(SourceMicros, 0)
                 ELSE IF column.scale < 6 THEN ToSecond(SourceMicros, kMicrosPerSecond \div 2)
                 ELSE SourceMicros
            [] OTHER -> v
OracleMicros == DateOf(<<100, 101, 1, 1, 1, 1, 1>>).micros ..
                DateOf(<<199, 199, 12, 31, 1, 1, 1>>).micros + kMicrosPerDay - 1

(* A value loaded by COPY and scanned comes back, and COPY refuses only what  *)
(* the column cannot hold: dates outside 0001-01-01 to 9999-12-31, before or  *)
(* after their rounding.                                                      *)
LoadedIsRead ==
  source # Null =>
    /\ pc = "push" => Read = Value(AsLoaded)
    /\ pc = "failed" =>
         source.type \in {"DATE", "TIMESTAMP"} /\ ~({SourceMicros, AsLoaded} \subseteq OracleMicros)
=============================================================================
