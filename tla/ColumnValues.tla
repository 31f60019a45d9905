----------------------------- MODULE ColumnValues -----------------------------
(***************************************************************************)
(* One value on its way into a column and out of it: the column plan of a   *)
(* COPY (column_plan.cpp) and the cell it writes (chunk_writer.cpp), the     *)
(* plan of a scan (read_types.cpp) and the value it reads (scan_vectors.cpp). *)
(*                                                                         *)
(* A cell is what Oracle stores: the bytes of a NUMBER, a DATE or a          *)
(* TIMESTAMP, or a text.  Texts are names, see Texts; a BINARY_DOUBLE is an  *)
(* integer.  Null is the cell and the value NULL.                           *)
(***************************************************************************)
EXTENDS OracleNumber, OracleDate

CONSTANTS
  MaxPrecision, \* 38, digits of a NUMBER(p,s) and of a DECIMAL
  SmallDigits,  \* 4, digits read as SMALLINT
  SmallMax,     \* 32767
  Null,
  OutOfRange    \* the COPY fails: the value has no cell

ASSUME ValueAssumption ==
  /\ MaxPrecision \in Nat /\ SmallDigits \in Nat /\ SmallMax \in Nat
  /\ 10 ^ MaxPrecision <= (Word * Word) \div 2      \* a DECIMAL fits two words
  /\ 10 ^ SmallDigits <= SmallMax + 1
  /\ MaxPrecision + 1 < 2 * kMaxPairs               \* and the mantissa of a NUMBER

WordDigits == kChunkDigits

(* An Oracle column: precision and scale are -1 where ALL_TAB_COLUMNS has    *)
(* NULL; the scale of a TIMESTAMP is its number of fractional digits.        *)
Column(type, precision, scale) ==
  [type |-> type, precision |-> precision, scale |-> scale,
   charset |-> "AL32UTF8", national |-> FALSE, collation |-> "BINARY"]

IsNumber(column) == column.type \in {"NUMBER", "FLOAT"}
IsTimestamp(column) == column.type \in {"TIMESTAMP", "TIMESTAMP WITH TIME ZONE"}
IsChar(column) == column.type \in {"VARCHAR2", "CHAR", "NVARCHAR2", "NCHAR"}

-----------------------------------------------------------------------------
(* PlanReadColumn. *)
ReadPlan(duck, width, scale, round) == [duck |-> duck, width |-> width, scale |-> scale, round |-> round]
SetDecimal(width, scale) == ReadPlan("DECIMAL", width, scale, FALSE)
SetDouble == ReadPlan("DOUBLE", 0, 0, FALSE)

(* NUMBER without precision and scale, and FLOAT, follow the user's setting. *)
PlanUnconstrained(u) ==
  CASE u.kind = "DOUBLE"  -> SetDouble
    [] u.kind = "VARCHAR" -> ReadPlan("NUMBER TEXT", 0, 0, FALSE)
    [] u.kind = "DECIMAL" -> [SetDecimal(u.width, u.scale) EXCEPT !.round = TRUE]

(* Width and scale of the DECIMAL that holds every NUMBER(p,s). *)
DecimalShape(p, s) == IF s < 0 THEN <<p - s, 0>> ELSE IF s > p THEN <<s, s>> ELSE <<p, s>>

PlanNumber(column, u) ==
  LET s == column.scale
      p == IF column.precision > 0 THEN column.precision ELSE MaxPrecision
      decimal == DecimalShape(p, s)
  IN IF column.type = "FLOAT" \/ (column.precision < 0 /\ s < 0) THEN PlanUnconstrained(u)
     ELSE IF decimal[1] > MaxPrecision THEN SetDouble
     ELSE IF s = 0 /\ column.precision > 0 /\ column.precision <= WordDigits
       THEN ReadPlan(IF p <= SmallDigits THEN "SMALLINT" ELSE "BIGINT", 0, 0, FALSE)
     ELSE SetDecimal(decimal[1], decimal[2])

PlanReadColumn(column, u) ==
  CASE IsNumber(column) -> PlanNumber(column, u)
    [] column.type = "BINARY_DOUBLE" -> SetDouble
    [] column.type \in {"DATE", "TIMESTAMP"} -> ReadPlan("TIMESTAMP", 0, 0, FALSE)
    [] column.type = "TIMESTAMP WITH TIME ZONE" -> ReadPlan("TIMESTAMP_TZ", 0, 0, FALSE)
    [] IsChar(column) \/ column.type = "CLOB" -> ReadPlan("VARCHAR", 0, 0, FALSE)

-----------------------------------------------------------------------------
(* What a scan reads from a cell. *)
Value(v) == Decoded("ok", v)

(* OCI (external) rounds a NUMBER to a DOUBLE: a monotone map with gaps, here *)
(* on the NUMBER in units of 10^-2.                                          *)
ToDouble(cell) == (DecodeOracleNumberScaled128(cell, 2, TRUE).value \div 8) * 8

(* A number that was decoded and is not in the range of its type is refused. *)
Narrow(decoded, range) ==
  IF decoded.status = "ok" /\ decoded.value \notin range THEN Decoded("range", 0) ELSE decoded

(* WriteIntegers: OCI (external) hands a NUMBER(p) over as a word; the        *)
(* narrower type is checked.                                                 *)
WriteIntegers(plan, cell) ==
  LET max == IF plan.duck = "SMALLINT" THEN SmallMax ELSE Word \div 2 - 1
  IN Narrow(DecodeOracleNumberScaled64(cell, 0, FALSE), -max - 1 .. max)

(* WriteDecimal64 and WriteDecimal128: the width is checked after decoding. *)
WriteDecimal(plan, cell) ==
  LET limit == 10 ^ plan.width
  IN Narrow(IF plan.width <= WordDigits
              THEN DecodeOracleNumberScaled64(cell, plan.scale, plan.round)
              ELSE DecodeOracleNumberScaled128(cell, plan.scale, plan.round),
            1 - limit .. limit - 1)

WriteTimestamps(column, cell) ==
  LET decoded == IF column.type = "DATE" THEN DecodeOracleDate(cell) ELSE DecodeOracleTimestamp(cell)
  IN IF decoded.ok THEN Value(decoded.micros) ELSE Decoded("invalid", 0)

(* WriteDecoded; a text of invalid UTF-8 is refused. *)
ReadCell(column, u, cell) ==
  LET plan == PlanReadColumn(column, u)
  IN IF cell = Null THEN Value(Null)
     ELSE CASE plan.duck \in {"SMALLINT", "BIGINT"} -> WriteIntegers(plan, cell)
            [] plan.duck = "DECIMAL" -> WriteDecimal(plan, cell)
            [] plan.duck = "NUMBER TEXT" -> DecodeOracleNumberText(cell)
            [] plan.duck = "DOUBLE" -> Value(IF IsNumber(column) THEN ToDouble(cell) ELSE cell)
            [] plan.duck \in {"TIMESTAMP", "TIMESTAMP_TZ"} -> WriteTimestamps(column, cell)
            [] plan.duck = "VARCHAR" -> IF cell = "invalid" THEN Decoded("invalid", 0) ELSE Value(cell)

-----------------------------------------------------------------------------
(* PlanColumnType: the representation of a DuckDB value for a column. *)
CellRepr(type, column) ==
  CASE type = "VARCHAR" /\ column.type \in {"VARCHAR2", "CHAR"} -> "string"
    [] type = "BIGINT" /\ IsNumber(column) -> "native"
    [] type = "DECIMAL" /\ IsNumber(column) -> "number"
    [] type = "DOUBLE" /\ column.type = "BINARY_DOUBLE" -> "native"
    [] type \in {"DATE", "TIMESTAMP"} /\ column.type = "DATE" -> "date"
    [] type \in {"DATE", "TIMESTAMP"} /\ column.type = "TIMESTAMP" ->
         IF column.scale >= 6 THEN "timestamp" ELSE "datetime text"
    [] OTHER -> "mismatch"

(* WriteNumberEncoded: one word up to WordDigits digits, two above; only the *)
(* latter looks at the length.                                               *)
WriteNumber(value, width, scale) ==
  LET magnitude == IF value < 0 THEN -value ELSE value
      bytes == EncodeOracleNumber(magnitude \div Word, magnitude % Word, value < 0, scale)
  IN IF bytes # <<>> THEN bytes ELSE IF width <= WordDigits THEN Null ELSE OutOfRange

OrOutOfRange(bytes) == IF bytes = <<>> THEN OutOfRange ELSE bytes

(* Oracle (external) reads the text of a date and rounds its fraction to the  *)
(* column's precision; of the precisions below 6 only 0 is modelled.          *)
ToTimestamp(text, scale) ==
  LET days == DaysFromCivil(text[1], text[2], text[3])
      seconds == (text[4] * MinutesPerHour + text[5]) * SecondsPerMinute + text[6]
      up == IF scale < 6 /\ 2 * text[7] >= kMicrosPerSecond THEN 1 ELSE 0
      micros == seconds * kMicrosPerSecond + (IF scale < 6 THEN up * kMicrosPerSecond ELSE text[7])
      split == SplitMicros(days * kMicrosPerDay + micros)
  IN OrOutOfRange(EncodeOracleTimestamp(split.days, split.micros))

WriteDateTime(type, value, column) ==
  LET split == IF type = "TIMESTAMP" THEN SplitMicros(value) ELSE [days |-> value, micros |-> 0]
      repr == CellRepr(type, column)
      text == FormatDateTimeText(split.days, split.micros)
  IN CASE repr = "datetime text" -> IF text = <<>> THEN OutOfRange ELSE ToTimestamp(text, column.scale)
       [] repr = "timestamp" -> OrOutOfRange(EncodeOracleTimestamp(split.days, split.micros))
       [] repr = "date" -> OrOutOfRange(EncodeOracleDate(split.days, split.micros))

(* WriteString: Oracle's '' is NULL. *)
WriteString(value) == IF value = "" THEN Null ELSE value

(* WriteColumn, for one DuckDB value: source is its type and value, with the  *)
(* width and scale of a DECIMAL.  Oracle (external) converts a native integer. *)
WriteCell(source, column) ==
  LET repr == CellRepr(source.type, column)
  IN IF source.value = Null THEN Null
     ELSE CASE repr = "string" -> WriteString(source.value)
            [] repr = "number" -> WriteNumber(source.value, source.width, source.scale)
            [] repr = "native" /\ IsNumber(column) -> WriteNumber(source.value, MaxPrecision, 0)
            [] repr = "native" /\ ~IsNumber(column) -> source.value
            [] repr \in {"date", "timestamp", "datetime text"} ->
                 WriteDateTime(source.type, source.value, column)
=============================================================================
