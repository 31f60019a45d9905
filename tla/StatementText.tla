---------------------------- MODULE StatementText ----------------------------
(***************************************************************************)
(* The text of a unit's statement: BuildScanSql puts the snapshot, the      *)
(* pushed filters and the slice together, renumbers the placeholders of the *)
(* filters, and lists the binds in the order of the text, since OCI binds   *)
(* the i-th placeholder of the text to the i-th value.                      *)
(*                                                                         *)
(* A text is a sequence of tokens: Word(w), any text without quotes and     *)
(* placeholders, the two quotes, Placeholder(n) for :bn, wherever it        *)
(* stands, and Literal(v), a value written out.                             *)
(***************************************************************************)
EXTENDS ColumnNames, SequencesExt

CONSTANTS
  Spelling(_),  \* the tokens of a column name: it may hold ' and :bn
  NoScn         \* no snapshot

Word(w)        == <<"word", w>>
Double         == <<"quote", "double">>
Single         == <<"quote", "single">>
Placeholder(n) == <<"bind", n>>
Literal(value) == <<"value", value>>

QuoteIdentifier(name) == <<Double>> \o Spelling(name) \o <<Double>>

Joined(texts, glue) ==
  FlattenSeq([i \in DOMAIN texts |-> IF i = 1 THEN texts[1] ELSE <<Word(glue)>> \o texts[i]])

(* TranslateFilter's text of one comparison, given the text of its constants; *)
(* "eq" stands for all six symbols, "null" for IS NULL and IS NOT NULL.       *)
Leaf(leaf, operands) ==
  LET quoted == QuoteIdentifier(leaf.column)
  IN CASE leaf.op = "eq"   -> <<Word("(")>> \o quoted \o <<Word("="), operands[1], Word(")")>>
       [] leaf.op = "ts"   -> <<Word("(")>> \o quoted \o <<Word("= TO_TIMESTAMP("), operands[1], Word(","), Single,
                               Word("YYYY-MM-DD HH24:MI:SS.FF6"), Single, Word("))")>>
       [] leaf.op = "date" -> <<Word("(")>> \o quoted \o <<Word(">="), operands[1], Word("AND")>>
                               \o quoted \o <<Word("<"), operands[2], Word("+ 1)")>>
       [] leaf.op = "in"   -> <<Word("(")>> \o quoted \o <<Word("IN (")>>
                               \o Joined([i \in DOMAIN operands |-> <<operands[i]>>], ",") \o <<Word("))")>>
       [] leaf.op = "null" -> <<Word("(")>> \o quoted \o <<Word("IS NULL)")>>

(* A filter is one comparison, or several combined with OR (AND is alike). *)
FilterText(filter, operands) ==
  IF Len(filter) = 1 THEN Leaf(filter[1], operands[1])
  ELSE <<Word("(")>> \o Joined([i \in DOMAIN filter |-> Leaf(filter[i], operands[i])], "OR") \o <<Word(")")>>

FilterBinds(filter) == FlattenSeq([i \in DOMAIN filter |-> filter[i].binds])

(* NextPlaceholder counts the binds added so far. *)
TranslateFilter(filter) ==
  LET before(i) == Len(FilterBinds(SubSeq(filter, 1, i - 1)))
  IN [sql   |-> FilterText(filter, [i \in DOMAIN filter |-> [j \in DOMAIN filter[i].binds |-> Placeholder(before(i) + j)]]),
      binds |-> FilterBinds(filter)]

-----------------------------------------------------------------------------
(* The quote that is open after each token: one of the other kind inside it   *)
(* is a character like any other.                                             *)
MutQuoteAfter(quote, token) ==  \* any quote opens or closes
  IF token[1] # "quote" THEN quote ELSE IF quote = <<>> THEN token ELSE <<>>

QuoteAfter(quote, token) ==
  IF quote # <<>> THEN IF token = quote THEN <<>> ELSE quote
  ELSE IF token[1] = "quote" THEN token ELSE <<>>

QuoteBefore(sql) ==
  LET quote[i \in 1 .. Len(sql) + 1] == IF i = 1 THEN <<>> ELSE QuoteAfter(quote[i - 1], sql[i - 1])
  IN quote

(* Replaces the placeholders outside quotes. *)
Rewritten(sql, quote, new) ==
  [i \in DOMAIN sql |-> IF quote[i] = <<>> /\ sql[i][1] = "bind" THEN new[sql[i][2]] ELSE sql[i]]

ShiftPlaceholders(sql, offset) ==
  Rewritten(sql, QuoteBefore(sql), [n \in Nat |-> Placeholder(n + offset)])

(* EXPLAIN ANALYZE: the literal of each bind, by the number of its placeholder. *)
InlineBinds(statement) ==
  Rewritten(statement.sql, QuoteBefore(statement.sql),
            [n \in Nat |-> IF n \in DOMAIN statement.binds THEN Literal(statement.binds[n]) ELSE Placeholder(n)])

(* SELECT ... FROM "owner"."object" *)
SelectFrom(columns) ==
  <<Word("SELECT")>>
  \o (IF columns = <<>> THEN <<Word("1")>> ELSE Joined([i \in DOMAIN columns |-> QuoteIdentifier(columns[i])], ","))
  \o <<Word("FROM"), Double, Word("OWNER"), Double, Word("."), Double, Word("OBJECT"), Double>>

AsOf(operand) == <<Word("AS OF SCN TO_NUMBER("), operand, Word(")")>>

SliceBinds(slice) ==
  CASE slice.kind = "none"  -> <<>>
    [] slice.kind = "range" -> <<slice.lo, slice.hi>>
    [] slice.kind = "hash"  -> <<slice.buckets - 1, slice.bucket>>

SliceText(slice, operands) ==
  CASE slice.kind = "none"  -> <<>>
    [] slice.kind = "range" -> << <<Word(IF slice.hi_inclusive THEN "ROWID BETWEEN CHARTOROWID(" ELSE "ROWID >= CHARTOROWID("),
                                    operands[1],
                                    Word(IF slice.hi_inclusive THEN ") AND CHARTOROWID(" ELSE ") AND ROWID < CHARTOROWID("),
                                    operands[2], Word(")")>> >>
    [] slice.kind = "hash"  -> << <<Word("ORA_HASH(ROWID,"), operands[1], Word(") ="), operands[2]>> >>

Where(conditions) == IF conditions = <<>> THEN <<>> ELSE <<Word("WHERE")>> \o Joined(conditions, "AND")

(* Where a filter's placeholders start: after the binds before it. *)
ShiftBy(scn, before) == Len(scn) + Len(before)

BuildScanSql(input, slice) ==
  LET scn          == IF input.snapshot_scn = NoScn THEN <<>> ELSE <<input.snapshot_scn>>
      before(i)    == FlattenSeq([j \in 1 .. i - 1 |-> input.filters[j].binds])
      filter_binds == before(Len(input.filters) + 1)
      binds        == scn \o filter_binds \o SliceBinds(slice)
      from_here    == Len(scn) + Len(filter_binds)
      conditions   == [i \in DOMAIN input.filters |->
                        ShiftPlaceholders(input.filters[i].sql, ShiftBy(scn, before(i)))]
  IN [sql |-> SelectFrom(input.columns)
              \o (IF scn = <<>> THEN <<>> ELSE AsOf(Placeholder(1)))
              \o Where(conditions \o SliceText(slice, [j \in 1 .. 2 |-> Placeholder(from_here + j)])),
      binds |-> binds]

-----------------------------------------------------------------------------
(* Oracle's reading of a text (external): the k-th placeholder outside        *)
(* quotes has the value bound to position k.                                  *)
OpenAfter(open, token) ==
  CASE token[1] # "quote"  -> open
    [] token = open        -> Word("")
    [] token[1] = "quote" /\ open = Word("") -> token
    [] OTHER               -> open

Positions(sql) ==
  LET open[k \in 0 .. Len(sql)] == IF k = 0 THEN Word("") ELSE OpenAfter(open[k - 1], sql[k])
  IN {i \in DOMAIN sql : sql[i][1] = "bind" /\ open[i - 1] = Word("")}

OracleReads(sql, binds) ==
  LET positions == Positions(sql)
  IN [i \in DOMAIN sql |-> IF i \in positions THEN Literal(binds[Cardinality({j \in positions : j <= i})]) ELSE sql[i]]
=============================================================================
