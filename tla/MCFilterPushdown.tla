--------------------------- MODULE MCFilterPushdown ---------------------------
(* The columns, values and queries tried on FilterPushdown. *)
EXTENDS FilterPushdown

Double == [kind |-> "DOUBLE"]
Case(col, u, srcs, cells, queries) ==
  [column |-> col, unconstrained |-> u, sources |-> srcs, cells |-> cells, queries |-> queries]

K(col, v) == [type |-> DuckType(PlanReadColumn(col, Double)), value |-> v]
Cmp(op, flipped, k) == [class |-> "comparison", op |-> op, flipped |-> flipped, cast |-> "none", k |-> k]
OnDate(op, flipped, cast, day) ==
  [class |-> "comparison", op |-> op, flipped |-> flipped, cast |-> cast,
   k |-> [type |-> <<"DATE", 0, 0>>, value |-> day]]
Ops == {"eq", "ne", "lt", "le", "gt", "ge", "distinct"}
Leaves == {[class |-> "is null"], [class |-> "is not null"], [class |-> "other"]}

(* One filter: every comparison with the constants ks, IN, BETWEEN.  Two      *)
(* filters and both connectives: the equalities and ranges over few.          *)
Exprs(ks) ==
  {Cmp(op, flipped, k) : op \in Ops, flipped \in BOOLEAN, k \in ks} \cup Leaves
Lists(few) ==
  {[class |-> "in", ks |-> l] : l \in UNION {[1 .. n -> few] : n \in 1 .. kMaxInList + 1}}
Betweens(few) ==
  {[class |-> "between", lower |-> a, upper |-> b, lower_inclusive |-> x, upper_inclusive |-> y] :
     a \in few, b \in few, x \in BOOLEAN, y \in BOOLEAN}
Simple(few) == {Cmp(op, FALSE, k) : op \in {"eq", "lt"}, k \in few} \cup Leaves
Nested(few) ==
  {[class |-> c, children |-> <<a, b>>] : c \in {"and", "or"}, a \in Simple(few), b \in Simple(few)}
Queries(ks, few) ==
  {<<e>> : e \in Exprs(ks) \cup Lists(few) \cup Betweens(few) \cup Nested(few)}
  \cup {<<a, b>> : a \in Simple(few), b \in Simple(few)}

-----------------------------------------------------------------------------
(* Cells of a NUMBER: pairs of digits at the edges of every decision. *)
Pairs == {0, 1, 9, 10, 49, 50, 99}
Number(negative, exponent, pairs) ==
  IF negative THEN <<62 - exponent>> \o [n \in DOMAIN pairs |-> 101 - pairs[n]]
                   \o (IF Len(pairs) < kMaxPairs THEN <<102>> ELSE <<>>)
  ELSE <<193 + exponent>> \o [n \in DOMAIN pairs |-> pairs[n] + 1]
Mantissas == {m \in UNION {[1 .. n -> Pairs] : n \in 1 .. kMaxPairs} : m[1] # 0 /\ m[Len(m)] # 0}
Numbers ==
  {<<128>>} \cup UNION {{Number(negative, e, m) : negative \in BOOLEAN, e \in Len(m) - 3 .. 1} : m \in Mantissas}
Few == {<<128>>} \cup UNION {{Number(negative, e, m) : negative \in BOOLEAN, e \in Len(m) - 3 .. 1} :
                              m \in {<<1>>, <<2>>, <<1, 50>>, <<1, 51>>, <<99>>, <<10>>}}
(* NUMBER(p,s) holds multiples of 10^-s of at most p digits. *)
Holds(col, c) ==
  LET p == IF col.precision > 0 THEN col.precision ELSE MaxPrecision
  IN IF col.precision < 0 /\ col.scale < 0 THEN TRUE
     ELSE Units(c) % 10 ^ (4 - col.scale) = 0 /\ Magnitude(Units(c)) < 10 ^ (p - col.scale + 4)
CellsOf(col, cells) == {c \in cells : Holds(col, c)} \cup {Null}

Unscaled == -120 .. 120 \cup {n * v : n \in {-1, 1}, v \in 990 .. 1010 \cup 9895 .. 9999}
Decimal(v, w, s) == [type |-> "DECIMAL", value |-> v, width |-> w, scale |-> s]

Shapes == <<<<4, 0>>, <<4, 1>>, <<4, 2>>, <<4, 3>>, <<4, 4>>, <<2, 0>>, <<1, 0>>, <<2, 1>>, <<-1, 2>>, <<2, 3>>,
            <<1, 4>>, <<2, -1>>, <<3, -1>>, <<4, -1>>>>
Settings == <<[kind |-> "DECIMAL", width |-> 2, scale |-> 0], [kind |-> "DECIMAL", width |-> 4, scale |-> 0],
              [kind |-> "DECIMAL", width |-> 2, scale |-> 1], [kind |-> "DECIMAL", width |-> 4, scale |-> 2],
              [kind |-> "VARCHAR"]>>
ReadCase(col, u) == Case(col, u, {}, CellsOf(col, Numbers), {<<>>})
Reads ==
  [n \in DOMAIN Shapes |-> ReadCase(Column("NUMBER", Shapes[n][1], Shapes[n][2]), Double)]
  \o [n \in DOMAIN Settings |-> ReadCase(Column("NUMBER", -1, -1), Settings[n])]
Loads ==
  [n \in 1 .. 5 |-> Case(Column("NUMBER", 4, n - 1), Double, {Decimal(v, 4, n - 1) : v \in Unscaled}, {}, {<<>>})]
  \o [n \in 1 .. 3 |-> Case(Column("NUMBER", 2, n - 1), Double, {Decimal(v, 2, n - 1) : v \in -99 .. 99}, {}, {<<>>})]

NumberFilters(col, values, few) ==
  Case(col, Double, {}, CellsOf(col, Few),
       Queries({K(col, v) : v \in values \cup {Null}}
                 \cup {[type |-> <<"VARCHAR", 0, 0>>, value |-> Null]}, {K(col, v) : v \in few}))
NumberCases ==
  <<NumberFilters(Column("NUMBER", 4, 2), {-9999, -151, -150, -100, -99, -1, 0, 1, 10, 99, 100, 150, 151, 1000}, {-150, 0, 100}),
   NumberFilters(Column("NUMBER", 2, 0), {-99, -10, -2, -1, 0, 1, 2, 10, 99}, {-1, 0, 2}),
   NumberFilters(Column("NUMBER", -1, -1), {-104, 0, 96, 104, 152}, {0, 96}),
   NumberFilters(Column("FLOAT", -1, -1), {0, 96}, {96})>>
DoubleCases ==
  LET col == Column("BINARY_DOUBLE", -1, -1)
  IN <<Case(col, Double, {[type |-> "DOUBLE", value |-> v] : v \in -1 .. 1}, -1 .. 1 \cup {Null},
            Queries({K(col, v) : v \in {-1, 0, 1, Infinite, Null}}, {K(col, 0), K(col, 1)}))>>

-----------------------------------------------------------------------------
(* Days around the ends of the range, of eras, of leap years. *)
Ends == -719170 .. -719155 \cup -3 .. 3 \cup 2932890 .. 2932900
Days == Ends \cup 0 .. 1000 \cup 10950 .. 11050 \cup 47480 .. 47550
Bytes(year, month, day, h, m, s) ==
  LET y == IF year <= 0 THEN year - 1 ELSE year   \* 1 BC is written -1
      c == IF y < 0 THEN -((-y) \div 100) ELSE y \div 100
  IN <<c + 100, y - 100 * c + 100, month, day, h, m, s>>
Years == {-4711, -400, -4, -1, 0, 1, 4, 100, 400, 1600, 1900, 1969, 1970, 1972, 2000, 2100, 9999}
Calendar == {Bytes(y, m, d, 1, 1, 1) : y \in Years, m \in 1 .. 12, d \in {1, 28, 29, 30, 31}}
            \cup {Bytes(1970, 1, 1, h, m, s) : h \in 1 .. HoursPerDay, m \in 1 .. MinutesPerHour, s \in 1 .. SecondsPerMinute}
Date == Column("DATE", -1, -1)
Timestamp(n) == Column("TIMESTAMP", -1, n)
Zoned == Column("TIMESTAMP WITH TIME ZONE", -1, 6)
Nanos(bytes) == bytes \o <<0, 0, 1, 244>>   \* 500 of them
Micro(bytes) == bytes \o <<0, 0, 3, 232>>   \* 1000
Dates(days) == {[type |-> "DATE", value |-> d, width |-> 0, scale |-> 0] : d \in days}
Stamps(days) == {[type |-> "TIMESTAMP", value |-> d * kMicrosPerDay + m, width |-> 0, scale |-> 0] :
                   d \in days, m \in {0, 1, 3, kMicrosPerDay - 1}}
DateLoads ==
  LET Loading(col, cells) == Case(col, Double, Dates(Days) \cup Stamps(Ends), cells, {<<>>})
  IN <<Loading(Date, Calendar), Loading(Timestamp(6), {}), Loading(Timestamp(0), {}),
       Case(Timestamp(9), Double, {}, {Micro(b) : b \in Calendar} \cup {Nanos(b) : b \in Calendar}, {<<>>})>>

Midnight == {Bytes(0, 12, 31, 1, 1, 1), Bytes(1, 1, 1, 1, 1, 1), Bytes(1969, 12, 31, 1, 1, 1),
             Bytes(1970, 1, 1, 1, 1, 1), Bytes(1970, 1, 2, 1, 1, 1), Bytes(9999, 12, 31, 1, 1, 1)}
FewDates == Midnight \cup {Bytes(1970, 1, 1, 1, 1, 2), Bytes(1969, 12, 31, 2, 2, 2), Bytes(9999, 12, 31, 2, 2, 2)}
Moments == {-719163 * kMicrosPerDay, -719162 * kMicrosPerDay, -1, 0, 1, 2, 15, 16, 2932896 * kMicrosPerDay,
            2932897 * kMicrosPerDay - 1, 2932897 * kMicrosPerDay, Infinite, Null}
OnDates == {OnDate(op, flipped, cast, d) : op \in {"eq", "lt"}, flipped \in BOOLEAN, cast \in {"cast", "try"},
              d \in {-5000000, -719163, -719162, 0, 2932895, 2932896, 2932897, Infinite, Null}}
TimeCase(col, cells) ==
  Case(col, Double, {}, cells \cup {Null},
       Queries({K(col, m) : m \in Moments}, {K(col, m) : m \in {0, 1, 2}}) \cup {<<e>> : e \in OnDates}
       \cup {<<[class |-> "or", children |-> <<e, Cmp("lt", FALSE, K(col, 2))>>]>> : e \in OnDates})
DateCases ==
  <<TimeCase(Date, FewDates),
   TimeCase(Timestamp(6), FewDates \cup {Micro(b) : b \in FewDates}),
   TimeCase(Timestamp(9), FewDates \cup {Micro(b) : b \in Midnight} \cup {Nanos(b) : b \in Midnight}),
   TimeCase(Zoned, Midnight)>>

-----------------------------------------------------------------------------
TextColumn(charset, type, collation) ==
  [Column(type, -1, -1) EXCEPT !.charset = charset, !.national = (type = "NVARCHAR2"), !.collation = collation]
Ascii == {"?", "A", "a", "a_"}
Wide == Ascii \cup {"bmp", "sup"}
TextCase(col, srcs, cells) ==
  Case(col, Double, {[type |-> "VARCHAR", value |-> t, width |-> 0, scale |-> 0] : t \in srcs}, cells \cup {Null},
       Queries({K(col, t) : t \in Wide \cup {"", "long", "nul", Null}}, {K(col, t) : t \in {"", "a", "sup"}}))
TextCases ==
  <<TextCase(TextColumn("AL32UTF8", "VARCHAR2", "BINARY"), Wide \cup {""}, Wide \cup {"invalid"}),
   TextCase(TextColumn("AL32UTF8", "CHAR", "NOCASE"), {}, Wide),
   TextCase(TextColumn("UTF8", "VARCHAR2", "BINARY"), {}, Wide),
   TextCase(TextColumn("WE8ISO8859P1", "VARCHAR2", "BINARY"), {}, Ascii),
   TextCase(TextColumn("AL32UTF8", "NVARCHAR2", "BINARY"), {}, Wide),
   TextCase(TextColumn("WE8ISO8859P1", "NVARCHAR2", "BINARY"), {}, Wide),
   TextCase(TextColumn("AL32UTF8", "CLOB", "BINARY"), {}, Wide)>>

MCCases == Reads \o Loads \o NumberCases \o DoubleCases \o DateLoads \o DateCases \o TextCases
=============================================================================
