----------------------------- MODULE TableLemmas -----------------------------
(***************************************************************************)
(* What the statements of the stores do to a table, which is a sequence of *)
(* rows, and what is computed from its rows one after another.             *)
(***************************************************************************)
EXTENDS Integers, Sequences, SequenceTheorems, FiniteSetTheorems, TLAPS

\* The rows of a table are numbered from one.
LEMMA Rows ==
  ASSUME NEW Row, NEW table \in Seq(Row)
  PROVE  /\ Len(table) \in Nat
         /\ DOMAIN table = 1 .. Len(table)
         /\ \A n \in DOMAIN table : table[n] \in Row
  BY LenProperties, ElementOfSeq

\* An INSERT leaves the other rows as they are.
LEMMA Inserted ==
  ASSUME NEW Row, NEW table \in Seq(Row), NEW row \in Row
  PROVE  /\ Append(table, row) \in Seq(Row)
         /\ Len(Append(table, row)) = Len(table) + 1
         /\ Len(table) + 1 \notin DOMAIN table
         /\ DOMAIN Append(table, row) = DOMAIN table \union {Len(table) + 1}
         /\ \A n \in DOMAIN table : Append(table, row)[n] = table[n]
         /\ Append(table, row)[Len(table) + 1] = row
  <1>1. Append(table, row) \in Seq(Row) /\ Len(Append(table, row)) = Len(table) + 1
    BY AppendProperties
  <1>2. DOMAIN Append(table, row) = 1 .. Len(table) + 1 /\ DOMAIN table = 1 .. Len(table) /\ Len(table) \in Nat
    BY <1>1, LenProperties
  <1>3. QED
    BY <1>1, <1>2, AppendProperties

\* An UPDATE of one row leaves the others as they are.
LEMMA Updated ==
  ASSUME NEW Row, NEW table \in Seq(Row), NEW at \in DOMAIN table, NEW row \in Row
  PROVE  /\ [table EXCEPT ![at] = row] \in Seq(Row)
         /\ Len([table EXCEPT ![at] = row]) = Len(table)
         /\ DOMAIN [table EXCEPT ![at] = row] = DOMAIN table
         /\ \A n \in DOMAIN table : [table EXCEPT ![at] = row][n] = IF n = at THEN row ELSE table[n]
  <1>1. at \in 1 .. Len(table) /\ DOMAIN table = 1 .. Len(table)
    BY LenProperties
  <1>2. QED
    BY <1>1, ExceptSeq

\* An UPDATE of many rows leaves their number as it is.
LEMMA Rewritten ==
  ASSUME NEW Row, NEW table \in Seq(Row), NEW rows \in [DOMAIN table -> Row]
  PROVE  /\ rows \in Seq(Row)
         /\ Len(rows) = Len(table)
         /\ DOMAIN rows = DOMAIN table
  <1>1. Len(table) \in Nat /\ DOMAIN table = 1 .. Len(table)
    BY LenProperties
  <1>2. rows \in [1 .. Len(table) -> Row]
    BY <1>1
  <1>3. rows \in Seq(Row)
    BY <1>1, <1>2, SeqDef
  <1>4. Len(rows) \in Nat /\ DOMAIN rows = 1 .. Len(rows)
    BY <1>3, LenProperties
  <1>5. QED
    BY <1>1, <1>2, <1>3, <1>4

\* An empty table.
LEMMA Empty ==
  ASSUME NEW Row
  PROVE  <<>> \in Seq(Row) /\ Len(<<>>) = 0 /\ DOMAIN <<>> = {}
  BY EmptySeq

\* A table whose rows are whatever they are.
IsTable(table) == table \in Seq({table[n] : n \in DOMAIN table})

LEMMA TableOf ==
  ASSUME NEW Row, NEW table \in Seq(Row)
  PROVE  IsTable(table)
  <1>1. Len(table) \in Nat /\ DOMAIN table = 1 .. Len(table) /\ table \in [1 .. Len(table) -> Row]
    BY LenProperties
  <1>2. table \in [1 .. Len(table) -> {table[n] : n \in DOMAIN table}]
    BY <1>1
  <1>3. QED
    BY <1>1, <1>2, SeqDef DEF IsTable

LEMMA TableRows ==
  ASSUME NEW table, IsTable(table)
  PROVE  Len(table) \in Nat /\ DOMAIN table = 1 .. Len(table)
  BY LenProperties DEF IsTable

\* The statements on such a table.
LEMMA TableInserted ==
  ASSUME NEW table, IsTable(table), NEW row
  PROVE  /\ IsTable(Append(table, row))
         /\ Len(Append(table, row)) = Len(table) + 1
         /\ Len(table) + 1 \notin DOMAIN table
         /\ DOMAIN Append(table, row) = DOMAIN table \union {Len(table) + 1}
         /\ \A n \in DOMAIN table : Append(table, row)[n] = table[n]
         /\ Append(table, row)[Len(table) + 1] = row
  <1> DEFINE Row == {table[n] : n \in DOMAIN table} \union {row}
  <1>1. table \in Seq(Row)
    BY SeqMonotonic DEF IsTable
  <1>2. row \in Row
    OBVIOUS
  <1> HIDE DEF Row
  <1>3. /\ Append(table, row) \in Seq(Row)
        /\ Len(Append(table, row)) = Len(table) + 1
        /\ Len(table) + 1 \notin DOMAIN table
        /\ DOMAIN Append(table, row) = DOMAIN table \union {Len(table) + 1}
        /\ \A n \in DOMAIN table : Append(table, row)[n] = table[n]
        /\ Append(table, row)[Len(table) + 1] = row
    BY <1>1, <1>2, Inserted
  <1>4. IsTable(Append(table, row))
    BY <1>3, TableOf
  <1>5. QED
    BY <1>3, <1>4

LEMMA TableUpdated ==
  ASSUME NEW table, IsTable(table), NEW at \in DOMAIN table, NEW row
  PROVE  /\ IsTable([table EXCEPT ![at] = row])
         /\ Len([table EXCEPT ![at] = row]) = Len(table)
         /\ DOMAIN [table EXCEPT ![at] = row] = DOMAIN table
         /\ \A n \in DOMAIN table : [table EXCEPT ![at] = row][n] = IF n = at THEN row ELSE table[n]
  <1> DEFINE Row == {table[n] : n \in DOMAIN table} \union {row}
  <1>1. table \in Seq(Row)
    BY SeqMonotonic DEF IsTable
  <1>2. row \in Row
    OBVIOUS
  <1> HIDE DEF Row
  <1>3. QED
    BY <1>1, <1>2, Updated, TableOf

LEMMA TableRewritten ==
  ASSUME NEW table, IsTable(table), NEW Row, NEW rows \in [DOMAIN table -> Row]
  PROVE  IsTable(rows) /\ Len(rows) = Len(table) /\ DOMAIN rows = DOMAIN table
  <1>1. Len(table) \in Nat /\ DOMAIN table = 1 .. Len(table)
    BY TableRows
  <1>2. rows \in Seq(Row)
    BY <1>1, SeqDef
  <1>3. Len(rows) \in Nat /\ DOMAIN rows = 1 .. Len(rows)
    BY <1>2, LenProperties
  <1>4. QED
    BY <1>1, <1>2, <1>3, TableOf

LEMMA EmptyTable == IsTable(<<>>) /\ Len(<<>>) = 0 /\ DOMAIN <<>> = {}
  <1>1. <<>> \in Seq({}) /\ Len(<<>>) = 0 /\ DOMAIN <<>> = {}
    BY Empty
  <1>2. IsTable(<<>>)
    BY <1>1, TableOf
  <1>3. QED
    BY <1>1, <1>2

-----------------------------------------------------------------------------
(* Computing from row to row *)

\* What holds of zero, and of a successor when it holds of the number, holds of every number.
LEMMA Numbers ==
  ASSUME NEW S, 0 \in S, \A n \in Nat : n \in S => n + 1 \in S
  PROVE  Nat \subseteq S
  <1> SUFFICES ASSUME NEW bad \in Nat, bad \notin S
               PROVE  FALSE
    OBVIOUS
  <1> DEFINE T == {1 .. n : n \in Nat \ S}
  <1>1. T \subseteq FiniteSubsetsOf(Nat) /\ T # {}
    <2>1. ASSUME NEW n \in Nat
          PROVE  1 .. n \in FiniteSubsetsOf(Nat)
      BY FS_Interval DEF FiniteSubsetsOf
    <2>2. QED
      BY <2>1
  <1>2. PICK x \in T : \A y \in T : ~(<<y, x>> \in StrictSubsetOrdering(Nat))
    <2> HIDE DEF T
    <2>1. QED
      BY <1>1, FS_StrictSubsetOrderingWellFounded, WFMin
  <1>3. PICK m \in Nat \ S : x = 1 .. m
    OBVIOUS
  <1>4. m - 1 \in Nat \ S
    <2>1. m # 0 /\ m - 1 \in Nat
      BY <1>3
    <2>2. m - 1 \in S => m \in S
      BY <2>1
    <2>3. QED
      BY <1>3, <2>1, <2>2
  <1>5. <<1 .. m - 1, 1 .. m>> \in StrictSubsetOrdering(Nat)
    <2>1. 1 .. m - 1 \subseteq 1 .. m /\ m \in 1 .. m /\ m \notin 1 .. m - 1
      BY <1>4
    <2>2. QED
      BY <2>1 DEF StrictSubsetOrdering
  <1>6. QED
    BY <1>2, <1>3, <1>4, <1>5

\* A step may be repeated: from a, the n-th time by the n-th step.
IsStep(step, a, L, S) == L \in Nat /\ a \in S /\ \A n \in 1 .. L, x \in S : step[<<n, x>>] \in S
Repeats(f, step, a, L, S) == f \in [0 .. L -> S] /\ f[0] = a /\ \A n \in 1 .. L : f[n] = step[<<n, f[n - 1]>>]

LEMMA Repeated ==
  ASSUME NEW L, NEW S, NEW a, NEW step, IsStep(step, a, L, S)
  PROVE  \E f : Repeats(f, step, a, L, S)
  <1>0. L \in Nat /\ a \in S
    BY DEF IsStep
  <1> USE <1>0
  <1> DEFINE Good(n, f) == f[0] = a /\ \A m \in 1 .. n : f[m] = step[<<m, f[m - 1]>>]
             Done == {n \in Nat : n <= L => \E f \in [0 .. n -> S] : Good(n, f)}
  <1>1. 0 \in Done
    <2>1. [m \in 0 .. 0 |-> a] \in [0 .. 0 -> S] /\ Good(0, [m \in 0 .. 0 |-> a])
      OBVIOUS
    <2>2. QED
      BY <2>1
  <1>2. ASSUME NEW n \in Nat, n \in Done
        PROVE  n + 1 \in Done
    <2> SUFFICES ASSUME n + 1 <= L
                 PROVE  \E f \in [0 .. n + 1 -> S] : Good(n + 1, f)
      OBVIOUS
    <2>1. PICK f \in [0 .. n -> S] : Good(n, f)
      BY <1>2
    <2> DEFINE g == [m \in 0 .. n + 1 |-> IF m = n + 1 THEN step[<<n + 1, f[n]>>] ELSE f[m]]
    <2>2. f[n] \in S /\ n + 1 \in 1 .. L
      OBVIOUS
    <2>3. step[<<n + 1, f[n]>>] \in S
      BY <2>2 DEF IsStep
    <2>4. g \in [0 .. n + 1 -> S]
      BY <2>3
    <2>5. ASSUME NEW m \in 1 .. n + 1
          PROVE  g[m] = step[<<m, g[m - 1]>>]
      <3>1. CASE m = n + 1
        <4>1. m - 1 = n /\ g[m - 1] = f[n] /\ g[m] = step[<<n + 1, f[n]>>]
          BY <3>1
        <4>2. QED
          BY <3>1, <4>1
      <3>2. CASE m # n + 1
        <4>1. m \in 1 .. n /\ m - 1 \in 0 .. n
          BY <3>2
        <4>2. g[m] = f[m] /\ g[m - 1] = f[m - 1]
          BY <4>1
        <4>3. QED
          BY <2>1, <4>1, <4>2
      <3>3. QED
        BY <3>1, <3>2
    <2>6. g[0] = a
      BY <2>1
    <2> HIDE DEF g
    <2>7. QED
      BY <2>4, <2>5, <2>6
  <1> HIDE DEF Done
  <1>3. L \in Done
    BY <1>1, <1>2, Numbers
  <1>4. QED
    BY <1>3 DEF Done, Repeats

\* The numbers a sum of weights runs through.
Runs(sum, weight, L) ==
  /\ sum \in [0 .. L -> Int]
  /\ sum[0] = 0
  /\ \A n \in 1 .. L : weight[n] \in Int /\ sum[n] = sum[n - 1] + weight[n]

LEMMA SumRuns ==
  ASSUME NEW L \in Nat, NEW weight \in [1 .. L -> Int]
  PROVE  \E sum : Runs(sum, weight, L)
  <1> DEFINE plus == [p \in (1 .. L) \X Int |-> p[2] + weight[p[1]]]
  <1>1. plus \in [(1 .. L) \X Int -> Int]
    OBVIOUS
  <1>2. \A n \in 1 .. L, x \in Int : plus[<<n, x>>] = x + weight[n]
    OBVIOUS
  <1> HIDE DEF plus
  <1>3. PICK f \in [0 .. L -> Int] : f[0] = 0 /\ \A n \in 1 .. L : f[n] = plus[<<n, f[n - 1]>>]
    <2>1. IsStep(plus, 0, L, Int)
      BY <1>1 DEF IsStep
    <2>2. \E f : Repeats(f, plus, 0, L, Int)
      BY <2>1, Repeated
    <2>3. QED
      BY <2>2 DEF Repeats
  <1>4. \A n \in 1 .. L : n - 1 \in 0 .. L /\ f[n - 1] \in Int
    OBVIOUS
  <1>5. QED
    BY <1>2, <1>3, <1>4 DEF Runs

\* Whatever adds up the weights one after another runs through numbers.
LEMMA AddsUp ==
  ASSUME NEW L \in Nat, NEW weight \in [1 .. L -> Int], NEW f,
         f = [n \in 0 .. L |-> IF n = 0 THEN 0 ELSE f[n - 1] + weight[n]]
  PROVE  Runs(f, weight, L)
  <1> DEFINE Held == {n \in Nat : n <= L => f[n] \in Int}
  <1>1. f[0] = 0 /\ \A n \in 1 .. L : f[n] = f[n - 1] + weight[n]
    OBVIOUS
  <1>2. 0 \in Held
    BY <1>1
  <1>3. ASSUME NEW n \in Nat, n \in Held
        PROVE  n + 1 \in Held
    <2> SUFFICES ASSUME n + 1 <= L
                 PROVE  f[n + 1] \in Int
      OBVIOUS
    <2>1. n + 1 \in 1 .. L /\ n + 1 - 1 = n /\ f[n] \in Int
      BY <1>3
    <2>2. f[n + 1] = f[n] + weight[n + 1] /\ weight[n + 1] \in Int
      BY <1>1, <2>1
    <2>3. QED
      BY <2>1, <2>2
  <1> HIDE DEF Held
  <1>4. Nat \subseteq Held
    BY <1>2, <1>3, Numbers
  <1>5. \A n \in 0 .. L : f[n] \in Int
    BY <1>4 DEF Held
  <1>6. f \in [0 .. L -> Int]
    BY <1>5
  <1>7. QED
    BY <1>1, <1>6 DEF Runs

\* A sum is no less when its weights are no less, and when weights that are not negative follow.
LEMMA SumGrows ==
  ASSUME NEW L \in Nat, NEW M \in Nat, L <= M, NEW f, NEW g, NEW v, NEW w,
         Runs(f, v, L), Runs(g, w, M),
         \A n \in 1 .. L : v[n] <= w[n],
         \A n \in L + 1 .. M : 0 <= w[n]
  PROVE  f[L] <= g[M]
  <1> DEFINE Held == {n \in Nat : n <= M => (IF n <= L THEN f[n] <= g[n] ELSE f[L] <= g[n])}
  <1>1. 0 \in Held
    BY DEF Runs
  <1>2. ASSUME NEW n \in Nat, n \in Held
        PROVE  n + 1 \in Held
    <2> SUFFICES ASSUME n + 1 <= M
                 PROVE  IF n + 1 <= L THEN f[n + 1] <= g[n + 1] ELSE f[L] <= g[n + 1]
      OBVIOUS
    <2>1. n + 1 \in 1 .. M /\ g[n + 1] = g[n] + w[n + 1] /\ g[n] \in Int /\ w[n + 1] \in Int
      <3>1. n + 1 \in 1 .. M /\ n \in 0 .. M /\ n + 1 - 1 = n
        OBVIOUS
      <3>2. QED
        BY <3>1 DEF Runs
    <2>2. CASE n + 1 <= L
      <3>1. n + 1 \in 1 .. L /\ n \in 0 .. L /\ n + 1 - 1 = n
        BY <2>2
      <3>2. f[n + 1] = f[n] + v[n + 1] /\ f[n] \in Int /\ v[n + 1] \in Int /\ v[n + 1] <= w[n + 1]
        BY <3>1 DEF Runs
      <3>3. f[n] <= g[n]
        BY <1>2, <2>2
      <3>4. QED
        BY <2>1, <2>2, <3>2, <3>3
    <2>3. CASE ~(n + 1 <= L)
      <3>1. n + 1 \in L + 1 .. M /\ f[L] \in Int
        BY <2>3 DEF Runs
      <3>2. 0 <= w[n + 1]
        BY <3>1
      <3>3. f[L] <= g[n]
        <4>1. CASE n = L
          BY <1>2, <4>1
        <4>2. CASE n # L
          BY <1>2, <2>3, <4>2
        <4>3. QED
          BY <4>1, <4>2
      <3>4. QED
        BY <2>1, <2>3, <3>1, <3>2, <3>3
    <2>4. QED
      BY <2>2, <2>3
  <1> HIDE DEF Held
  <1>3. M \in Held
    BY <1>1, <1>2, Numbers
  <1>4. QED
    BY <1>3 DEF Held
=============================================================================
