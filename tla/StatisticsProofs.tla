--------------------------- MODULE StatisticsProofs ---------------------------
(***************************************************************************)
(* Proofs about Statistics, for every list of counters, every size of      *)
(* units and every number of packets.                                      *)
(***************************************************************************)
EXTENDS Statistics, TLAPS, SequenceTheorems, FiniteSets, FiniteSetTheorems

Registered(name) == \E i \in 1..Len(columns) : columns[i] = name

\* Every counter is a column or will be one; none is twice; and acceptedBlocks comes
\* before expectedBlocks, in the columns and in what is still to be registered.
Registration ==
    /\ \A i, j \in 1..Len(columns) : columns[i] = columns[j] => i = j
    /\ \A name \in Names : Registered(name) \/ \E k \in 1..Len(todo) : todo[k] = name
    /\ \A j \in 1..Len(columns) : columns[j] = "expectedBlocks" =>
           \E i \in 1..(j - 1) : columns[i] = "acceptedBlocks"
    /\ \A j \in 1..Len(todo) : todo[j] = "expectedBlocks" =>
           Registered("acceptedBlocks") \/ \E i \in 1..(j - 1) : todo[i] = "acceptedBlocks"

\* The columns are settled before the write thread is made, and only it writes lines.
Lifecycle ==
    /\ writer # "none" => main \notin {"configure", "register"} /\ todo = <<>>
    /\ writer = "none" => line = <<>> /\ last = <<>>

\* The counted blocks and the positions still empty are the expected blocks, the ones
\* that filled nothing, and one more while AddBlock has counted its block and not yet
\* looked at the entry.
Balance ==
    /\ IsFiniteSet(missing)
    /\ value["acceptedBlocks"] + Cardinality(missing) =
           value["expectedBlocks"] + surplus + IF processor = "entry" THEN 1 ELSE 0

\* A line, or the part of it that has been read, holds no more than was counted, and
\* keeps accepted blocks within expected and surplus ones.
ReadFrom(written) ==
    /\ Len(written) <= Len(columns)
    /\ \A i \in 1..Len(written) : written[i] <= value[columns[i]]
    /\ \A i, j \in 1..Len(written) :
           columns[i] = "acceptedBlocks" /\ columns[j] = "expectedBlocks" =>
               written[i] <= written[j] + surplus + 1

Lines ==
    /\ ReadFrom(line) /\ ReadFrom(last)
    /\ last # <<>> => Len(last) = Len(columns) /\ \A i \in 1..Len(line) : last[i] <= line[i]

Inv == TypeOK /\ Registration /\ Lifecycle /\ Balance /\ Lines

-------------------------------------------------------------------------------
(* The counters' names. *)

LEMMA NamesExist ==
    /\ "acceptedPackets" \in Names /\ "acceptedBlocks" \in Names /\ "expectedBlocks" \in Names
    /\ "assembledNalu" \in Names /\ "skippedNalu" \in Names
BY DefaultAssumption

LEMMA CountersType == Counters \in Seq(Names)
<1>1. Counters \in Seq(STRING)
  BY NamesAssumption, ConcatProperties DEF Counters
<1>2. \A i \in 1..Len(Counters) : Counters[i] \in Names
  BY DEF Names
<1>3. QED  BY <1>1, <1>2

\* The columns are names, and a column has the number its name has.
LEMMA ColumnNames ==
    ASSUME TypeOK, NEW i \in 1..Len(columns)
    PROVE  columns[i] \in Names /\ value[columns[i]] \in Nat /\ i \in Nat
<1>1. columns[i] \in Names
  BY ElementOfSeq DEF TypeOK
<1>2. QED  BY <1>1 DEF TypeOK

LEMMA ColumnIsFound ==
    ASSUME Registration, NEW i \in 1..Len(columns), NEW written
    PROVE  Column(written, columns[i]) = written[i]
BY DEF Registration, Column

-------------------------------------------------------------------------------
(* The steps. *)

LEMMA InvInit == Init => Inv
<1> SUFFICES ASSUME Init PROVE Inv
  OBVIOUS
<1>1. TypeOK
  <2>1. columns \in Seq(Names) /\ Len(columns) = 0 /\ line \in Seq(Nat) /\ last \in Seq(Nat)
    BY EmptySeq DEF Init
  <2>2. todo \in Seq(Names)
    BY CountersType DEF Init
  <2>3. /\ \A i, j \in 1..Len(columns) : columns[i] = columns[j] => i = j
        /\ value \in [Names -> Nat] /\ missing \in SUBSET (Nalus \X Nat)
    BY <2>1 DEF Init
  <2>4. QED  BY <2>1, <2>2, <2>3 DEF Init, TypeOK
<1>2. Registration
  <2>1. columns = <<>> /\ todo = Counters /\ Len(columns) = 0
    BY DEF Init
  <2>2. \A name \in Names : \E k \in 1..Len(Counters) : Counters[k] = name
    BY DEF Names
  <2>3. QED  BY <2>1, <2>2, OrderAssumption DEF Registration, Registered
<1>3. Lifecycle
  BY DEF Init, Lifecycle
<1>4. Balance
  BY NamesExist, FS_EmptySet DEF Init, Balance
<1>5. Lines
  <2>1. line = <<>> /\ last = <<>> /\ Len(line) = 0 /\ Len(last) = 0 /\ Len(columns) = 0
    BY DEF Init
  <2>2. QED  BY <2>1 DEF Lines, ReadFrom
<1>6. QED  BY <1>1, <1>2, <1>3, <1>4, <1>5 DEF Inv

\* Nothing but the threads' places, the lock and the file changes.
ControlStep ==
    /\ main' \in {"configure", "register", "serve", "exit", "join", "hung", "ended"}
    /\ main' \in {"configure", "register"} => main \in {"configure", "register"}
    /\ file' \in {"open", "closed"} /\ started' \in BOOLEAN
    /\ lock' \in {"free", "main", "writer"} /\ stopAsked' \in BOOLEAN
    /\ writer' \in {"none", "test", "sleep", "write", "read", "done"}
    /\ writer' # "none" => writer # "none" \/ (todo = <<>> /\ main' \notin {"configure", "register"})
    /\ writer' = "none" => writer = "none"
    /\ UNCHANGED <<todo, columns, last, workVars>>
    /\ line' = line \/ (line' = <<>> /\ writer # "none")

LEMMA ControlSteps ==
    ASSUME TypeOK,
           \/ SetFilePath \/ Start \/ ReturnFromMain \/ Stop
           \/ TestStop \/ WakeUp \/ LockForLine \/ UNCHANGED vars
    PROVE  ControlStep
<1> USE DEF TypeOK, ControlStep, configVars, writerVars, workVars, assemblyVars
<1>1. CASE SetFilePath
  BY <1>1 DEF SetFilePath
<1>2. CASE Start
  BY <1>2 DEF Start
<1>3. CASE ReturnFromMain
  BY <1>3 DEF ReturnFromMain
<1>4. CASE Stop
  BY <1>4 DEF Stop, AskToStop, Join
<1>5. CASE TestStop \/ WakeUp
  BY <1>5 DEF TestStop, WakeUp
<1>6. CASE LockForLine
  BY <1>6 DEF LockForLine
<1>7. CASE UNCHANGED vars
  BY <1>7 DEF vars
<1>8. QED  BY <1>1, <1>2, <1>3, <1>4, <1>5, <1>6, <1>7

LEMMA InvControl ==
    ASSUME Inv, ControlStep
    PROVE  Inv'
<1>1. TypeOK'
  BY EmptySeq DEF Inv, TypeOK, ControlStep, workVars, assemblyVars
<1>2. Registration'
  BY DEF Inv, Registration, Registered, ControlStep
<1>3. Lifecycle'
  BY DEF Inv, Lifecycle, ControlStep, TypeOK
<1>4. Balance'
  BY DEF Inv, Balance, ControlStep, workVars, assemblyVars
<1>5. Lines'
  <2>1. UNCHANGED <<columns, last, value, surplus>>
    BY DEF ControlStep, workVars, assemblyVars
  <2>2. CASE line' = line
    BY <2>1, <2>2 DEF Inv, Lines, ReadFrom
  <2>3. CASE line' = <<>>
    <3>1. Len(line') = 0 /\ Len(columns) \in Nat
      BY <2>3, LenProperties DEF Inv, TypeOK
    <3>2. QED  BY <2>1, <3>1 DEF Inv, Lines, ReadFrom
  <2>4. QED  BY <2>2, <2>3 DEF ControlStep
<1>6. QED  BY <1>1, <1>2, <1>3, <1>4, <1>5 DEF Inv

\* Registering the next name, unless it is a column already.
LEMMA InvRegister ==
    ASSUME Inv, RegisterCounter
    PROVE  Inv'
<1> DEFINE name == Head(todo)
<1>1. /\ TypeOK /\ Registration
      /\ todo \in Seq(Names) /\ columns \in Seq(Names) /\ todo # <<>>
  BY DEF Inv, TypeOK, RegisterCounter
<1>2. /\ name \in Names /\ name = todo[1] /\ Len(todo) \in Nat \ {0}
      /\ todo' \in Seq(Names) /\ Len(todo') = Len(todo) - 1
      /\ \A k \in 1..Len(todo') : todo'[k] = todo[k + 1]
  BY <1>1, HeadTailProperties DEF RegisterCounter
<1>3. Len(columns) \in Nat
  BY <1>1, LenProperties
<1>4. /\ columns' \in Seq(Names)
      /\ \A i \in 1..Len(columns) : columns'[i] = columns[i]
      /\ \/ columns' = columns /\ Registered(name)
         \/ /\ Len(columns') = Len(columns) + 1 /\ columns'[Len(columns) + 1] = name
            /\ ~Registered(name)
  <2>1. CASE Registered(name)
    BY <1>1, <2>1 DEF RegisterCounter, Registered
  <2>2. CASE ~Registered(name)
    BY <1>1, <1>2, <2>2, AppendProperties DEF RegisterCounter, Registered
  <2>3. QED  BY <2>1, <2>2
<1> HIDE DEF name
<1>5. \A n : n = name \/ Registered(n) => \E i \in 1..Len(columns') : columns'[i] = n
  BY <1>3, <1>4 DEF Registered
<1>6. UNCHANGED <<main, file, started, lock, stopAsked, writer, line, last, value, processor, missing, surplus>>
  BY DEF RegisterCounter, writerVars, workVars, assemblyVars
<1>7. \A i, j \in 1..Len(columns') : columns'[i] = columns'[j] => i = j
  BY <1>1, <1>3, <1>4 DEF Registration, Registered
<1>8. TypeOK' /\ Registration'
  <2>1. TypeOK'
    BY <1>1, <1>2, <1>4, <1>6, <1>7 DEF TypeOK
  <2>2. \A n \in Names : \/ \E i \in 1..Len(columns') : columns'[i] = n
                         \/ \E k \in 1..Len(todo') : todo'[k] = n
    <3> SUFFICES ASSUME NEW n \in Names, ~\E i \in 1..Len(columns') : columns'[i] = n
                 PROVE  \E k \in 1..Len(todo') : todo'[k] = n
      OBVIOUS
    <3>1. ~Registered(n) /\ n # name
      BY <1>5
    <3>2. PICK k \in 1..Len(todo) : todo[k] = n
      BY <1>1, <3>1 DEF Registration
    <3>3. k # 1
      BY <1>2, <3>1, <3>2
    <3>4. k - 1 \in 1..Len(todo') /\ todo'[k - 1] = n
      BY <1>2, <3>2, <3>3
    <3>5. QED  BY <3>4
  <2>3. ASSUME name = "expectedBlocks"
        PROVE  Registered("acceptedBlocks")
    <3>1. 1 \in 1..Len(todo) /\ todo[1] = "expectedBlocks"
      BY <1>2, <2>3
    <3>2. Registered("acceptedBlocks") \/ \E i \in 1..(1 - 1) : todo[i] = "acceptedBlocks"
      BY <1>1, <3>1 DEF Registration
    <3>3. QED  BY <3>2
  <2>4. ASSUME NEW j \in 1..Len(columns'), columns'[j] = "expectedBlocks"
        PROVE  \E i \in 1..(j - 1) : columns'[i] = "acceptedBlocks"
    <3>1. CASE j \in 1..Len(columns)
      <4>1. PICK i \in 1..(j - 1) : columns[i] = "acceptedBlocks"
        BY <1>1, <1>4, <2>4, <3>1 DEF Registration
      <4>2. QED  BY <1>3, <1>4, <3>1, <4>1
    <3>2. CASE j \notin 1..Len(columns)
      <4>1. j = Len(columns) + 1 /\ name = "expectedBlocks"
        BY <1>3, <1>4, <2>4, <3>2
      <4>2. QED  BY <1>3, <1>4, <2>3, <4>1 DEF Registered
    <3>3. QED  BY <3>1, <3>2
  <2>5. ASSUME NEW j \in 1..Len(todo'), todo'[j] = "expectedBlocks"
        PROVE  \/ \E i \in 1..Len(columns') : columns'[i] = "acceptedBlocks"
               \/ \E i \in 1..(j - 1) : todo'[i] = "acceptedBlocks"
    <3>1. CASE Registered("acceptedBlocks") \/ name = "acceptedBlocks"
      BY <1>5, <3>1
    <3>2. CASE ~Registered("acceptedBlocks") /\ name # "acceptedBlocks"
      <4>1. PICK i \in 1..j : todo[i] = "acceptedBlocks"
        BY <1>1, <1>2, <2>5, <3>2 DEF Registration
      <4>2. i # 1 /\ i - 1 \in 1..(j - 1) /\ i - 1 \in 1..Len(todo')
        BY <1>2, <3>2, <4>1
      <4>3. todo'[i - 1] = todo[(i - 1) + 1] /\ (i - 1) + 1 = i
        BY <1>2, <4>2
      <4>4. QED  BY <4>1, <4>2, <4>3
    <3>3. QED  BY <3>1, <3>2
  <2>6. QED  BY <1>7, <2>1, <2>2, <2>4, <2>5 DEF Registration, Registered
<1>9. Lifecycle' /\ Balance'
  BY <1>1, <1>6 DEF Inv, Lifecycle, Balance, RegisterCounter
<1>10. Lines'
  <2>1. line = <<>> /\ last = <<>> /\ Len(line) = 0 /\ Len(last) = 0
    BY DEF Inv, Lifecycle, RegisterCounter
  <2>2. Len(columns') \in Nat
    BY <1>4, LenProperties
  <2>3. QED  BY <1>6, <2>1, <2>2 DEF Lines, ReadFrom
<1>11. QED  BY <1>8, <1>9, <1>10 DEF Inv

\* But for surplus ones, one accepted block at most is ahead of the expected ones.
LEMMA BalanceBound ==
    ASSUME TypeOK, Balance
    PROVE  /\ value["acceptedBlocks"] \in Nat /\ value["expectedBlocks"] \in Nat
           /\ surplus \in Nat
           /\ value["acceptedBlocks"] <= value["expectedBlocks"] + surplus + 1
BY NamesExist, FS_CardinalityType DEF TypeOK, Balance

\* The column of acceptedBlocks stands before the one of expectedBlocks.
LEMMA AcceptedComesFirst ==
    ASSUME Registration, NEW i \in 1..Len(columns), NEW j \in 1..Len(columns),
           columns[i] = "acceptedBlocks", columns[j] = "expectedBlocks",
           Len(columns) \in Nat
    PROVE  i < j
<1>1. PICK k \in 1..(j - 1) : columns[k] = "acceptedBlocks"
  BY DEF Registration
<1>2. k \in 1..Len(columns) /\ k < j
  BY <1>1
<1>3. k = i
  BY <1>1, <1>2 DEF Registration
<1>4. QED  BY <1>2, <1>3

LEMMA InvRead ==
    ASSUME Inv, ReadCounter
    PROVE  Inv'
<1> DEFINE n == Len(line) + 1
<1>1. /\ TypeOK /\ Registration /\ Lifecycle /\ Balance /\ Lines
      /\ line \in Seq(Nat) /\ last \in Seq(Nat) /\ columns \in Seq(Names)
  BY DEF Inv, TypeOK
<1>2. Len(line) \in Nat /\ Len(columns) \in Nat /\ n \in 1..Len(columns)
  BY <1>1, LenProperties DEF ReadCounter
<1>3. value[columns[n]] \in Nat
  BY <1>1, <1>2, ColumnNames
<1>4. /\ line' \in Seq(Nat) /\ Len(line') = n /\ line'[n] = value[columns[n]]
      /\ \A i \in 1..Len(line) : line'[i] = line[i]
  BY <1>1, <1>3, AppendProperties DEF ReadCounter
<1>5. UNCHANGED <<main, todo, columns, file, started, lock, stopAsked, writer, last,
                  value, processor, missing, surplus>> /\ writer = "read"
  BY DEF ReadCounter, configVars, workVars, assemblyVars
<1> HIDE DEF n
<1>6. \A i \in 1..n : i = n \/ i \in 1..Len(line)
  BY <1>2 DEF n
<1>7. TypeOK' /\ Registration' /\ Lifecycle' /\ Balance'
  <2>1. TypeOK'
    BY <1>1, <1>4, <1>5 DEF TypeOK
  <2>2. Registration' /\ Lifecycle' /\ Balance'
    BY <1>1, <1>5 DEF Registration, Registered, Lifecycle, Balance
  <2>3. QED  BY <2>1, <2>2
<1>8. \A i \in 1..n : line'[i] <= value[columns[i]]
  <2>1. value[columns[n]] <= value[columns[n]]
    BY <1>3
  <2>2. \A i \in 1..Len(line) : line[i] <= value[columns[i]]
    BY <1>1 DEF Lines, ReadFrom
  <2>3. QED  BY <1>4, <1>6, <2>1, <2>2
<1>9. ASSUME NEW i \in 1..n, NEW j \in 1..n,
             columns[i] = "acceptedBlocks", columns[j] = "expectedBlocks"
      PROVE  line'[i] <= line'[j] + surplus + 1
  <2>1. i \in 1..Len(columns) /\ j \in 1..Len(columns) /\ i < j
    <3>1. i \in 1..Len(columns) /\ j \in 1..Len(columns)
      BY <1>2
    <3>2. QED  BY <1>1, <1>2, <1>9, <3>1, AcceptedComesFirst
  <2>2. i \in 1..Len(line)
    BY <1>2, <1>6, <2>1
  <2>3. line'[i] = line[i] /\ line[i] \in Nat /\ line[i] <= value["acceptedBlocks"]
    BY <1>1, <1>4, <1>9, <2>2, ElementOfSeq DEF Lines, ReadFrom
  <2>4. CASE j = n
    <3>1. line'[j] = value["expectedBlocks"]
      BY <1>4, <1>9, <2>4
    <3>2. QED  BY <1>1, <2>3, <3>1, BalanceBound
  <2>5. CASE j \in 1..Len(line)
    BY <1>1, <1>4, <1>9, <2>2, <2>5 DEF Lines, ReadFrom
  <2>6. QED  BY <1>6, <2>4, <2>5
<1>10. ReadFrom(line)'
  BY <1>2, <1>4, <1>5, <1>8, <1>9 DEF ReadFrom
<1>11. ReadFrom(last)'
  BY <1>1, <1>5 DEF Lines, ReadFrom
<1>12. last # <<>> => Len(last) = Len(columns) /\ \A i \in 1..n : last[i] <= line'[i]
  <2> SUFFICES ASSUME last # <<>>
               PROVE  Len(last) = Len(columns) /\ \A i \in 1..n : last[i] <= line'[i]
    OBVIOUS
  <2>1. Len(last) = Len(columns) /\ \A i \in 1..Len(line) : last[i] <= line[i]
    BY <1>1 DEF Lines
  <2>2. last[n] <= value[columns[n]]
    BY <1>1, <1>2, <2>1 DEF Lines, ReadFrom
  <2>3. QED  BY <1>4, <1>6, <2>1, <2>2
<1>13. Lines'
  BY <1>4, <1>5, <1>10, <1>11, <1>12 DEF Lines
<1>14. QED  BY <1>7, <1>13 DEF Inv

\* The line that is written has every column, and is nowhere below the line before.
LEMMA LineWritten ==
    ASSUME Inv, WriteLine
    PROVE  /\ last' = line /\ line' = <<>> /\ Len(line) = Len(columns)
           /\ last # <<>> => Len(last) = Len(line) /\ \A i \in 1..Len(last) : last[i] <= line[i]
<1>1. last' = line /\ line' = <<>> /\ Len(line) = Len(columns)
  BY DEF WriteLine
<1>2. QED  BY <1>1 DEF Inv, Lines

LEMMA InvWrite ==
    ASSUME Inv, WriteLine
    PROVE  Inv'
<1>1. UNCHANGED <<main, todo, columns, file, started, stopAsked, value, processor, missing, surplus>>
      /\ lock' = "free" /\ writer' = "test" /\ writer = "read"
  BY DEF WriteLine, configVars, workVars, assemblyVars
<1>2. TypeOK'
  <2>1. last' \in Seq(Nat) /\ line' \in Seq(Nat) /\ TypeOK
    <3>1. TypeOK /\ last' = line /\ line' = <<>>
      BY LineWritten DEF Inv
    <3>2. line \in Seq(Nat)
      BY <3>1 DEF TypeOK
    <3>3. QED  BY <3>1, <3>2, EmptySeq
  <2>2. QED  BY <1>1, <2>1 DEF TypeOK
<1>3. Registration' /\ Lifecycle' /\ Balance'
  BY <1>1 DEF Inv, Registration, Registered, Lifecycle, Balance
<1>4. Lines'
  <2>1. last' = line /\ Len(line') = 0 /\ Len(line) = Len(columns) /\ Len(columns) \in Nat
    BY LineWritten, LenProperties DEF Inv, TypeOK
  <2>2. ReadFrom(last)'
    BY <1>1, <2>1 DEF Inv, Lines, ReadFrom
  <2>3. ReadFrom(line)'
    BY <1>1, <2>1 DEF ReadFrom
  <2>4. QED  BY <1>1, <2>1, <2>2, <2>3 DEF Lines
<1>5. QED  BY <1>2, <1>3, <1>4 DEF Inv

LEMMA Incremented ==
    ASSUME TypeOK, NEW name \in Names, NEW delta \in Nat, Increment(name, delta)
    PROVE  /\ value' \in [Names -> Nat]
           /\ \A n \in Names : value[n] <= value'[n]
           /\ value'[name] = value[name] + delta
           /\ \A n \in Names : n # name => value'[n] = value[n]
<1>1. value \in [Names -> Nat] /\ value' = [value EXCEPT ![name] = value[name] + delta]
  BY DEF TypeOK, Increment
<1>2. value[name] + delta \in Nat /\ value[name] <= value[name] + delta
  BY <1>1
<1>3. QED  BY <1>1, <1>2

\* What a counting step changes: no counter falls, and the balance is kept.
CountStep ==
    /\ value' \in [Names -> Nat]
    /\ \A n \in Names : value[n] <= value'[n]
    /\ processor' \in {"idle", "entry", "complete"} /\ missing' \in SUBSET (Nalus \X Nat)
    /\ surplus' \in Nat /\ surplus <= surplus'
    /\ Balance'
    /\ UNCHANGED <<main, configVars, lock, stopAsked, writerVars>>

(* AddBlock at the entry: positions counted. *)

LEMMA CallFields ==
    ASSUME NEW call \in Calls
    PROVE  /\ call.nalu \in Nalus /\ call.block \in Nat /\ call.total \in Nat \ {0}
           /\ call.block < call.total
<1>1. PICK n \in Nalus : \E total \in Totals[n] : call \in CallsOf(n, total)
  BY DEF Calls
<1>2. PICK total \in Totals[n] : call \in CallsOf(n, total)
  BY <1>1
<1>3. total \in Nat \ {0}
  BY TotalsAssumption
<1>4. QED  BY <1>2, <1>3 DEF CallsOf

LEMMA RowOfPositions ==
    ASSUME NEW n, NEW total \in Nat
    PROVE  IsFiniteSet({n} \X (0..(total - 1))) /\ Cardinality({n} \X (0..(total - 1))) = total
<1> DEFINE row == {n} \X (0..(total - 1))
           f == [i \in 1..total |-> <<n, i - 1>>]
<1>1. IsFiniteSet(1..total) /\ Cardinality(1..total) = total
  BY FS_Interval
<1>2. f \in Bijection(1..total, row)
  <2>1. f \in [1..total -> row]
    OBVIOUS
  <2>2. \A i, j \in 1..total : f[i] = f[j] => i = j
    OBVIOUS
  <2>3. ASSUME NEW p \in row PROVE \E i \in 1..total : f[i] = p
    <3>1. PICK k \in 0..(total - 1) : p = <<n, k>>
      OBVIOUS
    <3>2. k + 1 \in 1..total /\ f[k + 1] = <<n, (k + 1) - 1>> /\ (k + 1) - 1 = k
      OBVIOUS
    <3>3. QED  BY <3>1, <3>2
  <2> HIDE DEF f, row
  <2>4. QED  BY <2>1, <2>2, <2>3 DEF Bijection, Injection, IsInjective, Surjection
<1>3. ExistsBijection(1..total, row)
  BY <1>2 DEF ExistsBijection
<1>4. QED  BY <1>1, <1>3, FS_Bijection

LEMMA DisjointSum ==
    ASSUME NEW S, NEW T, IsFiniteSet(S), IsFiniteSet(T), S \cap T = {}
    PROVE  IsFiniteSet(S \cup T) /\ Cardinality(S \cup T) = Cardinality(S) + Cardinality(T)
<1>1. Cardinality(S \cap T) = 0
  <2>1. Cardinality({}) = 0
    BY FS_EmptySet
  <2>2. QED  BY <2>1, Zenon
<1>2. QED  BY <1>1, FS_Union, FS_CardinalityType

\* CountEntry for one call.
EntryCounted(call) ==
    LET position == <<call.nalu, call.block>>
        fills == position \in WithEntry(call) IN
    /\ CountExpected(call)
    /\ missing' = WithEntry(call) \ {position}
    /\ surplus' = surplus + IF fills THEN 0 ELSE 1

\* The entry has its positions, as many as blocks have come to be expected with it.
LEMMA EntryPositions ==
    ASSUME TypeOK, IsFiniteSet(missing), NEW call \in Calls, CountExpected(call)
    PROVE  /\ IsFiniteSet(WithEntry(call)) /\ WithEntry(call) \in SUBSET (Nalus \X Nat)
           /\ value' \in [Names -> Nat] /\ \A n \in Names : value[n] <= value'[n]
           /\ value'["acceptedBlocks"] = value["acceptedBlocks"]
           /\ Cardinality(WithEntry(call)) + value["expectedBlocks"] =
                  Cardinality(missing) + value'["expectedBlocks"]
<1> DEFINE row == {call.nalu} \X (0..(call.total - 1))
<1>1. /\ call.nalu \in Nalus /\ call.total \in Nat /\ "expectedBlocks" \in Names
      /\ value["expectedBlocks"] \in Nat /\ Cardinality(missing) \in Nat
      /\ missing \in SUBSET (Nalus \X Nat) /\ "acceptedBlocks" \in Names
      /\ value \in [Names -> Nat]
  BY CallFields, NamesExist, FS_CardinalityType DEF TypeOK
<1>2. CASE Open(call.nalu, missing)
  BY <1>1, <1>2 DEF WithEntry, CountExpected
<1>3. CASE ~Open(call.nalu, missing)
  <2>1. WithEntry(call) = missing \cup row /\ Increment("expectedBlocks", call.total)
    BY <1>3 DEF WithEntry, CountExpected
  <2>2. missing \cap row = {}
    BY <1>3 DEF Open
  <2>3. IsFiniteSet(row) /\ Cardinality(row) = call.total
    BY <1>1, RowOfPositions
  <2>4. row \in SUBSET (Nalus \X Nat)
    BY <1>1
  <2> HIDE DEF row
  <2>5. /\ IsFiniteSet(missing \cup row)
        /\ Cardinality(missing \cup row) = Cardinality(missing) + call.total
    BY <2>2, <2>3, DisjointSum
  <2>6. /\ value' \in [Names -> Nat] /\ \A n \in Names : value[n] <= value'[n]
        /\ value'["expectedBlocks"] = value["expectedBlocks"] + call.total
        /\ value'["acceptedBlocks"] = value["acceptedBlocks"]
    BY <1>1, <2>1, Incremented
  <2>7. QED  BY <1>1, <2>1, <2>4, <2>5, <2>6
<1>4. QED  BY <1>2, <1>3

\* A block that fills a position leaves one less, any other is one more in surplus.
LEMMA EntryBalance ==
    ASSUME TypeOK, IsFiniteSet(missing), NEW call \in Calls, EntryCounted(call)
    PROVE  /\ IsFiniteSet(missing') /\ missing' \in SUBSET (Nalus \X Nat)
           /\ surplus' \in Nat /\ surplus <= surplus'
           /\ value' \in [Names -> Nat] /\ \A n \in Names : value[n] <= value'[n]
           /\ value'["acceptedBlocks"] = value["acceptedBlocks"]
           /\ Cardinality(missing') + value["expectedBlocks"] + surplus + 1 =
                  Cardinality(missing) + value'["expectedBlocks"] + surplus'
<1> DEFINE found == WithEntry(call)
           position == <<call.nalu, call.block>>
<1>1. /\ CountExpected(call) /\ missing' = found \ {position}
      /\ surplus' = surplus + IF position \in found THEN 0 ELSE 1
  BY DEF EntryCounted
<1>2. /\ IsFiniteSet(found) /\ found \in SUBSET (Nalus \X Nat)
      /\ value' \in [Names -> Nat] /\ \A n \in Names : value[n] <= value'[n]
      /\ value'["acceptedBlocks"] = value["acceptedBlocks"]
      /\ Cardinality(found) + value["expectedBlocks"] =
             Cardinality(missing) + value'["expectedBlocks"]
  BY <1>1, EntryPositions
<1>3. /\ surplus \in Nat /\ value["expectedBlocks"] \in Nat /\ value'["expectedBlocks"] \in Nat
      /\ Cardinality(found) \in Nat /\ Cardinality(missing) \in Nat
  BY <1>2, NamesExist, FS_CardinalityType DEF TypeOK
<1> HIDE DEF found, position
<1>4. CASE position \in found
  <2>1. IsFiniteSet(missing') /\ Cardinality(missing') = Cardinality(found) - 1
    BY <1>1, <1>2, <1>4, FS_RemoveElement
  <2>2. QED  BY <1>1, <1>2, <1>3, <1>4, <2>1
<1>5. CASE position \notin found
  <2>1. missing' = found
    BY <1>1, <1>5
  <2>2. surplus' = surplus + 1
    BY <1>1, <1>5
  <2>3. QED  BY <1>2, <1>3, <2>1, <2>2
<1>6. QED  BY <1>4, <1>5

LEMMA CountSteps ==
    ASSUME TypeOK, Balance, CountPacket \/ Processor \/ CountSkip
    PROVE  CountStep
<1> USE NamesExist DEF CountStep, assemblyVars
<1>1. /\ missing \in SUBSET (Nalus \X Nat) /\ surplus \in Nat
      /\ processor \in {"idle", "entry", "complete"}
      /\ IsFiniteSet(missing) /\ Cardinality(missing) \in Nat
  BY FS_CardinalityType DEF TypeOK, Balance
<1>2. value["acceptedBlocks"] \in Nat /\ value["expectedBlocks"] \in Nat
  BY DEF TypeOK
<1>3. CASE CountPacket
  BY <1>1, <1>3, Incremented DEF CountPacket, Balance
<1>4. CASE CountSkip
  BY <1>1, <1>4, Incremented DEF CountSkip, Balance
<1>5. CASE CountNalu
  BY <1>1, <1>5, Incremented DEF CountNalu, Balance
<1>6. CASE CountBlock
  <2>1. /\ value' \in [Names -> Nat] /\ \A n \in Names : value[n] <= value'[n]
        /\ value'["acceptedBlocks"] = value["acceptedBlocks"] + 1
        /\ value'["expectedBlocks"] = value["expectedBlocks"]
    BY <1>6, Incremented DEF CountBlock
  <2>2. Balance'
    BY <1>1, <1>2, <1>6, <2>1 DEF CountBlock, Balance
  <2>3. QED  BY <1>1, <1>6, <2>1, <2>2 DEF CountBlock
<1>7. CASE CountEntry
  <2>1. /\ processor = "entry" /\ processor' \in {"complete", "idle"}
        /\ UNCHANGED <<main, configVars, lock, stopAsked, writerVars>>
    BY <1>7 DEF CountEntry
  <2>2. PICK call \in Calls : EntryCounted(call)
    BY <1>7 DEF CountEntry, EntryCounted
  <2>3. /\ IsFiniteSet(missing') /\ missing' \in SUBSET (Nalus \X Nat)
        /\ surplus' \in Nat /\ surplus <= surplus'
        /\ value' \in [Names -> Nat] /\ \A n \in Names : value[n] <= value'[n]
        /\ value'["acceptedBlocks"] = value["acceptedBlocks"]
        /\ Cardinality(missing') + value["expectedBlocks"] + surplus + 1 =
               Cardinality(missing) + value'["expectedBlocks"] + surplus'
    BY <2>2, EntryBalance DEF Balance
  <2>4. Balance'
    <3>1. /\ Cardinality(missing) \in Nat /\ Cardinality(missing') \in Nat
          /\ value'["expectedBlocks"] \in Nat
      BY <2>3, FS_CardinalityType DEF Balance
    <3>2. value["acceptedBlocks"] + Cardinality(missing) = value["expectedBlocks"] + surplus + 1
      BY <2>1 DEF Balance
    <3>3. /\ value'["acceptedBlocks"] = value["acceptedBlocks"]
          /\ Cardinality(missing') + value["expectedBlocks"] + surplus + 1 =
                 Cardinality(missing) + value'["expectedBlocks"] + surplus'
          /\ surplus \in Nat /\ surplus' \in Nat
      BY <1>1, <2>3
    <3>4. value'["acceptedBlocks"] + Cardinality(missing') = value'["expectedBlocks"] + surplus'
      <4> HIDE DEF CountStep
      <4>1. QED  BY <1>2, <3>1, <3>2, <3>3
    <3>5. QED  BY <2>1, <2>3, <3>4 DEF Balance
  <2>5. QED  BY <2>1, <2>3, <2>4
<1>8. QED  BY <1>3, <1>4, <1>5, <1>6, <1>7 DEF Processor

\* A line stays below what is counted when more is counted.
LEMMA ReadFromKept ==
    ASSUME TypeOK, CountStep, NEW written \in Seq(Nat), ReadFrom(written)
    PROVE  /\ Len(written) <= Len(columns)
           /\ \A i \in 1..Len(written) : written[i] <= value'[columns[i]]
           /\ \A i, j \in 1..Len(written) :
                  columns[i] = "acceptedBlocks" /\ columns[j] = "expectedBlocks" =>
                      written[i] <= written[j] + surplus' + 1
<1>1. Len(written) \in Nat /\ Len(columns) \in Nat /\ Len(written) <= Len(columns)
  BY LenProperties DEF TypeOK, ReadFrom
<1>2. ASSUME NEW i \in 1..Len(written)
      PROVE  written[i] <= value'[columns[i]]
  <2>1. i \in 1..Len(columns)
    BY <1>1
  <2>2. columns[i] \in Names /\ value[columns[i]] \in Nat
    BY <2>1, ColumnNames
  <2>3. value'[columns[i]] \in Nat /\ value[columns[i]] <= value'[columns[i]]
    BY <2>2 DEF CountStep
  <2>4. written[i] \in Nat /\ written[i] <= value[columns[i]]
    BY ElementOfSeq DEF ReadFrom
  <2>5. QED  BY <2>2, <2>3, <2>4
<1>3. ASSUME NEW i \in 1..Len(written), NEW j \in 1..Len(written),
             columns[i] = "acceptedBlocks", columns[j] = "expectedBlocks"
      PROVE  written[i] <= written[j] + surplus' + 1
  <2>1. written[i] \in Nat /\ written[j] \in Nat /\ surplus \in Nat
    BY ElementOfSeq DEF TypeOK
  <2>2. surplus' \in Nat /\ surplus <= surplus'
    BY DEF CountStep
  <2>3. written[i] <= written[j] + surplus + 1
    BY <1>3 DEF ReadFrom
  <2>4. QED  BY <2>1, <2>2, <2>3
<1>4. QED  BY <1>1, <1>2, <1>3

LEMMA InvCount ==
    ASSUME Inv, CountStep
    PROVE  Inv'
<1>1. UNCHANGED <<main, todo, columns, file, started, lock, stopAsked, writer, line, last>>
  BY DEF CountStep, configVars, writerVars
<1>2. TypeOK' /\ Registration' /\ Lifecycle' /\ Balance'
  <2>1. TypeOK'
    BY <1>1 DEF Inv, TypeOK, CountStep
  <2>2. Registration' /\ Lifecycle'
    BY <1>1 DEF Inv, Registration, Registered, Lifecycle
  <2>3. QED  BY <2>1, <2>2 DEF CountStep
<1>3. ReadFrom(line)' /\ ReadFrom(last)'
  <2>1. TypeOK /\ line \in Seq(Nat) /\ last \in Seq(Nat) /\ ReadFrom(line) /\ ReadFrom(last)
    BY DEF Inv, TypeOK, Lines
  <2>2. ReadFrom(line)'
    BY <1>1, <2>1, ReadFromKept DEF ReadFrom
  <2>3. ReadFrom(last)'
    BY <1>1, <2>1, ReadFromKept DEF ReadFrom
  <2>4. QED  BY <2>2, <2>3
<1>4. Lines'
  BY <1>1, <1>3 DEF Inv, Lines
<1>5. QED  BY <1>2, <1>4 DEF Inv

LEMMA StepKinds ==
    ASSUME Inv, [Next]_vars
    PROVE  RegisterCounter \/ ReadCounter \/ WriteLine \/ ControlStep \/ CountStep
<1>1. TypeOK /\ Balance
  BY DEF Inv
<1>2. QED  BY <1>1, ControlSteps, CountSteps DEF Next, WriteLoop

LEMMA InvNext == Inv /\ [Next]_vars => Inv'
BY StepKinds, InvRegister, InvRead, InvWrite, InvControl, InvCount

\* Inv, the strengthening of TypeOK and AcceptedWithinExpected, always holds.
THEOREM Invariance == Spec => []Inv
<1>1. QED  BY InvInit, InvNext, PTL DEF Spec

-------------------------------------------------------------------------------
(* The theorems. *)

\* Every variable of Statistics keeps its type: no counter is ever below zero and only
\* configured names become columns (RegisterCounter, Increment).
THEOREM TypeCorrect == Spec => []TypeOK
<1>1. Inv => TypeOK
  BY DEF Inv
<1>2. QED  BY <1>1, Invariance, PTL

\* However the threads count between the reads of writeStatisticsLine, and whatever
\* blocks are repeated or dropped, a line's accepted blocks exceed its expected ones by
\* the blocks that filled no position of a unit and one more at most, because its
\* columns are in the order of config::server::Config's list.
THEOREM RatioBounded == Spec => []AcceptedWithinExpected
<1>1. Inv => AcceptedWithinExpected
  <2> SUFFICES ASSUME Inv, last # <<>>
               PROVE  Column(last, "acceptedBlocks") <= Column(last, "expectedBlocks") + surplus + 1
    BY DEF AcceptedWithinExpected
  <2>1. todo = <<>> /\ Len(todo) = 0 /\ Registration
    BY DEF Inv, Lifecycle
  <2>2. Registered("acceptedBlocks") /\ Registered("expectedBlocks")
    BY <2>1, NamesExist DEF Registration
  <2>3. PICK i \in 1..Len(columns), j \in 1..Len(columns) :
            columns[i] = "acceptedBlocks" /\ columns[j] = "expectedBlocks"
    BY <2>2 DEF Registered
  <2>4. Column(last, "acceptedBlocks") = last[i] /\ Column(last, "expectedBlocks") = last[j]
    BY <2>1, <2>3, ColumnIsFound
  <2>5. last[i] <= last[j] + surplus + 1
    BY <2>3 DEF Inv, Lines, ReadFrom
  <2>6. QED  BY <2>4, <2>5
<1>2. QED  BY <1>1, Invariance, PTL

\* From line to line no column of the statistics file falls, and none is added
\* (writeStatisticsLine, Increment).
THEOREM FileGrows == Spec => ColumnsGrow
<1> DEFINE Grows ==
        last # <<>> => Len(last') = Len(last) /\ \A i \in 1..Len(last) : last[i] <= last'[i]
<1>1. Inv /\ [Next]_vars => [Grows]_last
  <2> SUFFICES ASSUME Inv, [Next]_vars, last' # last PROVE Grows
    OBVIOUS
  <2>1. CASE WriteLine
    BY <2>1, LineWritten
  <2>2. CASE RegisterCounter \/ ReadCounter \/ ControlStep \/ CountStep
    BY <2>2 DEF RegisterCounter, ReadCounter, ControlStep, CountStep, writerVars
  <2>3. QED  BY <2>1, <2>2, StepKinds
<1>2. QED  BY <1>1, Invariance, PTL DEF Spec, ColumnsGrow
===============================================================================
