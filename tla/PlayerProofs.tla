----------------------------- MODULE PlayerProofs -----------------------------
(***************************************************************************)
(* Proofs about Player, for every set of units, streams and sizes.         *)
(***************************************************************************)
EXTENDS Player, TLAPS, SequenceTheorems, FiniteSets, FiniteSetTheorems

(* What a step of Player does to the units: four kinds of step move them, every  *)
(* other step only moves a thread or raises or clears a flag.                     *)

RunStates == {"none", "create", "test", "poll", "lock", "blocking", "waiting", "woken",
              "expired", "decode", "returned"}

\* GoOn without _stop.
TakeStep ==
    /\ run # "decode" /\ run' = "decode"
    /\ next \in Nalus /\ ready[next] # <<>>
    /\ taken' = [nalu |-> next, content |-> ready[next]]
    /\ ready' = [ready EXCEPT ![next] = <<>>]
    /\ next' = next + 1
    /\ UNCHANGED <<assembling, stop, owner, token, stats, displayed>>

\* SkipMissing that gives up a unit.
SkipStep ==
    /\ run = "expired" /\ run' = "test"
    /\ ~MayGoOn
    /\ next' \in Nalus /\ next' > next /\ IsFirst(next', ready)
    /\ stats' = [stats EXCEPT !.skippedNalu = @ + 1]
    /\ UNCHANGED <<assembling, ready, stop, taken, owner, token, displayed>>

ControlStep ==
    /\ run' \in RunStates /\ stop' \in BOOLEAN /\ token' \in BOOLEAN
    /\ owner' \in {"idle", "assign", "notify", "join"}
    /\ (run' = "decode") = (run = "decode")
    /\ UNCHANGED <<assembling, ready, next, taken, stats, displayed>>

StepKind ==
    ReceiveBlock \/ TakeStep \/ SkipStep \/ DecodeAndDisplayNalu \/ ControlStep

LEMMA GoOnKind ==
    ASSUME TypeOK, GoOn, run # "decode"
    PROVE  TakeStep \/ ControlStep
<1>1. CASE stop
  BY <1>1 DEF GoOn, ControlStep, RunStates, TypeOK
<1>2. CASE ~stop
  BY <1>2 DEF GoOn, MayGoOn, IsFirst, Keys, TakeStep
<1>3. QED  BY <1>1, <1>2

LEMMA WaitKind ==
    ASSUME TypeOK, Wait, run # "decode"
    PROVE  ControlStep
BY DEF Wait, ControlStep, RunStates, TypeOK, assemblyVars

LEMMA SkipMissingKind ==
    ASSUME TypeOK, SkipMissing, run = "expired"
    PROVE  SkipStep \/ ControlStep
<1>1. CASE \E f \in Nalus : IsFirst(f, ready) /\ f > next
  <2>1. PICK f \in Nalus : IsFirst(f, ready) /\ f > next
    BY <1>1
  <2>2. PICK g \in Nalus : IsFirst(g, ready) /\ next' = g
    BY <1>1 DEF SkipMissing
  <2>3. f \in Nat /\ g \in Nat
    BY NalusAssumption
  <2>4. f = g
    BY <2>1, <2>2, <2>3 DEF IsFirst
  <2>5. QED  BY <1>1, <2>1, <2>2, <2>4 DEF SkipMissing, SkipStep
<1>2. CASE ~\E f \in Nalus : IsFirst(f, ready) /\ f > next
  BY <1>2 DEF SkipMissing, ControlStep, RunStates, TypeOK
<1>3. QED  BY <1>1, <1>2

LEMMA NotifyKind ==
    ASSUME TypeOK, Notify
    PROVE  run' \in RunStates /\ (run' = "decode") = (run = "decode")
BY DEF Notify, RunStates, TypeOK

LEMMA StepKinds ==
    ASSUME TypeOK, [Next]_vars
    PROVE  StepKind
<1>1. CASE ReceiveBlock
  BY <1>1 DEF StepKind
<1>2. CASE CreateWindowAndRenderer
  BY <1>2 DEF CreateWindowAndRenderer, StepKind, ControlStep, RunStates, TypeOK, assemblyVars
<1>3. CASE TestStop
  BY <1>3 DEF TestStop, StepKind, ControlStep, RunStates, TypeOK, assemblyVars
<1>4. CASE PollEvents
  BY <1>4 DEF PollEvents, StepKind, ControlStep, RunStates, TypeOK, assemblyVars
<1>5. CASE EnterWait
  BY <1>5, GoOnKind, WaitKind DEF EnterWait, StepKind
<1>6. CASE WakeUp
  BY <1>6, GoOnKind, WaitKind DEF WakeUp, StepKind
<1>7. CASE Expire
  BY <1>7 DEF Expire, StepKind, ControlStep, RunStates, TypeOK, assemblyVars
<1>8. CASE TimedOut
  BY <1>8, GoOnKind, SkipMissingKind DEF TimedOut, StepKind
<1>9. CASE DecodeAndDisplayNalu
  BY <1>9 DEF StepKind
<1>10. CASE Start
  BY <1>10 DEF Start, StepKind, ControlStep, RunStates, TypeOK, assemblyVars
<1>11. CASE AssignThread
  BY <1>11 DEF AssignThread, StepKind, ControlStep, RunStates, TypeOK, assemblyVars
<1>12. CASE RaiseStop
  BY <1>12 DEF RaiseStop, StepKind, ControlStep, RunStates, TypeOK, assemblyVars
<1>13. CASE NotifyAll
  BY <1>13, NotifyKind DEF NotifyAll, StepKind, ControlStep, TypeOK, assemblyVars
<1>14. CASE Join
  BY <1>14 DEF Join, StepKind, ControlStep, RunStates, TypeOK, assemblyVars
<1>15. CASE UNCHANGED vars
  BY <1>15 DEF vars, StepKind, ControlStep, RunStates, TypeOK
<1>16. CASE FallAsleep
  BY <1>16 DEF FallAsleep, StepKind, ControlStep, RunStates, TypeOK, assemblyVars
<1>17. QED
  BY <1>1, <1>2, <1>3, <1>4, <1>5, <1>6, <1>7, <1>8, <1>9, <1>10, <1>11, <1>12,
     <1>13, <1>14, <1>15, <1>16 DEF Next, Run, Stop

-------------------------------------------------------------------------------
(* Blocks and units. *)

LEMMA BlockFields ==
    ASSUME NEW b \in Block
    PROVE  /\ b.stream \in Streams /\ b.nalu \in Nalus /\ b.block \in Nat
           /\ Size[b.stream][b.nalu] \in Nat \ {0}
           /\ b.block < Size[b.stream][b.nalu]
<1>1. PICK s \in Streams, n \in Nalus : b \in BlocksOf(s, n)
  BY DEF Block
<1>2. Size[s][n] \in Nat \ {0}
  BY SizeAssumption
<1>3. QED  BY <1>1, <1>2 DEF BlocksOf

\* c holds, position by position, nothing or the block that belongs there.
Part(n, c) ==
    \E s \in Streams :
        /\ c \in [1..Size[s][n] -> Slots]
        /\ \A i \in 1..Size[s][n] :
               c[i] # NoBlock => c[i] \in Block /\ c[i].nalu = n /\ c[i].block = i - 1

LEMMA PartIsSeq ==
    ASSUME NEW n \in Nalus, NEW c, Part(n, c)
    PROVE  c \in Seq(Slots) /\ Len(c) \in Nat \ {0} /\ c # <<>>
<1>1. PICK s \in Streams : c \in [1..Size[s][n] -> Slots]
  BY DEF Part
<1>2. Size[s][n] \in Nat \ {0}
  BY SizeAssumption
<1>3. c \in Seq(Slots) /\ Len(c) = Size[s][n]
  BY <1>1, <1>2
<1>4. QED  BY <1>2, <1>3

LEMMA FilledPartIsWhole ==
    ASSUME NEW n \in Nalus, NEW c, Part(n, c), Filled(c)
    PROVE  [nalu |-> n, content |-> c] \in WholeUnits /\ c \in Seq(Block)
<1>1. PICK s \in Streams :
          /\ c \in [1..Size[s][n] -> Slots]
          /\ \A i \in 1..Size[s][n] :
                 c[i] # NoBlock => c[i] \in Block /\ c[i].nalu = n /\ c[i].block = i - 1
  BY DEF Part
<1>2. Size[s][n] \in Nat \ {0}
  BY SizeAssumption
<1>3. Len(c) = Size[s][n]
  BY <1>1, <1>2
<1>4. \A i \in 1..Size[s][n] : c[i] \in Block /\ c[i].nalu = n /\ c[i].block = i - 1
  BY <1>1, <1>3 DEF Filled
<1>5. c \in [1..Size[s][n] -> {b \in Block : b.nalu = n}]
  BY <1>1, <1>4
<1>6. c \in Contents(s, n)
  BY <1>4, <1>5 DEF Contents
<1>7. c \in Seq(Block)
  BY <1>1, <1>2, <1>4
<1>8. QED  BY <1>6, <1>7 DEF WholeUnits, WholeUnitsOf

LEMMA WholeUnitType ==
    ASSUME NEW unit \in WholeUnits
    PROVE  unit.nalu \in Nalus /\ unit.content \in Seq(Block) /\ unit.content # <<>>
           /\ unit = [nalu |-> unit.nalu, content |-> unit.content]
<1>1. PICK s \in Streams, n \in Nalus : unit \in WholeUnitsOf(s, n)
  BY DEF WholeUnits
<1>2. PICK c \in Contents(s, n) : unit = [nalu |-> n, content |-> c]
  BY <1>1 DEF WholeUnitsOf
<1>3. Size[s][n] \in Nat \ {0}
  BY SizeAssumption
<1>4. c \in Seq(Block) /\ Len(c) = Size[s][n]
  BY <1>3 DEF Contents
<1>5. QED  BY <1>2, <1>3, <1>4

\* Storing a block keeps an entry a part of its unit.
LEMMA StoredPart ==
    ASSUME NEW b \in Block,
           assembling[b.nalu] = <<>> \/ Part(b.nalu, assembling[b.nalu])
    PROVE  LET entry == Entry(b.nalu, Size[b.stream][b.nalu]) IN
           /\ Part(b.nalu, entry)
           /\ b.block < Len(entry) => Part(b.nalu, [entry EXCEPT ![b.block + 1] = b])
<1> DEFINE entry == Entry(b.nalu, Size[b.stream][b.nalu])
<1>1. Part(b.nalu, entry)
  <2>1. CASE assembling[b.nalu] = <<>>
    <3>1. entry = [i \in 1..Size[b.stream][b.nalu] |-> NoBlock]
      BY <2>1 DEF Entry
    <3>2. entry \in [1..Size[b.stream][b.nalu] -> Slots]
      BY <3>1 DEF Slots
    <3>3. QED  BY <3>1, <3>2, BlockFields DEF Part
  <2>2. CASE assembling[b.nalu] # <<>>
    BY <2>2 DEF Entry
  <2>3. QED  BY <2>1, <2>2
<1>2. ASSUME b.block < Len(entry)
      PROVE  Part(b.nalu, [entry EXCEPT ![b.block + 1] = b])
  <2>1. PICK s \in Streams :
            /\ entry \in [1..Size[s][b.nalu] -> Slots]
            /\ \A i \in 1..Size[s][b.nalu] :
                   entry[i] # NoBlock =>
                       entry[i] \in Block /\ entry[i].nalu = b.nalu /\ entry[i].block = i - 1
    BY <1>1 DEF Part
  <2>2. Size[s][b.nalu] \in Nat /\ b.block \in Nat /\ b \in Slots
    BY SizeAssumption, BlockFields DEF Slots
  <2>3. Len(entry) = Size[s][b.nalu]
    BY <2>1, <2>2
  <2> DEFINE new == [entry EXCEPT ![b.block + 1] = b]
  <2>4. new \in [1..Size[s][b.nalu] -> Slots]
    BY <2>1, <2>2
  <2>5. \A i \in 1..Size[s][b.nalu] :
            new[i] # NoBlock => new[i] \in Block /\ new[i].nalu = b.nalu /\ new[i].block = i - 1
    <3> SUFFICES ASSUME NEW i \in 1..Size[s][b.nalu], new[i] # NoBlock
                 PROVE  new[i] \in Block /\ new[i].nalu = b.nalu /\ new[i].block = i - 1
      OBVIOUS
    <3>1. CASE i = b.block + 1
      BY <3>1, <2>1, <2>2
    <3>2. CASE i # b.block + 1
      BY <3>2, <2>1, <2>2
    <3>3. QED  BY <3>1, <3>2
  <2>6. QED  BY <2>4, <2>5 DEF Part
<1>3. QED  BY <1>1, <1>2
-------------------------------------------------------------------------------
(* The inductive invariant.  TypeOK is not inductive as it stands: that displayed   *)
(* holds units needs the unit Run has in hand to be one, which needs _readyNalus    *)
(* to hold whole units only, which needs the entries of _assembling to be parts.    *)

Units ==
    /\ \A n \in Nalus : assembling[n] # <<>> => Part(n, assembling[n])
    /\ \A n \in Nalus : ready[n] # <<>> => [nalu |-> n, content |-> ready[n]] \in WholeUnits
    /\ run = "decode" => taken \in WholeUnits

\* What has been displayed lies before the unit in hand, and that before next.
Order ==
    /\ run = "decode" => taken.nalu < next
    /\ \A i \in 1..Len(displayed) :
           displayed[i].nalu < IF run = "decode" THEN taken.nalu ELSE next

Inv == TypeOK /\ Units /\ Order

LEMMA InvInit == Init => Inv
<1> SUFFICES ASSUME Init PROVE Inv
  OBVIOUS
<1>1. TypeOK
  <2>1. \A S : <<>> \in Seq(S)
    BY EmptySeq
  <2>2. assembling \in [Nalus -> Seq(Slots)] /\ ready \in [Nalus -> Seq(Block)]
    BY <2>1 DEF Init
  <2>3. taken \in [nalu : Nat, content : Seq(Block)]
    BY <2>1 DEF Init
  <2>4. displayed \in Seq([nalu : Nalus, content : Seq(Block)])
    BY <2>1 DEF Init
  <2>5. stats \in [acceptedBlocks : Nat, expectedBlocks : Nat,
                   assembledNalu : Nat, skippedNalu : Nat]
    BY DEF Init
  <2>6. QED  BY <2>2, <2>3, <2>4, <2>5 DEF Init, TypeOK
<1>2. Units /\ Order
  BY DEF Init, Units, Order
<1>3. QED  BY <1>1, <1>2 DEF Inv

\* What AddBlock does to the two maps, whichever of its three ways it takes.
LEMMA AddBlockMaps ==
    ASSUME Inv, NEW b \in Block, AddBlock(b.block, b.nalu, Size[b.stream][b.nalu], b)
    PROVE  /\ \E entry :
                 /\ assembling' = [assembling EXCEPT ![b.nalu] = entry]
                 /\ entry # <<>> => Part(b.nalu, entry)
           /\ \/ ready' = ready
              \/ \E unit :
                   /\ ready' = [ready EXCEPT ![b.nalu] = unit]
                   /\ unit # <<>> /\ unit \in Seq(Block)
                   /\ [nalu |-> b.nalu, content |-> unit] \in WholeUnits
<1> DEFINE total == Size[b.stream][b.nalu]
           entry == Entry(b.nalu, total)
           slots == [entry EXCEPT ![b.block + 1] = b]
<1>1. b.nalu \in Nalus
  BY BlockFields
<1>2. Part(b.nalu, entry) /\ (b.block < Len(entry) => Part(b.nalu, slots))
  <2>1. assembling[b.nalu] = <<>> \/ Part(b.nalu, assembling[b.nalu])
    BY <1>1 DEF Inv, Units
  <2>2. QED  BY <2>1, StoredPart
<1> HIDE DEF entry, slots
<1>3. CASE RejectBlock(b.block, b.nalu, total)
  BY <1>2, <1>3 DEF RejectBlock, entry
<1>4. CASE StoreBlock(b.block, b.nalu, total, b)
  BY <1>2, <1>4 DEF StoreBlock, entry, slots
<1>5. CASE CompleteNalu(b.block, b.nalu, total, b)
  <2>1. /\ b.block < Len(entry) /\ Filled(slots)
        /\ assembling' = [assembling EXCEPT ![b.nalu] = <<>>]
        /\ ready' = [ready EXCEPT ![b.nalu] = slots]
    BY <1>5 DEF CompleteNalu, entry, slots
  <2>2. Part(b.nalu, slots)
    BY <1>2, <2>1
  <2>3. [nalu |-> b.nalu, content |-> slots] \in WholeUnits /\ slots \in Seq(Block)
    BY <1>1, <2>1, <2>2, FilledPartIsWhole
  <2>4. slots # <<>>
    BY <1>1, <2>2, PartIsSeq
  <2>5. QED  BY <2>1, <2>3, <2>4
<1>6. QED  BY <1>3, <1>4, <1>5 DEF AddBlock

LEMMA AddBlockCounts ==
    ASSUME TypeOK, NEW b \in Block, AddBlock(b.block, b.nalu, Size[b.stream][b.nalu], b)
    PROVE  /\ stats' \in [acceptedBlocks : Nat, expectedBlocks : Nat,
                          assembledNalu : Nat, skippedNalu : Nat]
           /\ run' \in RunStates /\ (run' = "decode") = (run = "decode")
           /\ UNCHANGED <<next, stop, taken, owner, token, displayed>>
<1> DEFINE total == Size[b.stream][b.nalu]
<1>1. total \in Nat
  BY BlockFields
<1>2. \A completed \in {0, 1} :
          Counted(b.nalu, total, completed) \in
              [acceptedBlocks : Nat, expectedBlocks : Nat, assembledNalu : Nat, skippedNalu : Nat]
  <2>1. /\ stats.acceptedBlocks \in Nat /\ stats.expectedBlocks \in Nat
        /\ stats.assembledNalu \in Nat /\ stats.skippedNalu \in Nat
    BY DEF TypeOK
  <2>2. (IF assembling[b.nalu] = <<>> THEN total ELSE 0) \in Nat
    BY <1>1
  <2>3. QED  BY <2>1, <2>2 DEF Counted
<1>3. /\ stats' \in {Counted(b.nalu, total, 0), Counted(b.nalu, total, 1)}
      /\ UNCHANGED run \/ Notify
  BY DEF AddBlock, RejectBlock, StoreBlock, CompleteNalu
<1>4. run' \in RunStates /\ (run' = "decode") = (run = "decode")
  BY <1>3, NotifyKind DEF RunStates, TypeOK
<1>5. QED  BY <1>2, <1>3, <1>4 DEF AddBlock

LEMMA InvReceive ==
    ASSUME Inv, ReceiveBlock
    PROVE  Inv'
<1>1. PICK b \in Block : AddBlock(b.block, b.nalu, Size[b.stream][b.nalu], b)
  BY DEF ReceiveBlock
<1>2. b.nalu \in Nalus
  BY BlockFields
<1>3. TypeOK /\ Units /\ Order
  BY DEF Inv
<1>4. PICK entry : /\ assembling' = [assembling EXCEPT ![b.nalu] = entry]
                   /\ entry # <<>> => Part(b.nalu, entry)
  BY <1>1, AddBlockMaps
<1>5. /\ ready' \in [Nalus -> Seq(Block)]
      /\ \A n \in Nalus : ready'[n] # <<>> => [nalu |-> n, content |-> ready'[n]] \in WholeUnits
  <2>1. CASE ready' = ready
    BY <1>3, <2>1 DEF TypeOK, Units
  <2>2. CASE \E unit : /\ ready' = [ready EXCEPT ![b.nalu] = unit]
                       /\ unit # <<>> /\ unit \in Seq(Block)
                       /\ [nalu |-> b.nalu, content |-> unit] \in WholeUnits
    BY <1>2, <1>3, <2>2 DEF TypeOK, Units
  <2>3. QED  BY <1>1, <2>1, <2>2, AddBlockMaps
<1>6. \A n \in Nalus : assembling'[n] # <<>> => Part(n, assembling'[n])
  BY <1>2, <1>3, <1>4 DEF TypeOK, Units
<1>7. assembling' \in [Nalus -> Seq(Slots)]
  <2>1. entry \in Seq(Slots)
    BY <1>2, <1>4, PartIsSeq, EmptySeq
  <2>2. QED  BY <1>2, <1>3, <1>4, <2>1 DEF TypeOK
<1>8. TypeOK'
  BY <1>1, <1>3, <1>5, <1>7, AddBlockCounts DEF TypeOK, RunStates
<1>9. Units' /\ Order'
  BY <1>1, <1>3, <1>5, <1>6, AddBlockCounts DEF Units, Order, Part
<1>10. QED  BY <1>8, <1>9 DEF Inv
LEMMA DisplayedIndices ==
    ASSUME TypeOK
    PROVE  Len(displayed) \in Nat /\ \A i \in 1..Len(displayed) : displayed[i].nalu \in Nat
<1>1. Len(displayed) \in Nat
  BY LenProperties DEF TypeOK
<1>2. ASSUME NEW i \in 1..Len(displayed)
      PROVE  displayed[i].nalu \in Nat
  <2>1. displayed[i] \in [nalu : Nalus, content : Seq(Block)]
    BY ElementOfSeq DEF TypeOK
  <2>2. QED  BY <2>1, NalusAssumption
<1>3. QED  BY <1>1, <1>2

LEMMA DisplayedUnit ==
    ASSUME Inv, DecodeAndDisplayNalu
    PROVE  /\ displayed' \in Seq([nalu : Nalus, content : Seq(Block)])
           /\ Len(displayed') = Len(displayed) + 1
           /\ \A i \in 1..Len(displayed) : displayed'[i] = displayed[i]
           /\ displayed'[Len(displayed) + 1] = taken
<1>1. displayed \in Seq([nalu : Nalus, content : Seq(Block)])
  BY DEF Inv, TypeOK
<1>2. taken \in [nalu : Nalus, content : Seq(Block)]
  BY WholeUnitType DEF Inv, Units, DecodeAndDisplayNalu
<1>3. displayed' = Append(displayed, taken)
  BY DEF DecodeAndDisplayNalu
<1>4. QED  BY <1>1, <1>2, <1>3, AppendProperties

LEMMA InvTake ==
    ASSUME Inv, TakeStep
    PROVE  Inv'
<1>1. TypeOK /\ Units /\ Order
  BY DEF Inv
<1>2. ready[next] \in Seq(Block) /\ taken' \in WholeUnits /\ taken'.nalu = next
  BY <1>1 DEF TakeStep, TypeOK, Units
<1>3. ready' \in [Nalus -> Seq(Block)]
  BY <1>1, EmptySeq DEF TakeStep, TypeOK
<1>4. TypeOK'
  BY <1>1, <1>2, <1>3 DEF TakeStep, TypeOK
<1>5. Units'
  <2>1. \A n \in Nalus : ready'[n] # <<>> => ready'[n] = ready[n]
    BY <1>1 DEF TakeStep, TypeOK
  <2>2. QED  BY <1>1, <1>2, <2>1 DEF TakeStep, Units, Part
<1>6. Order'
  BY <1>1, <1>2 DEF TakeStep, TypeOK, Order
<1>7. QED  BY <1>4, <1>5, <1>6 DEF Inv

LEMMA InvSkip ==
    ASSUME Inv, SkipStep
    PROVE  Inv'
<1>1. TypeOK /\ Units /\ Order
  BY DEF Inv
<1>2. next' \in Nat
  BY NalusAssumption DEF SkipStep
<1>3. TypeOK'
  <2>1. stats' \in [acceptedBlocks : Nat, expectedBlocks : Nat,
                    assembledNalu : Nat, skippedNalu : Nat]
    <3>1. stats \in [acceptedBlocks : Nat, expectedBlocks : Nat,
                     assembledNalu : Nat, skippedNalu : Nat]
      BY <1>1 DEF TypeOK
    <3>2. stats' = [stats EXCEPT !.skippedNalu = @ + 1]
      BY DEF SkipStep
    <3>3. QED  BY <3>1, <3>2
  <2>2. QED  BY <1>1, <1>2, <2>1 DEF SkipStep, TypeOK
<1>4. Units'
  BY <1>1 DEF SkipStep, Units, Part
<1>5. Order'
  <2>1. ASSUME NEW i \in 1..Len(displayed)
        PROVE  displayed[i].nalu < next'
    <3>1. displayed[i].nalu \in Nat /\ displayed[i].nalu < next
      BY <1>1, DisplayedIndices DEF SkipStep, Order
    <3>2. next \in Nat /\ next < next'
      BY <1>1 DEF SkipStep, TypeOK
    <3>3. QED  BY <1>2, <3>1, <3>2
  <2>2. QED  BY <2>1 DEF SkipStep, Order
<1>6. QED  BY <1>3, <1>4, <1>5 DEF Inv

LEMMA InvDisplay ==
    ASSUME Inv, DecodeAndDisplayNalu
    PROVE  Inv' /\ taken \in WholeUnits
                /\ \A i \in 1..Len(displayed) : displayed[i].nalu < taken.nalu
<1>1. TypeOK /\ Units /\ Order
  BY DEF Inv
<1>2. taken \in WholeUnits /\ \A i \in 1..Len(displayed) : displayed[i].nalu < taken.nalu
  BY <1>1 DEF DecodeAndDisplayNalu, Units, Order
<1>3. /\ displayed' \in Seq([nalu : Nalus, content : Seq(Block)])
      /\ Len(displayed') = Len(displayed) + 1
      /\ \A i \in 1..Len(displayed) : displayed'[i] = displayed[i]
      /\ displayed'[Len(displayed) + 1] = taken
  BY DisplayedUnit
<1>4. TypeOK'
  BY <1>1, <1>3, EmptySeq DEF DecodeAndDisplayNalu, TypeOK, assemblyVars
<1>5. Units'
  BY <1>1 DEF DecodeAndDisplayNalu, Units, Part, assemblyVars
<1>6. Order'
  <2>1. \A i \in 1..Len(displayed) : displayed[i].nalu \in Nat
    BY <1>1, DisplayedIndices
  <2>2. taken.nalu < next /\ taken.nalu \in Nat /\ next \in Nat /\ Len(displayed) \in Nat
    BY <1>1, LenProperties DEF DecodeAndDisplayNalu, Order, TypeOK
  <2>3. ASSUME NEW i \in 1..(Len(displayed) + 1)
        PROVE  displayed'[i].nalu < next
    <3>1. CASE i = Len(displayed) + 1
      BY <3>1, <1>3, <2>2
    <3>2. CASE i # Len(displayed) + 1
      <4>1. i \in 1..Len(displayed)
        BY <3>2, <2>2
      <4>2. displayed'[i] = displayed[i] /\ displayed[i].nalu < taken.nalu
        BY <4>1, <1>2, <1>3
      <4>3. displayed[i].nalu \in Nat
        BY <4>1, <2>1
      <4>4. QED  BY <4>2, <4>3, <2>2
    <3>3. QED  BY <3>1, <3>2
  <2>4. QED  BY <1>3, <2>3 DEF DecodeAndDisplayNalu, Order, assemblyVars
<1>7. QED  BY <1>2, <1>4, <1>5, <1>6 DEF Inv

LEMMA InvControl ==
    ASSUME Inv, ControlStep
    PROVE  Inv'
<1>1. TypeOK /\ Units /\ Order
  BY DEF Inv
<1>2. TypeOK'
  BY <1>1 DEF ControlStep, RunStates, TypeOK
<1>3. Units'
  BY <1>1 DEF ControlStep, Units, Part
<1>4. Order'
  BY <1>1 DEF ControlStep, Order
<1>5. QED  BY <1>2, <1>3, <1>4 DEF Inv

LEMMA InvNext == Inv /\ [Next]_vars => Inv'
<1> SUFFICES ASSUME Inv, [Next]_vars PROVE Inv'
  OBVIOUS
<1>1. StepKind
  BY StepKinds DEF Inv
<1>2. QED
  BY <1>1, InvReceive, InvTake, InvSkip, InvDisplay, InvControl DEF StepKind

\* Inv, the strengthening of TypeOK, holds in every state of Player.
THEOREM Invariance == Spec => []Inv
<1>1. QED  BY InvInit, InvNext, PTL DEF Spec

\* Every variable of Player keeps its type; in particular only complete units ever
\* reach _readyNalus, and only units of the video reach the decoder.
THEOREM TypeCorrect == Spec => []TypeOK
<1>1. Inv => TypeOK
  BY DEF Inv
<1>2. QED  BY <1>1, Invariance, PTL

\* Playback keeps its promise (module Playback) under every interleaving and whatever
\* is lost, repeated or reordered: whole units, each once, by increasing index.
THEOREM PlayerImplementsPlayback == Spec => ImplementsPlayback
<1>1. Init => PlaybackPromise!Init
  BY DEF Init, PlaybackPromise!Init
<1>2. Inv /\ [Next]_vars => [PlaybackPromise!Next]_PlaybackPromise!vars
  <2> SUFFICES ASSUME Inv, [Next]_vars
               PROVE  [PlaybackPromise!Next]_PlaybackPromise!vars
    OBVIOUS
  <2>1. StepKind
    BY StepKinds DEF Inv
  <2>2. CASE DecodeAndDisplayNalu
    <3>1. PlaybackPromise!Display(taken) /\ taken \in WholeUnits
      BY <2>2, InvDisplay DEF DecodeAndDisplayNalu, PlaybackPromise!Display
    <3>2. QED  BY <3>1 DEF PlaybackPromise!Next
  <2>3. CASE ~DecodeAndDisplayNalu
    <3>1. UNCHANGED displayed
      <4>1. CASE ReceiveBlock
        BY <4>1, AddBlockCounts DEF ReceiveBlock, Inv
      <4>2. CASE TakeStep \/ SkipStep \/ ControlStep
        BY <4>2 DEF TakeStep, SkipStep, ControlStep
      <4>3. QED  BY <2>1, <2>3, <4>1, <4>2 DEF StepKind
    <3>2. QED  BY <3>1 DEF PlaybackPromise!vars
  <2>4. QED  BY <2>2, <2>3
<1>3. QED
  BY <1>1, <1>2, Invariance, PTL DEF Spec, ImplementsPlayback, PlaybackPromise!Spec

\* What AddBlock changes of _readyNalus is one unit, and that one has been completed.
LEMMA AddBlockReplaces ==
    ASSUME Inv, NEW n \in Nalus, NEW b \in Block,
           AddBlock(b.block, b.nalu, Size[b.stream][b.nalu], b)
    PROVE  ready'[n] = ready[n] \/ ReplacedWhole(n)
<1> DEFINE total == Size[b.stream][b.nalu]
<1>1. CASE RejectBlock(b.block, b.nalu, total) \/ StoreBlock(b.block, b.nalu, total, b)
  BY <1>1 DEF RejectBlock, StoreBlock
<1>2. CASE CompleteNalu(b.block, b.nalu, total, b)
  <2>1. stats'.assembledNalu = stats.assembledNalu + 1
    BY <1>2 DEF CompleteNalu, Counted
  <2>2. CASE ready' = ready
    BY <2>2
  <2>3. CASE ready' # ready
    <3>1. PICK unit : /\ ready' = [ready EXCEPT ![b.nalu] = unit]
                      /\ [nalu |-> b.nalu, content |-> unit] \in WholeUnits
      BY <2>3, AddBlockMaps
    <3>2. /\ \A m \in Nalus : m # b.nalu => ready'[m] = ready[m]
          /\ b.nalu \in Nalus /\ ready'[b.nalu] = unit
      BY <3>1, BlockFields DEF Inv, TypeOK
    <3>3. QED  BY <2>1, <3>1, <3>2 DEF ReplacedWhole
  <2>4. QED  BY <2>2, <2>3
<1>3. QED  BY <1>1, <1>2 DEF AddBlock

\* A complete unit ahead of playback stays ready, as it is, until Run takes it: skips,
\* and blocks of other units, leave it alone, and its own late or repeated blocks put
\* nothing in its place but the whole unit assembled again (SkipMissing, AddBlock).
THEOREM AwaitedUnitKept == Spec => AwaitedUnitIsKept
<1> DEFINE Kept(n) ==
        Awaited(n) => \/ Awaited(n)' /\ (ready'[n] = ready[n] \/ ReplacedWhole(n))
                      \/ taken'.nalu = n /\ taken'.content = ready[n]
<1>1. Inv /\ [Next]_vars => \A n \in Nalus : Kept(n)
  <2> SUFFICES ASSUME Inv, [Next]_vars, NEW n \in Nalus, Awaited(n)
               PROVE  \/ Awaited(n)' /\ (ready'[n] = ready[n] \/ ReplacedWhole(n))
                      \/ taken'.nalu = n /\ taken'.content = ready[n]
    BY DEF Kept
  <2>1. StepKind /\ TypeOK /\ n \in Nat
    BY StepKinds, NalusAssumption DEF Inv
  <2>2. CASE ReceiveBlock
    <3>1. PICK b \in Block : AddBlock(b.block, b.nalu, Size[b.stream][b.nalu], b)
      BY <2>2 DEF ReceiveBlock
    <3>2. next' = next
      BY <2>1, <3>1, AddBlockCounts
    <3>3. ready'[n] # <<>>
      BY <2>1, <3>1, AddBlockMaps DEF TypeOK, Awaited
    <3>4. ready'[n] = ready[n] \/ ReplacedWhole(n)
      BY <3>1, AddBlockReplaces
    <3>5. QED  BY <3>2, <3>3, <3>4 DEF Awaited
  <2>3. CASE TakeStep
    BY <2>1, <2>3 DEF TakeStep, TypeOK, Awaited
  <2>4. CASE SkipStep
    BY <2>1, <2>4, NalusAssumption DEF SkipStep, IsFirst, Keys, Awaited
  <2>5. CASE DecodeAndDisplayNalu \/ ControlStep
    BY <2>5 DEF DecodeAndDisplayNalu, ControlStep, Awaited, assemblyVars
  <2>6. QED  BY <2>1, <2>2, <2>3, <2>4, <2>5 DEF StepKind
<1>2. QED  BY <1>1, Invariance, PTL DEF Spec, AwaitedUnitIsKept, Kept
-------------------------------------------------------------------------------
(* Skips against assembled units.  The two counters are related through the units   *)
(* playback has taken: each skip leads to a unit that is ready, and Run takes that  *)
(* one before it can skip again.                                                    *)

Consumed == Len(displayed) + IF run = "decode" THEN 1 ELSE 0

Payment ==
    /\ IsFiniteSet(Keys(ready))
    /\ stats.skippedNalu <= Consumed + IF next \in Keys(ready) THEN 1 ELSE 0
    /\ Consumed + Cardinality(Keys(ready)) <= stats.assembledNalu

LEMMA ConsumedType ==
    ASSUME TypeOK PROVE Consumed \in Nat
BY LenProperties DEF TypeOK, Consumed

LEMMA PaymentInit == Init => Payment
<1> SUFFICES ASSUME Init PROVE Payment
  OBVIOUS
<1>1. Keys(ready) = {}
  BY DEF Init, Keys
<1>2. Consumed = 0 /\ stats.skippedNalu = 0 /\ stats.assembledNalu = 0
  BY DEF Init, Consumed
<1>3. QED  BY <1>1, <1>2, FS_EmptySet DEF Payment

LEMMA PaymentReceive ==
    ASSUME Inv, Payment, ReceiveBlock
    PROVE  Payment'
<1>1. PICK b \in Block : AddBlock(b.block, b.nalu, Size[b.stream][b.nalu], b)
  BY DEF ReceiveBlock
<1> DEFINE total == Size[b.stream][b.nalu]
<1>2. b.nalu \in Nalus /\ TypeOK
  BY BlockFields DEF Inv
<1>3. Consumed' = Consumed /\ next' = next /\ Consumed \in Nat
  BY <1>1, <1>2, AddBlockCounts, ConsumedType DEF Consumed
<1>4. stats.assembledNalu \in Nat /\ stats.skippedNalu \in Nat
  BY <1>2 DEF TypeOK
<1>5. CASE RejectBlock(b.block, b.nalu, total) \/ StoreBlock(b.block, b.nalu, total, b)
  <2>1. ready' = ready /\ stats' = Counted(b.nalu, total, 0)
    BY <1>5 DEF RejectBlock, StoreBlock
  <2>2. Keys(ready') = Keys(ready)
    BY <2>1
  <2>3. stats'.assembledNalu = stats.assembledNalu /\ stats'.skippedNalu = stats.skippedNalu
    BY <1>4, <2>1 DEF Counted
  <2>4. QED  BY <1>3, <2>2, <2>3 DEF Payment
<1>6. CASE CompleteNalu(b.block, b.nalu, total, b)
  <2>1. stats' = Counted(b.nalu, total, 1)
    BY <1>6 DEF CompleteNalu
  <2>2. stats'.assembledNalu = stats.assembledNalu + 1 /\ stats'.skippedNalu = stats.skippedNalu
    BY <2>1 DEF Counted
  <2>3. \/ Keys(ready') = Keys(ready)
        \/ Keys(ready') = Keys(ready) \cup {b.nalu} /\ b.nalu \notin Keys(ready)
    <3>1. \/ ready' = ready
          \/ \E unit : ready' = [ready EXCEPT ![b.nalu] = unit] /\ unit # <<>>
      BY <1>1, AddBlockMaps
    <3>2. QED  BY <1>2, <3>1 DEF Keys, TypeOK
  <2>4. /\ IsFiniteSet(Keys(ready')) /\ Keys(ready) \subseteq Keys(ready')
        /\ Cardinality(Keys(ready)) \in Nat
        /\ Cardinality(Keys(ready')) \in Nat
        /\ Cardinality(Keys(ready')) <= Cardinality(Keys(ready)) + 1
    <3>1. IsFiniteSet(Keys(ready)) /\ Cardinality(Keys(ready)) \in Nat
      BY FS_CardinalityType DEF Payment
    <3>2. CASE Keys(ready') = Keys(ready)
      BY <3>1, <3>2
    <3>3. CASE Keys(ready') = Keys(ready) \cup {b.nalu} /\ b.nalu \notin Keys(ready)
      <4>1. /\ IsFiniteSet(Keys(ready) \cup {b.nalu})
            /\ Cardinality(Keys(ready) \cup {b.nalu}) = Cardinality(Keys(ready)) + 1
        BY <3>1, <3>3, FS_AddElement
      <4>2. QED  BY <3>1, <3>3, <4>1
    <3>4. QED  BY <2>3, <3>2, <3>3
  <2>5. Consumed + Cardinality(Keys(ready')) <= stats'.assembledNalu
    BY <1>3, <1>4, <2>2, <2>4 DEF Payment
  <2>6. stats'.skippedNalu <= Consumed + IF next \in Keys(ready') THEN 1 ELSE 0
    BY <1>3, <1>4, <2>2, <2>4 DEF Payment
  <2>7. QED  BY <1>3, <2>4, <2>5, <2>6 DEF Payment
<1>7. QED  BY <1>1, <1>5, <1>6 DEF AddBlock

LEMMA PaymentTake ==
    ASSUME Inv, Payment, TakeStep
    PROVE  Payment'
<1>1. TypeOK
  BY DEF Inv
<1>2. Keys(ready') = Keys(ready) \ {next} /\ next \in Keys(ready)
  BY <1>1 DEF TakeStep, Keys, TypeOK
<1>3. /\ IsFiniteSet(Keys(ready')) /\ Cardinality(Keys(ready)) \in Nat
      /\ Cardinality(Keys(ready')) = Cardinality(Keys(ready)) - 1
  BY <1>2, FS_RemoveElement, FS_CardinalityType DEF Payment
<1>4. Consumed' = Consumed + 1 /\ Consumed \in Nat
  BY <1>1, ConsumedType, LenProperties DEF TakeStep, Consumed, TypeOK
<1>5. stats' = stats /\ stats.assembledNalu \in Nat /\ stats.skippedNalu \in Nat
  BY <1>1 DEF TakeStep, TypeOK
<1>6. stats.skippedNalu <= Consumed + 1 /\ Consumed + Cardinality(Keys(ready)) <= stats.assembledNalu
  BY <1>2 DEF Payment
<1>7. stats'.skippedNalu <= Consumed'
  BY <1>4, <1>5, <1>6
<1>8. Consumed' + Cardinality(Keys(ready')) <= stats'.assembledNalu
  BY <1>3, <1>4, <1>5, <1>6
<1>9. stats'.skippedNalu <= Consumed' + IF next' \in Keys(ready') THEN 1 ELSE 0
  BY <1>4, <1>5, <1>7
<1>10. QED  BY <1>3, <1>8, <1>9 DEF Payment

LEMMA PaymentSkip ==
    ASSUME Inv, Payment, SkipStep
    PROVE  Payment'
<1>1. TypeOK
  BY DEF Inv
<1>2. next \notin Keys(ready) /\ next' \in Keys(ready) /\ ready' = ready
  <2>1. next' \in Keys(ready) /\ (\A m \in Keys(ready) : next' <= m) /\ next < next' /\ ready' = ready
    BY DEF SkipStep, IsFirst
  <2>2. next \in Nat /\ next' \in Nat
    BY <1>1, NalusAssumption DEF TypeOK, SkipStep
  <2>3. QED  BY <2>1, <2>2
<1>3. Consumed' = Consumed /\ Consumed \in Nat
  BY <1>1, ConsumedType DEF SkipStep, Consumed
<1>4. /\ stats'.skippedNalu = stats.skippedNalu + 1 /\ stats.skippedNalu \in Nat
      /\ stats'.assembledNalu = stats.assembledNalu
  <2>1. stats \in [acceptedBlocks : Nat, expectedBlocks : Nat,
                   assembledNalu : Nat, skippedNalu : Nat]
    BY <1>1 DEF TypeOK
  <2>2. stats' = [stats EXCEPT !.skippedNalu = @ + 1]
    BY DEF SkipStep
  <2>3. QED  BY <2>1, <2>2
<1>5. stats.skippedNalu <= Consumed
  BY <1>2, <1>3 DEF Payment
<1>6. stats'.skippedNalu <= Consumed + 1
  BY <1>3, <1>4, <1>5
<1>7. QED  BY <1>2, <1>3, <1>4, <1>6 DEF Payment

LEMMA PaymentKept ==
    ASSUME Inv, Payment, DecodeAndDisplayNalu \/ ControlStep
    PROVE  Payment'
<1>1. TypeOK
  BY DEF Inv
<1>2. Consumed' = Consumed
  <2>1. CASE DecodeAndDisplayNalu
    BY <1>1, <2>1, AppendProperties, LenProperties, DisplayedUnit DEF DecodeAndDisplayNalu, Consumed
  <2>2. CASE ControlStep
    BY <2>2 DEF ControlStep, Consumed
  <2>3. QED  BY <2>1, <2>2
<1>3. UNCHANGED <<ready, next, stats>>
  BY DEF DecodeAndDisplayNalu, ControlStep, assemblyVars
<1>4. QED  BY <1>2, <1>3 DEF Payment

\* The player never counts more skipped than assembled units, at any instant, whatever
\* the network does and however the threads interleave (TimedOut against AddBlock).
\* (The theorem is about the counters; a line of the statistics file reads them apart.)
THEOREM SkipsPaidFor == Spec => []SkipsArePaidFor
<1>1. Init => Inv /\ Payment
  BY InvInit, PaymentInit
<1>2. Inv /\ Payment /\ [Next]_vars => Inv' /\ Payment'
  <2> SUFFICES ASSUME Inv, Payment, [Next]_vars PROVE Inv' /\ Payment'
    OBVIOUS
  <2>1. StepKind
    BY StepKinds DEF Inv
  <2>2. QED
    BY <2>1, InvNext, PaymentReceive, PaymentTake, PaymentSkip, PaymentKept DEF StepKind
<1>3. Inv /\ Payment => SkipsArePaidFor
  <2> SUFFICES ASSUME Inv, Payment PROVE SkipsArePaidFor
    OBVIOUS
  <2>1. Consumed \in Nat /\ stats.assembledNalu \in Nat /\ stats.skippedNalu \in Nat
    BY ConsumedType DEF Inv, TypeOK
  <2>2. Cardinality(Keys(ready)) \in Nat /\ (next \in Keys(ready) => Cardinality(Keys(ready)) # 0)
    BY FS_CardinalityType, FS_EmptySet DEF Payment
  <2>3. CASE next \in Keys(ready)
    <3>1. stats.skippedNalu <= Consumed + 1 /\ Consumed + Cardinality(Keys(ready)) <= stats.assembledNalu
      BY <2>3 DEF Payment
    <3>2. QED  BY <2>1, <2>2, <2>3, <3>1 DEF SkipsArePaidFor
  <2>4. CASE next \notin Keys(ready)
    <3>1. stats.skippedNalu <= Consumed /\ Consumed + Cardinality(Keys(ready)) <= stats.assembledNalu
      BY <2>1, <2>4 DEF Payment
    <3>2. QED  BY <2>1, <2>2, <3>1 DEF SkipsArePaidFor
  <2>5. QED  BY <2>3, <2>4
<1>4. QED  BY <1>1, <1>2, <1>3, PTL DEF Spec

-------------------------------------------------------------------------------
(* Why the playback thread returns. *)

\* A stop request stands only between Join and the assignment of the next thread.
RequestIsOld ==
    /\ token => run = "none" \/ owner = "assign"
    /\ run = "none" => owner = "idle"

LEMMA RequestInit == Init => RequestIsOld
BY DEF Init, RequestIsOld

LEMMA RunKeepsRequest ==
    ASSUME Run
    PROVE  UNCHANGED <<owner, token>> /\ run # "none" /\ run' # "none"
<1> USE DEF assemblyVars
<1>1. CASE CreateWindowAndRenderer \/ TestStop \/ PollEvents
  BY <1>1 DEF CreateWindowAndRenderer, TestStop, PollEvents
<1>2. CASE EnterWait \/ WakeUp
  BY <1>2 DEF EnterWait, WakeUp, GoOn, Wait
<1>3. CASE FallAsleep \/ Expire \/ DecodeAndDisplayNalu
  BY <1>3 DEF FallAsleep, Expire, DecodeAndDisplayNalu
<1>4. CASE TimedOut
  BY <1>4 DEF TimedOut, GoOn, SkipMissing
<1>5. QED  BY <1>1, <1>2, <1>3, <1>4 DEF Run

LEMMA ReceiveKeepsRequest ==
    ASSUME ReceiveBlock
    PROVE  /\ UNCHANGED <<owner, token>>
           /\ run' = run \/ (run = "waiting" /\ run' = "woken")
<1>1. PICK b \in Block : AddBlock(b.block, b.nalu, Size[b.stream][b.nalu], b)
  BY DEF ReceiveBlock
<1>2. UNCHANGED <<owner, token>>
  BY <1>1 DEF AddBlock
<1>3. UNCHANGED run \/ Notify
  BY <1>1 DEF AddBlock, RejectBlock, StoreBlock, CompleteNalu
<1>4. QED  BY <1>2, <1>3 DEF Notify

LEMMA RequestNext == RequestIsOld /\ [Next]_vars => RequestIsOld'
<1> SUFFICES ASSUME RequestIsOld, [Next]_vars PROVE RequestIsOld'
  OBVIOUS
<1>1. CASE ReceiveBlock
  BY <1>1, ReceiveKeepsRequest DEF RequestIsOld
<1>2. CASE Run
  BY <1>2, RunKeepsRequest DEF RequestIsOld
<1>3. CASE Start
  BY <1>3 DEF Start, RequestIsOld
<1>4. CASE AssignThread
  BY <1>4 DEF AssignThread, RequestIsOld
<1>5. CASE Stop
  BY <1>5 DEF Stop, RaiseStop, NotifyAll, Notify, Join, RequestIsOld
<1>6. CASE UNCHANGED vars
  BY <1>6 DEF vars, RequestIsOld
<1>7. QED  BY <1>1, <1>2, <1>3, <1>4, <1>5, <1>6 DEF Next

\* Run returns with _stop up, without a window, or, on a restart, with the stop token
\* of the thread before still in _playerThread (Start, Stop, the condition of Run).
THEOREM ReturnIsExplained == Spec => ReturnsForAReason
<1>1. RequestIsOld /\ [Next]_vars =>
        [run # "returned" /\ run' = "returned" =>
             stop \/ run = "create" \/ (owner = "assign" /\ token)]_vars
  <2> SUFFICES ASSUME RequestIsOld, Next, run # "returned", run' = "returned"
               PROVE  stop \/ run = "create" \/ (owner = "assign" /\ token)
    OBVIOUS
  <2>1. CASE Run
    <3>1. CASE CreateWindowAndRenderer
      BY <3>1 DEF CreateWindowAndRenderer
    <3>2. CASE TestStop
      BY <3>2 DEF TestStop, RequestIsOld
    <3>3. CASE PollEvents \/ FallAsleep \/ Expire \/ DecodeAndDisplayNalu
      BY <3>3 DEF PollEvents, FallAsleep, Expire, DecodeAndDisplayNalu
    <3>4. CASE EnterWait \/ WakeUp \/ TimedOut
      BY <3>4 DEF EnterWait, WakeUp, TimedOut, GoOn, Wait, SkipMissing
    <3>5. QED  BY <2>1, <3>1, <3>2, <3>3, <3>4 DEF Run
  <2>2. CASE ReceiveBlock
    BY <2>2, ReceiveKeepsRequest
  <2>3. CASE Start \/ AssignThread
    BY <2>3 DEF Start, AssignThread
  <2>4. CASE Stop
    BY <2>4 DEF Stop, RaiseStop, NotifyAll, Notify, Join
  <2>5. QED  BY <2>1, <2>2, <2>3, <2>4 DEF Next
<1>2. QED  BY <1>1, RequestInit, RequestNext, PTL DEF Spec, ReturnsForAReason
===============================================================================
