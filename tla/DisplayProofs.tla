---------------------------- MODULE DisplayProofs -----------------------------
(***************************************************************************)
(* Proofs about Display, for every set of sizes and pixel formats and      *)
(* every bound.                                                            *)
(***************************************************************************)
EXTENDS Display, TLAPS, SequenceTheorems

\* Where the owner may be while there is a thread, and what it holds then.
Lifecycle ==
    /\ owner \in {"ready", "join", "destroy"} => library = Libraries
    /\ owner \in {"construct", "destroyed", "exited"} => thread = "none"
    /\ thread = "create" => ~window /\ texture = None

\* The texture is gone only for one of the two reasons ...
TextureExcused ==
    known # None /\ texture = None => amiss \cap {"no texture", "window closed"} # {}

\* ... and outside the loop that reads a unit's frames, frames wait in the decoder
\* only when they were left there.
LeftExcused == thread # "receive" /\ output # <<>> => "frames left" \in amiss

Inv ==
    /\ TypeOK
    /\ Lifecycle /\ NothingInUseIsFreed
    /\ TextureExcused /\ LeftExcused

-------------------------------------------------------------------------------
(* The types. *)

LEMMA RenderType ==
    ASSUME NEW frame \in Frame, NEW on \in Sizes \cup {None},
           rendered \in Seq(Shown),
           RenderFrame(frame, on)
    PROVE  /\ rendered' \in Seq(Shown)
           /\ Len(rendered') = Len(rendered) + 1
           /\ rendered'[Len(rendered')] = [frame |-> frame, texture |-> on]
<1>1. [frame |-> frame, texture |-> on] \in Shown
  BY DEF Shown
<1>2. QED  BY <1>1 DEF RenderFrame

LEMMA TakeOutputType ==
    ASSUME output \in Seq(Frame), made \in 0..MaxFrames, full \in BOOLEAN, TakeOutput
    PROVE  /\ Head(output) \in Frame
           /\ Head(output).format \in Formats
           /\ Head(output).format.size \in Sizes
           /\ Head(output).number \in 1..MaxFrames
           /\ output' \in Seq(Frame)
           /\ full' \in BOOLEAN
           /\ made' \in 0..MaxFrames
<1>1. Head(output) \in Frame /\ output' \in Seq(Frame)
  BY DEF TakeOutput
<1>2. QED  BY <1>1 DEF TakeOutput, Frame, Formats

LEMMA LeavingType ==
    ASSUME NEW frames, NEW others \in SUBSET Faults
    PROVE  /\ Leaving(frames, others) \in SUBSET Faults
           /\ frames # <<>> => "frames left" \in Leaving(frames, others)
           /\ Leaving(frames, others) \cap {"no texture", "window closed"}
                  = others \cap {"no texture", "window closed"}
BY DEF Leaving, Faults

LEMMA NewFramesType ==
    ASSUME made \in 0..MaxFrames, NEW frames \in NewFrames
    PROVE  frames \in Seq(Frame) /\ made + Len(frames) \in 0..MaxFrames
<1> USE BoundsAssumption
<1>1. PICK k \in 0..(MaxFrames - made) : frames \in [1..k -> Frame]
  BY DEF NewFrames
<1>2. k \in Nat /\ made + k \in 0..MaxFrames
  OBVIOUS
<1>3. frames \in Seq(Frame) /\ Len(frames) = k
  BY <1>1, <1>2
<1>4. QED  BY <1>2, <1>3

-------------------------------------------------------------------------------
(* The invariant. *)

LEMMA InvInit == Init => Inv
<1> SUFFICES ASSUME Init PROVE Inv
  OBVIOUS
<1> USE DEF Init
<1>1. TypeOK
  <2>1. 0 \in 0..MaxFrames
    BY BoundsAssumption
  <2>2. output \in Seq(Frame) /\ rendered \in Seq(Shown)
    OBVIOUS
  <2>3. /\ dropped \in SUBSET (1..MaxFrames) /\ amiss \in SUBSET Faults
        /\ library \in SUBSET Libraries
    OBVIOUS
  <2>4. texture # None => known # None /\ texture = known.size
    OBVIOUS
  <2>5. /\ owner \in {"construct", "ready", "join", "destroy", "destroyed", "exited"}
        /\ thread \in Running \cup {"none", "returned"}
    OBVIOUS
  <2>6. QED  BY <2>1, <2>2, <2>3, <2>4, <2>5 DEF TypeOK
<1>2. Lifecycle /\ NothingInUseIsFreed
  BY DEF Lifecycle, NothingInUseIsFreed, Running
<1>3. TextureExcused /\ LeftExcused
  BY DEF TextureExcused, LeftExcused
<1>4. QED  BY <1>1, <1>2, <1>3 DEF Inv

\* The owner's steps and those of the window.
OwnerStep == Construct \/ Start \/ Stop \/ Join \/ Destroy
WindowStep == CreateWindowAndRenderer \/ DestroyWindowAndRenderer

LEMMA TypeOwner ==
    ASSUME TypeOK, OwnerStep \/ WindowStep
    PROVE  TypeOK'
<1> USE DEF TypeOK, ownerVars, windowVars, decoderVars, historyVars, Libraries, Running
<1>1. CASE Construct
  BY <1>1 DEF Construct
<1>2. CASE Start \/ Stop
  <2>1. starts' \in Nat
    BY <1>2 DEF Start, Stop
  <2>2. QED  BY <1>2, <2>1 DEF Start, Stop
<1>3. CASE Join \/ Destroy
  BY <1>3 DEF Join, Destroy
<1>4. CASE CreateWindowAndRenderer
  BY <1>4 DEF CreateWindowAndRenderer
<1>5. CASE DestroyWindowAndRenderer
  BY <1>5 DEF DestroyWindowAndRenderer, Faults
<1>6. QED  BY <1>1, <1>2, <1>3, <1>4, <1>5 DEF OwnerStep, WindowStep

LEMMA TypeSend ==
    ASSUME TypeOK, AllocatePacket \/ SendPacket \/ Refused
    PROVE  TypeOK'
<1> USE DEF ownerVars, windowVars, decoderVars, historyVars
<1>1. CASE AllocatePacket
  BY <1>1 DEF AllocatePacket, TypeOK, Running
<1>2. CASE SendPacket
  <2>1. PICK frames \in NewFrames : output' = output \o frames /\ made' = made + Len(frames)
    BY <1>2 DEF SendPacket
  <2>2. output' \in Seq(Frame) /\ made' \in 0..MaxFrames
    BY <2>1, NewFramesType DEF TypeOK
  <2>3. full' \in BOOLEAN /\ thread' = "receive"
    BY <1>2 DEF SendPacket
  <2>4. UNCHANGED <<ownerVars, windowVars, units, historyVars>>
    BY <1>2 DEF SendPacket
  <2>5. QED  BY <2>2, <2>3, <2>4 DEF TypeOK, Running
<1>3. CASE Refused
  BY <1>3 DEF Refused, TypeOK, Running
<1>4. QED  BY <1>1, <1>2, <1>3

LEMMA TypeRead ==
    ASSUME TypeOK, DrainFrame \/ ReceiveFrame \/ ReceiveFirstOfFormat \/ TextureFails
    PROVE  TypeOK'
<1> USE DEF ownerVars, windowVars, historyVars
<1>1. TakeOutput
  BY DEF DrainFrame, ReceiveFrame, ReceiveFirstOfFormat, TextureFails
<1>2. /\ Head(output) \in Frame
      /\ Head(output).format \in Formats
      /\ Head(output).format.size \in Sizes
      /\ Head(output).number \in 1..MaxFrames
      /\ output' \in Seq(Frame) /\ full' \in BOOLEAN /\ made' \in 0..MaxFrames
  BY <1>1, TakeOutputType DEF TypeOK
<1>3. CASE DrainFrame \/ ReceiveFrame
  <2>1. rendered' \in Seq(Shown)
    BY <1>2, <1>3, RenderType DEF DrainFrame, ReceiveFrame, TypeOK
  <2>2. UNCHANGED <<ownerVars, thread, windowVars, units, dropped, amiss>>
    BY <1>3 DEF DrainFrame, ReceiveFrame
  <2>3. QED  BY <1>2, <2>1, <2>2 DEF TypeOK
<1>4. CASE ReceiveFirstOfFormat
  <2>1. known' = Head(output).format /\ texture' = Head(output).format.size
    BY <1>4 DEF ReceiveFirstOfFormat
  <2>2. rendered' \in Seq(Shown)
    BY <1>2, <1>4, <2>1, RenderType DEF ReceiveFirstOfFormat, TypeOK
  <2>3. /\ amiss' \subseteq amiss
        /\ UNCHANGED <<ownerVars, thread, window, units, dropped>>
    BY <1>4 DEF ReceiveFirstOfFormat
  <2>4. known' # None
    BY <1>2, <2>1, NoneAssumption
  <2>5. QED  BY <1>2, <2>1, <2>2, <2>3, <2>4 DEF TypeOK
<1>5. CASE TextureFails
  <2>1. /\ known' = Head(output).format /\ texture' = None /\ thread' = "loop"
        /\ dropped' = dropped \cup {Head(output).number}
        /\ UNCHANGED <<ownerVars, window, units, rendered>>
    BY <1>5 DEF TextureFails
  <2>2. amiss' \in SUBSET Faults
    <3>1. amiss \cup {"no texture"} \in SUBSET Faults
      BY DEF TypeOK, Faults
    <3>2. QED  BY <1>5, <3>1, LeavingType DEF TextureFails
  <2>3. QED  BY <1>2, <2>1, <2>2 DEF TypeOK, Running
<1>6. QED  BY <1>3, <1>4, <1>5

LEMMA TypeReturn ==
    ASSUME TypeOK, DrainEnd \/ ReceiveEnd \/ DecoderFails
    PROVE  TypeOK'
<1> USE DEF ownerVars, windowVars, decoderVars
<1>1. amiss' \in SUBSET Faults
  <2>1. amiss \in SUBSET Faults
    BY DEF TypeOK
  <2>2. amiss' = Leaving(<<>>, amiss) \/ amiss' = Leaving(output, amiss)
    BY DEF DrainEnd, ReceiveEnd, DecoderFails
  <2>3. QED  BY <2>1, <2>2 DEF Leaving, Faults
<1>2. /\ thread' \in {"send", "loop"}
      /\ UNCHANGED <<ownerVars, windowVars, units, decoderVars, rendered, dropped>>
  BY DEF DrainEnd, ReceiveEnd, DecoderFails
<1>3. QED  BY <1>1, <1>2 DEF TypeOK, Running
LEMMA StepKinds ==
    ASSUME [Next]_vars
    PROVE  \/ OwnerStep
           \/ WindowStep
           \/ AllocatePacket \/ SendPacket \/ Refused
           \/ DrainFrame \/ ReceiveFrame \/ ReceiveFirstOfFormat \/ TextureFails
           \/ DrainEnd \/ ReceiveEnd \/ DecoderFails
           \/ UNCHANGED vars
BY DEF Next, OwnerStep, WindowStep, DecodeAndDisplayNalu

LEMMA TypeNext == TypeOK /\ [Next]_vars => TypeOK'
<1> SUFFICES ASSUME TypeOK, [Next]_vars PROVE TypeOK'
  OBVIOUS
<1>1. CASE UNCHANGED vars
  BY <1>1 DEF TypeOK, vars, ownerVars, windowVars, decoderVars, historyVars
<1>2. QED
  BY <1>1, StepKinds, TypeOwner, TypeSend, TypeRead, TypeReturn

-------------------------------------------------------------------------------
(* The life of the thread, its window and the decoder. *)

LEMMA LifecycleNext ==
    Lifecycle /\ NothingInUseIsFreed /\ [Next]_vars => Lifecycle' /\ NothingInUseIsFreed'
<1> SUFFICES ASSUME Lifecycle, NothingInUseIsFreed, [Next]_vars
             PROVE  Lifecycle' /\ NothingInUseIsFreed'
  OBVIOUS
<1> USE DEF Lifecycle, NothingInUseIsFreed, Running
<1>1. CASE OwnerStep
  BY <1>1 DEF OwnerStep, Construct, Start, Stop, Join, Destroy, windowVars
<1>2. CASE WindowStep
  <2>1. CASE CreateWindowAndRenderer
    <3>1. /\ (thread' = "loop" /\ window') \/ (thread' = "returned" /\ ~window')
          /\ texture' = None /\ UNCHANGED <<owner, library>>
      BY <2>1 DEF CreateWindowAndRenderer, ownerVars
    <3>2. thread = "create"
      BY <2>1 DEF CreateWindowAndRenderer
    <3>3. QED  BY <3>1, <3>2
  <2>2. CASE DestroyWindowAndRenderer
    BY <2>2 DEF DestroyWindowAndRenderer, ownerVars
  <2>3. QED  BY <1>2, <2>1, <2>2 DEF WindowStep
<1>3. CASE UNCHANGED vars
  BY <1>3 DEF vars, ownerVars, windowVars
<1>4. CASE /\ thread \in Running \ {"create"} /\ thread' \in Running \ {"create"}
           /\ UNCHANGED <<owner, library, window>>
  BY <1>4
<1>5. CASE AllocatePacket \/ SendPacket \/ Refused
  BY <1>4, <1>5 DEF AllocatePacket, SendPacket, Refused, ownerVars, windowVars
<1>6. CASE DrainFrame \/ ReceiveFrame \/ ReceiveFirstOfFormat \/ TextureFails
  BY <1>4, <1>6 DEF DrainFrame, ReceiveFrame, ReceiveFirstOfFormat, TextureFails,
                    ownerVars, windowVars
<1>7. CASE DrainEnd \/ ReceiveEnd \/ DecoderFails
  BY <1>4, <1>7 DEF DrainEnd, ReceiveEnd, DecoderFails, ownerVars, windowVars
<1>8. QED  BY <1>1, <1>2, <1>3, <1>5, <1>6, <1>7, StepKinds

-------------------------------------------------------------------------------
(* Why a frame may be rendered on no texture, or on one of another size. *)

LEMMA ExcuseNext ==
    TypeOK /\ TextureExcused /\ LeftExcused /\ [Next]_vars => TextureExcused' /\ LeftExcused'
<1> SUFFICES ASSUME TypeOK, TextureExcused, LeftExcused, [Next]_vars
             PROVE  TextureExcused' /\ LeftExcused'
  OBVIOUS
<1> USE DEF TextureExcused, LeftExcused
<1>1. CASE OwnerStep
  <2>1. UNCHANGED <<texture, known, output, amiss>> /\ (thread = "receive") = (thread' = "receive")
    BY <1>1 DEF OwnerStep, Construct, Start, Stop, Join, Destroy,
                windowVars, decoderVars, historyVars
  <2>2. QED  BY <2>1
<1>2. CASE CreateWindowAndRenderer
  BY <1>2 DEF CreateWindowAndRenderer, decoderVars, historyVars
<1>3. CASE DestroyWindowAndRenderer
  BY <1>3 DEF DestroyWindowAndRenderer, decoderVars
<1>4. CASE UNCHANGED vars
  BY <1>4 DEF vars, windowVars, decoderVars, historyVars
<1>5. CASE AllocatePacket \/ Refused
  BY <1>5 DEF AllocatePacket, Refused, windowVars, decoderVars, historyVars
<1>6. CASE SendPacket
  BY <1>6 DEF SendPacket, windowVars, historyVars
<1>7. CASE DrainFrame
  BY <1>7 DEF DrainFrame, TakeOutput, windowVars
<1>8. CASE ReceiveFrame
  BY <1>8 DEF ReceiveFrame, windowVars
<1>9. CASE ReceiveFirstOfFormat
  <2>1. texture' # None
    <3>1. Head(output).format.size \in Sizes
      BY <1>9, TakeOutputType DEF ReceiveFirstOfFormat, TypeOK
    <3>2. QED  BY <1>9, <3>1, NoneAssumption DEF ReceiveFirstOfFormat
  <2>2. thread' = "receive"
    BY <1>9 DEF ReceiveFirstOfFormat
  <2>3. QED  BY <2>1, <2>2
<1>10. CASE TextureFails
  BY <1>10 DEF TextureFails, Leaving
<1>11. CASE DrainEnd \/ ReceiveEnd \/ DecoderFails
  BY <1>11 DEF DrainEnd, ReceiveEnd, DecoderFails, Leaving, windowVars, decoderVars
<1>12. QED
  BY <1>1, <1>2, <1>3, <1>4, <1>5, <1>6, <1>7, <1>8, <1>9, <1>10, <1>11, StepKinds
     DEF WindowStep

LEMMA InvNext == Inv /\ [Next]_vars => Inv'
BY TypeNext, LifecycleNext, ExcuseNext DEF Inv

THEOREM Invariance == Spec => []Inv
BY InvInit, InvNext, PTL DEF Spec

\* Every variable keeps its type, and a texture the size stored beside it.
THEOREM TypeCorrect == Spec => []TypeOK
<1>1. Inv => TypeOK
  BY DEF Inv
<1>2. QED  BY <1>1, Invariance, PTL

\* Neither Stop nor the destructor frees what the playback thread uses, and a thread
\* that has returned leaves no window (~Player, Cleanup, Run).
THEOREM NothingFreedInUse == Spec => []NothingInUseIsFreed
<1>1. Inv => NothingInUseIsFreed
  BY DEF Inv
<1>2. QED  BY <1>1, Invariance, PTL

\* A frame is rendered on a texture of its size but for the two failures named in
\* FramesFitTexture (DecodeAndDisplayNalu, RenderFrame).
THEOREM FramesFit == Spec => FramesFitTexture
<1> DEFINE last == rendered'[Len(rendered')]
           Fits == \/ last.texture = last.frame.format.size
                   \/ last.texture = None /\ amiss \cap {"no texture", "window closed"} # {}
                   \/ thread = "drain" /\ "frames left" \in amiss
<1>1. Inv /\ [Next]_vars => [rendered' # rendered => Fits]_vars
  <2> SUFFICES ASSUME Inv, [Next]_vars, rendered' # rendered PROVE Fits
    OBVIOUS
  <2> USE DEF Inv
  <2>1. CASE DrainFrame
    <3>1. output # <<>> /\ thread = "drain"
      BY <2>1 DEF DrainFrame, TakeOutput
    <3>2. QED  BY <3>1 DEF LeftExcused
  <2>2. CASE ReceiveFrame
    <3>1. last = [frame |-> Head(output), texture |-> texture]
      <4>1. Head(output) \in Frame
        BY <2>2, TakeOutputType DEF ReceiveFrame, TypeOK
      <4>2. QED  BY <2>2, <4>1, RenderType DEF ReceiveFrame, TypeOK
    <3>2. known = Head(output).format /\ Head(output).format \in Formats
      BY <2>2, TakeOutputType DEF ReceiveFrame, NeedsTexture, TypeOK
    <3>3. known # None
      BY <3>2, NoneAssumption
    <3>4. last.texture = texture /\ last.frame.format = Head(output).format
      BY <3>1
    <3>5. CASE texture = None
      <4>1. amiss \cap {"no texture", "window closed"} # {}
        BY <3>3, <3>5 DEF TextureExcused
      <4>2. last.texture = None
        BY <3>4, <3>5
      <4>3. QED  BY <4>1, <4>2
    <3>6. CASE texture # None
      <4>1. texture = known.size
        BY <3>6 DEF TypeOK
      <4>2. last.texture = last.frame.format.size
        BY <3>2, <3>4, <4>1
      <4>3. QED  BY <4>2
    <3>7. QED  BY <3>5, <3>6
  <2>3. CASE ReceiveFirstOfFormat
    <3>1. Head(output) \in Frame /\ Head(output).format.size \in Sizes
      BY <2>3, TakeOutputType DEF ReceiveFirstOfFormat, TypeOK
    <3>2. RenderFrame(Head(output), Head(output).format.size)
      BY <2>3 DEF ReceiveFirstOfFormat
    <3>3. last = [frame |-> Head(output), texture |-> Head(output).format.size]
      BY <3>1, <3>2, RenderType DEF TypeOK
    <3>4. QED  BY <3>3
  <2>4. CASE OwnerStep \/ WindowStep
    BY <2>4 DEF OwnerStep, Construct, Start, Stop, Join, Destroy, WindowStep,
                CreateWindowAndRenderer, DestroyWindowAndRenderer, historyVars
  <2>5. CASE AllocatePacket \/ SendPacket \/ Refused
    BY <2>5 DEF AllocatePacket, SendPacket, Refused, historyVars
  <2>6. CASE TextureFails \/ DrainEnd \/ ReceiveEnd \/ DecoderFails
    BY <2>6 DEF TextureFails, DrainEnd, ReceiveEnd, DecoderFails
  <2>7. CASE UNCHANGED vars
    BY <2>7 DEF vars, historyVars
  <2>8. QED  BY <2>1, <2>2, <2>3, <2>4, <2>5, <2>6, <2>7, StepKinds
<1>2. QED  BY <1>1, Invariance, PTL DEF Spec, FramesFitTexture

-------------------------------------------------------------------------------
(* The frames between decoder and screen. *)

\* Only frames that were made have been dropped.
ShownInv == TypeOK /\ EveryFrameShownOnce /\ dropped \subseteq 1..made

NumbersOf(shown, ready) ==
    [i \in 1..(Len(shown) + Len(ready)) |->
        IF i <= Len(shown) THEN shown[i].frame.number ELSE ready[i - Len(shown)].number]

LEMMA NumbersOfFrames ==
    ASSUME NEW shown \in Seq(Shown), NEW ready \in Seq(Frame)
    PROVE  LET numbers == NumbersOf(shown, ready) IN
           /\ Len(shown) \in Nat /\ Len(ready) \in Nat
           /\ DOMAIN numbers = 1..(Len(shown) + Len(ready))
           /\ \A i \in 1..Len(shown) : numbers[i] = shown[i].frame.number
           /\ \A i \in 1..Len(ready) : numbers[Len(shown) + i] = ready[i].number
<1> DEFINE numbers == NumbersOf(shown, ready)
<1>1. Len(shown) \in Nat /\ Len(ready) \in Nat
  BY LenProperties
<1>2. DOMAIN numbers = 1..(Len(shown) + Len(ready))
  BY DEF NumbersOf
<1>3. ASSUME NEW i \in 1..Len(shown)
      PROVE  numbers[i] = shown[i].frame.number
  <2>1. i \in 1..(Len(shown) + Len(ready)) /\ i <= Len(shown)
    BY <1>1
  <2>2. QED  BY <2>1 DEF NumbersOf
<1>4. ASSUME NEW i \in 1..Len(ready)
      PROVE  numbers[Len(shown) + i] = ready[i].number
  <2>1. /\ Len(shown) + i \in 1..(Len(shown) + Len(ready))
        /\ ~(Len(shown) + i <= Len(shown))
        /\ (Len(shown) + i) - Len(shown) = i
    BY <1>1
  <2>2. QED  BY <2>1 DEF NumbersOf
<1>5. QED  BY <1>1, <1>2, <1>3, <1>4

LEMMA NumbersAre ==
    ASSUME TypeOK
    PROVE  /\ Len(rendered) \in Nat /\ Len(output) \in Nat
           /\ DOMAIN Numbers = 1..(Len(rendered) + Len(output))
           /\ \A i \in 1..Len(rendered) : Numbers[i] = rendered[i].frame.number
           /\ \A i \in 1..Len(output) : Numbers[Len(rendered) + i] = output[i].number
<1>1. Numbers = NumbersOf(rendered, output)
  BY DEF Numbers, NumbersOf
<1>2. QED  BY <1>1, NumbersOfFrames DEF TypeOK

LEMMA NumbersAreNext ==
    ASSUME TypeOK'
    PROVE  /\ DOMAIN Numbers' = 1..(Len(rendered') + Len(output'))
           /\ \A i \in 1..Len(rendered') : Numbers'[i] = rendered'[i].frame.number
           /\ \A i \in 1..Len(output') : Numbers'[Len(rendered') + i] = output'[i].number
<1>1. Numbers' = NumbersOf(rendered', output')
  BY DEF Numbers, NumbersOf
<1>2. rendered' \in Seq(Shown) /\ output' \in Seq(Frame)
  BY DEF TypeOK
<1>3. QED  BY <1>1, <1>2, NumbersOfFrames

LEMMA NumbersType ==
    ASSUME TypeOK
    PROVE  \A i \in DOMAIN Numbers : Numbers[i] \in Nat
<1> SUFFICES ASSUME NEW i \in DOMAIN Numbers PROVE Numbers[i] \in Nat
  OBVIOUS
<1>1. i \in 1..(Len(rendered) + Len(output)) /\ Len(rendered) \in Nat /\ Len(output) \in Nat
  BY NumbersAre
<1>2. CASE i <= Len(rendered)
  <2>1. i \in 1..Len(rendered)
    BY <1>1, <1>2
  <2>2. rendered[i] \in Shown
    BY <2>1, ElementOfSeq DEF TypeOK
  <2>3. QED  BY <2>1, <2>2, NumbersAre DEF Shown, Frame
<1>3. CASE ~(i <= Len(rendered))
  <2> DEFINE k == i - Len(rendered)
  <2>1. k \in 1..Len(output) /\ i = Len(rendered) + k
    BY <1>1, <1>3
  <2>2. output[k] \in Frame
    BY <2>1, ElementOfSeq DEF TypeOK
  <2> HIDE DEF k
  <2>3. QED  BY <2>1, <2>2, NumbersAre DEF Frame
<1>4. QED  BY <1>2, <1>3

LEMMA ShownInit == Init => ShownInv
<1> SUFFICES ASSUME Init PROVE ShownInv
  OBVIOUS
<1>1. TypeOK
  BY InvInit DEF Inv
<1>2. Len(rendered) = 0 /\ Len(output) = 0 /\ made = 0 /\ dropped = {}
  BY DEF Init
<1>3. DOMAIN Numbers = {}
  BY <1>1, <1>2, NumbersAre
<1>4. QED  BY <1>1, <1>2, <1>3 DEF ShownInv, EveryFrameShownOnce

\* A step that leaves the frames where they are.
LEMMA ShownKept ==
    ASSUME ShownInv, TypeOK', Numbers' = Numbers, UNCHANGED <<made, dropped>>
    PROVE  ShownInv'
BY DEF ShownInv, EveryFrameShownOnce

\* The frames the decoder makes are numbered on and come behind all the others.
LEMMA ShownSend ==
    ASSUME ShownInv, SendPacket, TypeOK'
    PROVE  ShownInv'
<1> DEFINE r == Len(rendered)
           o == Len(output)
<1>1. PICK frames \in NewFrames : output' = output \o frames /\ made' = made + Len(frames)
  BY DEF SendPacket
<1>2. rendered' = rendered /\ dropped' = dropped
  BY DEF SendPacket, historyVars
<1>3. PICK k \in 0..(MaxFrames - made) :
          frames \in {f \in [1..k -> Frame] : \A i \in 1..k : f[i].number = made + i}
  BY DEF NewFrames
<1>4. /\ frames \in Seq(Frame) /\ Len(frames) = k /\ k \in Nat /\ made \in Nat
      /\ \A i \in 1..k : frames[i].number = made + i
  <2>1. made \in 0..MaxFrames /\ MaxFrames \in Nat
    BY BoundsAssumption DEF ShownInv, TypeOK
  <2>2. k \in Nat /\ made \in Nat
    BY <2>1
  <2>3. frames \in [1..k -> Frame] /\ \A i \in 1..k : frames[i].number = made + i
    BY <1>3
  <2>4. frames \in Seq(Frame) /\ Len(frames) = k
    BY <2>2, <2>3
  <2>5. QED  BY <2>2, <2>3, <2>4
<1>5. /\ Len(output') = o + k /\ o \in Nat /\ r \in Nat
      /\ \A i \in 1..o : output'[i] = output[i]
      /\ \A i \in 1..k : output'[o + i] = frames[i]
  <2>1. output \in Seq(Frame) /\ o \in Nat /\ r \in Nat
    BY NumbersAre DEF ShownInv, TypeOK
  <2> HIDE DEF r
  <2>2. /\ Len(output') = o + k
        /\ \A i \in 1..(o + k) : output'[i] = IF i <= o THEN output[i] ELSE frames[i - o]
    BY <1>1, <1>4, <2>1, ConcatProperties
  <2> HIDE DEF o
  <2>3. ASSUME NEW i \in 1..o
        PROVE  output'[i] = output[i]
    <3>1. i \in 1..(o + k) /\ i <= o
      BY <1>4, <2>1
    <3>2. QED  BY <2>2, <3>1
  <2>4. ASSUME NEW i \in 1..k
        PROVE  output'[o + i] = frames[i]
    <3>1. o + i \in 1..(o + k) /\ ~(o + i <= o) /\ (o + i) - o = i
      BY <1>4, <2>1
    <3>2. QED  BY <2>2, <3>1
  <2>5. QED  BY <2>1, <2>2, <2>3, <2>4
<1>6. DOMAIN Numbers = 1..(r + o) /\ (DOMAIN Numbers)' = 1..(r + o + k)
  <2>1. (DOMAIN Numbers)' = 1..(Len(rendered') + Len(output'))
    BY DEF Numbers
  <2>2. QED  BY <1>2, <1>5, <2>1, NumbersAre DEF ShownInv
<1>7. ASSUME NEW i \in 1..(r + o)
      PROVE  Numbers'[i] = Numbers[i]
  <2>1. i \in 1..Len(rendered') \/ i - r \in 1..o
    BY <1>2, <1>5
  <2>2. CASE i <= r
    BY <1>2, <1>5, <1>6, <2>2 DEF Numbers
  <2>3. CASE ~(i <= r)
    <3>1. i - r \in 1..o
      BY <1>5, <2>3
    <3>2. output'[i - r] = output[i - r]
      BY <1>5, <3>1
    <3>3. QED  BY <1>2, <1>5, <1>6, <2>3, <3>2 DEF Numbers
  <2>4. QED  BY <2>2, <2>3
<1>8. ASSUME NEW i \in 1..k
      PROVE  Numbers'[r + o + i] = made + i
  <2>1. /\ r + o + i \in 1..(Len(rendered') + Len(output'))
        /\ ~(r + o + i <= Len(rendered'))
        /\ (r + o + i) - Len(rendered') = o + i
    BY <1>2, <1>4, <1>5
  <2>2. Numbers'[r + o + i] = output'[o + i].number
    BY <2>1 DEF Numbers
  <2>3. QED  BY <1>4, <1>5, <2>2
<1> HIDE DEF r, o
<1>9. \A i \in 1..(r + o) : Numbers[i] \in 1..made /\ Numbers[i] \in Nat
  <2>1. \A i \in DOMAIN Numbers : Numbers[i] \in (1..made) \ dropped
    BY DEF ShownInv, EveryFrameShownOnce
  <2>2. QED  BY <1>6, <2>1
<1>10. ASSUME NEW i \in 1..(r + o + k), NEW j \in 1..(r + o + k), i < j
       PROVE  Numbers'[i] < Numbers'[j]
  <2>1. CASE j \in 1..(r + o)
    <3>1. i \in 1..(r + o)
      BY <1>4, <1>5, <1>10, <2>1 DEF r, o
    <3>2. Numbers[i] < Numbers[j]
      BY <1>6, <1>10, <2>1, <3>1 DEF ShownInv, EveryFrameShownOnce
    <3>3. QED  BY <1>7, <2>1, <3>1, <3>2
  <2>2. CASE j \notin 1..(r + o)
    <3>1. PICK b \in 1..k : j = r + o + b
      <4>1. j - (r + o) \in 1..k /\ j = r + o + (j - (r + o))
        BY <1>4, <1>5, <2>2 DEF r, o
      <4>2. QED  BY <4>1
    <3>2. Numbers'[j] = made + b
      BY <1>8, <3>1
    <3>3. CASE i \in 1..(r + o)
      BY <1>4, <1>7, <1>9, <3>2, <3>3
    <3>4. CASE i \notin 1..(r + o)
      <4>1. PICK a \in 1..k : i = r + o + a
        <5>1. i - (r + o) \in 1..k /\ i = r + o + (i - (r + o))
          BY <1>4, <1>5, <3>4 DEF r, o
        <5>2. QED  BY <5>1
      <4>2. Numbers'[i] = made + a
        BY <1>8, <4>1
      <4>3. a < b
        BY <1>4, <1>5, <1>10, <3>1, <4>1 DEF r, o
      <4>4. QED  BY <1>4, <3>2, <4>2, <4>3
    <3>5. QED  BY <3>3, <3>4
  <2>3. QED  BY <2>1, <2>2
<1>11. {Numbers'[i] : i \in 1..(r + o + k)} = (1..made') \ dropped'
  <2>1. {Numbers[i] : i \in 1..(r + o)} = (1..made) \ dropped
    BY <1>6 DEF ShownInv, EveryFrameShownOnce
  <2>2. dropped \subseteq 1..made /\ made' = made + k
    BY <1>1, <1>4 DEF ShownInv
  <2>3. ASSUME NEW i \in 1..(r + o + k)
        PROVE  Numbers'[i] \in (1..made') \ dropped'
    <3>1. CASE i \in 1..(r + o)
      <4>1. Numbers'[i] \in (1..made) \ dropped
        BY <1>7, <2>1, <3>1
      <4>2. QED  BY <1>2, <1>4, <2>2, <4>1
    <3>2. CASE i \notin 1..(r + o)
      <4>1. PICK a \in 1..k : i = r + o + a
        <5>1. i - (r + o) \in 1..k /\ i = r + o + (i - (r + o))
          BY <1>4, <1>5, <3>2 DEF r, o
        <5>2. QED  BY <5>1
      <4>2. QED  BY <1>2, <1>4, <1>8, <2>2, <4>1
    <3>3. QED  BY <3>1, <3>2
  <2>4. ASSUME NEW n \in (1..made') \ dropped'
        PROVE  \E i \in 1..(r + o + k) : n = Numbers'[i]
    <3>1. CASE n <= made
      <4>1. n \in (1..made) \ dropped
        BY <1>2, <1>4, <2>2, <3>1
      <4>2. PICK i \in 1..(r + o) : n = Numbers[i]
        BY <2>1, <4>1
      <4>3. i \in 1..(r + o + k)
        BY <1>4, <1>5 DEF r, o
      <4>4. QED  BY <1>7, <4>2, <4>3
    <3>2. CASE ~(n <= made)
      <4>1. n - made \in 1..k /\ n = made + (n - made)
        BY <1>4, <2>2, <3>2
      <4>2. r + o + (n - made) \in 1..(r + o + k)
        BY <1>4, <1>5, <4>1 DEF r, o
      <4>3. QED  BY <1>8, <4>1, <4>2
    <3>3. QED  BY <3>1, <3>2
  <2>5. QED  BY <2>3, <2>4
<1>12. EveryFrameShownOnce'
  BY <1>6, <1>10, <1>11 DEF EveryFrameShownOnce
<1>13. dropped' \subseteq 1..made'
  BY <1>1, <1>2, <1>4 DEF ShownInv
<1>14. QED  BY <1>12, <1>13 DEF ShownInv

\* A frame that is read: the first behind those that are on the screen.
LEMMA FrameRead ==
    ASSUME ShownInv, TakeOutput
    PROVE  /\ Len(output) \in Nat \ {0}
           /\ Len(output') = Len(output) - 1
           /\ \A i \in 1..Len(output') : output'[i] = output[i + 1]
           /\ Head(output) = output[1] /\ Head(output) \in Frame
           /\ Numbers[Len(rendered) + 1] = Head(output).number
           /\ made' = made
<1>1. output \in Seq(Frame) /\ output # <<>> /\ output' = Tail(output) /\ made' = made
  BY DEF TakeOutput, ShownInv, TypeOK
<1>2. Len(output) \in Nat \ {0}
  BY <1>1, EmptySeq, LenProperties
<1>3. /\ Head(output) = output[1] /\ Head(output) \in Frame
      /\ Len(output') = Len(output) - 1
      /\ \A i \in 1..Len(output') : output'[i] = output[i + 1]
  BY <1>1, HeadTailProperties
<1>4. 1 \in 1..Len(output)
  BY <1>2
<1>5. QED  BY <1>1, <1>2, <1>3, <1>4, NumbersAre DEF ShownInv

LEMMA ShownRead ==
    ASSUME ShownInv, DrainFrame \/ ReceiveFrame \/ ReceiveFirstOfFormat, TypeOK'
    PROVE  ShownInv'
<1> DEFINE r == Len(rendered)
           o == Len(output)
<1>1. TakeOutput /\ dropped' = dropped
  BY DEF DrainFrame, ReceiveFrame, ReceiveFirstOfFormat
<1>2. /\ Len(rendered') = r + 1 /\ r \in Nat
      /\ rendered'[r + 1].frame = Head(output)
      /\ \A i \in 1..r : rendered'[i] = rendered[i]
  <2>1. PICK on : rendered' = Append(rendered, [frame |-> Head(output), texture |-> on])
    BY DEF DrainFrame, ReceiveFrame, ReceiveFirstOfFormat, RenderFrame
  <2>2. rendered \in Seq(Shown) /\ Len(rendered) \in Nat
    BY NumbersAre DEF ShownInv, TypeOK
  <2>3. /\ Len(rendered') = r + 1
        /\ rendered'[r + 1] = [frame |-> Head(output), texture |-> on]
        /\ \A i \in 1..r : rendered'[i] = rendered[i]
    BY <2>1, <2>2, AppendProperties
  <2>4. QED  BY <2>2, <2>3
<1>3. /\ o \in Nat \ {0} /\ Len(output') = o - 1
      /\ \A i \in 1..(o - 1) : output'[i] = output[i + 1]
      /\ Numbers[r + 1] = Head(output).number /\ made' = made
  BY <1>1, FrameRead
<1>4. DOMAIN Numbers = 1..(r + o)
  BY NumbersAre DEF ShownInv
<1>5. DOMAIN Numbers' = 1..(r + o)
  <2>1. (r + 1) + (o - 1) = r + o
    BY <1>2, <1>3
  <2>2. DOMAIN Numbers' = 1..((r + 1) + (o - 1))
    BY <1>2, <1>3, NumbersAreNext
  <2>3. QED  BY <2>1, <2>2
<1>6. ASSUME NEW i \in 1..(r + o)
      PROVE  Numbers'[i] = Numbers[i]
  <2>1. CASE i \in 1..r
    <3>1. i \in 1..Len(rendered')
      BY <1>2, <2>1
    <3>2. Numbers'[i] = rendered'[i].frame.number
      BY <3>1, NumbersAreNext
    <3>3. Numbers[i] = rendered[i].frame.number
      BY <2>1, NumbersAre DEF ShownInv
    <3>4. QED  BY <1>2, <2>1, <3>2, <3>3
  <2>2. CASE i = r + 1
    <3>1. i \in 1..Len(rendered')
      BY <1>2, <2>2
    <3>2. Numbers'[i] = rendered'[i].frame.number
      BY <3>1, NumbersAreNext
    <3>3. QED  BY <1>2, <1>3, <2>2, <3>2
  <2>3. CASE i \in (r + 2)..(r + o)
    <3> DEFINE k == i - (r + 1)
    <3>1. /\ k \in 1..Len(output') /\ i = Len(rendered') + k
          /\ k + 1 \in 1..Len(output) /\ i = Len(rendered) + (k + 1)
      BY <1>2, <1>3, <2>3
    <3> HIDE DEF k
    <3>2. Numbers'[i] = output'[k].number
      BY <3>1, NumbersAreNext
    <3>3. Numbers[i] = output[k + 1].number
      BY <3>1, NumbersAre DEF ShownInv
    <3>4. output'[k] = output[k + 1]
      BY <1>3, <3>1
    <3>5. QED  BY <3>2, <3>3, <3>4
  <2>4. QED  BY <1>2, <1>3, <2>1, <2>2, <2>3
<1>7. Numbers' = Numbers
  <2>1. Numbers = [i \in DOMAIN Numbers |-> Numbers[i]]
    BY DEF Numbers
  <2>2. Numbers' = [i \in DOMAIN Numbers' |-> Numbers'[i]]
    BY DEF Numbers
  <2>3. QED  BY <1>4, <1>5, <1>6, <2>1, <2>2
<1>8. QED  BY <1>1, <1>3, <1>7, ShownKept

\* A frame that is dropped goes from the numbers and from those that are to be there.
LEMMA ShownDropped ==
    ASSUME ShownInv, TextureFails, TypeOK'
    PROVE  ShownInv'
<1> DEFINE r == Len(rendered)
           o == Len(output)
           n == Head(output).number
<1>1. TakeOutput /\ dropped' = dropped \cup {n} /\ rendered' = rendered
  BY DEF TextureFails
<1>2. /\ o \in Nat \ {0} /\ Len(output') = o - 1 /\ r \in Nat
      /\ \A i \in 1..(o - 1) : output'[i] = output[i + 1]
      /\ Numbers[r + 1] = n /\ made' = made
  BY <1>1, FrameRead, NumbersAre DEF ShownInv
<1>3. DOMAIN Numbers = 1..(r + o) /\ DOMAIN Numbers' = 1..(r + (o - 1))
  BY <1>1, <1>2, NumbersAre, NumbersAreNext DEF ShownInv
<1>4. ASSUME NEW i \in 1..r
      PROVE  Numbers'[i] = Numbers[i]
  BY <1>1, NumbersAre, NumbersAreNext DEF ShownInv
<1>5. ASSUME NEW i \in (r + 1)..(r + (o - 1))
      PROVE  Numbers'[i] = Numbers[i + 1]
  <2> DEFINE k == i - r
  <2>1. /\ k \in 1..Len(output') /\ i = Len(rendered') + k
        /\ k + 1 \in 1..Len(output) /\ i + 1 = Len(rendered) + (k + 1)
    BY <1>1, <1>2
  <2> HIDE DEF k
  <2>2. Numbers'[i] = output'[k].number
    BY <2>1, NumbersAreNext
  <2>3. Numbers[i + 1] = output[k + 1].number
    BY <2>1, NumbersAre DEF ShownInv
  <2>4. output'[k] = output[k + 1]
    BY <1>2, <2>1
  <2>5. QED  BY <2>2, <2>3, <2>4
<1> HIDE DEF r, o, n
<1>6. /\ \A i, j \in 1..(r + o) : i < j => Numbers[i] < Numbers[j]
      /\ {Numbers[i] : i \in 1..(r + o)} = (1..made) \ dropped
      /\ \A i \in 1..(r + o) : Numbers[i] \in Nat
      /\ dropped \subseteq 1..made
  BY <1>3, NumbersType DEF ShownInv, EveryFrameShownOnce
<1>7. ASSUME NEW i \in 1..(r + (o - 1))
      PROVE  \/ i \in 1..r /\ i \in 1..(r + o) /\ Numbers'[i] = Numbers[i]
             \/ i \notin 1..r /\ i + 1 \in 1..(r + o) /\ Numbers'[i] = Numbers[i + 1]
  <2>1. CASE i \in 1..r
    BY <1>2, <1>4, <2>1
  <2>2. CASE i \notin 1..r
    <3>1. i \in (r + 1)..(r + (o - 1)) /\ i + 1 \in 1..(r + o)
      BY <1>2, <2>2
    <3>2. QED  BY <1>5, <2>2, <3>1
  <2>3. QED  BY <2>1, <2>2
<1>8. ASSUME NEW i \in 1..(r + (o - 1)), NEW j \in 1..(r + (o - 1)), i < j
      PROVE  Numbers'[i] < Numbers'[j]
  <2>1. CASE i \in 1..r /\ j \in 1..r
    BY <1>6, <1>7, <1>8, <2>1
  <2>2. CASE i \in 1..r /\ j \notin 1..r
    <3>1. i < j + 1
      BY <1>2, <1>8
    <3>2. QED  BY <1>6, <1>7, <2>2, <3>1
  <2>3. CASE i \notin 1..r
    <3>1. i + 1 < j + 1 /\ j \notin 1..r
      BY <1>2, <1>8, <2>3
    <3>2. QED  BY <1>6, <1>7, <2>3, <3>1
  <2>4. QED  BY <2>1, <2>2, <2>3
<1>9. r + 1 \in 1..(r + o)
  BY <1>2
<1>10. ASSUME NEW i \in 1..(r + o)
       PROVE  i = r + 1 \/ \E j \in 1..(r + (o - 1)) : Numbers[i] = Numbers'[j]
  <2>1. CASE i \in 1..r
    <3>1. i \in 1..(r + (o - 1))
      BY <1>2, <2>1
    <3>2. QED  BY <1>4, <2>1, <3>1
  <2>2. CASE i \in (r + 2)..(r + o)
    <3>1. i - 1 \in (r + 1)..(r + (o - 1)) /\ (i - 1) + 1 = i /\ i - 1 \in 1..(r + (o - 1))
      BY <1>2, <2>2
    <3>2. Numbers'[i - 1] = Numbers[(i - 1) + 1]
      BY <1>5, <3>1
    <3>3. QED  BY <3>1, <3>2
  <2>3. QED  BY <1>2, <2>1, <2>2
<1>11. {Numbers'[i] : i \in 1..(r + (o - 1))} = (1..made') \ dropped'
  <2>1. ASSUME NEW i \in 1..(r + (o - 1))
        PROVE  Numbers'[i] \in (1..made') \ dropped'
    <3>1. PICK k \in 1..(r + o) : Numbers'[i] = Numbers[k] /\ k # r + 1
      <4>1. CASE i \in 1..r
        <5>1. i # r + 1
          BY <1>2, <4>1
        <5>2. QED  BY <1>7, <4>1, <5>1
      <4>2. CASE i \notin 1..r
        <5>1. i + 1 # r + 1
          BY <1>2, <4>2
        <5>2. QED  BY <1>7, <4>2, <5>1
      <4>3. QED  BY <4>1, <4>2
    <3>2. Numbers[k] # n
      <4>1. k < r + 1 \/ r + 1 < k
        BY <1>2, <3>1
      <4>2. Numbers[k] < Numbers[r + 1] \/ Numbers[r + 1] < Numbers[k]
        BY <1>6, <1>9, <4>1
      <4>3. Numbers[k] \in Nat /\ Numbers[r + 1] \in Nat
        BY <1>6, <1>9
      <4>4. QED  BY <1>2, <4>2, <4>3
    <3>3. QED  BY <1>1, <1>2, <1>6, <3>1, <3>2
  <2>2. ASSUME NEW m \in (1..made') \ dropped'
        PROVE  \E i \in 1..(r + (o - 1)) : m = Numbers'[i]
    <3>1. m \in (1..made) \ dropped /\ m # n
      BY <1>1, <1>2
    <3>2. PICK i \in 1..(r + o) : m = Numbers[i]
      BY <1>6, <3>1
    <3>3. i # r + 1
      BY <1>2, <3>1, <3>2
    <3>4. QED  BY <1>10, <3>2, <3>3
  <2>3. QED  BY <2>1, <2>2
<1>12. EveryFrameShownOnce'
  BY <1>3, <1>8, <1>11 DEF EveryFrameShownOnce
<1>13. dropped' \subseteq 1..made'
  <2>1. n \in 1..made
    BY <1>2, <1>6, <1>9
  <2>2. QED  BY <1>1, <1>2, <1>6, <2>1
<1>14. QED  BY <1>12, <1>13 DEF ShownInv

LEMMA ShownNext == ShownInv /\ [Next]_vars => ShownInv'
<1> SUFFICES ASSUME ShownInv, [Next]_vars PROVE ShownInv'
  OBVIOUS
<1>1. TypeOK'
  BY TypeNext DEF ShownInv
<1>2. CASE UNCHANGED <<rendered, output, made, dropped>>
  <2>1. Numbers' = Numbers
    BY <1>2 DEF Numbers
  <2>2. QED  BY <1>1, <1>2, <2>1, ShownKept
<1>3. CASE OwnerStep \/ WindowStep
  <2>1. UNCHANGED <<rendered, output, made, dropped>>
    BY <1>3 DEF OwnerStep, Construct, Start, Stop, Join, Destroy, WindowStep,
                CreateWindowAndRenderer, DestroyWindowAndRenderer, decoderVars, historyVars
  <2>2. QED  BY <1>2, <2>1
<1>4. CASE AllocatePacket \/ Refused \/ DrainEnd \/ ReceiveEnd \/ DecoderFails
  <2>1. UNCHANGED <<rendered, output, made, dropped>>
    BY <1>4 DEF AllocatePacket, Refused, DrainEnd, ReceiveEnd, DecoderFails,
                decoderVars, historyVars
  <2>2. QED  BY <1>2, <2>1
<1>5. CASE UNCHANGED vars
  <2>1. UNCHANGED <<rendered, output, made, dropped>>
    BY <1>5 DEF vars, decoderVars, historyVars
  <2>2. QED  BY <1>2, <2>1
<1>6. QED
  BY <1>1, <1>3, <1>4, <1>5, ShownSend, ShownRead, ShownDropped, StepKinds

\* Both loops that read the decoder render every frame once and in its order, but for
\* those no texture could be made for, whatever is refused or fails on the way
\* (DecodeAndDisplayNalu).
THEOREM FramesShownOnce == Spec => []EveryFrameShownOnce
<1>1. ShownInv => EveryFrameShownOnce
  BY DEF ShownInv
<1>2. QED  BY <1>1, ShownInit, ShownNext, PTL DEF Spec
===============================================================================
