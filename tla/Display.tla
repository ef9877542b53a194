------------------------------- MODULE Display --------------------------------
(***************************************************************************)
(* The decoder and the window of h264::Player (common/video/Player.h): the *)
(* constructor and destructor, the window the playback thread owns, and    *)
(* DecodeAndDisplayNalu.  Which unit comes next, and when the thread is to *)
(* stop, is the business of module Player: here any unit may come, and Run *)
(* may end, at every test of its loop.                                     *)
(*                                                                         *)
(* FFmpeg and SDL are external.  The decoder keeps what its documentation  *)
(* says of avcodec_send_packet and avcodec_receive_frame: a packet yields  *)
(* any number of frames, in order; input is refused only while output is   *)
(* to be read, and not once all of it was; either call may fail.           *)
(***************************************************************************)
EXTENDS Naturals, Sequences

CONSTANTS
    Sizes,      \* width and height of a frame
    Pixels,     \* AVPixelFormat
    None,       \* a null texture; the format before the first frame
    MaxFrames,  \* bound: frames the decoder makes in one behaviour
    MaxUnits,   \* bound: units given to DecodeAndDisplayNalu
    MaxStarts   \* bound: calls of Start that make a thread

Formats == [size : Sizes, pixels : Pixels]

ASSUME NoneAssumption == None \notin Sizes \cup Formats
ASSUME BoundsAssumption == {MaxFrames, MaxUnits, MaxStarts} \subseteq Nat

VARIABLES
    owner,     \* "construct", "ready", "join" (in Stop), "destroy" (in ~Player),
               \* "destroyed", "exited"
    thread,    \* the playback thread: "none", "create", "loop" (in Run, outside the
               \* rest), "send", "drain", "receive", "returned"
    starts,    \* the threads made
    library,   \* what the constructor got and the destructor gives back
    window,    \* _window and _renderer are there
    texture,   \* _texture: its size, or None (a texture is always IYUV)
    known,     \* _width, _height and _pixFmt
    units,     \* the calls of DecodeAndDisplayNalu
    output,    \* external: the frames the decoder has ready
    full,      \* external: the decoder refuses input
    made,      \* external: the frames it has made, numbered from 1
    rendered,  \* history: the frames rendered, and the texture each was rendered on
    dropped,   \* history: the frames no texture could be made for
    amiss      \* history: what went wrong and was not made good yet

ownerVars == <<owner, starts, library>>
windowVars == <<window, texture, known>>
decoderVars == <<output, full, made>>
historyVars == <<rendered, dropped, amiss>>
vars == <<ownerVars, thread, windowVars, units, decoderVars, historyVars>>

Libraries == {"sdl", "context", "frame"}

Frame == [number : 1..MaxFrames, format : Formats]
Shown == [frame : Frame, texture : Sizes \cup {None}]
Faults == {"no texture", "window closed", "frames left"}

Init ==
    /\ owner = "construct" /\ starts = 0 /\ library = {}
    /\ thread = "none"
    /\ window = FALSE /\ texture = None /\ known = None
    /\ units = 0
    /\ output = <<>> /\ full = FALSE /\ made = 0
    /\ rendered = <<>> /\ dropped = {} /\ amiss = {}

-------------------------------------------------------------------------------
(* The owner. *)

\* SDL_Init and InitDecoder.  What fails ends the process; SDL is quit before.
Construct ==
    /\ owner = "construct"
    /\ \/ owner' = "ready" /\ library' = Libraries
       \/ owner' = "exited" /\ library' \in {{}, {"context"}, {"context", "frame"}}
    /\ UNCHANGED <<starts, thread, windowVars, units, decoderVars, historyVars>>

\* Start makes a thread if none is joinable.
Start ==
    /\ owner = "ready"
    /\ thread = "none"
    /\ starts < MaxStarts
    /\ starts' = starts + 1
    /\ thread' = "create"
    /\ UNCHANGED <<owner, library, windowVars, units, decoderVars, historyVars>>

\* Stop, called by itself or by the destructor, up to the join ...
Stop ==
    /\ owner = "ready"
    /\ owner' \in {"join", "destroy"}
    /\ UNCHANGED <<starts, library, thread, windowVars, units, decoderVars, historyVars>>

\* ... which returns when the thread has; nothing is done if no thread was made.
Join ==
    /\ owner = "join"
    /\ thread \in {"none", "returned"}
    /\ owner' = "ready"
    /\ thread' = "none"
    /\ UNCHANGED <<starts, library, windowVars, units, decoderVars, historyVars>>

\* Mistake: the decoder is freed before the thread is joined.
DestroyAtOnce ==
    /\ owner = "destroy"
    /\ owner' = "destroyed"
    /\ library' = {}
    /\ UNCHANGED <<starts, thread, windowVars, units, decoderVars, historyVars>>

\* ~Player: join, Cleanup, SDL_Quit.
Destroy ==
    /\ owner = "destroy"
    /\ thread \in {"none", "returned"}
    /\ owner' = "destroyed"
    /\ thread' = "none"
    /\ library' = {}
    /\ UNCHANGED <<starts, windowVars, units, decoderVars, historyVars>>

-------------------------------------------------------------------------------
(* The window, which is the playback thread's. *)

\* Without a window or a renderer Run returns, and leaves no window.
CreateWindowAndRenderer ==
    /\ thread = "create"
    /\ \/ thread' = "loop" /\ window' = TRUE
       \/ thread' = "returned" /\ UNCHANGED window
    /\ UNCHANGED <<ownerVars, texture, known, units, decoderVars, historyVars>>

\* The end of Run.  The format of the last frame is not forgotten with its texture.
DestroyWindowAndRenderer ==
    /\ thread = "loop"
    /\ thread' = "returned"
    /\ window' = FALSE
    /\ texture' = None
    /\ amiss' = IF known = None THEN amiss ELSE amiss \cup {"window closed"}
    /\ UNCHANGED <<ownerVars, known, units, decoderVars, rendered, dropped>>

RenderFrame(frame, on) == rendered' = Append(rendered, [frame |-> frame, texture |-> on])

-------------------------------------------------------------------------------
(* DecodeAndDisplayNalu. *)

\* The unit's packet; if it cannot be allocated the unit is given up.
AllocatePacket ==
    /\ thread = "loop"
    /\ units < MaxUnits
    /\ units' = units + 1
    /\ thread' \in {"send", "loop"}
    /\ UNCHANGED <<ownerVars, windowVars, decoderVars, historyVars>>

\* The frames the decoder may make of a packet.
NewFrames ==
    UNION {{f \in [1..k -> Frame] : \A i \in 1..k : f[i].number = made + i} :
               k \in 0..(MaxFrames - made)}

\* avcodec_send_packet returns 0.
SendPacket ==
    /\ thread = "send"
    /\ ~full
    /\ \E frames \in NewFrames :
           output' = output \o frames /\ made' = made + Len(frames)
    /\ full' \in {FALSE, output' # <<>>}
    /\ thread' = "receive"
    /\ UNCHANGED <<ownerVars, windowVars, units, historyVars>>

\* Mistake: the packet is sent again and nothing read.
SendAgain ==
    /\ thread = "send"
    /\ full
    /\ UNCHANGED vars

\* It returns EAGAIN.
Refused ==
    /\ thread = "send"
    /\ full
    /\ thread' = "drain"
    /\ UNCHANGED <<ownerVars, windowVars, units, decoderVars, historyVars>>

\* avcodec_receive_frame gives the first frame; the decoder may take input again.
TakeOutput ==
    /\ output # <<>>
    /\ output' = Tail(output)
    /\ full' \in {FALSE, full /\ output' # <<>>}
    /\ UNCHANGED made

\* What is amiss when DecodeAndDisplayNalu returns with these frames not read.
Leaving(frames, others) ==
    IF frames = <<>> THEN others \ {"frames left"} ELSE others \cup {"frames left"}

\* Mistake: the frames are read and not rendered.
DiscardFrame ==
    /\ thread = "drain"
    /\ TakeOutput
    /\ UNCHANGED <<ownerVars, thread, windowVars, units, historyVars>>

\* The frames read to make room are rendered on the texture there is.
DrainFrame ==
    /\ thread = "drain"
    /\ TakeOutput
    /\ RenderFrame(Head(output), texture)
    /\ UNCHANGED <<ownerVars, thread, windowVars, units, dropped, amiss>>

DrainEnd ==
    /\ thread = "drain"
    /\ output = <<>>
    /\ thread' = "send"
    /\ amiss' = Leaving(<<>>, amiss)
    /\ UNCHANGED <<ownerVars, windowVars, units, decoderVars, rendered, dropped>>

\* Mistake: the texture is made for the first frame only.
NeedsFirstTexture(frame) == known = None

NeedsTexture(frame) == known # frame.format

\* A frame of the format of the frame before.
ReceiveFrame ==
    /\ thread = "receive"
    /\ TakeOutput
    /\ ~NeedsTexture(Head(output))
    /\ RenderFrame(Head(output), texture)
    /\ UNCHANGED <<ownerVars, thread, windowVars, units, dropped, amiss>>

\* A frame of another format gets a texture of its size.
ReceiveFirstOfFormat ==
    /\ thread = "receive"
    /\ TakeOutput
    /\ NeedsTexture(Head(output))
    /\ known' = Head(output).format
    /\ texture' = known'.size
    /\ RenderFrame(Head(output), texture')
    /\ amiss' = amiss \ {"no texture", "window closed"}
    /\ UNCHANGED <<ownerVars, thread, window, units, dropped>>

\* Mistake: the pointer to the destroyed texture is kept.
TextureDangles ==
    /\ thread = "receive"
    /\ TakeOutput
    /\ NeedsTexture(Head(output))
    /\ known' = Head(output).format
    /\ dropped' = dropped \cup {Head(output).number}
    /\ amiss' = Leaving(output', amiss \cup {"no texture"})
    /\ thread' = "loop"
    /\ UNCHANGED <<ownerVars, window, texture, units, rendered>>

\* SDL_CreateTexture fails: the format is stored already, the frame is dropped, and
\* the frames behind it stay in the decoder.
TextureFails ==
    /\ thread = "receive"
    /\ TakeOutput
    /\ NeedsTexture(Head(output))
    /\ known' = Head(output).format
    /\ texture' = None
    /\ dropped' = dropped \cup {Head(output).number}
    /\ amiss' = Leaving(output', amiss \cup {"no texture"})
    /\ thread' = "loop"
    /\ UNCHANGED <<ownerVars, window, units, rendered>>

ReceiveEnd ==
    /\ thread = "receive"
    /\ output = <<>>
    /\ thread' = "loop"
    /\ amiss' = Leaving(<<>>, amiss)
    /\ UNCHANGED <<ownerVars, windowVars, units, decoderVars, rendered, dropped>>

\* AVERROR_INVALIDDATA and the other errors of either call: the unit is given up.
DecoderFails ==
    /\ thread \in {"send", "drain", "receive"}
    /\ thread' = "loop"
    /\ amiss' = Leaving(output, amiss)
    /\ UNCHANGED <<ownerVars, windowVars, units, decoderVars, rendered, dropped>>

DecodeAndDisplayNalu ==
    \/ SendPacket \/ Refused \/ DrainFrame \/ DrainEnd
    \/ ReceiveFrame \/ ReceiveFirstOfFormat \/ ReceiveEnd

-------------------------------------------------------------------------------
Next ==
    \/ Construct \/ Start \/ Stop \/ Join \/ Destroy
    \/ CreateWindowAndRenderer \/ DestroyWindowAndRenderer
    \/ AllocatePacket \/ DecodeAndDisplayNalu \/ TextureFails \/ DecoderFails

Spec == Init /\ [][Next]_vars

\* Every call of DecodeAndDisplayNalu into FFmpeg and SDL returns; none need fail.
FairSpec == Spec /\ WF_vars(DecodeAndDisplayNalu)

-------------------------------------------------------------------------------
(* Properties. *)

Running == {"create", "loop", "send", "drain", "receive"}

\* (A texture that is there has the size stored beside it.)
TypeOK ==
    /\ owner \in {"construct", "ready", "join", "destroy", "destroyed", "exited"}
    /\ starts \in Nat
    /\ library \in SUBSET Libraries
    /\ thread \in Running \cup {"none", "returned"}
    /\ window \in BOOLEAN
    /\ texture \in Sizes \cup {None}
    /\ known \in Formats \cup {None}
    /\ texture # None => known # None /\ texture = known.size
    /\ units \in Nat
    /\ output \in Seq(Frame)
    /\ full \in BOOLEAN
    /\ made \in 0..MaxFrames
    /\ rendered \in Seq(Shown)
    /\ dropped \in SUBSET (1..MaxFrames)
    /\ amiss \in SUBSET Faults

\* A frame is rendered on a texture of its own size.  It has none only when the last
\* SDL_CreateTexture failed or the window was closed and made anew (the size stored
\* then hides that the texture is gone); it gets another's only when it is one of the
\* frames an earlier unit left in the decoder (DecodeAndDisplayNalu, RenderFrame).
FramesFitTexture ==
    [][rendered' # rendered =>
           LET last == rendered'[Len(rendered')] IN
           \/ last.texture = last.frame.format.size
           \/ last.texture = None /\ amiss \cap {"no texture", "window closed"} # {}
           \/ thread = "drain" /\ "frames left" \in amiss]_vars

\* The numbers of the frames on the screen so far and, behind them, in the decoder.
Numbers ==
    [i \in 1..(Len(rendered) + Len(output)) |->
        IF i <= Len(rendered) THEN rendered[i].frame.number
        ELSE output[i - Len(rendered)].number]

\* Between decoder and screen no frame is lost, shown twice or shown out of order,
\* whichever of the two loops reads it and wherever a unit is given up; the only
\* exception are the frames no texture could be made for.
EveryFrameShownOnce ==
    /\ \A i, j \in DOMAIN Numbers : i < j => Numbers[i] < Numbers[j]
    /\ {Numbers[i] : i \in DOMAIN Numbers} = (1..made) \ dropped

\* The destructor frees the decoder under no thread that uses it, and no thread that
\* has returned leaves a window behind, however Stop, the destructor, a Start after
\* Stop and the failures of Run come together (~Player, Cleanup, Run).
NothingInUseIsFreed ==
    /\ thread \in Running => library = Libraries
    /\ thread \notin Running => ~window /\ texture = None
    /\ thread \in Running \ {"create"} => window

\* The loop around avcodec_send_packet ends: what makes the decoder refuse the packet
\* is read before it is sent again (while (!sent)).
HandlingEnds == thread = "send" ~> thread = "loop"
===============================================================================
