----------------------------- MODULE StreamReader -----------------------------
(***************************************************************************)
(* h264::StreamReader (common/video/Stream.h): packets come out of the     *)
(* demuxer (FFmpeg), for containers through a bit stream filter, and are   *)
(* appended to a buffer; units are cut out of it at H.264 start codes, and *)
(* ReadTo hands a unit out block by block.  Only the reader thread of the  *)
(* client calls it, so the recursive mutex never makes anybody wait.       *)
(*                                                                         *)
(* A byte is 0, 1 or 2: the two a start code is made of, and any other.    *)
(* Positions in buffers count from 0, as in the code.                      *)
(*                                                                         *)
(* Operators introduced by "Mistake:" are explained in module Player.      *)
(***************************************************************************)
EXTENDS Naturals, Sequences, SequencesExt

CONSTANTS
    BlockSize,    \* blockSize, 1024
    Sources       \* what the demuxer may return, packet after packet:
                  \* [video : is it of the video stream, nalus : its units]

ASSUME BlockSizeAssumption == BlockSize \in Nat \ {0}

VARIABLES
    video,         \* history: the units of the stream that was opened
    source,        \* what av_read_frame will still return
    filtering,     \* is there a bit stream filter?
    filter,        \* the packets in the filter
    flushed,       \* was the filter given the null packet?
    failed,        \* history: did FFmpeg report an error?
    reader,        \* where ReadTo is
    avPacket,      \* the bytes of _avPacket
    buffer,        \* _streamBuffer
    bufferOffset,  \* _streamBufferOffset
    nalu,          \* _currentNALU
    naluOffset,    \* _currentNaluOffset
    naluIndex,     \* _currentNaluIndex
    given,         \* what ReadTo returned and the caller has not taken yet
    handed         \* history: everything ReadTo returned

demuxVars == <<source, filtering, filter, flushed, failed>>
naluVars == <<nalu, naluOffset, naluIndex>>
readerVars ==
    <<video, demuxVars, reader, avPacket, buffer, bufferOffset, naluVars, given, handed>>

Init ==
    /\ video = <<>>
    /\ source = <<>>
    /\ filtering = FALSE
    /\ filter = <<>>
    /\ flushed = FALSE
    /\ failed = FALSE
    /\ reader = "closed"
    /\ avPacket = <<>>
    /\ buffer = <<>>
    /\ bufferOffset = 0
    /\ nalu = <<>>
    /\ naluOffset = 0
    /\ naluIndex = 0
    /\ given = <<>>
    /\ handed = <<>>

-------------------------------------------------------------------------------
(* Start codes. *)

IsStartCode(buf, i) ==
    /\ i + 2 < Len(buf)
    /\ \/ SubSeq(buf, i + 1, i + 3) = <<0, 0, 1>>
       \/ i + 3 < Len(buf) /\ SubSeq(buf, i + 1, i + 4) = <<0, 0, 0, 1>>

StartCodes(buf, offset) == {i \in offset..Len(buf) : IsStartCode(buf, i)}

\* The first one from offset on; `otherwise` when there is none (npos).
FindStartCode(buf, offset, otherwise) ==
    IF StartCodes(buf, offset) = {} THEN otherwise
    ELSE CHOOSE i \in StartCodes(buf, offset) : \A j \in StartCodes(buf, offset) : i <= j

-------------------------------------------------------------------------------
(* Open and Close. *)

\* The units of the video stream of s, in order.
UnitsOf(s) == FlattenSeq([i \in 1..Len(s) |-> IF s[i].video THEN s[i].nalus ELSE <<>>])

\* Any of the steps of Open may fail: the process exits.
Open ==
    /\ reader = "closed"
    /\ video = <<>>
    /\ \/ reader' = "exited" /\ UNCHANGED <<video, source, filtering>>
       \/ /\ source' \in Sources
          /\ video' = UnitsOf(source')
          /\ filtering' \in BOOLEAN
          /\ reader' = "readTo"
    /\ UNCHANGED <<filter, flushed, failed, avPacket, buffer, bufferOffset, naluVars,
                   given, handed>>

\* Mistake: the position in the buffer is left as it is.
CloseWithoutRewind ==
    /\ reader = "ended"
    /\ reader' = "closed"
    /\ source' = <<>> /\ filtering' = FALSE /\ filter' = <<>> /\ flushed' = FALSE
    /\ avPacket' = <<>> /\ buffer' = <<>>
    /\ nalu' = <<>> /\ naluOffset' = 0 /\ naluIndex' = 0
    /\ UNCHANGED <<video, failed, bufferOffset, given, handed>>

\* The client closes the reader when ReadTo has returned 0.
Close ==
    /\ reader = "ended"
    /\ reader' = "closed"
    /\ source' = <<>> /\ filtering' = FALSE /\ filter' = <<>> /\ flushed' = FALSE
    /\ avPacket' = <<>> /\ buffer' = <<>> /\ bufferOffset' = 0
    /\ nalu' = <<>> /\ naluOffset' = 0 /\ naluIndex' = 0
    /\ UNCHANGED <<video, failed, given, handed>>

-------------------------------------------------------------------------------
(* ReadPacketFromStream.  Its result is where `reader` goes: "fill" for 1, "ended" *)
(* for 0 and for -1, which FillStreamBuffer turns into the same false.              *)

\* FFmpeg reports an error, or an allocation fails.
Fail ==
    /\ failed' = TRUE
    /\ reader' = "ended"
    /\ UNCHANGED <<source, filter, flushed, avPacket>>

\* EAGAIN: av_read_frame, and the packet goes into the filter if it is of the video.
\* At the end of the file the filter is given the null packet instead.  It answers
\* that with EOF once it is empty (another EAGAIN would be one more error).
FeedFilter ==
    /\ IF source = <<>>
       THEN flushed' = TRUE /\ UNCHANGED <<source, filter>>
       ELSE /\ source' = Tail(source)
            /\ filter' = IF Head(source).video
                         THEN Append(filter, FlattenSeq(Head(source).nalus)) ELSE filter
            /\ UNCHANGED flushed
    /\ UNCHANGED <<reader, failed, avPacket>>

\* A packet out of the filter; one without data is passed over.
DrainFilter ==
    /\ filter' = Tail(filter)
    /\ IF Head(filter) = <<>>
       THEN UNCHANGED <<reader, avPacket>>
       ELSE reader' = "fill" /\ avPacket' = Head(filter)
    /\ UNCHANGED <<source, flushed, failed>>

EndOfFile == reader' = "ended" /\ UNCHANGED <<source, filter, flushed, failed, avPacket>>

ReadThroughFilter ==
    \/ filter # <<>> /\ DrainFilter
    \/ filter = <<>> /\ ~flushed /\ FeedFilter
    \/ filter = <<>> /\ flushed /\ EndOfFile
    \/ Fail

\* av_read_frame until a packet of the video stream, the end or an error.
ReadDirectly ==
    \/ /\ source # <<>>
       /\ source' = Tail(source)
       /\ IF Head(source).video
          THEN reader' = "fill" /\ avPacket' = FlattenSeq(Head(source).nalus)
          ELSE UNCHANGED <<reader, avPacket>>
       /\ UNCHANGED <<filter, flushed, failed>>
    \/ source = <<>> /\ EndOfFile
    \/ Fail

ReadPacketFromStream ==
    /\ reader = "packet"
    /\ IF filtering THEN ReadThroughFilter ELSE ReadDirectly
    /\ UNCHANGED <<video, filtering, buffer, bufferOffset, naluVars, given, handed>>

-------------------------------------------------------------------------------
(* ReadTo. *)

\* Mistake: the packet takes the place of what was in the buffer.
FillOver ==
    /\ reader = "fill"
    /\ buffer' = avPacket
    /\ avPacket' = <<>>
    /\ reader' = "readTo"
    /\ UNCHANGED <<video, demuxVars, bufferOffset, naluVars, given, handed>>

FillStreamBuffer ==
    /\ reader = "fill"
    /\ buffer' = buffer \o avPacket
    /\ avPacket' = <<>>
    /\ reader' = "readTo"
    /\ UNCHANGED <<video, demuxVars, bufferOffset, naluVars, given, handed>>

\* Mistake: the unit's own start code is found again.
NaluEndAtStart(start) == FindStartCode(buffer, start, Len(buffer))

\* The next start code, or the end of what is there.
NaluEnd(start) == FindStartCode(buffer, start + 3, Len(buffer))

\* Without a start code in the rest of the buffer the next packet is needed; with
\* one the unit reaches to NaluEnd.
ExtractNextNalu ==
    LET start == FindStartCode(buffer, bufferOffset, Len(buffer))
        end == NaluEnd(start) IN
    /\ reader = "readTo"
    /\ given = <<>>
    /\ nalu = <<>>
    /\ IF start = Len(buffer)
       THEN /\ reader' = "packet"
            /\ UNCHANGED <<bufferOffset, naluVars>>
       ELSE /\ nalu' = SubSeq(buffer, start + 1, end)
            /\ bufferOffset' = end
            /\ naluOffset' = 0
            /\ UNCHANGED <<reader, naluIndex>>
    /\ UNCHANGED <<video, demuxVars, avPacket, buffer, given, handed>>

\* Mistake: one block too many at a multiple of BlockSize.
BlockCountPlusOne(size) == size \div BlockSize + 1

BlockCount(size) == (size + BlockSize - 1) \div BlockSize

\* The next block of the unit, its index and how many there are.
CutBlock ==
    LET left == Len(nalu) - naluOffset
        size == IF left < BlockSize THEN left ELSE BlockSize
        offset == naluOffset + size IN
    /\ reader = "readTo"
    /\ given = <<>>
    /\ nalu # <<>>
    /\ given' = <<[nalu |-> naluIndex, block |-> naluOffset \div BlockSize,
                   total |-> BlockCount(Len(nalu)),
                   data |-> SubSeq(nalu, naluOffset + 1, offset)]>>
    /\ handed' = handed \o given'
    /\ IF offset >= Len(nalu)
       THEN nalu' = <<>> /\ naluOffset' = 0 /\ naluIndex' = naluIndex + 1
       ELSE naluOffset' = offset /\ UNCHANGED <<nalu, naluIndex>>
    /\ UNCHANGED <<video, demuxVars, reader, avPacket, buffer, bufferOffset>>

ReadTo == ReadPacketFromStream \/ FillStreamBuffer \/ ExtractNextNalu \/ CutBlock

\* The caller takes the block.
TakeBlock ==
    /\ given # <<>>
    /\ given' = <<>>
    /\ UNCHANGED <<video, demuxVars, reader, avPacket, buffer, bufferOffset, naluVars, handed>>

Next == Open \/ ReadTo \/ TakeBlock \/ Close

Spec == Init /\ [][Next]_readerVars

-------------------------------------------------------------------------------
(* Properties. *)

\* H.264 units of an Annex B stream: a start code first, no other one inside, no zero
\* byte at the end.  FFmpeg's packets hold whole units, an assumption of the code.
WellFormed(unit) ==
    /\ StartCodes(unit, 0) \in {{0}, {0, 1}}
    /\ Last(unit) # 0

Bytes == 0..2

ASSUME SourcesAssumption ==
    /\ Sources \subseteq Seq([video : BOOLEAN, nalus : Seq(Seq(Bytes))])
    /\ \A s \in Sources : \A i \in 1..Len(UnitsOf(s)) : WellFormed(UnitsOf(s)[i])

Blocks == [nalu : Nat, block : Nat, total : Nat, data : Seq(Bytes)]

\* What may be left of the demuxer's packets.
Rests == UNION {{SubSeq(s, i, Len(s)) : i \in 1..(Len(s) + 1)} : s \in Sources \cup {<<>>}}

TypeOK ==
    /\ source \in Rests
    /\ filtering \in BOOLEAN /\ flushed \in BOOLEAN /\ failed \in BOOLEAN
    /\ filter \in Seq(Seq(Bytes))
    /\ reader \in {"closed", "readTo", "packet", "fill", "ended", "exited"}
    /\ avPacket \in Seq(Bytes) /\ buffer \in Seq(Bytes) /\ nalu \in Seq(Bytes)
    /\ bufferOffset \in 0..Len(buffer)
    /\ naluOffset \in 0..Len(nalu)
    /\ naluIndex \in Nat
    /\ given \in Seq(Blocks) /\ handed \in Seq(Blocks)

\* The part of unit that is its block k.
Slice(unit, k) ==
    SubSeq(unit, k * BlockSize + 1,
           IF Len(unit) < (k + 1) * BlockSize THEN Len(unit) ELSE (k + 1) * BlockSize)

\* total is the least number of blocks that holds size bytes.
Holds(total, size) == (total - 1) * BlockSize < size /\ size <= total * BlockSize

\* Block b comes next after block a: in the unit of a or, after its last, in the next.
Follows(a, b) ==
    IF a.block + 1 < a.total THEN b.nalu = a.nalu /\ b.block = a.block + 1
                             ELSE b.nalu = a.nalu + 1 /\ b.block = 0

\* Put together by the indices ReadTo gives with them, the blocks are the units of the
\* stream, whatever packets they came in: none is cut at the wrong place, left out or
\* numbered twice, at sizes below, at and above a multiple of BlockSize.
BlocksRebuildUnits ==
    /\ handed # <<>> => handed[1].nalu = 0 /\ handed[1].block = 0
    /\ \A i \in 1..(Len(handed) - 1) : Follows(handed[i], handed[i + 1])
    /\ \A i \in 1..Len(handed) :
           LET b == handed[i]
               unit == video[b.nalu + 1] IN
           /\ b.nalu < Len(video)
           /\ Holds(b.total, Len(unit))
           /\ b.block < b.total
           /\ b.data = Slice(unit, b.block)

\* ReadTo's 0 means that all of the stream was handed out, unless FFmpeg reported an
\* error, which the client cannot tell from the end (client.cpp's bytesRead < 0).
EndMeansAllRead ==
    reader = "ended" /\ ~failed =>
        \A n \in 0..(Len(video) - 1) : \A k \in 0..(BlockCount(Len(video[n + 1])) - 1) :
            \E i \in 1..Len(handed) : handed[i].nalu = n /\ handed[i].block = k
===============================================================================
