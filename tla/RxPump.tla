------------------------------ MODULE RxPump ------------------------------
(***************************************************************************)
(* pump_rx_(): bytes reach the hub in chunks that know nothing of frames,  *)
(* among frames stand noise and broken frames, and the hub must handle     *)
(* every frame once, in order, however the bytes were cut up.              *)
(***************************************************************************)
EXTENDS FrameScan

CONSTANTS
  RxCap, RxDrop,   \* rx_buf_ over 512 bytes loses its first 256
  Chunk,           \* most bytes the UART holds for one pump
  Payloads,        \* payloads of the frames the controller sends
  Noise,           \* byte strings that are not frames
  MaxPieces        \* bound: frames and noises in one behaviour

ASSUME PumpAssumption ==
  /\ RxCap \in Nat /\ RxDrop \in 1..RxCap /\ Chunk \in Nat \ {0} /\ MaxPieces \in Nat
  /\ FrameMax - 1 + Chunk <= RxCap
  /\ \A p \in Payloads : Len(p) + 4 \in FrameMin..FrameMax

ASSUME BytesAssumption ==
  \A p \in Payloads \cup {Frame(q) : q \in Payloads} \cup Noise : p \in Seq(Nat)

VARIABLES
  pieces,    \* what is on the line, cut at its frames and noises
  taken,     \* how many of its bytes the hub has read
  rx_buf,    \* rx_buf_
  scanning,  \* whether pump_rx_ is in its second loop
  handled    \* frames given to handle_frame_

vars == <<pieces, taken, rx_buf, scanning, handled>>

Frames == {Frame(p) : p \in Payloads}
Stream == FlattenSeq(pieces)

Init ==
  /\ pieces \in BoundedSeq(Frames \cup Noise, MaxPieces)
  /\ taken = 0 /\ rx_buf = <<>> /\ scanning = FALSE /\ handled = <<>>

Push(buf, byte) ==
  LET longer == Append(buf, byte)
  IN  IF Len(longer) > RxCap THEN SubSeq(longer, RxDrop + 1, Len(longer)) ELSE longer

(* Read the bytes that have come. *)
Read(n) ==
  /\ ~scanning /\ taken + n <= Len(Stream)
  /\ rx_buf' = FoldLeft(Push, rx_buf, SubSeq(Stream, taken + 1, taken + n))
  /\ taken' = taken + n /\ scanning' = TRUE
  /\ UNCHANGED <<pieces, handled>>

\* mutant: a partial frame is thrown away
KeepNoPartial(r) ==
  IF r.verdict = "partial" THEN <<>> ELSE SubSeq(rx_buf, r.consumed + 1, Len(rx_buf))
Keep(r) == SubSeq(rx_buf, r.consumed + 1, Len(rx_buf))

HandleFrame ==
  /\ scanning /\ rx_buf # <<>>
  /\ LET r == Scan(rx_buf)
     IN  /\ r.verdict = "found"
         /\ handled' = Append(handled, r.frame) /\ rx_buf' = Keep(r)
  /\ UNCHANGED <<pieces, taken, scanning>>

SkipBadFrame ==
  /\ scanning /\ rx_buf # <<>>
  /\ LET r == Scan(rx_buf) IN r.verdict = "bad_crc" /\ rx_buf' = Keep(r)
  /\ UNCHANGED <<pieces, taken, scanning, handled>>

WaitForMore ==
  /\ scanning
  /\ \/ rx_buf = <<>> /\ UNCHANGED rx_buf
     \/ /\ rx_buf # <<>>
        /\ LET r == Scan(rx_buf)
           IN r.verdict \in {"junk", "partial"} /\ rx_buf' = Keep(r)
  /\ scanning' = FALSE
  /\ UNCHANGED <<pieces, taken, handled>>

Next ==
  \/ \E n \in 1..Chunk : Read(n)
  \/ HandleFrame \/ SkipBadFrame \/ WaitForMore

Spec == Init /\ [][Next]_vars

-----------------------------------------------------------------------------
(* The reference: one pass over the whole string, with no buffer.          *)
ParseFrom(buf) ==
  LET from[i \in 1..(Len(buf) + 1)] ==
        IF i > Len(buf) THEN <<>>
        ELSE CASE Verdict(buf, i) = "partial" -> <<>>
               [] Verdict(buf, i) = "found" ->
                    <<SubSeq(buf, i, i + buf[i + 1] - 1)>> \o from[i + buf[i + 1]]
               [] OTHER -> from[i + 1]
  IN  from
Parse(buf) == ParseFrom(buf)[1]

(* However the bytes were cut into chunks, the pump has handled the frames *)
(* that one pass over everything read so far would find.                   *)
ChunkingIrrelevant == ~scanning => handled = Parse(SubSeq(Stream, 1, taken))

IsFrame(piece) == piece \in Frames
Sent == [k \in DOMAIN pieces |-> IF IsFrame(pieces[k]) THEN <<pieces[k]>> ELSE <<>>]
SentUpTo(k) == FlattenSeq(SubSeq(Sent, 1, k))
StartOf(k) == Len(FlattenSeq(SubSeq(pieces, 1, k - 1))) + 1
EndOf(k) == Len(FlattenSeq(SubSeq(pieces, 1, k)))

(* The frames handled are the frames sent, from the first one on: none is  *)
(* lost, none made up out of noise, none handled twice or out of turn.     *)
HandledInOrder == IsPrefix(handled, SentUpTo(Len(pieces)))

(* A frame is handled as soon as its last byte is read; after noise, at    *)
(* the latest when the longest frame that could begin in the noise would   *)
(* have been complete.                                                     *)
Resynchronises ==
  ~scanning =>
    \A k \in DOMAIN pieces :
      /\ IsFrame(pieces[k]) /\ taken >= EndOf(k)
      /\ \/ \A j \in 1..k : IsFrame(pieces[j])
         \/ taken >= StartOf(k) + FrameMax - 2
      => Len(handled) >= Len(SentUpTo(k))

(* No bytes of noise, nor of noise and frames together, happen to form a   *)
(* frame: where the stream reads as a frame, one was sent.                 *)
NoForgery ==
  \A i \in DOMAIN Stream :
    Verdict(Stream, i) = "found" =>
      \E k \in DOMAIN pieces : IsFrame(pieces[k]) /\ i = StartOf(k)

(* Between two pumps less than one frame is kept, so the cut at 512 bytes  *)
(* never falls on a frame.                                                 *)
BufferBounded ==
  /\ ~scanning => Len(rx_buf) < FrameMax
  /\ Len(rx_buf) < FrameMax + Chunk

(* "If nothing complete yet, consumed skips leading junk": a complete      *)
(* frame is not left waiting in the buffer.                                *)
NoneWaiting ==
  ~scanning => \A k \in DOMAIN pieces :
    IsFrame(pieces[k]) /\ taken >= EndOf(k) => Len(handled) >= Len(SentUpTo(k))

-----------------------------------------------------------------------------
(* Why: rx_buf_ is always the piece of the stream between what the scan is *)
(* through with and what was read, nothing having been cut off it; what    *)
(* was handled, and the parse of any longer stream from there on, is the   *)
(* parse of the whole; and the scan rests only at the start of a frame     *)
(* that may yet become complete.                                           *)
Done == taken - Len(rx_buf)
UpTo(n) == SubSeq(Stream, 1, n)
Typed ==
  /\ pieces \in BoundedSeq(Frames \cup Noise, MaxPieces)
  /\ scanning \in BOOLEAN /\ handled \in Seq(Seq(Nat))
BufferIsStream ==
  /\ taken \in 0..Len(Stream) /\ Done \in 0..taken
  /\ rx_buf = SubSeq(Stream, Done + 1, taken) /\ Len(rx_buf) < FrameMax + Chunk
RestsAtPartial == ~scanning => rx_buf = <<>> \/ Verdict(rx_buf, 1) = "partial"
ParsedSoFar ==
  \A n \in taken..Len(Stream) :
    Parse(UpTo(n)) = handled \o ParseFrom(UpTo(n))[Done + 1]
PumpInv == Typed /\ BufferIsStream /\ RestsAtPartial /\ ParsedSoFar
=============================================================================
