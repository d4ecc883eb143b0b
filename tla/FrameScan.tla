---------------------------- MODULE FrameScan ----------------------------
(***************************************************************************)
(* scan_frame() of protocol.h: where a received byte string holds its next *)
(* frame.  A frame is [sync][len][fixed][rest ...][crc]; len counts it     *)
(* whole.  The two CRC bytes are one here, and the CRC of a body tells it  *)
(* from every other body of the instance.                                  *)
(***************************************************************************)
EXTENDS Integers, Sequences, SequencesExt

CONSTANTS FrameMin, FrameMax   \* DI_FRAME_MIN, DI_FRAME_MAX: 7 and 128

ASSUME FrameAssumption ==
  FrameMin \in Nat /\ FrameMax \in Nat /\ 4 <= FrameMin /\ FrameMin <= FrameMax

Sync == 1
Fixed == 1
Crc(body) == 100 + FoldLeft(LAMBDA sum, byte : 8 * sum + byte, 0, body)

(* build_read, build_write and the controller frame a payload alike. *)
Frame(payload) ==
  LET body == <<Sync, Len(payload) + 4, Fixed>> \o payload
  IN  Append(body, Crc(body))

\* mutant: a length over the maximum is believed
AnyLength(len) == len >= FrameMin
LengthOk(len) == FrameMin <= len /\ len <= FrameMax

\* mutant: the CRC is not checked
NoCrcCheck(buf, i) == TRUE
CrcOk(buf, i) ==
  LET last == i + buf[i + 1] - 1 IN buf[last] = Crc(SubSeq(buf, i, last - 1))

(* What the byte at position i of buf turns out to be: no start of a frame,*)
(* one that needs more bytes, one whose CRC fails, or a frame.             *)
Verdict(buf, i) ==
  LET n == Len(buf)
  IN  IF buf[i] # Sync THEN "junk"
      ELSE IF i + FrameMin - 1 > n THEN "partial"
      ELSE IF ~LengthOk(buf[i + 1]) THEN "junk"
      ELSE IF i + buf[i + 1] - 1 > n THEN "partial"
      ELSE IF buf[i + 2] # Fixed THEN "junk"
      ELSE IF CrcOk(buf, i) THEN "found" ELSE "bad_crc"

(* The scan stops at the first position that is not junk.  "consumed"      *)
(* bytes may go: through a frame, past a bad frame's sync, or the junk.    *)
Starts(buf) == {i \in DOMAIN buf : Verdict(buf, i) # "junk"}
Start(buf) == CHOOSE i \in Starts(buf) : \A j \in Starts(buf) : i <= j
EndOfFrame(buf) == Start(buf) + buf[Start(buf) + 1] - 1

\* mutant: a frame with a bad CRC is dropped whole
ConsumedWhole(buf, verdict) ==
  CASE verdict = "junk" -> Len(buf)
    [] verdict = "partial" -> Start(buf) - 1
    [] OTHER -> EndOfFrame(buf)

Consumed(buf, verdict) ==
  CASE verdict = "junk" -> Len(buf)
    [] verdict = "partial" -> Start(buf) - 1
    [] verdict = "bad_crc" -> Start(buf)
    [] verdict = "found" -> EndOfFrame(buf)

Scan(buf) ==
  LET verdict == IF Starts(buf) = {} THEN "junk" ELSE Verdict(buf, Start(buf))
  IN  [verdict |-> verdict, consumed |-> Consumed(buf, verdict),
       frame |-> IF verdict = "found" THEN SubSeq(buf, Start(buf), EndOfFrame(buf)) ELSE <<>>]
=============================================================================
