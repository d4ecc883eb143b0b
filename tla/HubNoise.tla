------------------------------ MODULE HubNoise ------------------------------
(***************************************************************************)
(* The hub over a line that cuts replies short.  What is left of one       *)
(* begins with a header that promises more bytes than came: scan_frame()   *)
(* waits for them, and pump_rx_() hands over nothing while the replies     *)
(* behind it have not made up the number.  Then the checksum fails, the    *)
(* scan goes on, and every reply behind the stub comes out in one pass.    *)
(* No timeout empties rx_buf_.                                             *)
(***************************************************************************)
EXTENDS HubLockstep

CONSTANTS
  MaxNeed,   \* most replies it takes to make up the bytes a stub promises
  MaxCuts    \* bound: replies cut short

ASSUME NoiseAssumption == MaxNeed \in Nat /\ MaxCuts \in Nat

VARIABLES
  stub,      \* at the front of rx_buf_: replies it needs, replies behind it
  cuts,      \* replies cut short so far
  mispaired  \* replies accepted for a request they do not answer

noiseVars == <<vars, stub, cuts, mispaired>>

NoStub == [need |-> 0, behind |-> <<>>]

NInit == Init /\ stub = NoStub /\ cuts = 0 /\ mispaired = 0

(* The controller has answered, and the end of its reply does not arrive.  *)
(* One stub stands in rx_buf_ at a time.                                   *)
CutShort(status, need) ==
  /\ cuts < MaxCuts /\ wire # <<>> /\ stub = NoStub /\ uart = <<>> /\ rx_buf = <<>>
  /\ stub' = [NoStub EXCEPT !.need = need] /\ cuts' = cuts + 1
  /\ wire' = Tail(wire)
  /\ scheduled' = IF status = "ok" THEN Obeyed(Head(wire).req) ELSE scheduled
  /\ UNCHANGED <<clock, phase, lag, txVars, quiet_until, write_queue, discVars,
                 pollVars, linkVars, uart, rx_buf, ha_writes, mispaired>>

(* What comes out of rx_buf_ when these replies stand behind the stub.     *)
Release(behind) ==
  IF Len(behind) >= stub.need THEN [out |-> behind, stub |-> NoStub]
  ELSE [out |-> <<>>, stub |-> [stub EXCEPT !.behind = behind]]

DrainBehindStub ==
  /\ phase = "drain" /\ stub # NoStub
  /\ LET r == Release(stub.behind \o uart)
     IN  rx_buf' = rx_buf \o r.out /\ stub' = r.stub
  /\ uart' = <<>> /\ phase' = "frames" /\ lag' = 0
  /\ UNCHANGED <<clock, txVars, quiet_until, write_queue, discVars, pollVars,
                 linkVars, wire, envVars, cuts, mispaired>>

(* Everything else is the hub's own step.  A reply behind the stub grows   *)
(* old like one in the UART when another request is sent.                  *)
Sending == state = "IDLE" /\ state' = "WAITING"
HubStep ==
  /\ Next /\ (DrainUart => stub = NoStub)
  /\ stub' = IF Sending THEN [stub EXCEPT !.behind = Superseded(@)] ELSE stub
  /\ mispaired' = IF AcceptReply /\ ~Head(rx_buf).current THEN mispaired + 1
                  ELSE mispaired
  /\ UNCHANGED cuts

NNext ==
  \/ HubStep \/ DrainBehindStub
  \/ \E status \in Statuses, need \in 1..MaxNeed : CutShort(status, need)

NSpec == NInit /\ [][NNext]_noiseVars

(* A reply cut short costs at most one reading: the replies that come out  *)
(* together meet one request, the others are dropped, and the pairing is   *)
(* right again - it never stays shifted "off-by-one until reboot"          *)
(* (danfoss_icon.h; handle_frame_, pump_rx_).                              *)
MispairBounded == mispaired <= cuts

(* Why: the wire is as in HubLockstep, whatever comes out of rx_buf_.  A   *)
(* cut reply pays for the stub, the stub for the wrong reply about to meet *)
(* the request, that one for what was mispaired.                           *)
StubTyped ==
  /\ stub \in [need : Nat, behind : Seq(Replies)]
  /\ cuts \in Nat /\ mispaired \in Nat
StubWaits == stub # NoStub => Len(stub.behind) < stub.need
Mispairing == state = "WAITING" /\ rx_buf # <<>> /\ ~Head(rx_buf).current
CutsPay ==
  mispaired + (IF stub # NoStub THEN 1 ELSE 0) + (IF Mispairing THEN 1 ELSE 0) <= cuts
NoiseInv == WireInv /\ StubTyped /\ StubWaits /\ CutsPay
=============================================================================
