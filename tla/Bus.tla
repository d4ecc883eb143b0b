-------------------------------- MODULE Bus --------------------------------
(***************************************************************************)
(* What the hub promises the entities above it: a bus that holds one       *)
(* request or one reply, never two; each request ends in its own reply or  *)
(* is given up; writes go out in the order asked, before any read; and     *)
(* what a reply says was true when the controller made it.                 *)
(*                                                                         *)
(* No clock, no timeout, no hold, no buffer, no flag that tells old from   *)
(* new: those are how DanfossIconHub keeps the promise (HubBus).           *)
(***************************************************************************)
EXTENDS Sequences

CONSTANTS
  Rooms, PollList, Present, Statuses,   \* as in Hub
  Reads,                                \* the polls and probes the hub may make
  NoRequest

VARIABLES
  request,     \* the request whose reply is awaited, or NoRequest
  link,        \* what is on the bus
  queue,       \* writes asked for and not yet made
  inventory,   \* slots found by probing
  scheduled    \* rooms running the controller's own schedule

busVars == <<request, link, queue, inventory, scheduled>>

Silent == [stage |-> "silent"]
Sent(req) == [stage |-> "sent", req |-> req]
Came(status, bit) == [stage |-> "came", status |-> status, bit |-> bit]

Init ==
  /\ request = NoRequest /\ link = Silent
  /\ queue = <<>> /\ inventory = <<>>
  /\ scheduled = [r \in Rooms |-> FALSE]

Write(r, attr) == [kind |-> "write", idx |-> r, attr |-> attr]
PollsControl(req) == req.kind = "poll" /\ PollList[req.item].control

(* An entity asks for a write. *)
Ask(r) ==
  /\ queue' = Append(queue, Write(r, "setpoint"))
  /\ UNCHANGED <<request, link, inventory, scheduled>>

(* A request starts on a silent bus, the oldest write before any read. *)
Issue(req) == request = NoRequest /\ link = Silent /\ request' = req /\ link' = Sent(req)

IssueWrite ==
  /\ queue # <<>> /\ Issue(Head(queue)) /\ queue' = Tail(queue)
  /\ UNCHANGED <<inventory, scheduled>>

IssueRead(req) ==
  /\ queue = <<>> /\ Issue(req)
  /\ UNCHANGED <<queue, inventory, scheduled>>

(* The controller obeys a command and replies with the truth about it. *)
Obey(req) ==
  IF req.kind = "write" /\ req.attr = "control"
  THEN [scheduled EXCEPT ![req.idx] = FALSE] ELSE scheduled
Truth(req) ==
  \/ req.kind = "probe" /\ req.slot \in Present
  \/ PollsControl(req) /\ scheduled[PollList[req.item].idx]

Serve(status) ==
  /\ link.stage = "sent"
  /\ link' = Came(status, Truth(link.req))
  /\ scheduled' = IF status = "ok" THEN Obey(link.req) ELSE scheduled
  /\ UNCHANGED <<request, queue, inventory>>

(* The command or its reply is lost; the command may have been obeyed. *)
Lost ==
  /\ link.stage = "sent" /\ link' = Silent
  /\ scheduled' \in {scheduled, Obey(link.req)}
  /\ UNCHANGED <<request, queue, inventory>>

(* The reply to the request reaches it: a slot found there is listed, a    *)
(* schedule found running is answered with a write.                        *)
Accept ==
  /\ request # NoRequest /\ link.stage = "came"
  /\ LET yes == link.status = "ok" /\ link.bit
     IN  /\ inventory' = IF yes /\ request.kind = "probe"
                         THEN Append(inventory, request.slot) ELSE inventory
         /\ queue' = IF yes /\ PollsControl(request)
                     THEN Append(queue, Write(PollList[request.item].idx, "control"))
                     ELSE queue
  /\ request' = NoRequest /\ link' = Silent
  /\ UNCHANGED scheduled

(* The hub stops waiting; what is on the bus is nobody's from then on. *)
GiveUp ==
  /\ request # NoRequest /\ request' = NoRequest
  /\ UNCHANGED <<link, queue, inventory, scheduled>>

Discard ==
  /\ request = NoRequest /\ link.stage = "came" /\ link' = Silent
  /\ UNCHANGED <<request, queue, inventory, scheduled>>

StartSchedule(r) ==
  /\ scheduled' = [scheduled EXCEPT ![r] = TRUE]
  /\ UNCHANGED <<request, link, queue, inventory>>

Next ==
  \/ \E r \in Rooms : Ask(r) \/ StartSchedule(r)
  \/ IssueWrite \/ \E req \in Reads : IssueRead(req)
  \/ \E status \in Statuses : Serve(status)
  \/ Lost \/ Accept \/ GiveUp \/ Discard

Spec == Init /\ [][Next]_busVars

(* A slot is listed only if it is there: follows from the one place on the *)
(* bus, without any knowledge of how the hub keeps it.  The reply to a     *)
(* probe says whether its own slot is there.                               *)
OnlyPresent == inventory \in Seq(Present)
OwnTruth ==
  request # NoRequest /\ request.kind = "probe" =>
    /\ link.stage = "sent" => link.req = request
    /\ link.stage = "came" =>
         link.status \in Statuses /\ (link.bit <=> request.slot \in Present)
BusInv == OnlyPresent /\ OwnTruth
=============================================================================
