---------------------------- MODULE PairingLink ----------------------------
(* The device's link to a Mac: PairingManager of the firmware, its client_ *)
(* and the worker that connects it (pairing.cpp).  deck is the object; its *)
(* member functions are operators from one value of it to the next, which  *)
(* tick runs one after the other.  The Agents at the other end and the     *)
(* network are in Pairing.                                                 *)
EXTENDS Naturals, Sequences, FiniteSets

CONSTANTS Mac,                 \* the Macs of the network; one stands for its
                               \* bridge id and for its address
          None,                \* no Mac, no token, no connection
          Unpaired,            \* not in paired_[]
          MaxPairedMacs,       \* kMaxPairedMacs
          HeartbeatMissLimit,  \* kHeartbeatMissLimit
          MaxTokens            \* bound: pairings with one Mac

ASSUME FiniteMacs == IsFiniteSet(Mac)
ASSUME Limits == MaxPairedMacs \in Nat \ {0} /\ HeartbeatMissLimit \in Nat \ {0}

(* A token is what pairing with a Mac issues: 32 fresh random bytes.       *)
Token == [mac : Mac, n : 1 .. MaxTokens]

ASSUME Nones == None \notin Mac \cup Token \cup {Unpaired} /\ Unpaired \notin Token

(* client_: the Mac it is connected to, whether the line is open, cut      *)
(* without either end knowing, or closed by the Mac; and the lines on      *)
(* their way there and back.                                               *)
NoClient == [peer |-> None, line |-> "off", out |-> <<>>, in |-> <<>>]

(* connected() stays true while there is something left to read.           *)
ClientConnected(d) ==
  \/ d.client.line \in {"open", "cut"}
  \/ d.client.line = "closed" /\ d.client.in # <<>>

Stop(d) == [d EXCEPT !.client = NoClient]

(* sendDocument.  What is written to a line that is no longer open is lost.*)
Send(d, m) == IF d.client.line = "open" THEN [d EXCEPT !.client.out = Append(@, m)] ELSE d

(* The token that sendDocument adds to what a connected device sends.      *)
Signed(d) == IF d.state = "Connected" THEN d.targetToken ELSE None

IsPaired(d, m) == m \in Mac /\ d.paired[m] # Unpaired
PairedCount(d) == Cardinality({m \in Mac : IsPaired(d, m)})
StoredToken(d, m) == IF IsPaired(d, m) THEN d.paired[m] ELSE None

(* begin, and the members' initial values: what survives in NVS is paired_ *)
(* and lastMacId, both written whenever they change.                       *)
Booted(paired, last) ==
  [paired |-> paired, last |-> last, targetId |-> last, targetIp |-> None,
   targetToken |-> None, state |-> "Offline", discovered |-> {}, search |-> "off",
   requested |-> FALSE, rediscover |-> TRUE, manual |-> FALSE, mdns |-> FALSE,
   worker |-> "idle", workerIp |-> None, cancel |-> FALSE, due |-> TRUE,
   missed |-> 0, audio |-> None, agents |-> FALSE, client |-> NoClient]

-----------------------------------------------------------------------------
(* Losing and leaving a connection.                                        *)
InFlight(d) == d.worker # "idle"
AutoReconnect(d) == ~d.manual /\ d.targetId # None

SetAudioReady(d) ==
  [d EXCEPT !.audio = IF d.targetToken = None THEN None
                      ELSE [mac |-> d.targetIp, token |-> d.targetToken]]

(* While the worker has client_, an attempt is only marked as cancelled.   *)
CancelConnectionAttempt(d) ==
  IF InFlight(d) THEN [d EXCEPT !.cancel = TRUE]
  ELSE IF ClientConnected(d) THEN Stop(d) ELSE d

ScheduleReconnect(d) == [d EXCEPT !.due = FALSE, !.rediscover = TRUE]

Quiet(d) == [d EXCEPT !.state = "Offline", !.agents = FALSE, !.audio = None]

ConnectionLost(d) == ScheduleReconnect(Quiet(CancelConnectionAttempt(d)))

Disconnect(d, manual) ==
  LET left == [Quiet(CancelConnectionAttempt(d)) EXCEPT !.manual = manual, !.missed = 0]
  IN  IF manual THEN [left EXCEPT !.targetId = None, !.targetToken = None, !.last = None]
      ELSE left

-----------------------------------------------------------------------------
(* Connecting.                                                             *)
SendHello(d) ==
  LET t == StoredToken(d, d.targetId)
      h == [d EXCEPT !.targetToken = t]
  IN  IF ~ClientConnected(d) THEN ConnectionLost(h)
      ELSE [Send(h, [t |-> "hello", token |-> t]) EXCEPT
              !.state = IF t = None THEN "AwaitingPairCode" ELSE "Authenticating"]

(* ok: the worker task could be created.                                   *)
AttemptConnection(d, ok) ==
  IF InFlight(d) THEN d
  ELSE IF d.targetIp = None THEN ScheduleReconnect(d)
  ELSE IF ~ok THEN [ScheduleReconnect(Stop(d)) EXCEPT !.state = "Offline", !.cancel = FALSE]
  ELSE [Stop(d) EXCEPT !.state = "Connecting", !.worker = "trying",
                       !.workerIp = d.targetIp, !.cancel = FALSE]

(* MUTANT: a cancelled attempt is used all the same.                       *)
CancelledByWifi(d, wifi) == ~wifi

Cancelled(d, wifi) == d.cancel \/ ~wifi

PollConnectionAttempt(d, wifi) ==
  LET r == [d EXCEPT !.worker = "idle", !.workerIp = None, !.cancel = FALSE]
  IN  IF d.worker \notin {"connected", "failed"} THEN d
      ELSE IF Cancelled(d, wifi) THEN [Stop(r) EXCEPT !.state = "Offline"]
      ELSE IF d.worker = "failed" THEN [ScheduleReconnect(r) EXCEPT !.state = "Offline"]
      ELSE SendHello([r EXCEPT !.missed = 0])

-----------------------------------------------------------------------------
(* Discovery.  A search is for the list of Macs or for reconnecting.       *)
StartDiscovery(d, forReconnect, ok, wifi) ==
  LET mode    == IF forReconnect THEN "reconnect" ELSE "list"
      begun   == [d EXCEPT !.requested = FALSE, !.search = mode,
                    !.state = IF ClientConnected(d) THEN @ ELSE "Discovering"]
      refused == [begun EXCEPT !.search = "off",
                    !.state = IF ClientConnected(d) THEN @ ELSE "Offline"]
  IN  IF ~wifi \/ ~d.mdns \/ InFlight(d) THEN d
      ELSE IF d.search # "off"
           THEN [d EXCEPT !.search = IF forReconnect THEN "reconnect" ELSE @]
      ELSE IF ok THEN begun
      ELSE IF forReconnect THEN ScheduleReconnect(refused) ELSE refused

Reconnects(d) == d.search = "reconnect" /\ AutoReconnect(d)

(* A finished search, with the Macs it found.                              *)
Aim(d, m) == [d EXCEPT !.targetIp = m]

PollDiscovery(d, found, taskOk, wifi) ==
  LET over  == [d EXCEPT !.search = "off"]
      known == [over EXCEPT !.discovered = found,
                  !.state = IF ClientConnected(d) THEN @ ELSE "Offline",
                  !.rediscover = d.targetId # None /\ d.targetId \notin found]
  IN  IF ~wifi THEN [over EXCEPT !.discovered = {}, !.rediscover = TRUE]
      ELSE IF ~Reconnects(d) THEN known
      ELSE IF d.targetId \notin found THEN ScheduleReconnect(known)
      ELSE AttemptConnection(Aim(known, d.targetId), taskOk)
-----------------------------------------------------------------------------
(* A line from the Mac.  A connected device takes only what is signed with *)
(* its token; "signed" are the kinds of line that carry one.               *)
Signable == {"pong", "agent_list"}
Foreign(d, m) == d.state = "Connected" /\ m.t \in Signable /\ m.token # d.targetToken

Welcome(d) ==
  [Send(SetAudioReady([d EXCEPT !.state = "Connected"]),
        [t |-> "agent_list_req", token |-> d.targetToken]) EXCEPT !.last = d.targetId]

(* A pairing the device has room for is stored under the target's id.      *)
HasRoom(d) == IsPaired(d, d.targetId) \/ PairedCount(d) < MaxPairedMacs

Paired(d, token) ==
  LET p == [d EXCEPT !.targetToken = token]
  IN  IF HasRoom(d) THEN Welcome([p EXCEPT !.paired[d.targetId] = token]) ELSE ConnectionLost(p)

(* The token is refused: it is forgotten, and the device asks to pair.     *)
Forgotten(d) ==
  [d EXCEPT !.paired = [m \in Mac |-> IF m = d.targetId /\ IsPaired(d, m) THEN None ELSE @[m]],
            !.targetToken = None]

HandleLine(d, m) ==
  CASE Foreign(d, m) -> d
    [] m.t = "upgrade_required" ->
         [Stop(Quiet(d)) EXCEPT !.state = "Incompatible", !.manual = TRUE, !.missed = 0]
    [] m.t = "ping" -> Send(d, [t |-> "pong", token |-> Signed(d)])
    [] m.t \in {"pair_required", "pair_error"} -> [d EXCEPT !.state = "AwaitingPairCode"]
    [] m.t = "paired" -> Paired(d, m.token)
    [] m.t = "hello_ok" -> Welcome(d)
    [] m.t = "auth_error" -> SendHello(Forgotten([d EXCEPT !.state = "AwaitingPairCode"]))
    [] m.t = "pong" /\ ~Foreign(d, m) -> [d EXCEPT !.missed = 0]
    [] m.t = "agent_list" /\ ~Foreign(d, m) -> [d EXCEPT !.agents = TRUE]

-----------------------------------------------------------------------------
(* tick.  w is what it meets: whether a running search is done and what it *)
(* found, whether tasks, searches and mDNS can be started, and whether it  *)
(* is time for a heartbeat.                                                *)
NoWifi(d) ==
  LET q == [Quiet(CancelConnectionAttempt(d)) EXCEPT
              !.discovered = {}, !.requested = FALSE, !.rediscover = TRUE]
  IN  IF d.mdns /\ d.search = "off" THEN [q EXCEPT !.mdns = FALSE, !.due = TRUE] ELSE q

Polled(d, wifi, w) ==
  PollConnectionAttempt(
    IF w.done /\ d.search # "off" THEN PollDiscovery(d, w.found, w.ok, wifi) ELSE d, wifi)

MdnsStarted(d, w) ==
  IF d.mdns \/ ~w.ok THEN d
  ELSE [d EXCEPT !.mdns = TRUE, !.requested = TRUE, !.rediscover = TRUE, !.due = TRUE]

SearchRequested(d, w) ==
  IF d.requested /\ ~InFlight(d) THEN StartDiscovery(d, AutoReconnect(d) /\ d.due, w.ok, TRUE)
  ELSE d

(* One line is read in a tick: those that arrive together are read by the  *)
(* ticks that follow.                                                      *)
Read(d) ==
  IF d.client.in = <<>> THEN d
  ELSE HandleLine([d EXCEPT !.client.in = Tail(@)], Head(d.client.in))

(* MUTANT: unanswered heartbeats are not counted.                          *)
UncountedBeat(d) == IF ~ClientConnected(d) THEN ConnectionLost(d)
                    ELSE Send(d, [t |-> "ping", token |-> Signed(d)])

Beat(d) ==
  IF ~ClientConnected(d) THEN ConnectionLost(d)
  ELSE LET p == [Send(d, [t |-> "ping", token |-> Signed(d)]) EXCEPT !.missed = @ + 1]
       IN  IF p.missed >= HeartbeatMissLimit THEN ConnectionLost(p) ELSE p

Serve(d, w) == IF w.beat THEN Beat(Read(d)) ELSE Read(d)

MayReconnect(d) == AutoReconnect(d) /\ d.search = "off" /\ d.due

Reconnect(d, w) ==
  LET l == IF d.state \in {"Connected", "Authenticating", "AwaitingPairCode"}
           THEN ConnectionLost(d) ELSE d
  IN  IF ~MayReconnect(l) THEN l
      ELSE IF l.targetId \in l.discovered /\ ~l.rediscover
           THEN AttemptConnection(Aim(l, l.targetId), w.ok)
           ELSE StartDiscovery(l, TRUE, w.ok, TRUE)

Tick(d, wifi, w) ==
  LET p == Polled(d, wifi, w)
      s == SearchRequested(MdnsStarted(p, w), w)
  IN  IF ~wifi THEN NoWifi(p)
      ELSE IF InFlight(s) THEN s
      ELSE IF ClientConnected(s) THEN Serve(s, w)
      ELSE Reconnect(s, w)

-----------------------------------------------------------------------------
(* What the pages and the serial console call between two ticks.           *)
RequestDiscovery(d, wifi) == IF wifi THEN [d EXCEPT !.requested = TRUE] ELSE d

ConnectToDiscovered(d, m) ==
  [Disconnect(d, FALSE) EXCEPT !.targetId = m, !.targetIp = m,
     !.targetToken = StoredToken(d, m), !.due = TRUE, !.rediscover = FALSE]

PairedCurrent(d, m) == d.state = "Connected" /\ d.targetId = m

DeletePairing(d, m) ==
  [(IF PairedCurrent(d, m) THEN Disconnect(d, TRUE) ELSE d) EXCEPT !.paired[m] = Unpaired]

SubmitPairCode(d, right) ==
  IF ~ClientConnected(d) THEN d
  ELSE Send([d EXCEPT !.state = "Authenticating"], [t |-> IF right THEN "pair" ELSE "pair_wrong", token |-> None])
=============================================================================
