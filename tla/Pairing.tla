------------------------------ MODULE Pairing ------------------------------
(* A device and the Agents of the Macs it may pair with: PairingLink's     *)
(* device, with the worker that connects it and the user before it, over a *)
(* network that loses lines, and the part of handle_client and of          *)
(* BridgeConfig that pairs and authenticates it.                           *)
(*                                                                         *)
(* budget bounds what goes wrong and what the user and the App do, so that *)
(* a behaviour is undisturbed in the end; everything else costs nothing.   *)
EXTENDS PairingLink

CONSTANT Disturbances        \* bound: the budget

ASSUME Bounds == MaxTokens \in Nat \ {0} /\ Disturbances \in Nat

VARIABLES deck,      \* the device
          wifi,      \* wifi_.connected()
          reach,     \* the Macs that answer mDNS and connections
          token,     \* BridgeConfig: the device's token on each Mac, or None
          session,   \* handle_client, per Mac: the phase of the device's
                     \* connection and authenticated_token
          late,      \* the Macs with an abandoned connection on which a right
                     \* code is still to be read
          budget

vars == <<deck, wifi, reach, token, session, late, budget>>

NoSession == [phase |-> "none", token |-> None]

(* The device booted with what pairings it kept; Macs may have dropped     *)
(* theirs since.                                                           *)
Init ==
  /\ \E P \in SUBSET Mac, m \in Mac \cup {None} :
       /\ Cardinality(P) <= MaxPairedMacs
       /\ m # None => m \in P
       /\ deck = Booted([x \in Mac |-> IF x \in P THEN [mac |-> x, n |-> 1] ELSE Unpaired], m)
       /\ token = [x \in Mac |-> IF x \in P THEN [mac |-> x, n |-> 1] ELSE None]
  /\ wifi = TRUE /\ reach = Mac
  /\ session = [m \in Mac |-> NoSession] /\ late = {}
  /\ budget = Disturbances

(* The device moves to d.  A connection it leaves ends the Mac's task, but *)
(* only after that has read what was sent.                                 *)
Leaves(d) == deck.client.peer # None /\ d.client.peer # deck.client.peer

Moves(d) ==
  /\ deck' = d
  /\ IF Leaves(d)
     THEN LET m == deck.client.peer IN
       /\ session' = [session EXCEPT ![m] = NoSession]
       /\ late' = IF /\ session[m].phase = "code" /\ deck.client.line = "open"
                     /\ \E i \in DOMAIN deck.client.out : deck.client.out[i].t = "pair"
                  THEN late \cup {m} ELSE late
     ELSE UNCHANGED <<session, late>>

Spend == budget > 0 /\ budget' = budget - 1
Free == UNCHANGED budget

-----------------------------------------------------------------------------
(* The device's own steps.                                                 *)
World(found, done, ok, beat) == [found |-> found, done |-> done, ok |-> ok, beat |-> beat]

(* A tick that all goes well in; a search that ends finds who answers.     *)
Ticks(done, beat) ==
  /\ Moves(Tick(deck, wifi, World(reach, done, TRUE, beat)))
  /\ Free /\ UNCHANGED <<wifi, reach, token>>

QuietTick == Ticks(FALSE, FALSE)
SearchEnds == deck.search # "off" /\ Ticks(TRUE, FALSE)

(* A heartbeat is due, which it is not on a line the worker only just      *)
(* connected; the answers to the last one have come or never will.         *)
Heartbeat ==
  /\ deck.worker = "idle"
  /\ \/ deck.client.line = "cut"
     \/ deck.client.line = "open" /\ deck.client.out = <<>> /\ deck.client.in = <<>>
  /\ Ticks(FALSE, TRUE)

(* A tick that meets a failure: an answer missed by the search, no memory  *)
(* for a task, a search or mDNS, a heartbeat before the last one's answer. *)
BadTick ==
  /\ \E found \in SUBSET reach, done, ok, beat \in BOOLEAN :
       Moves(Tick(deck, wifi, World(found, done, ok, beat)))
  /\ Spend /\ UNCHANGED <<wifi, reach, token>>

ReconnectDelayOver ==
  /\ ~deck.due /\ deck' = [deck EXCEPT !.due = TRUE]
  /\ Free /\ UNCHANGED <<wifi, reach, token, session, late>>

(* connectTaskEntry, on its own task: client_ is its own until it is done. *)
WorkerDone ==
  /\ deck.worker = "trying"
  /\ LET m == deck.workerIp IN
     IF wifi /\ m \in reach
     THEN /\ deck' = [deck EXCEPT !.worker = "connected",
                        !.client = [peer |-> m, line |-> "open", out |-> <<>>, in |-> <<>>]]
          /\ session' = [session EXCEPT ![m] = [phase |-> "hello", token |-> None]]
     ELSE deck' = [deck EXCEPT !.worker = "failed"] /\ UNCHANGED session
  /\ Free /\ UNCHANGED <<wifi, reach, token, late>>

Reboot ==
  /\ Moves(Booted(deck.paired, deck.last))
  /\ Spend /\ UNCHANGED <<wifi, reach, token>>

(* The pages and the serial console.                                       *)
User ==
  /\ \/ Moves(RequestDiscovery(deck, wifi))
     \/ Moves(Disconnect(deck, TRUE))
     \/ \E m \in deck.discovered : Moves(ConnectToDiscovered(deck, m))
     \/ \E m \in Mac : IsPaired(deck, m) /\ Moves(DeletePairing(deck, m))
     \/ \E right \in BOOLEAN : Moves(SubmitPairCode(deck, right))
  /\ Spend /\ UNCHANGED <<wifi, reach, token>>

-----------------------------------------------------------------------------
(* The Mac the device is connected to.                                     *)
Online(m) == deck.client.peer = m /\ deck.client.line = "open"

(* Tokens are random: a new one is any that nobody knows any more, for as  *)
(* long as the bound leaves one.                                           *)
Known(m) ==
  {token[m], session[m].token, deck.targetToken} \cup {deck.paired[m]}
  \cup (IF deck.audio = None THEN {} ELSE {deck.audio.token})
  \cup {deck.client.in[i].token : i \in DOMAIN deck.client.in}
Fresh(m) == {n \in 1 .. MaxTokens : [mac |-> m, n |-> n] \notin Known(m)}
Issuable(m) == Fresh(m) # {}
NewToken(m) == [mac |-> m, n |-> CHOOSE n \in Fresh(m) : TRUE]

Answer(t, tok) ==
  deck' = [deck EXCEPT !.client.out = Tail(@), !.client.in = Append(@, [t |-> t, token |-> tok])]
Ignore == deck' = [deck EXCEPT !.client.out = Tail(@)]
Hangs == deck' = [deck EXCEPT !.client.out = <<>>, !.client.line = "closed"]

Validates(m, tok) == token[m] # None /\ tok = token[m]

OnHello(m, tok) ==
  /\ IF Validates(m, tok)
     THEN /\ session' = [session EXCEPT ![m] = [phase |-> "ready", token |-> tok]]
          /\ Answer("hello_ok", None)
     ELSE IF tok # None THEN Answer("auth_error", None) /\ UNCHANGED session
     ELSE /\ session' = [session EXCEPT ![m].phase = "code"]
          /\ Answer("pair_required", None)
  /\ UNCHANGED token

OnPair(m) ==
  /\ Issuable(m) /\ token' = [token EXCEPT ![m] = NewToken(m)]
  /\ session' = [session EXCEPT ![m] = [phase |-> "ready", token |-> NewToken(m)]]
  /\ Answer("paired", NewToken(m))

(* A line of a device whose connection is not authenticated yet, and of    *)
(* one that is.                                                            *)
BeforeReady(m, msg) ==
  CASE msg.t = "hello" -> OnHello(m, msg.token)
    [] msg.t = "pair" /\ session[m].phase = "code" -> OnPair(m)
    [] msg.t = "pair_wrong" /\ session[m].phase = "code" ->
         Answer("pair_error", None) /\ UNCHANGED <<token, session>>
    [] msg.t = "ping" -> Answer("pong", None) /\ UNCHANGED <<token, session>>
    [] OTHER -> Ignore /\ UNCHANGED <<token, session>>

WhenReady(m, msg) ==
  /\ IF msg.token = session[m].token /\ msg.t = "ping" THEN Answer("pong", session[m].token)
     ELSE IF msg.token = session[m].token /\ msg.t = "agent_list_req"
     THEN Answer("agent_list", session[m].token)
     ELSE Ignore
  /\ UNCHANGED <<token, session>>

AgentReads(m) ==
  /\ Online(m) /\ deck.client.out # <<>>
  /\ IF session[m].phase = "ready" THEN WhenReady(m, Head(deck.client.out))
     ELSE BeforeReady(m, Head(deck.client.out))
  /\ Free /\ UNCHANGED <<wifi, reach, late>>

(* The code of an abandoned connection is read and a token issued that     *)
(* nobody receives; registering that session ends the one of the device.   *)
LatePair(m) ==
  /\ m \in late /\ late' = late \ {m}
  /\ Issuable(m) /\ token' = [token EXCEPT ![m] = NewToken(m)]
  /\ IF Online(m) /\ session[m].phase = "ready"
     THEN Hangs /\ session' = [session EXCEPT ![m] = NoSession]
     ELSE UNCHANGED <<deck, session>>
  /\ Free /\ UNCHANGED <<wifi, reach>>

LateLost(m) == m \in late /\ late' = late \ {m} /\ Free
               /\ UNCHANGED <<deck, wifi, reach, token, session>>

(* The Mac ends the connection: a timeout, an expired code, the third      *)
(* wrong one, a restart.                                                   *)
AgentHangsUp(m) ==
  /\ Online(m) /\ Hangs
  /\ session' = [session EXCEPT ![m] = NoSession]
  /\ Spend /\ UNCHANGED <<wifi, reach, token, late>>

(* hello of a device the bridge has become too new for.                    *)
AgentRefuses(m) ==
  /\ Online(m) /\ deck.client.out # <<>> /\ Head(deck.client.out).t = "hello"
  /\ session[m].phase # "ready"
  /\ deck' = [deck EXCEPT !.client.out = <<>>, !.client.line = "closed",
                !.client.in = Append(@, [t |-> "upgrade_required", token |-> None])]
  /\ session' = [session EXCEPT ![m] = NoSession]
  /\ Spend /\ UNCHANGED <<wifi, reach, token, late>>

(* A right code whose token is filed but cannot be saved.                  *)
PairUnsaved(m) ==
  /\ Online(m) /\ deck.client.out # <<>> /\ Head(deck.client.out).t = "pair"
  /\ session[m].phase = "code" /\ Hangs
  /\ Issuable(m) /\ token' = [token EXCEPT ![m] = NewToken(m)]
  /\ session' = [session EXCEPT ![m] = NoSession]
  /\ Spend /\ UNCHANGED <<wifi, reach, late>>

(* Five seconds of silence.                                                *)
AgentPings(m) ==
  /\ Online(m) /\ session[m].phase = "ready"
  /\ deck' = [deck EXCEPT !.client.in = Append(@, [t |-> "ping", token |-> session[m].token])]
  /\ Spend /\ UNCHANGED <<wifi, reach, token, session, late>>

(* The App unpairs the device.                                             *)
Unpair(m) ==
  /\ token[m] # None /\ token' = [token EXCEPT ![m] = None]
  /\ IF Online(m) /\ session[m].phase = "ready"
     THEN Hangs /\ session' = [session EXCEPT ![m] = NoSession]
     ELSE UNCHANGED <<deck, session>>
  /\ Spend /\ UNCHANGED <<wifi, reach, late>>

(* The network: a line is cut, Wi-Fi comes and goes, a Mac sleeps or wakes.*)
CutLine == IF deck.client.line = "open" THEN [deck EXCEPT !.client.line = "cut", !.client.out = <<>>] ELSE deck

Network ==
  /\ \/ deck.client.line = "open" /\ deck' = CutLine /\ UNCHANGED <<wifi, reach>>
     \/ wifi' = ~wifi /\ deck' = CutLine /\ UNCHANGED reach
     \/ \E m \in Mac :
          /\ reach' = IF m \in reach THEN reach \ {m} ELSE reach \cup {m}
          /\ deck' = IF deck.client.peer = m THEN CutLine ELSE deck
          /\ UNCHANGED wifi
  /\ Spend /\ UNCHANGED <<token, session, late>>

Next ==
  \/ QuietTick \/ SearchEnds \/ Heartbeat \/ BadTick \/ ReconnectDelayOver \/ WorkerDone
  \/ Reboot \/ User \/ Network
  \/ \E m \in Mac :
       \/ AgentReads(m) \/ LatePair(m) \/ LateLost(m) \/ AgentHangsUp(m) \/ AgentRefuses(m)
       \/ PairUnsaved(m) \/ AgentPings(m) \/ Unpair(m)

(* The main loop ticks, the worker and the Agent run, time passes.         *)
Fairness ==
  /\ WF_vars(QuietTick) /\ WF_vars(SearchEnds) /\ SF_vars(Heartbeat)
  /\ WF_vars(ReconnectDelayOver) /\ WF_vars(WorkerDone)
  /\ \A m \in Mac : WF_vars(AgentReads(m))

Spec == Init /\ [][Next]_vars /\ Fairness

-----------------------------------------------------------------------------
PairingTypeOK ==
  /\ deck.paired \in [Mac -> Token \cup {None, Unpaired}]
  /\ PairedCount(deck) <= MaxPairedMacs
  /\ deck.state \in {"Offline", "Discovering", "Connecting", "AwaitingPairCode",
                     "Authenticating", "Connected", "Incompatible"}
  /\ token \in [Mac -> Token \cup {None}]
  /\ session \in [Mac -> [phase : {"none", "hello", "code", "ready"}, token : Token \cup {None}]]

(* A token the device keeps, or signs its audio with, was issued by the    *)
(* Mac it keeps it for, and by the one its audio goes to: an answer that   *)
(* belongs to a connection given up for another Mac never counts.          *)
TokenOfIssuer ==
  /\ \A m \in Mac : deck.paired[m] \in Token => deck.paired[m].mac = m
  /\ deck.audio # None => deck.audio.token.mac = deck.audio.mac

(* While the device takes itself for connected over an open line, it is    *)
(* connected to the Mac it aimed at, that Mac has authenticated this very  *)
(* connection, and both sign with the same token.                          *)
Agreement ==
  deck.state = "Connected" /\ deck.client.line = "open" =>
    /\ deck.client.peer = deck.targetId
    /\ session[deck.targetId] = [phase |-> "ready", token |-> deck.targetToken]

(* A device that means to be connected, on a network that stays up, ends   *)
(* up connected, or asking for the pair code.                              *)
Meant == wifi /\ deck.targetId \in reach /\ ~deck.manual
Settled == \/ deck.state = "Connected" /\ deck.client.line = "open"
           \/ deck.state = "AwaitingPairCode"

Settles == <>[]Meant => <>[]Settled
=============================================================================
