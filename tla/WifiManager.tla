---------------------------- MODULE WifiManager ----------------------------
(* WifiManager of the firmware (wifi_mgr.cpp) with the list of networks it *)
(* keeps in NVS (settings_store.cpp), the worker that scans, and the Wi-Fi *)
(* driver underneath.  w is the object: its member functions are operators *)
(* from one value of it to the next.  Power may fail between two writes to *)
(* NVS.  Disturbances bounds what goes wrong and what the user does.       *)
EXTENDS Naturals, Sequences, SequencesExt, FiniteSets

CONSTANTS Ssid,             \* the networks there are
          None,
          MaxWifiNetworks,  \* kMaxWifiNetworks
          Disturbances      \* bound

ASSUME WifiAssumption == /\ MaxWifiNetworks \in Nat \ {0} /\ Disturbances \in Nat
                         /\ None \notin Ssid

VARIABLES w,        \* the WifiManager and the driver it commands
          nvs,      \* wifi_n, and the strings ws0, wp0, ws1, wp1, ...
          range,    \* the networks in range
          orphan,   \* a network that was forgotten while it was being joined
          crashes,  \* how often power failed
          budget

vars == <<w, nvs, range, orphan, crashes, budget>>

(* A password: the network it was typed for, and whether it is the right   *)
(* one.  None stands for an absent string.                                 *)
Password == [of : Ssid, right : BOOLEAN]
Network == [ssid : Ssid \cup {None}, password : Password \cup {None}]

Index == 1 .. MaxWifiNetworks

(* The driver: target is what begin was called with, ssid the network it   *)
(* is associated with.                                                     *)
NoTarget == [ssid |-> None, password |-> None]

Connected(d) == d.station # None
Saved(d, s) == \E i \in DOMAIN d.saved : d.saved[i].ssid = s
SavedIndex(d, s) == CHOOSE i \in DOMAIN d.saved :
                      d.saved[i].ssid = s /\ \A j \in DOMAIN d.saved : d.saved[j].ssid = s => i <= j

-----------------------------------------------------------------------------
(* settings_store.cpp.  A save is a sequence of writes: the count, then    *)
(* each name and password, then the removal of what is left over.          *)
Entry(list, i) == IF i \in DOMAIN list THEN list[i] ELSE NoTarget

Writes(store, list) == 1 + 2 * (IF Len(list) < store.count THEN store.count ELSE Len(list))

(* The first n writes of saving list.                                      *)
SavedSoFar(store, list, n) ==
  [count |-> IF n >= 1 THEN Len(list) ELSE store.count,
   entry |-> [i \in Index |->
     [ssid     |-> IF n >= 2 * i THEN Entry(list, i).ssid ELSE store.entry[i].ssid,
      password |-> IF n >= 2 * i + 1 THEN Entry(list, i).password ELSE store.entry[i].password]]]

SaveWifiNetworks(store, list) == SavedSoFar(store, list, Writes(store, list))

LoadWifiNetworks(store) == [i \in 1 .. store.count |-> store.entry[i]]

-----------------------------------------------------------------------------
(* Connecting.                                                             *)
StartConnection(d, i) ==
  [d EXCEPT !.target = d.saved[i], !.station = None, !.connecting = TRUE,
            !.late = FALSE, !.needsSetup = FALSE]

ConnectSaved(d, i) ==
  IF i \notin DOMAIN d.saved THEN d
  ELSE StartConnection([d EXCEPT !.index = i, !.attempts = 0], i)

(* The strongest known network of the last scan, or else the first.        *)
Strongest(d) ==
  LET known == SelectSeq(d.scan, LAMBDA s : Saved(d, s))
  IN  IF known = <<>> THEN 1 ELSE SavedIndex(d, Head(known))

TryKnownNetworks(d) == IF d.saved = <<>> THEN d ELSE ConnectSaved(d, Strongest(d))

WifiDisconnect(d) == [d EXCEPT !.target = NoTarget, !.station = None]

-----------------------------------------------------------------------------
(* Scanning: asked for, then run by a worker, then collected.              *)
StartScan(d) ==
  IF d.pending \/ d.worker # "idle" THEN d ELSE [d EXCEPT !.scan = <<>>, !.pending = TRUE]

RunPendingScan(d, ok) ==
  [d EXCEPT !.pending = FALSE, !.worker = IF ok THEN "scanning" ELSE "idle", !.rescan = FALSE]

(* The saved networks out of range follow those that were found.           *)
CollectResults(d) ==
  LET absent == SelectSeq([i \in DOMAIN d.saved |-> d.saved[i].ssid],
                          LAMBDA s : s \notin Range(d.found))
  IN  [d EXCEPT !.scan = d.found \o absent, !.ever = @ \/ d.found # <<>>,
                !.worker = "idle", !.found = <<>>]

PollScanResult(d) == IF d.worker = "done" THEN CollectResults(d) ELSE d

(* begin.                                                                  *)
Booted(store) ==
  LET d == [saved |-> LoadWifiNetworks(store), scan |-> <<>>, pending |-> FALSE,
            worker |-> "idle", found |-> <<>>, ever |-> FALSE, rescan |-> FALSE,
            connecting |-> FALSE, late |-> FALSE, retry |-> FALSE, index |-> 1,
            attempts |-> 0, needsSetup |-> FALSE, target |-> NoTarget, station |-> None]
  IN  IF d.saved # <<>> THEN TryKnownNetworks(d)
      ELSE StartScan([d EXCEPT !.needsSetup = TRUE])

-----------------------------------------------------------------------------
(* tick.  A connection that takes too long makes way for the next saved    *)
(* network, and after all of them for the setup page.                      *)
(* MUTANT: the same network is tried again.                                *)
SameIndex(d) == d.index

NextIndex(d) == (d.index % Len(d.saved)) + 1

GiveUp(d) ==
  LET g == [WifiDisconnect(d) EXCEPT !.connecting = FALSE, !.attempts = @ + 1]
  IN  IF g.attempts < Len(g.saved)
      THEN StartConnection([g EXCEPT !.index = NextIndex(d)], NextIndex(d))
      ELSE StartScan([g EXCEPT !.index = 1, !.needsSetup = TRUE])

(* "Do not start or tear down a station connection underneath it".         *)
Scanning(d) == d.worker # "idle"

HeldByScan(d) == Scanning(d)

Scans(d, ok) ==
  LET p == PollScanResult(d)
      s == IF p.pending /\ p.worker = "idle" THEN RunPendingScan(p, ok) ELSE p
  IN  IF ~s.pending /\ ~s.ever /\ ~Connected(s) /\ ~s.connecting /\ s.rescan
      THEN StartScan(s) ELSE s

Tick(d, ok) ==
  LET s == Scans(d, ok) IN
  IF Connected(s) THEN [s EXCEPT !.connecting = FALSE]
  ELSE IF HeldByScan(s) THEN s
  ELSE IF s.connecting THEN IF s.late THEN GiveUp(s) ELSE s
  ELSE IF s.saved # <<>> /\ s.retry THEN TryKnownNetworks([s EXCEPT !.retry = FALSE])
  ELSE s

-----------------------------------------------------------------------------
Spend == budget > 0 /\ budget' = budget - 1
Free == UNCHANGED budget

(* Two saved networks at most, one of them with a wrong password.          *)
Init ==
  /\ \E list \in {<<>>} \cup
        {<<[ssid |-> s, password |-> [of |-> s, right |-> TRUE]]>> : s \in Ssid} \cup
        {<<[ssid |-> x[1], password |-> [of |-> x[1], right |-> FALSE]],
           [ssid |-> x[2], password |-> [of |-> x[2], right |-> TRUE]]>> :
             x \in {y \in Ssid \X Ssid : y[1] # y[2]}} :
       /\ Len(list) <= MaxWifiNetworks
       /\ nvs = [count |-> Len(list), entry |-> [i \in Index |-> Entry(list, i)]]
  /\ w = Booted(nvs) /\ range = Ssid
  /\ orphan = None /\ crashes = 0 /\ budget = Disturbances

Ticks == w' = Tick(w, TRUE) /\ Free /\ UNCHANGED <<nvs, range, orphan, crashes>>

NoMemory ==
  w' = Tick(w, FALSE) /\ Spend /\ UNCHANGED <<nvs, range, orphan, crashes>>

(* scanTaskEntry finds what is in range, in some order of strength; an     *)
(* unlucky scan finds less.                                                *)
Found(S) == w' = [w EXCEPT !.worker = "done", !.found = S]

ScanEnds ==
  /\ w.worker = "scanning" /\ UNCHANGED <<nvs, range, orphan, crashes>>
  /\ \/ \E S \in SetToSeqs(range) : Found(S) /\ Free
     \/ \E T \in SUBSET range : T # range /\ (\E S \in SetToSeqs(T) : Found(S)) /\ Spend

(* The driver joins its target, and rejoins it by itself.                  *)
Joinable(t) == t.ssid \in range /\ t.password # None
               /\ t.password.of = t.ssid /\ t.password.right

DriverJoins ==
  /\ w.station = None /\ Joinable(w.target)
  /\ w' = [w EXCEPT !.station = w.target.ssid]
  /\ Free /\ UNCHANGED <<nvs, range, orphan, crashes>>

Drops ==
  /\ Connected(w) /\ w' = [w EXCEPT !.station = None]
  /\ Spend /\ UNCHANGED <<nvs, range, orphan, crashes>>

RangeChanges ==
  /\ range' \in SUBSET Ssid
  /\ w' = IF w.station \in range' THEN w ELSE [w EXCEPT !.station = None]
  /\ Spend /\ UNCHANGED <<nvs, orphan, crashes>>

(* Twelve, ten and four seconds.  A join that can succeed does so within   *)
(* its twelve, unless something is wrong.                                  *)
Timeout ==
  /\ w.connecting /\ ~Connected(w) /\ ~w.late /\ w' = [w EXCEPT !.late = TRUE]
  /\ IF Joinable(w.target) THEN Spend ELSE Free
  /\ UNCHANGED <<nvs, range, orphan, crashes>>

RetryDue == ~w.retry /\ w' = [w EXCEPT !.retry = TRUE] /\ Free /\ UNCHANGED <<nvs, range, orphan, crashes>>
RescanDue == ~w.rescan /\ w' = [w EXCEPT !.rescan = TRUE] /\ Free /\ UNCHANGED <<nvs, range, orphan, crashes>>

-----------------------------------------------------------------------------
(* addAndConnect, forget and connectSaved, from the pages and the console. *)
(* MUTANT: a known network's password goes to the last entry.              *)
AddedToLast(list, s, p) ==
  IF \E i \in DOMAIN list : list[i].ssid = s THEN [list EXCEPT ![Len(list)].password = p]
  ELSE IF Len(list) < MaxWifiNetworks THEN Append(list, [ssid |-> s, password |-> p]) ELSE list

Added(list, s, p) ==
  IF \E i \in DOMAIN list : list[i].ssid = s
  THEN [i \in DOMAIN list |-> IF i = SavedIndex(w, s) THEN [ssid |-> s, password |-> p] ELSE list[i]]
  ELSE IF Len(list) < MaxWifiNetworks THEN Append(list, [ssid |-> s, password |-> p]) ELSE list

AddAndConnect(s, right) ==
  LET list == Added(w.saved, s, [of |-> s, right |-> right])
      d    == [w EXCEPT !.saved = list]
  IN  /\ Saved(d, s)
      /\ w' = ConnectSaved(d, SavedIndex(d, s)) /\ nvs' = SaveWifiNetworks(nvs, list)
      /\ orphan' = None

Without(list, i) == [j \in 1 .. Len(list) - 1 |-> IF j < i THEN list[j] ELSE list[j + 1]]

(* MUTANT: the connection is kept.                                         *)
NeverCurrent(s) == FALSE

Current(s) == w.station = s

Forget(s) ==
  LET list == Without(w.saved, SavedIndex(w, s))
      d    == [w EXCEPT !.saved = list]
      e    == IF Current(s) THEN WifiDisconnect(d) ELSE d
  IN  /\ Saved(w, s)
      /\ w' = IF list = <<>> THEN StartScan([e EXCEPT !.needsSetup = TRUE]) ELSE e
      /\ nvs' = SaveWifiNetworks(nvs, list)
      /\ orphan' = IF ~Connected(w) /\ w.target.ssid = s THEN s ELSE orphan

User ==
  /\ \/ \E s \in Ssid : \/ \E right \in BOOLEAN : AddAndConnect(s, right)
                        \/ Forget(s)
     \/ \E i \in DOMAIN w.saved : w' = ConnectSaved(w, i) /\ UNCHANGED <<nvs, orphan>>
     \/ w' = StartScan(w) /\ UNCHANGED <<nvs, orphan>>
  /\ Spend /\ UNCHANGED <<range, crashes>>

CutShort(list) ==
  {SavedSoFar(nvs, list, n) : n \in 0 .. Writes(nvs, list)}

(* Power fails at any time, and between two writes of a save.              *)
PowerFails ==
  /\ \/ nvs' = nvs
     \/ \E s \in Ssid :
          \/ Saved(w, s) /\ nvs' \in CutShort(Without(w.saved, SavedIndex(w, s)))
          \/ nvs' \in CutShort(Added(w.saved, s, [of |-> s, right |-> TRUE]))
  /\ w' = Booted(nvs') /\ crashes' = crashes + 1 /\ orphan' = None
  /\ Spend /\ UNCHANGED range

Next == \/ Ticks \/ NoMemory \/ ScanEnds \/ DriverJoins \/ Drops \/ RangeChanges
        \/ Timeout \/ RetryDue \/ RescanDue \/ User \/ PowerFails

Spec == Init /\ [][Next]_vars /\ WF_vars(Ticks) /\ WF_vars(ScanEnds)
        /\ WF_vars(DriverJoins) /\ WF_vars(Timeout) /\ WF_vars(RetryDue) /\ WF_vars(RescanDue)

-----------------------------------------------------------------------------
WifiTypeOK ==
  /\ w.saved \in Seq(Network) /\ Len(w.saved) <= MaxWifiNetworks
  /\ w.index \in Nat \ {0} /\ w.attempts \in Nat /\ w.worker \in {"idle", "scanning", "done"}
  /\ w.target \in Network /\ w.station \in Ssid \cup {None}
  /\ nvs.count \in 0 .. MaxWifiNetworks /\ nvs.entry \in [Index -> Network]

(* A network is kept with the password typed for it.  A save is not        *)
(* atomic: each time power fails during one, one entry at most may carry a *)
(* name and a password that do not belong together.                        *)
Mixed == {i \in DOMAIN w.saved : w.saved[i].password # None /\ w.saved[i].password.of # w.saved[i].ssid}
OneMixedPerCrash == Cardinality(Mixed) <= crashes

(* The device is only ever on a network it keeps; the exception is one     *)
(* that was forgotten while it was being joined, which nothing stops.      *)
OnKeptNetwork == Connected(w) => Saved(w, w.station) \/ w.station = orphan

(* wifi_mgr.cpp: "Do not start or tear down a station connection           *)
(* underneath" a scan.  tick does not; the user may (addAndConnect).       *)
ScanUndisturbed ==
  [][Scanning(w) /\ Scanning(w') /\ w'.target # w.target
       => budget' < budget]_vars

(* A device with one kept network that it could join finds it, whatever    *)
(* other networks are kept and stronger.                                   *)
CouldJoin == \E i \in DOMAIN w.saved : Joinable(w.saved[i])
Joins == <>[]CouldJoin => []<>Connected(w)
=============================================================================
