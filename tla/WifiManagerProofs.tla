------------------------- MODULE WifiManagerProofs -------------------------
(* WifiManager for any networks, any capacity of the list, and any number  *)
(* of disturbances: what is shown holds whatever the order in which the    *)
(* main loop, the scan worker, the driver, the user and the power act.     *)
EXTENDS WifiManager, FiniteSetTheorems, WellFoundedInduction, TLAPS

(* The object.                                                             *)
Fields == {"saved", "scan", "pending", "worker", "found", "ever", "rescan", "connecting",
           "late", "retry", "index", "attempts", "needsSetup", "target", "station"}

Fit(d) ==
  /\ DOMAIN d = Fields
  /\ d.saved \in Seq(Network) /\ Len(d.saved) <= MaxWifiNetworks
  /\ d.index \in Nat \ {0} /\ d.attempts \in Nat
  /\ d.worker \in {"idle", "scanning", "done"}
  /\ d.target \in Network /\ d.station \in Ssid \cup {None}

(* The driver is on the network it was told to join, which is one of the   *)
(* list unless it was forgotten in the meantime.                           *)
Aims(d, o) ==
  /\ Connected(d) => d.station = d.target.ssid
  /\ d.target.ssid # None => Saved(d, d.target.ssid) \/ d.target.ssid = o

Good(d, o) == Fit(d) /\ Aims(d, o)

LEMMA NetworkFields ==
  ASSUME NEW x \in Network
  PROVE  x.ssid \in Ssid \cup {None} /\ x.password \in Password \cup {None}
BY DEF Network

LEMMA NoTargetNetwork == NoTarget \in Network /\ NoTarget.ssid = None
BY DEF NoTarget, Network

-----------------------------------------------------------------------------
(* The member functions.  None but the user's commands changes the list.   *)
LEMMA StartConnectionGood ==
  ASSUME NEW d, NEW o, Fit(d), NEW i \in DOMAIN d.saved
  PROVE  /\ Good(StartConnection(d, i), o)
         /\ StartConnection(d, i).saved = d.saved
         /\ StartConnection(d, i).worker = d.worker
<1> DEFINE e == StartConnection(d, i)
<1>1. DOMAIN d = Fields /\ Fit(d)
  BY DEF Fit
<1>2. /\ e.saved = d.saved /\ e.worker = d.worker /\ e.index = d.index
      /\ e.attempts = d.attempts /\ e.target = d.saved[i] /\ e.station = None
      /\ DOMAIN e = Fields
  BY <1>1 DEF StartConnection, Fields
<1>3. d.saved[i] \in Network
  BY <1>1 DEF Fit
<1>4. Fit(e)
  BY <1>1, <1>2, <1>3 DEF Fit
<1>5. Aims(e, o)
  BY <1>2 DEF Aims, Connected, Saved
<1> QED BY <1>2, <1>4, <1>5 DEF Good

LEMMA ConnectSavedGood ==
  ASSUME NEW d, NEW o, Fit(d), NEW i
  PROVE  /\ Good(d, o) \/ i \in DOMAIN d.saved => Good(ConnectSaved(d, i), o)
         /\ ConnectSaved(d, i).saved = d.saved
         /\ ConnectSaved(d, i).worker = d.worker
<1>1. CASE i \notin DOMAIN d.saved
  BY <1>1 DEF ConnectSaved
<1>2. CASE i \in DOMAIN d.saved
  <2> DEFINE e == [d EXCEPT !.index = i, !.attempts = 0]
  <2>1. i \in Nat \ {0}
    BY <1>2 DEF Fit
  <2>2. /\ e.saved = d.saved /\ e.worker = d.worker /\ e.index = i
        /\ e.attempts = 0 /\ e.target = d.target /\ e.station = d.station
        /\ DOMAIN e = Fields
    BY DEF Fit, Fields
  <2>3. Fit(e)
    BY <2>1, <2>2 DEF Fit
  <2>4. ConnectSaved(d, i) = StartConnection(e, i)
    BY <1>2 DEF ConnectSaved
  <2> HIDE DEF e
  <2> QED BY <1>2, <2>2, <2>3, <2>4, StartConnectionGood
<1> QED BY <1>1, <1>2

LEMMA TryKnownGood ==
  ASSUME NEW d, NEW o, Good(d, o)
  PROVE  /\ Good(TryKnownNetworks(d), o)
         /\ TryKnownNetworks(d).saved = d.saved
         /\ TryKnownNetworks(d).worker = d.worker
<1>1. CASE d.saved = <<>>
  BY <1>1 DEF TryKnownNetworks
<1>2. CASE d.saved # <<>>
  <2>1. TryKnownNetworks(d) = ConnectSaved(d, Strongest(d))
    BY <1>2 DEF TryKnownNetworks
  <2>2. PICK i : i = Strongest(d)
    OBVIOUS
  <2> QED BY <2>1, <2>2, ConnectSavedGood DEF Good
<1> QED BY <1>1, <1>2

LEMMA WifiDisconnectGood ==
  ASSUME NEW d, NEW o, Good(d, o)
  PROVE  /\ Good(WifiDisconnect(d), o)
         /\ WifiDisconnect(d).saved = d.saved
         /\ WifiDisconnect(d).worker = d.worker
<1> DEFINE e == WifiDisconnect(d)
<1>1. Fit(d)
  BY DEF Good
<1>2. /\ e.saved = d.saved /\ e.worker = d.worker /\ e.index = d.index
      /\ e.attempts = d.attempts /\ e.target = NoTarget /\ e.station = None
      /\ DOMAIN e = Fields
  BY <1>1 DEF WifiDisconnect, Fit, Fields
<1>3. Fit(e)
  BY <1>1, <1>2, NoTargetNetwork DEF Fit
<1>4. Aims(e, o)
  BY <1>2, NoTargetNetwork DEF Aims, Connected
<1> QED BY <1>2, <1>3, <1>4 DEF Good

(* What changes only flags and the scan.                                   *)
Like(d, e) ==
  /\ DOMAIN e = Fields
  /\ e.saved = d.saved /\ e.index = d.index /\ e.attempts = d.attempts
  /\ e.target = d.target /\ e.station = d.station

LEMMA LikeGood ==
  ASSUME NEW d, NEW e, NEW o, Good(d, o), Like(d, e),
         e.worker \in {"idle", "scanning", "done"}
  PROVE  Good(e, o)
<1>1. Fit(e)
  BY DEF Good, Like, Fit
<1>2. Aims(e, o)
  BY DEF Good, Like, Aims, Connected, Saved
<1> QED BY <1>1, <1>2 DEF Good

LEMMA StartScanLike ==
  ASSUME NEW d, Fit(d)
  PROVE  Like(d, StartScan(d)) /\ StartScan(d).worker = d.worker
BY DEF Fit, Fields, Like, StartScan

LEMMA ScansLike ==
  ASSUME NEW d, Fit(d), NEW ok \in BOOLEAN
  PROVE  Like(d, Scans(d, ok)) /\ Scans(d, ok).worker \in {"idle", "scanning", "done"}
<1> DEFINE p == PollScanResult(d)
           s == IF p.pending /\ p.worker = "idle" THEN RunPendingScan(p, ok) ELSE p
<1>1. Like(d, p) /\ p.worker \in {"idle", "scanning", "done"}
  BY DEF Fit, Fields, Like, PollScanResult, CollectResults
<1> HIDE DEF p
<1>2. Like(d, s) /\ s.worker \in {"idle", "scanning", "done"}
  BY <1>1 DEF Fields, Like, RunPendingScan
<1>3. Scans(d, ok) = s \/ Scans(d, ok) = StartScan(s)
  BY DEF Scans, p
<1> HIDE DEF s
<1>4. Like(d, StartScan(s)) /\ StartScan(s).worker = s.worker
  BY <1>2 DEF Fields, Like, StartScan
<1> QED BY <1>2, <1>3, <1>4

LEMMA GiveUpGood ==
  ASSUME NEW d, NEW o, Good(d, o)
  PROVE  /\ Good(GiveUp(d), o) /\ GiveUp(d).saved = d.saved /\ GiveUp(d).worker = d.worker
<1> DEFINE c == WifiDisconnect(d)
           g == [c EXCEPT !.connecting = FALSE, !.attempts = @ + 1]
           i == NextIndex(d)
           h == [g EXCEPT !.index = i]
           k == [g EXCEPT !.index = 1, !.needsSetup = TRUE]
<1>1. Good(c, o) /\ c.saved = d.saved /\ c.worker = d.worker
  BY WifiDisconnectGood
<1>2. Fit(c) /\ Aims(c, o) /\ Fit(d)
  BY <1>1 DEF Good
<1> HIDE DEF c
<1>3. /\ DOMAIN g = Fields /\ g.saved = c.saved /\ g.worker = c.worker /\ g.index = c.index
      /\ g.attempts = c.attempts + 1 /\ g.target = c.target /\ g.station = c.station
  BY <1>2 DEF Fit, Fields
<1>4. g.attempts \in Nat /\ g.attempts > 0 /\ Len(g.saved) \in Nat
  BY <1>1, <1>2, <1>3 DEF Fit
<1>5. CASE g.attempts < Len(g.saved)
  <2>1. Len(d.saved) > 0 /\ Len(d.saved) \in Nat /\ d.index \in Nat
    BY <1>1, <1>2, <1>3, <1>4, <1>5 DEF Fit
  <2>2. i \in 1 .. Len(d.saved)
    BY <2>1 DEF NextIndex
  <2> HIDE DEF i, g
  <2>3. /\ DOMAIN h = Fields /\ h.saved = g.saved /\ h.worker = g.worker /\ h.index = i
        /\ h.attempts = g.attempts /\ h.target = g.target /\ h.station = g.station
    BY <1>3 DEF Fields
  <2>4. Good(h, o)
    BY <1>2, <1>3, <1>4, <2>2, <2>3 DEF Good, Fit, Aims, Connected, Saved
  <2>5. i \in DOMAIN h.saved
    BY <1>1, <1>2, <1>3, <2>2, <2>3 DEF Fit
  <2>6. GiveUp(d) = StartConnection(h, i)
    BY <1>5 DEF GiveUp, c, g, i
  <2> HIDE DEF h
  <2> QED BY <1>1, <1>3, <2>3, <2>4, <2>5, <2>6, StartConnectionGood DEF Good
<1>6. CASE ~(g.attempts < Len(g.saved))
  <2>1. GiveUp(d) = StartScan(k)
    BY <1>6 DEF GiveUp, c
  <2> HIDE DEF g
  <2>2. /\ DOMAIN k = Fields /\ k.saved = g.saved /\ k.worker = g.worker /\ k.index = 1
        /\ k.attempts = g.attempts /\ k.target = g.target /\ k.station = g.station
    BY <1>3 DEF Fields
  <2>3. Good(k, o)
    BY <1>2, <1>3, <1>4, <2>2 DEF Good, Fit, Aims, Connected, Saved
  <2> HIDE DEF k
  <2>4. Like(k, StartScan(k)) /\ StartScan(k).worker = k.worker
    BY <2>3, StartScanLike DEF Good
  <2>5. Good(StartScan(k), o)
    <3>1. PICK x : x = StartScan(k)
      OBVIOUS
    <3>2. x.worker \in {"idle", "scanning", "done"}
      BY <2>3, <2>4, <3>1 DEF Good, Fit
    <3> QED BY <2>3, <2>4, <3>1, <3>2, LikeGood
  <2> QED BY <1>1, <1>3, <2>1, <2>2, <2>4, <2>5 DEF Like
<1> QED BY <1>5, <1>6

(* A tick, which touches the driver only when no worker scans.             *)
LEMMA TickGood ==
  ASSUME NEW d, NEW o, Good(d, o), NEW ok \in BOOLEAN
  PROVE  /\ Good(Tick(d, ok), o) /\ Tick(d, ok).saved = d.saved
         /\ Scanning(Tick(d, ok)) => Tick(d, ok).target = d.target
<1>1. PICK s : s = Scans(d, ok)
  OBVIOUS
<1>2. Like(d, s) /\ s.worker \in {"idle", "scanning", "done"}
  BY <1>1, ScansLike DEF Good
<1>3. Good(s, o)
  BY <1>2, LikeGood
<1>4. s.saved = d.saved /\ s.target = d.target /\ DOMAIN s = Fields
  BY <1>2 DEF Like
<1> DEFINE t == Tick(d, ok)
           q == [s EXCEPT !.retry = FALSE]
           n == [s EXCEPT !.connecting = FALSE]
<1>5. Like(s, n) /\ n.worker = s.worker
  BY <1>4 DEF Like, Fields
<1>6. Like(s, q) /\ q.worker = s.worker
  BY <1>4 DEF Like, Fields
<1>7. Good(n, o) /\ Good(q, o)
  <2> HIDE DEF n, q
  <2> QED BY <1>2, <1>3, <1>5, <1>6, LikeGood
<1>8. n.saved = s.saved /\ n.target = s.target /\ q.saved = s.saved
  BY <1>5, <1>6 DEF Like
<1>9. \/ t = s \/ t = n
      \/ ~Scanning(s) /\ (t = GiveUp(s) \/ t = TryKnownNetworks(q))
  BY <1>1 DEF Tick, HeldByScan
<1> HIDE DEF t, n, q
<1>10. CASE t = s \/ t = n
  BY <1>3, <1>4, <1>7, <1>8, <1>10 DEF t
<1>11. CASE ~Scanning(s) /\ t = GiveUp(s)
  <2>1. Good(t, o) /\ t.saved = s.saved /\ t.worker = s.worker
    BY <1>3, <1>11, GiveUpGood
  <2> QED BY <1>4, <1>11, <2>1 DEF t, Scanning
<1>12. CASE ~Scanning(s) /\ t = TryKnownNetworks(q)
  <2>1. Good(t, o) /\ t.saved = q.saved /\ t.worker = q.worker
    BY <1>7, <1>12, TryKnownGood
  <2> QED BY <1>4, <1>6, <1>8, <1>12, <2>1 DEF t, Scanning
<1> QED BY <1>9, <1>10, <1>11, <1>12

-----------------------------------------------------------------------------
(* The list.                                                               *)
LEMMA Least ==
  ASSUME NEW T \in SUBSET Nat, T # {}
  PROVE  \E n \in T : \A m \in T : n <= m
<1>1. \E n \in T : \A m \in T : ~(<<m, n>> \in OpToRel(<, Nat))
  BY NatLessThanWellFounded, WFMin
<1>2. ASSUME NEW n \in Nat, NEW m \in Nat, ~(<<m, n>> \in OpToRel(<, Nat)) PROVE n <= m
  BY <1>2 DEF OpToRel
<1> QED BY <1>1, <1>2

LEMMA SavedIndexFound ==
  ASSUME NEW d, d.saved \in Seq(Network), NEW s, Saved(d, s)
  PROVE  SavedIndex(d, s) \in DOMAIN d.saved /\ d.saved[SavedIndex(d, s)].ssid = s
<1> DEFINE T == {i \in DOMAIN d.saved : d.saved[i].ssid = s}
<1>1. T \in SUBSET Nat /\ T # {}
  BY DEF Saved
<1>2. PICK n \in T : \A m \in T : n <= m
  BY <1>1, Least
<1>3. n \in DOMAIN d.saved /\ d.saved[n].ssid = s
      /\ \A j \in DOMAIN d.saved : d.saved[j].ssid = s => n <= j
  BY <1>2
<1> QED BY <1>3 DEF SavedIndex

(* A name and a password that do not belong together.                      *)
Torn(x) == x.password # None /\ x.password.of # x.ssid

StoreOK(store) == /\ store.count \in 0 .. MaxWifiNetworks
                  /\ store.entry \in [Index -> Network]

TornIn(store) == {i \in Index : Torn(store.entry[i])}

NetworkList(list) == list \in Seq(Network) /\ Len(list) <= MaxWifiNetworks

LEMMA CapacityType == MaxWifiNetworks \in Nat /\ MaxWifiNetworks >= 1
BY WifiAssumption

LEMMA LoadType ==
  ASSUME NEW store, StoreOK(store)
  PROVE  /\ NetworkList(LoadWifiNetworks(store))
         /\ Len(LoadWifiNetworks(store)) = store.count
         /\ \A i \in 1 .. store.count : LoadWifiNetworks(store)[i] = store.entry[i]
<1>1. store.count \in Nat /\ store.count <= MaxWifiNetworks
  BY CapacityType DEF StoreOK
<1>2. \A i \in 1 .. store.count : store.entry[i] \in Network
  BY <1>1, CapacityType DEF StoreOK, Index
<1> DEFINE l == [i \in 1 .. store.count |-> store.entry[i]]
<1>3. l \in Seq(Network) /\ Len(l) = store.count
  BY <1>1, <1>2
<1> QED BY <1>1, <1>3 DEF LoadWifiNetworks, NetworkList

LEMMA EntryType ==
  ASSUME NEW list \in Seq(Network), NEW i
  PROVE  Entry(list, i) \in Network
BY NoTargetNetwork DEF Entry

(* What is in the store in the middle of a save, and after it.             *)
LEMMA SavingType ==
  ASSUME NEW store, StoreOK(store), NEW list, NetworkList(list), NEW n \in Nat
  PROVE  StoreOK(SavedSoFar(store, list, n))
<1> DEFINE st == SavedSoFar(store, list, n)
<1>1. st.count \in 0 .. MaxWifiNetworks
  BY CapacityType DEF SavedSoFar, StoreOK, NetworkList
<1>2. ASSUME NEW i \in Index PROVE st.entry[i] \in Network
  <2>1. Entry(list, i) \in Network /\ store.entry[i] \in Network
    BY EntryType DEF NetworkList, StoreOK
  <2>2. st.entry[i] = [ssid |-> IF n >= 2 * i THEN Entry(list, i).ssid ELSE store.entry[i].ssid,
                       password |-> IF n >= 2 * i + 1 THEN Entry(list, i).password
                                    ELSE store.entry[i].password]
    BY DEF SavedSoFar
  <2> QED BY <2>1, <2>2, NetworkFields DEF Network
<1>3. st.entry = [i \in Index |-> st.entry[i]]
  BY DEF SavedSoFar
<1> QED BY <1>1, <1>2, <1>3 DEF StoreOK

LEMMA NetworkIs ==
  ASSUME NEW x \in Network, NEW y \in Network, x.ssid = y.ssid, x.password = y.password
  PROVE  x = y
BY DEF Network

LEMMA SavingEntry ==
  ASSUME NEW store, StoreOK(store), NEW list, NetworkList(list), NEW n \in Nat, NEW i \in Index
  PROVE  /\ n >= 2 * i + 1 => SavedSoFar(store, list, n).entry[i] = Entry(list, i)
         /\ ~(n >= 2 * i) => SavedSoFar(store, list, n).entry[i] = store.entry[i]
         /\ Entry(list, i) = store.entry[i]
              => SavedSoFar(store, list, n).entry[i] = store.entry[i]
<1> DEFINE x == SavedSoFar(store, list, n).entry[i]
<1>1. /\ x \in Network /\ Entry(list, i) \in Network /\ store.entry[i] \in Network
  BY SavingType, EntryType DEF NetworkList, StoreOK
<1>2. /\ x.ssid = IF n >= 2 * i THEN Entry(list, i).ssid ELSE store.entry[i].ssid
      /\ x.password = IF n >= 2 * i + 1 THEN Entry(list, i).password ELSE store.entry[i].password
  BY DEF SavedSoFar
<1>3. i \in Nat
  BY CapacityType DEF Index
<1> HIDE DEF x
<1> QED BY <1>1, <1>2, <1>3, NetworkIs DEF x

LEMMA WritesType ==
  ASSUME NEW store, StoreOK(store), NEW list, NetworkList(list)
  PROVE  /\ Writes(store, list) \in Nat /\ Writes(store, list) >= 1
         /\ \A i \in Nat : Writes(store, list) >= 2 * i
              <=> i = 0 \/ i <= store.count \/ i <= Len(list)
         /\ \A i \in Nat : Writes(store, list) >= 2 * i + 1
              <=> i = 0 \/ i <= store.count \/ i <= Len(list)
<1>1. store.count \in Nat /\ Len(list) \in Nat
  BY CapacityType DEF StoreOK, NetworkList
<1> QED BY <1>1 DEF Writes

LEMMA SaveLoads ==
  ASSUME NEW store, StoreOK(store), NEW list, NetworkList(list)
  PROVE  /\ StoreOK(SaveWifiNetworks(store, list))
         /\ LoadWifiNetworks(SaveWifiNetworks(store, list)) = list
<1> DEFINE n == Writes(store, list)
           st == SavedSoFar(store, list, n)
<1>1. n \in Nat /\ n >= 1
  BY WritesType
<1>2. StoreOK(st)
  BY <1>1, SavingType
<1>3. st.count = Len(list)
  BY <1>1 DEF SavedSoFar
<1>4. ASSUME NEW i \in 1 .. Len(list) PROVE st.entry[i] = list[i]
  <2>1. i \in Nat /\ i \in Index /\ i \in DOMAIN list /\ i <= Len(list)
    BY CapacityType DEF NetworkList, Index
  <2>2. n >= 2 * i + 1
    BY <2>1, WritesType
  <2> HIDE DEF n
  <2>3. st.entry[i] = Entry(list, i)
    BY <1>1, <2>1, <2>2, SavingEntry
  <2> QED BY <2>1, <2>3 DEF Entry
<1>5. LoadWifiNetworks(st) = list
  <2> HIDE DEF st
  <2>1. LoadWifiNetworks(st) = [i \in 1 .. Len(list) |-> list[i]]
    BY <1>3, <1>4 DEF LoadWifiNetworks
  <2> QED BY <2>1 DEF NetworkList
<1> QED BY <1>2, <1>5 DEF SaveWifiNetworks

-----------------------------------------------------------------------------
(* How many entries are torn.                                              *)
LEMMA IndexFinite ==
  ASSUME NEW S \in SUBSET Index
  PROVE  IsFiniteSet(S) /\ Cardinality(S) \in Nat
<1>1. IsFiniteSet(Index)
  BY FS_Interval, CapacityType DEF Index
<1> QED BY <1>1, FS_Subset, FS_CardinalityType

LEMMA NotMore ==
  ASSUME NEW S \in SUBSET Index, NEW R \in SUBSET Index, S \subseteq R
  PROVE  Cardinality(S) <= Cardinality(R)
BY IndexFinite, FS_Subset

LEMMA OneMore ==
  ASSUME NEW S \in SUBSET Index, NEW m, NEW n \in Nat, Cardinality(S \ {m}) <= n
  PROVE  Cardinality(S) <= n + 1
<1>1. IsFiniteSet(S) /\ Cardinality(S) \in Nat
  BY IndexFinite
<1>2. Cardinality(S \ {m}) = IF m \in S THEN Cardinality(S) - 1 ELSE Cardinality(S)
  BY <1>1, FS_RemoveElement
<1> QED BY <1>1, <1>2

(* As many as are mapped to different ones.                                *)
LEMMA NotMoreThan ==
  ASSUME NEW S \in SUBSET Index, NEW R \in SUBSET Index, NEW f \in [S -> R],
         \A i, j \in S : f[i] = f[j] => i = j
  PROVE  Cardinality(S) <= Cardinality(R)
<1>1. IsFiniteSet(S) /\ IsFiniteSet(R)
  BY IndexFinite
<1>2. f \in Injection(S, R)
  BY DEF Injection, IsInjective
<1> QED BY <1>1, <1>2, FS_Injection

-----------------------------------------------------------------------------
(* Forgetting: the entries behind i move up by one, the last is removed.   *)
LEMMA WithoutType ==
  ASSUME NEW list, NetworkList(list), NEW i \in DOMAIN list
  PROVE  /\ NetworkList(Without(list, i))
         /\ Len(Without(list, i)) = Len(list) - 1
         /\ \A j \in 1 .. Len(list) - 1 :
              Without(list, i)[j] = IF j < i THEN list[j] ELSE list[j + 1]
<1>1. Len(list) \in Nat /\ Len(list) >= 1 /\ Len(list) <= MaxWifiNetworks /\ i \in 1 .. Len(list)
  BY DEF NetworkList
<1>2. \A j \in 1 .. Len(list) - 1 : list[j] \in Network /\ list[j + 1] \in Network
  BY <1>1 DEF NetworkList
<1> DEFINE l == [j \in 1 .. Len(list) - 1 |-> IF j < i THEN list[j] ELSE list[j + 1]]
<1>3. l \in Seq(Network) /\ Len(l) = Len(list) - 1
  BY <1>1, <1>2
<1> QED BY <1>1, <1>3, CapacityType DEF Without, NetworkList

LEMMA ForgetTears ==
  ASSUME NEW store, StoreOK(store), NEW i \in 1 .. store.count, NEW n \in Nat,
         NEW st, st = SavedSoFar(store, Without(LoadWifiNetworks(store), i), n),
         n <= Writes(store, Without(LoadWifiNetworks(store), i))
  PROVE  /\ StoreOK(st)
         /\ Cardinality(TornIn(st)) <= Cardinality(TornIn(store)) + 1
         /\ n = Writes(store, Without(LoadWifiNetworks(store), i))
              => Cardinality(TornIn(st)) <= Cardinality(TornIn(store))
<1> DEFINE old == LoadWifiNetworks(store)
           list == Without(old, i)
<1>1. /\ NetworkList(old) /\ Len(old) = store.count /\ store.count \in Nat
      /\ store.count <= MaxWifiNetworks /\ store.count >= 1
      /\ \A j \in 1 .. store.count : old[j] = store.entry[j]
  BY LoadType, CapacityType DEF StoreOK
<1>2. i \in DOMAIN old
  BY <1>1 DEF NetworkList
<1>3. /\ NetworkList(list) /\ Len(list) = store.count - 1
      /\ \A j \in 1 .. store.count - 1 :
           list[j] = IF j < i THEN store.entry[j] ELSE store.entry[j + 1]
  <2> HIDE DEF old
  <2>1. NetworkList(list) /\ Len(list) = Len(old) - 1
        /\ \A j \in 1 .. Len(old) - 1 : list[j] = IF j < i THEN old[j] ELSE old[j + 1]
    BY <1>1, <1>2, WithoutType
  <2> QED BY <1>1, <2>1
<1>4. Writes(store, list) = 1 + 2 * store.count
  BY <1>1, <1>3 DEF Writes
<1> HIDE DEF list, old
<1>5. StoreOK(st)
  BY <1>3, SavingType DEF list, old
<1>6. st = SavedSoFar(store, list, n)
  BY DEF list, old
<1>7. PICK k \in Nat : (n >= 1 => 2 * k + 1 <= n /\ n <= 2 * k + 2) /\ (n = 0 => k = 0)
  <2>1. CASE n = 0
    BY <2>1
  <2>2. CASE n >= 1
    <3>1. (n - 1) \div 2 \in Nat /\ 2 * ((n - 1) \div 2) + 1 <= n /\ n <= 2 * ((n - 1) \div 2) + 2
      BY <2>2
    <3> QED BY <2>2, <3>1
  <2> QED BY <2>1, <2>2
<1>8. k <= store.count
  BY <1>1, <1>4, <1>7 DEF list, old
(* What the entry j is now.                                                *)
<1>9. ASSUME NEW j \in Index, j < i \/ j > k + 1
      PROVE  st.entry[j] = store.entry[j]
  <2>1. j \in Nat /\ j >= 1
    BY CapacityType DEF Index
  <2>2. CASE j < i
    <3>1. j \in 1 .. store.count - 1 /\ j \in DOMAIN list
      BY <1>1, <1>3, <2>1, <2>2 DEF NetworkList
    <3>2. Entry(list, j) = store.entry[j]
      BY <1>3, <2>2, <3>1 DEF Entry
    <3> QED BY <1>3, <1>6, <3>2, SavingEntry
  <2>3. CASE j > k + 1
    <3>1. ~(n >= 2 * j)
      BY <1>7, <2>1, <2>3
    <3> QED BY <1>3, <1>6, <3>1, SavingEntry
  <2> QED BY <1>9, <2>2, <2>3
<1>10. ASSUME NEW j \in Index, i <= j, j <= k, n >= 1
       PROVE  /\ j < store.count => j + 1 \in Index /\ st.entry[j] = store.entry[j + 1]
              /\ ~(j < store.count) => st.entry[j] = NoTarget
  <2>1. j \in Nat /\ j >= 1
    BY CapacityType DEF Index
  <2>2. n >= 2 * j + 1
    BY <1>7, <1>10, <2>1
  <2>3. st.entry[j] = Entry(list, j)
    BY <1>3, <1>6, <2>2, SavingEntry
  <2>4. ASSUME j < store.count
        PROVE  j + 1 \in Index /\ Entry(list, j) = store.entry[j + 1]
    <3>1. j \in 1 .. store.count - 1 /\ ~(j < i) /\ j + 1 \in 1 .. store.count
      BY <1>1, <1>10, <2>1, <2>4
    <3>2. j \in DOMAIN list
      BY <1>3, <3>1 DEF NetworkList
    <3>3. list[j] = store.entry[j + 1]
      BY <1>3, <3>1
    <3>4. j + 1 \in Index
      BY <1>1, <3>1, CapacityType DEF Index
    <3> QED BY <3>2, <3>3, <3>4 DEF Entry
  <2>5. ~(j < store.count) => Entry(list, j) = NoTarget
    BY <1>1, <1>3, <2>1 DEF Entry, NetworkList
  <2> QED BY <2>3, <2>4, <2>5
<1>11. ~Torn(NoTarget)
  BY DEF Torn, NoTarget
<1> DEFINE f == [j \in TornIn(st) |-> IF n >= 1 /\ i <= j /\ j <= k THEN j + 1 ELSE j]
<1>12. TornIn(st) \in SUBSET Index /\ TornIn(store) \in SUBSET Index
  BY DEF TornIn
<1>13. \A j \in TornIn(st) : j \in Nat /\ j \in Index /\ Torn(st.entry[j])
  BY CapacityType DEF TornIn, Index
<1>14. ASSUME NEW j \in TornIn(st), j # k + 1
       PROVE  f[j] \in TornIn(store)
  <2>1. CASE n >= 1 /\ i <= j /\ j <= k
    <3>1. f[j] = j + 1
      BY <2>1
    <3> HIDE DEF f
    <3>2. j < store.count
      BY <1>10, <1>11, <1>13, <2>1
    <3> QED BY <1>10, <1>13, <2>1, <3>1, <3>2 DEF TornIn
  <2>2. CASE ~(n >= 1 /\ i <= j /\ j <= k)
    <3>1. f[j] = j
      BY <2>2
    <3> HIDE DEF f
    <3>2. st.entry[j] = store.entry[j]
      <4>1. CASE n = 0
        <5>1. ~(n >= 2 * j)
          <6>1. j >= 1
            BY <1>13, CapacityType DEF Index
          <6> QED BY <1>13, <4>1, <6>1
        <5> QED BY <1>3, <1>6, <1>13, <5>1, SavingEntry
      <4>2. CASE n >= 1
        <5>1. j < i \/ j > k + 1
          BY <1>13, <1>14, <2>2, <4>2
        <5> QED BY <1>9, <1>13, <5>1
      <4> QED BY <4>1, <4>2
    <3> QED BY <1>13, <3>1, <3>2 DEF TornIn
  <2> QED BY <2>1, <2>2
<1>15. ASSUME NEW j \in TornIn(st), NEW m \in TornIn(st), f[j] = f[m], j # k + 1, m # k + 1
       PROVE  j = m
  BY <1>13, <1>15
<1>16. Cardinality(TornIn(st)) <= Cardinality(TornIn(store)) + 1
  <2> DEFINE S == TornIn(st) \ {k + 1}
             g == [j \in S |-> f[j]]
  <2>1. S \in SUBSET Index
    BY <1>12
  <2> HIDE DEF f
  <2>2. g \in [S -> TornIn(store)]
    BY <1>14
  <2>3. \A j, m \in S : g[j] = g[m] => j = m
    BY <1>15
  <2> HIDE DEF S, g
  <2>4. Cardinality(S) <= Cardinality(TornIn(store))
    BY <1>12, <2>1, <2>2, <2>3, NotMoreThan
  <2>5. Cardinality(TornIn(store)) \in Nat
    BY <1>12, IndexFinite
  <2> QED BY <1>12, <2>4, <2>5, OneMore DEF S
<1>17. ASSUME n = 1 + 2 * store.count
       PROVE  Cardinality(TornIn(st)) <= Cardinality(TornIn(store))
  <2>1. k = store.count
    BY <1>1, <1>7, <1>17
  <2>2. ASSUME NEW j \in TornIn(st) PROVE j # k
    <3>1. CASE j = k
      <4>1. st.entry[j] = NoTarget
        BY <1>1, <1>10, <1>13, <1>17, <2>1, <3>1
      <4> QED BY <1>11, <1>13, <4>1
    <3> QED BY <3>1
  <2>3. ASSUME NEW j \in TornIn(st), j = k + 1 PROVE f[j] = j /\ f[j] \in TornIn(store)
    <3>1. f[j] = j
      BY <2>3
    <3>2. ~(n >= 2 * j)
      BY <1>1, <1>17, <2>1, <2>3
    <3>3. st.entry[j] = store.entry[j]
      BY <1>3, <1>6, <1>13, <3>2, SavingEntry
    <3> QED BY <1>13, <3>1, <3>3 DEF TornIn
  <2>4. \A j \in TornIn(st) : f[j] \in TornIn(store)
    BY <1>14, <2>3
  <2>5. \A j, m \in TornIn(st) : f[j] = f[m] => j = m
    BY <1>13, <2>2
  <2>6. f \in [TornIn(st) -> TornIn(store)]
    BY <2>4
  <2> HIDE DEF f
  <2> QED BY <1>12, <2>5, <2>6, NotMoreThan
<1> QED BY <1>4, <1>5, <1>16, <1>17 DEF list, old

-----------------------------------------------------------------------------
(* Adding: the entry m is new, in the place of an old one or behind them.  *)
LEMMA AddedType ==
  ASSUME Fit(w), NEW s \in Ssid, NEW right \in BOOLEAN,
         NEW list, list = Added(w.saved, s, [of |-> s, right |-> right])
  PROVE  /\ NetworkList(list) /\ Len(w.saved) <= Len(list)
         /\ \E m \in Nat : \A j \in DOMAIN list :
              IF j = m THEN ~Torn(list[j])
              ELSE j \in DOMAIN w.saved /\ list[j] = w.saved[j]
<1> DEFINE x == [ssid |-> s, password |-> [of |-> s, right |-> right]]
<1>1. x \in Network /\ ~Torn(x)
  BY DEF Network, Password, Torn
<1>2. w.saved \in Seq(Network) /\ Len(w.saved) \in Nat /\ Len(w.saved) <= MaxWifiNetworks
      /\ DOMAIN w.saved = 1 .. Len(w.saved)
  BY DEF Fit
<1>3. CASE Saved(w, s)
  <2> DEFINE l == [i \in DOMAIN w.saved |-> IF i = SavedIndex(w, s) THEN x ELSE w.saved[i]]
  <2>1. list = l
    BY <1>3 DEF Added, Saved
  <2>2. SavedIndex(w, s) \in DOMAIN w.saved
    BY <1>2, <1>3, SavedIndexFound
  <2>3. PICK m \in Nat : m = SavedIndex(w, s)
    BY <1>2, <2>2
  <2>4. l \in Seq(Network) /\ Len(l) = Len(w.saved)
    BY <1>1, <1>2
  <2>5. \A j \in DOMAIN l : IF j = m THEN l[j] = x ELSE j \in DOMAIN w.saved /\ l[j] = w.saved[j]
    BY <2>3
  <2> HIDE DEF l, x
  <2>6. NetworkList(list) /\ Len(w.saved) <= Len(list)
    BY <1>2, <2>1, <2>4 DEF NetworkList
  <2>7. \A j \in DOMAIN list :
          IF j = m THEN ~Torn(list[j]) ELSE j \in DOMAIN w.saved /\ list[j] = w.saved[j]
    BY <1>1, <2>1, <2>5
  <2> QED BY <2>6, <2>7
<1>4. CASE ~Saved(w, s) /\ Len(w.saved) < MaxWifiNetworks
  <2>1. list = Append(w.saved, x)
    BY <1>4 DEF Added, Saved
  <2> HIDE DEF x
  <2>2. list \in Seq(Network) /\ Len(list) = Len(w.saved) + 1
    BY <1>1, <1>2, <2>1
  <2>3. \A j \in DOMAIN list : IF j = Len(w.saved) + 1 THEN list[j] = x
                               ELSE j \in DOMAIN w.saved /\ list[j] = w.saved[j]
    BY <1>2, <2>1, <2>2
  <2>4. NetworkList(list) /\ Len(w.saved) <= Len(list)
    BY <1>2, <1>4, <2>2, CapacityType DEF NetworkList
  <2>5. PICK m \in Nat : m = Len(w.saved) + 1
    BY <1>2
  <2>6. \A j \in DOMAIN list :
          IF j = m THEN ~Torn(list[j]) ELSE j \in DOMAIN w.saved /\ list[j] = w.saved[j]
    BY <1>1, <2>3, <2>5
  <2> QED BY <2>4, <2>6
<1>5. CASE ~Saved(w, s) /\ ~(Len(w.saved) < MaxWifiNetworks)
  <2>1. list = w.saved
    BY <1>5 DEF Added, Saved
  <2>2. \A j \in DOMAIN list : IF j = 0 THEN ~Torn(list[j])
                               ELSE j \in DOMAIN w.saved /\ list[j] = w.saved[j]
    BY <1>2, <2>1
  <2> QED BY <1>2, <2>1, <2>2 DEF NetworkList
<1> QED BY <1>3, <1>4, <1>5

LEMMA AddTears ==
  ASSUME NEW store, StoreOK(store), Fit(w), w.saved = LoadWifiNetworks(store),
         NEW s \in Ssid, NEW right \in BOOLEAN,
         NEW list, list = Added(w.saved, s, [of |-> s, right |-> right]),
         NEW n \in Nat, n <= Writes(store, list)
  PROVE  /\ StoreOK(SavedSoFar(store, list, n))
         /\ Cardinality(TornIn(SavedSoFar(store, list, n))) <= Cardinality(TornIn(store)) + 1
         /\ n = Writes(store, list)
              => Cardinality(TornIn(SavedSoFar(store, list, n))) <= Cardinality(TornIn(store))
<1> DEFINE st == SavedSoFar(store, list, n)
<1>1. NetworkList(list) /\ Len(w.saved) <= Len(list)
  BY AddedType
<1>2. PICK m \in Nat : \A j \in DOMAIN list :
        IF j = m THEN ~Torn(list[j]) ELSE j \in DOMAIN w.saved /\ list[j] = w.saved[j]
  BY AddedType
<1>3. /\ Len(w.saved) = store.count /\ store.count \in Nat
      /\ \A j \in 1 .. store.count : w.saved[j] = store.entry[j]
      /\ DOMAIN w.saved = 1 .. store.count
  BY LoadType, CapacityType DEF StoreOK, NetworkList
<1>4. StoreOK(st)
  BY <1>1, SavingType
<1>5. TornIn(st) \in SUBSET Index /\ TornIn(store) \in SUBSET Index
  BY DEF TornIn
<1>6. Cardinality(TornIn(store)) \in Nat
  BY <1>5, IndexFinite
<1>7. ASSUME NEW j \in Index, j # m PROVE st.entry[j] = store.entry[j]
  <2>1. j \in Nat /\ j >= 1
    BY CapacityType DEF Index
  <2>2. CASE j <= Len(list)
    <3>1. j \in DOMAIN list
      BY <1>1, <2>1, <2>2 DEF NetworkList
    <3>2. Entry(list, j) = store.entry[j]
      BY <1>2, <1>3, <1>7, <3>1 DEF Entry
    <3> QED BY <1>1, <3>2, SavingEntry
  <2>3. CASE ~(j <= Len(list))
    <3>1. ~(n >= 2 * j)
      <4>1. ~(Writes(store, list) >= 2 * j)
        <5>1. Writes(store, list) >= 2 * j <=> j = 0 \/ j <= store.count \/ j <= Len(list)
          BY <1>1, <2>1, WritesType
        <5>2. Len(list) \in Nat
          BY <1>1 DEF NetworkList
        <5> QED BY <1>1, <1>3, <2>1, <2>3, <5>1, <5>2
      <4>2. Writes(store, list) \in Nat
        BY <1>1, WritesType
      <4> QED BY <2>1, <4>1, <4>2
    <3> QED BY <1>1, <3>1, SavingEntry
  <2> QED BY <2>2, <2>3
<1>8. Cardinality(TornIn(st)) <= Cardinality(TornIn(store)) + 1
  <2>1. TornIn(st) \ {m} \subseteq TornIn(store)
    BY <1>7 DEF TornIn
  <2>2. Cardinality(TornIn(st) \ {m}) <= Cardinality(TornIn(store))
    BY <1>5, <2>1, NotMore
  <2> QED BY <1>5, <1>6, <2>2, OneMore
<1>9. ASSUME n = Writes(store, list)
      PROVE  Cardinality(TornIn(st)) <= Cardinality(TornIn(store))
  <2>1. ASSUME m \in Index, Torn(st.entry[m]) PROVE Torn(store.entry[m])
    <3>1. CASE m <= Len(list)
      <4>1. m \in DOMAIN list /\ m >= 1
        BY <1>1, <2>1, <3>1, CapacityType DEF NetworkList, Index
      <4>2. n >= 2 * m + 1
        BY <1>1, <1>9, <3>1, WritesType
      <4>3. st.entry[m] = list[m]
        BY <1>1, <2>1, <4>1, <4>2, SavingEntry DEF Entry
      <4> QED BY <1>2, <2>1, <4>1, <4>3
    <3>2. CASE ~(m <= Len(list))
      <4>1. m # 0
        BY <2>1, CapacityType DEF Index
      <4>2. ~(n >= 2 * m)
        <5>1. Writes(store, list) >= 2 * m <=> m = 0 \/ m <= store.count \/ m <= Len(list)
          BY <1>1, WritesType
        <5>2. Len(list) \in Nat
          BY <1>1 DEF NetworkList
        <5> QED BY <1>1, <1>3, <1>9, <3>2, <4>1, <5>1, <5>2
      <4> QED BY <1>1, <2>1, <4>2, SavingEntry
    <3> QED BY <3>1, <3>2
  <2>2. TornIn(st) \subseteq TornIn(store)
    BY <1>7, <2>1 DEF TornIn
  <2> QED BY <1>5, <2>2, NotMore
<1> QED BY <1>4, <1>8, <1>9

-----------------------------------------------------------------------------
(* Starting up.                                                            *)
LEMMA BootedGood ==
  ASSUME NEW store, StoreOK(store)
  PROVE  Good(Booted(store), None) /\ Booted(store).saved = LoadWifiNetworks(store)
<1> DEFINE d == [saved |-> LoadWifiNetworks(store), scan |-> <<>>, pending |-> FALSE,
                 worker |-> "idle", found |-> <<>>, ever |-> FALSE, rescan |-> FALSE,
                 connecting |-> FALSE, late |-> FALSE, retry |-> FALSE, index |-> 1,
                 attempts |-> 0, needsSetup |-> FALSE, target |-> NoTarget, station |-> None]
           e == [d EXCEPT !.needsSetup = TRUE]
<1>1. /\ d.saved = LoadWifiNetworks(store) /\ d.worker = "idle" /\ d.index = 1 /\ d.attempts = 0
      /\ d.target = NoTarget /\ d.station = None /\ DOMAIN d = Fields
  BY DEF Fields
<1>2. Booted(store) = IF d.saved # <<>> THEN TryKnownNetworks(d) ELSE StartScan(e)
  BY DEF Booted
<1>3. Like(d, e) /\ e.worker = "idle"
  BY DEF Like, Fields
<1> HIDE DEF d, e
<1>4. Good(d, None)
  BY <1>1, LoadType, NoTargetNetwork DEF Good, Fit, Aims, Connected, NetworkList
<1>5. Good(TryKnownNetworks(d), None) /\ TryKnownNetworks(d).saved = d.saved
  BY <1>4, TryKnownGood
<1>6. Good(e, None)
  BY <1>3, <1>4, LikeGood
<1>7. Like(e, StartScan(e)) /\ StartScan(e).worker = e.worker
  BY <1>6, StartScanLike DEF Good
<1>8. Good(StartScan(e), None)
  <2>1. PICK x : x = StartScan(e)
    OBVIOUS
  <2> QED BY <1>3, <1>6, <1>7, <2>1, LikeGood
<1>9. StartScan(e).saved = d.saved
  BY <1>3, <1>7 DEF Like
<1> QED BY <1>1, <1>2, <1>5, <1>8, <1>9

-----------------------------------------------------------------------------
(* The invariant: the list in memory is what the store would load, the     *)
(* store has no more torn entries than power has failed, and the driver    *)
(* has a network of the list as its target, or the orphan.                 *)
WifiInv ==
  /\ Good(w, orphan)
  /\ StoreOK(nvs) /\ w.saved = LoadWifiNetworks(nvs)
  /\ crashes \in Nat /\ Cardinality(TornIn(nvs)) <= crashes
  /\ budget \in Nat

LEMMA InitWifiInv == Init => WifiInv
<1> SUFFICES ASSUME Init PROVE WifiInv
  OBVIOUS
<1>1. PICK list : /\ nvs = [count |-> Len(list), entry |-> [i \in Index |-> Entry(list, i)]]
                  /\ Len(list) <= MaxWifiNetworks
                  /\ list \in Seq(Network) /\ \A i \in DOMAIN list : ~Torn(list[i])
  <2>1. \A s \in Ssid, right \in BOOLEAN :
          LET x == [ssid |-> s, password |-> [of |-> s, right |-> right]]
          IN  x \in Network /\ ~Torn(x)
    BY DEF Network, Password, Torn
  <2> DEFINE P(list) == /\ nvs = [count |-> Len(list), entry |-> [i \in Index |-> Entry(list, i)]]
                        /\ Len(list) <= MaxWifiNetworks
  <2>2. CASE P(<<>>)
    <3>1. <<>> \in Seq(Network) /\ DOMAIN <<>> = {}
      OBVIOUS
    <3> QED BY <2>2, <3>1
  <2>3. CASE \E s \in Ssid : P(<<[ssid |-> s, password |-> [of |-> s, right |-> TRUE]]>>)
    <3>1. PICK s \in Ssid : P(<<[ssid |-> s, password |-> [of |-> s, right |-> TRUE]]>>)
      BY <2>3
    <3>2. PICK x \in Network : x = [ssid |-> s, password |-> [of |-> s, right |-> TRUE]] /\ ~Torn(x)
      BY <2>1
    <3> HIDE DEF P
    <3>3. P(<<x>>)
      BY <3>1, <3>2
    <3>4. <<x>> \in Seq(Network)
      BY x \in Network
    <3>5. \A i \in DOMAIN <<x>> : <<x>>[i] = x
      OBVIOUS
    <3>6. \A i \in DOMAIN <<x>> : ~Torn(<<x>>[i])
      BY <3>2, <3>5
    <3> QED BY <3>3, <3>4, <3>6 DEF P
  <2>4. CASE \E x \in {y \in Ssid \X Ssid : y[1] # y[2]} :
               P(<<[ssid |-> x[1], password |-> [of |-> x[1], right |-> FALSE]],
                   [ssid |-> x[2], password |-> [of |-> x[2], right |-> TRUE]]>>)
    <3>1. PICK s \in Ssid, r \in Ssid :
            P(<<[ssid |-> s, password |-> [of |-> s, right |-> FALSE]],
                [ssid |-> r, password |-> [of |-> r, right |-> TRUE]]>>)
      BY <2>4
    <3>2. PICK x \in Network : x = [ssid |-> s, password |-> [of |-> s, right |-> FALSE]] /\ ~Torn(x)
      BY <2>1
    <3>3. PICK y \in Network : y = [ssid |-> r, password |-> [of |-> r, right |-> TRUE]] /\ ~Torn(y)
      BY <2>1
    <3> HIDE DEF P
    <3>4. P(<<x, y>>)
      BY <3>1, <3>2, <3>3
    <3>5. <<x, y>> \in Seq(Network)
      BY x \in Network, y \in Network
    <3>6. \A i \in DOMAIN <<x, y>> : <<x, y>>[i] = x \/ <<x, y>>[i] = y
      OBVIOUS
    <3>7. \A i \in DOMAIN <<x, y>> : ~Torn(<<x, y>>[i])
      BY <3>2, <3>3, <3>6
    <3> QED BY <3>4, <3>5, <3>7 DEF P
  <2> QED BY <2>2, <2>3, <2>4 DEF Init
<1>2. StoreOK(nvs)
  <2>1. nvs.count \in 0 .. MaxWifiNetworks
    BY <1>1, CapacityType
  <2>2. \A i \in Index : Entry(list, i) \in Network
    BY <1>1, EntryType
  <2> QED BY <1>1, <2>1, <2>2 DEF StoreOK
<1>3. Good(Booted(nvs), None) /\ Booted(nvs).saved = LoadWifiNetworks(nvs)
  BY <1>2, BootedGood
<1>4. w = Booted(nvs) /\ orphan = None /\ crashes = 0 /\ budget = Disturbances
  BY DEF Init
<1>5. TornIn(nvs) = {}
  BY <1>1 DEF TornIn, Entry, Torn, NoTarget
<1>6. Cardinality(TornIn(nvs)) = 0
  BY <1>5, FS_EmptySet
<1> QED BY <1>2, <1>3, <1>4, <1>6, WifiAssumption DEF WifiInv

(* A step that leaves the list alone.                                      *)
LEMMA StepAside ==
  ASSUME WifiInv, Good(w', orphan'), w'.saved = w.saved, UNCHANGED <<nvs, crashes>>, budget' \in Nat
  PROVE  WifiInv'
BY DEF WifiInv

Undisturbed == Scanning(w) /\ Scanning(w') /\ w'.target # w.target => budget' < budget

LEMMA SpendLess ==
  ASSUME WifiInv, Spend
  PROVE  budget' \in Nat /\ budget' < budget
BY DEF WifiInv, Spend

(* The main loop, the worker, the driver, and time.                        *)
LEMMA TickStep ==
  ASSUME WifiInv, Ticks \/ NoMemory
  PROVE  WifiInv' /\ Undisturbed
<1>1. PICK ok \in BOOLEAN : w' = Tick(w, ok) /\ (ok \/ Spend)
  BY DEF Ticks, NoMemory
<1>2. UNCHANGED <<nvs, crashes, orphan>> /\ (Free \/ Spend)
  BY DEF Ticks, NoMemory
<1>3. budget' \in Nat
  BY <1>2, SpendLess DEF Free, WifiInv
<1>4. Good(w, orphan)
  BY DEF WifiInv
<1>5. PICK o : o = orphan
  OBVIOUS
<1>6. /\ Good(Tick(w, ok), o) /\ Tick(w, ok).saved = w.saved
      /\ Scanning(Tick(w, ok)) => Tick(w, ok).target = w.target
  BY <1>4, <1>5, TickGood
<1>7. WifiInv'
  BY <1>1, <1>2, <1>3, <1>5, <1>6, StepAside
<1> QED BY <1>1, <1>6, <1>7 DEF Undisturbed

LEMMA WorldStep ==
  ASSUME WifiInv, ScanEnds \/ DriverJoins \/ Drops \/ RangeChanges \/ Timeout \/ RetryDue \/ RescanDue
  PROVE  WifiInv' /\ Undisturbed
<1>1. /\ UNCHANGED <<nvs, crashes, orphan>> /\ (Free \/ Spend)
  BY DEF ScanEnds, DriverJoins, Drops, RangeChanges, Timeout, RetryDue, RescanDue
<1>2. budget' \in Nat
  BY <1>1, SpendLess DEF Free, WifiInv
<1>3. Fit(w) /\ Aims(w, orphan) /\ DOMAIN w = Fields
  BY DEF WifiInv, Good, Fit
<1>4. /\ DOMAIN w' = Fields /\ w'.saved = w.saved /\ w'.index = w.index /\ w'.attempts = w.attempts
      /\ w'.target = w.target /\ w'.worker \in {"idle", "scanning", "done"}
      /\ w'.station = w.station \/ w'.station = None \/ w'.station = w.target.ssid
  <2>1. CASE ScanEnds
    BY <1>3, <2>1 DEF ScanEnds, Found, Fields, Fit
  <2>2. CASE DriverJoins
    BY <1>3, <2>2 DEF DriverJoins, Fields, Fit
  <2>3. CASE Drops
    BY <1>3, <2>3 DEF Drops, Fields, Fit
  <2>4. CASE RangeChanges
    BY <1>3, <2>4 DEF RangeChanges, Fields, Fit
  <2>5. CASE Timeout \/ RetryDue \/ RescanDue
    BY <1>3, <2>5 DEF Timeout, RetryDue, RescanDue, Fields, Fit
  <2> QED BY <2>1, <2>2, <2>3, <2>4, <2>5
<1>5. w.target.ssid \in Ssid \cup {None}
  BY <1>3, NetworkFields DEF Fit
<1>6. Fit(w')
  BY <1>3, <1>4, <1>5 DEF Fit
<1>7. Aims(w', orphan')
  BY <1>1, <1>3, <1>4 DEF Aims, Connected, Saved
<1> QED BY <1>1, <1>2, <1>4, <1>6, <1>7, StepAside DEF Good, Undisturbed

-----------------------------------------------------------------------------
(* The user's commands.                                                    *)
LEMMA SavedAfter ==
  ASSUME Fit(w), NEW list, NetworkList(list),
         NEW d, d = [w EXCEPT !.saved = list]
  PROVE  /\ Fit(d) /\ d.saved = list /\ d.target = w.target /\ d.station = w.station
         /\ d.worker = w.worker
BY DEF Fit, Fields, NetworkList

LEMMA AddStep ==
  ASSUME WifiInv, NEW s \in Ssid, NEW right \in BOOLEAN, AddAndConnect(s, right),
         UNCHANGED crashes, budget' \in Nat
  PROVE  WifiInv'
<1>1. Fit(w) /\ StoreOK(nvs) /\ w.saved = LoadWifiNetworks(nvs)
  BY DEF WifiInv, Good
<1>2. PICK list : list = Added(w.saved, s, [of |-> s, right |-> right])
  OBVIOUS
<1>3. PICK d : d = [w EXCEPT !.saved = list]
  OBVIOUS
<1>4. /\ Saved(d, s) /\ w' = ConnectSaved(d, SavedIndex(d, s))
      /\ nvs' = SaveWifiNetworks(nvs, list) /\ orphan' = None
  BY <1>2, <1>3 DEF AddAndConnect
<1>5. NetworkList(list)
  BY <1>1, <1>2, AddedType
<1>6. Fit(d) /\ d.saved = list
  BY <1>1, <1>3, <1>5, SavedAfter
<1>7. SavedIndex(d, s) \in DOMAIN d.saved
  BY <1>4, <1>6, SavedIndexFound DEF Fit
<1>8. Good(w', orphan') /\ w'.saved = list
  <2>1. PICK i : i = SavedIndex(d, s)
    OBVIOUS
  <2> QED BY <1>4, <1>6, <1>7, <2>1, ConnectSavedGood
<1>9. PICK n \in Nat : n = Writes(nvs, list)
  BY <1>1, <1>5, WritesType
<1>10. Cardinality(TornIn(SavedSoFar(nvs, list, n))) <= Cardinality(TornIn(nvs))
  BY <1>1, <1>2, <1>9, AddTears
<1>11. nvs' = SavedSoFar(nvs, list, n)
  BY <1>4, <1>9 DEF SaveWifiNetworks
<1>12. StoreOK(nvs') /\ LoadWifiNetworks(nvs') = list
  BY <1>1, <1>4, <1>5, SaveLoads
<1>13. crashes \in Nat /\ Cardinality(TornIn(nvs)) <= crashes
  BY DEF WifiInv
<1>14. Cardinality(TornIn(nvs')) \in Nat /\ Cardinality(TornIn(nvs)) \in Nat
  BY IndexFinite DEF TornIn
<1>15. Cardinality(TornIn(nvs)') <= crashes'
  BY <1>10, <1>11, <1>13, <1>14 DEF TornIn
<1> QED BY <1>8, <1>12, <1>13, <1>15 DEF WifiInv

LEMMA ForgetStep ==
  ASSUME WifiInv, NEW s \in Ssid, Forget(s), UNCHANGED crashes, budget' \in Nat
  PROVE  WifiInv' /\ w'.worker = w.worker
<1>1. Fit(w) /\ Aims(w, orphan) /\ StoreOK(nvs) /\ w.saved = LoadWifiNetworks(nvs)
  BY DEF WifiInv, Good
<1>2. PICK i : i = SavedIndex(w, s)
  OBVIOUS
<1>3. PICK list : list = Without(w.saved, i)
  OBVIOUS
<1>4. PICK d : d = [w EXCEPT !.saved = list]
  OBVIOUS
<1>5. PICK e : e = IF Current(s) THEN WifiDisconnect(d) ELSE d
  OBVIOUS
<1>6. PICK f : f = [e EXCEPT !.needsSetup = TRUE]
  OBVIOUS
<1>7. /\ Saved(w, s) /\ w' = IF list = <<>> THEN StartScan(f) ELSE e
      /\ nvs' = SaveWifiNetworks(nvs, list)
      /\ orphan' = IF ~Connected(w) /\ w.target.ssid = s THEN s ELSE orphan
  BY <1>2, <1>3, <1>4, <1>5, <1>6 DEF Forget
<1>8. i \in DOMAIN w.saved /\ w.saved[i].ssid = s
  BY <1>1, <1>2, <1>7, SavedIndexFound DEF Fit
<1>9. NetworkList(w.saved)
  BY <1>1 DEF Fit, NetworkList
<1>10. /\ NetworkList(list) /\ Len(list) = Len(w.saved) - 1
       /\ \A j \in 1 .. Len(w.saved) - 1 :
            list[j] = IF j < i THEN w.saved[j] ELSE w.saved[j + 1]
  BY <1>3, <1>8, <1>9, WithoutType
<1>11. /\ Fit(d) /\ d.saved = list /\ d.target = w.target /\ d.station = w.station
       /\ d.worker = w.worker
  BY <1>1, <1>4, <1>10, SavedAfter
(* The others are still there.                                             *)
<1>12. ASSUME NEW x, Saved(w, x), x # s PROVE Saved(d, x)
  <2>1. PICK j \in DOMAIN w.saved : w.saved[j].ssid = x
    BY <1>12 DEF Saved
  <2>2. j # i /\ j \in 1 .. Len(w.saved) /\ i \in 1 .. Len(w.saved) /\ Len(w.saved) \in Nat
    BY <1>8, <1>9, <1>12, <2>1 DEF NetworkList
  <2>3. PICK m \in 1 .. Len(w.saved) - 1 : list[m] = w.saved[j]
    <3>1. CASE j < i
      BY <1>10, <2>2, <3>1
    <3>2. CASE ~(j < i)
      <4>1. j - 1 \in 1 .. Len(w.saved) - 1 /\ ~(j - 1 < i) /\ (j - 1) + 1 = j
        BY <2>2, <3>2
      <4> QED BY <1>10, <4>1
    <3> QED BY <3>1, <3>2
  <2>4. m \in DOMAIN d.saved
    BY <1>10, <1>11, <2>3 DEF NetworkList
  <2> QED BY <1>11, <2>1, <2>3, <2>4 DEF Saved
<1>13. Good(e, orphan') /\ e.saved = list /\ e.worker = w.worker
  <2>1. CASE Current(s)
    <3>1. PICK o : o = orphan' /\ e = WifiDisconnect(d)
      BY <1>5, <2>1
    <3>2. /\ Fit(e) /\ e.saved = d.saved /\ e.worker = d.worker
          /\ e.target = NoTarget /\ e.station = None
      BY <1>11, <3>1, NoTargetNetwork DEF Fit, Fields, WifiDisconnect
    <3> QED BY <1>11, <3>2, NoTargetNetwork DEF Good, Aims, Connected
  <2>2. CASE ~Current(s)
    <3>1. e = d
      BY <1>5, <2>2
    <3>2. Connected(d) => d.station = d.target.ssid
      BY <1>1, <1>11 DEF Aims, Connected
    <3>3. ASSUME d.target.ssid # None
          PROVE  Saved(d, d.target.ssid) \/ d.target.ssid = orphan'
      <4>1. CASE w.target.ssid = s
        <5>1. ~Connected(w)
          BY <1>1, <2>2, <4>1 DEF Aims, Current
        <5> QED BY <1>7, <1>11, <4>1, <5>1
      <4>2. CASE w.target.ssid # s
        BY <1>1, <1>7, <1>11, <1>12, <3>3, <4>2 DEF Aims
      <4> QED BY <4>1, <4>2
    <3> QED BY <1>11, <3>1, <3>2, <3>3 DEF Good, Aims
  <2> QED BY <2>1, <2>2
<1>14. Good(w', orphan') /\ w'.saved = list /\ w'.worker = w.worker
  <2>1. Like(e, f) /\ f.worker = e.worker
    BY <1>6, <1>13 DEF Good, Fit, Fields, Like
  <2>2. PICK o : o = orphan'
    OBVIOUS
  <2>3. Good(e, o) /\ f.worker \in {"idle", "scanning", "done"}
    BY <1>13, <2>1, <2>2 DEF Good, Fit
  <2>4. Good(f, o)
    BY <2>1, <2>3, LikeGood
  <2>5. PICK x : x = StartScan(f)
    OBVIOUS
  <2>6. Like(f, x) /\ x.worker = f.worker
    BY <2>4, <2>5, StartScanLike DEF Good
  <2>7. Good(x, o)
    BY <2>3, <2>4, <2>6, LikeGood
  <2> QED BY <1>7, <1>13, <2>1, <2>2, <2>3, <2>5, <2>6, <2>7 DEF Like
<1>15. i \in 1 .. nvs.count
  BY <1>1, <1>8, LoadType DEF NetworkList
<1>16. PICK n \in Nat : n = Writes(nvs, list)
  BY <1>1, <1>10, WritesType
<1>17. PICK st : st = SavedSoFar(nvs, list, n)
  OBVIOUS
<1>18. Cardinality(TornIn(st)) <= Cardinality(TornIn(nvs))
  BY <1>1, <1>3, <1>15, <1>16, <1>17, ForgetTears
<1>19. nvs' = st
  BY <1>7, <1>16, <1>17 DEF SaveWifiNetworks
<1>20. StoreOK(nvs') /\ LoadWifiNetworks(nvs') = list
  BY <1>1, <1>7, <1>10, SaveLoads
<1>21. crashes \in Nat /\ Cardinality(TornIn(nvs)) <= crashes
  BY DEF WifiInv
<1>22. Cardinality(TornIn(st)) \in Nat /\ Cardinality(TornIn(nvs)) \in Nat
  BY IndexFinite DEF TornIn
<1>23. Cardinality(TornIn(nvs)') <= crashes'
  BY <1>18, <1>19, <1>21, <1>22 DEF TornIn
<1> QED BY <1>14, <1>20, <1>21, <1>23 DEF WifiInv

LEMMA UserStep ==
  ASSUME WifiInv, User
  PROVE  WifiInv' /\ Undisturbed
<1>1. Spend /\ UNCHANGED crashes
  BY DEF User
<1>2. budget' \in Nat /\ budget' < budget
  BY <1>1, SpendLess
<1>3. Fit(w) /\ Good(w, orphan)
  BY DEF WifiInv, Good
<1>4. ASSUME NEW s \in Ssid, (\E right \in BOOLEAN : AddAndConnect(s, right)) \/ Forget(s)
      PROVE  WifiInv'
  <2>1. CASE Forget(s)
    BY <1>1, <1>2, <2>1, ForgetStep
  <2>2. ASSUME NEW right \in BOOLEAN, AddAndConnect(s, right) PROVE WifiInv'
    BY <1>1, <1>2, <2>2, AddStep
  <2> QED BY <1>4, <2>1, <2>2
<1>5. ASSUME NEW i \in DOMAIN w.saved, w' = ConnectSaved(w, i), UNCHANGED <<nvs, orphan>>
      PROVE  WifiInv'
  <2>1. PICK o : o = orphan'
    OBVIOUS
  <2>2. Good(w', o) /\ w'.saved = w.saved
    BY <1>3, <1>5, ConnectSavedGood
  <2> QED BY <1>1, <1>2, <1>5, <2>1, <2>2, StepAside
<1>6. ASSUME w' = StartScan(w), UNCHANGED <<nvs, orphan>>
      PROVE  WifiInv'
  <2>1. PICK x : x = w'
    OBVIOUS
  <2>2. Like(w, x) /\ x.worker = w.worker
    BY <1>3, <1>6, <2>1, StartScanLike
  <2>3. PICK o : o = orphan'
    OBVIOUS
  <2>4. Good(x, o)
    <3>1. x.worker \in {"idle", "scanning", "done"} /\ Good(w, o)
      BY <1>3, <1>6, <2>2, <2>3 DEF Fit
    <3> QED BY <2>2, <3>1, LikeGood
  <2> QED BY <1>1, <1>2, <1>6, <2>1, <2>2, <2>3, <2>4, StepAside DEF Like
<1>7. WifiInv'
  BY <1>4, <1>5, <1>6 DEF User
<1> QED BY <1>2, <1>7 DEF Undisturbed

(* Power fails, also between two writes.                                   *)
LEMMA PowerStep ==
  ASSUME WifiInv, PowerFails
  PROVE  WifiInv' /\ Undisturbed
<1>1. Spend /\ w' = Booted(nvs') /\ crashes' = crashes + 1 /\ orphan' = None
  BY DEF PowerFails
<1>2. budget' \in Nat /\ budget' < budget
  BY <1>1, SpendLess
<1>3. /\ Fit(w) /\ StoreOK(nvs) /\ w.saved = LoadWifiNetworks(nvs)
      /\ crashes \in Nat /\ Cardinality(TornIn(nvs)) <= crashes
  BY DEF WifiInv, Good
<1>4. PICK st : st = nvs'
  OBVIOUS
<1>5. Cardinality(TornIn(nvs)) \in Nat /\ Cardinality(TornIn(st)) \in Nat
  BY IndexFinite DEF TornIn
<1>6. StoreOK(st) /\ Cardinality(TornIn(st)) <= Cardinality(TornIn(nvs)) + 1
  <2>1. CASE nvs' = nvs
    BY <1>3, <1>4, <1>5, <2>1
  <2>2. ASSUME NEW s \in Ssid, Saved(w, s), nvs' \in CutShort(Without(w.saved, SavedIndex(w, s)))
        PROVE  StoreOK(st) /\ Cardinality(TornIn(st)) <= Cardinality(TornIn(nvs)) + 1
    <3>1. PICK i : i = SavedIndex(w, s)
      OBVIOUS
    <3>2. i \in DOMAIN w.saved
      BY <1>3, <2>2, <3>1, SavedIndexFound DEF Fit
    <3>3. i \in 1 .. nvs.count
      BY <1>3, <3>2, LoadType DEF NetworkList
    <3>4. PICK list : list = Without(w.saved, i)
      OBVIOUS
    <3>5. NetworkList(list)
      BY <1>3, <3>2, <3>4, WithoutType DEF Fit, NetworkList
    <3>6. Writes(nvs, list) \in Nat
      BY <1>3, <3>5, WritesType
    <3>7. PICK n \in 0 .. Writes(nvs, list) : st = SavedSoFar(nvs, list, n)
      BY <1>4, <2>2, <3>1, <3>4 DEF CutShort
    <3>8. n \in Nat /\ n <= Writes(nvs, list)
      BY <3>6, <3>7
    <3> QED BY <1>3, <3>3, <3>4, <3>7, <3>8, ForgetTears
  <2>3. ASSUME NEW s \in Ssid, nvs' \in CutShort(Added(w.saved, s, [of |-> s, right |-> TRUE]))
        PROVE  StoreOK(st) /\ Cardinality(TornIn(st)) <= Cardinality(TornIn(nvs)) + 1
    <3>1. PICK list : list = Added(w.saved, s, [of |-> s, right |-> TRUE])
      OBVIOUS
    <3>2. NetworkList(list)
      BY <1>3, <3>1, AddedType
    <3>3. Writes(nvs, list) \in Nat
      BY <1>3, <3>2, WritesType
    <3>4. PICK n \in 0 .. Writes(nvs, list) : st = SavedSoFar(nvs, list, n)
      BY <1>4, <2>3, <3>1 DEF CutShort
    <3>5. n \in Nat /\ n <= Writes(nvs, list)
      BY <3>3, <3>4
    <3> QED BY <1>3, <3>1, <3>4, <3>5, AddTears
  <2> QED BY <2>1, <2>2, <2>3 DEF PowerFails
<1>7. Good(Booted(st), None) /\ Booted(st).saved = LoadWifiNetworks(st)
  BY <1>6, BootedGood
<1>8. crashes' \in Nat /\ Cardinality(TornIn(st)) <= crashes'
  BY <1>1, <1>3, <1>5, <1>6
<1>9. WifiInv'
  BY <1>1, <1>2, <1>4, <1>6, <1>7, <1>8 DEF WifiInv
<1> QED BY <1>2, <1>9 DEF Undisturbed

LEMMA WifiStep == WifiInv /\ [Next]_vars => WifiInv' /\ (Next => Undisturbed)
<1>1. CASE UNCHANGED vars
  BY <1>1 DEF vars, WifiInv, Undisturbed
<1> QED BY <1>1, TickStep, WorldStep, UserStep, PowerStep DEF Next

LEMMA AlwaysWifiInv == Spec => []WifiInv
BY InitWifiInv, WifiStep, PTL DEF Spec

-----------------------------------------------------------------------------
(* The list never outgrows its capacity, in memory or in the store, and    *)
(* the place in it from which the next attempt is counted is a place.      *)
THEOREM WifiTypeCorrect == Spec => []WifiTypeOK
<1>1. WifiInv => WifiTypeOK
  BY DEF WifiInv, Good, Fit, StoreOK, WifiTypeOK
<1> QED BY <1>1, AlwaysWifiInv, PTL

(* However often the list is changed and power fails between two writes of *)
(* a save: no more entries than crashes have a name and a password that    *)
(* do not belong together.                                                 *)
THEOREM OneTornPerCrash == Spec => []OneMixedPerCrash
<1>1. ASSUME WifiInv PROVE OneMixedPerCrash
  <2>1. StoreOK(nvs) /\ w.saved = LoadWifiNetworks(nvs)
        /\ crashes \in Nat /\ Cardinality(TornIn(nvs)) <= crashes
    BY <1>1 DEF WifiInv
  <2>2. Mixed \subseteq TornIn(nvs)
    BY <2>1, LoadType, CapacityType DEF Mixed, TornIn, Torn, NetworkList, StoreOK, Index
  <2>3. TornIn(nvs) \in SUBSET Index
    BY DEF TornIn
  <2>4. Cardinality(Mixed) <= Cardinality(TornIn(nvs))
    BY <2>2, <2>3, NotMore
  <2>5. Cardinality(Mixed) \in Nat /\ Cardinality(TornIn(nvs)) \in Nat
    BY <2>2, <2>3, IndexFinite
  <2> QED BY <2>1, <2>4, <2>5 DEF OneMixedPerCrash
<1> QED BY <1>1, AlwaysWifiInv, PTL

(* Whatever is added, forgotten, retried or lost: the device is on a       *)
(* network it keeps, or on the one forgotten while it was being joined.    *)
THEOREM StationIsKept == Spec => []OnKeptNetwork
<1>1. WifiInv => OnKeptNetwork
  BY DEF WifiInv, Good, Aims, OnKeptNetwork, Connected
<1> QED BY <1>1, AlwaysWifiInv, PTL

(* No tick touches the driver while the worker scans.                      *)
THEOREM ScansLeftAlone == Spec => ScanUndisturbed
<1>1. WifiInv /\ [Next]_vars
        => [Scanning(w) /\ Scanning(w') /\ w'.target # w.target => budget' < budget]_vars
  BY WifiStep DEF Undisturbed
<1> QED BY <1>1, AlwaysWifiInv, PTL DEF Spec, ScanUndisturbed

=============================================================================
