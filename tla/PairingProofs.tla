---------------------------- MODULE PairingProofs ----------------------------
(***************************************************************************)
(* Pairing for any set of Macs, any capacity and any number of pairings    *)
(* and disturbances: which Mac a token belongs to, and that device and     *)
(* Agent agree while the device takes itself for connected.                *)
(*                                                                         *)
(* The invariant has a part about the device alone (DeckInv) and one about *)
(* its conversation with the Agent (Talk).  Every member function of the   *)
(* device keeps both; the Agents' actions are the other half.              *)
(***************************************************************************)
EXTENDS Pairing, TLAPS, FiniteSetTheorems

States == {"Offline", "Discovering", "Connecting", "AwaitingPairCode", "Authenticating",
           "Connected", "Incompatible"}

Fields == {"paired", "last", "targetId", "targetIp", "targetToken", "state", "discovered",
           "search", "requested", "rediscover", "manual", "mdns", "worker", "workerIp",
           "cancel", "due", "missed", "audio", "agents", "client"}

Said == {"hello", "ping", "pong", "pair", "pair_wrong", "agent_list_req"}
Heard == {"hello_ok", "auth_error", "pair_required", "pair_error", "paired", "ping", "pong",
          "agent_list", "upgrade_required"}
Line(kinds) == [t : kinds, token : Token \cup {None}]

\* What is on its way: whether there is a line of a kind, at most one of it,
\* and the tokens that lines of a kind carry.
Says(s, k) == \E i \in 1 .. Len(s) : s[i].t = k
Once(s, k) == \A i, j \in 1 .. Len(s) : s[i].t = k /\ s[j].t = k => i = j
Carry(s, k, T) == \A i \in 1 .. Len(s) : s[i].t = k => s[i].token \in T

Of(m) == {k \in Token : k.mac = m}

\* What is stored; where the device aims.
Stored(d) ==
  /\ d.paired \in [Mac -> Token \cup {None, Unpaired}]
  /\ \A m \in Mac : d.paired[m] \in Token => d.paired[m].mac = m
  /\ d.last \in Mac \cup {None}
  /\ PairedCount(d) <= MaxPairedMacs

Aims(d) ==
  /\ d.targetId \in Mac \cup {None}
  /\ d.targetToken # None => d.targetToken \in Of(d.targetId)
  /\ d.discovered \subseteq Mac
  /\ d.audio # None => d.audio.token.mac = d.audio.mac
  /\ d.state \in States

\* A connection: what a Mac says in "paired" is a token of its own.
LineOK(c) ==
  /\ DOMAIN c = {"peer", "line", "out", "in"}
  /\ c.out \in Seq(Line(Said)) /\ c.in \in Seq(Line(Heard))
  /\ IF c.line = "off" THEN c = NoClient
     ELSE c.peer \in Mac /\ c.line \in {"open", "cut", "closed"}
  /\ Carry(c.in, "paired", Of(c.peer))

\* Nothing has been said that counts.
Unheard(c) ==
  /\ ~Says(c.out, "hello") /\ ~Says(c.in, "auth_error")
  /\ ~Says(c.in, "hello_ok") /\ ~Says(c.in, "paired")

\* The connection leads where the device aims, unless the attempt that made
\* it is cancelled.
WorkerOK(d) ==
  IF d.worker = "idle"
  THEN ClientConnected(d) => d.targetId = d.client.peer /\ d.targetIp = d.client.peer
  ELSE /\ d.worker \in {"trying", "connected", "failed"}
       /\ d.workerIp \in Mac /\ d.state # "Connected"
       /\ ~d.cancel => d.targetId = d.workerIp /\ d.targetIp = d.workerIp
       /\ IF d.worker = "connected"
          THEN d.client.peer = d.workerIp /\ Unheard(d.client)
          ELSE d.client = NoClient

Base(d) == DOMAIN d = Fields /\ Stored(d) /\ Aims(d) /\ LineOK(d.client)
DeckInv(d) == Base(d) /\ WorkerOK(d)

\* The conversation.  Before the Agent has taken a hello, there is one hello
\* with the present token, or one refusal, or none of them.
Greets(d) ==
  /\ Once(d.client.out, "hello") /\ Carry(d.client.out, "hello", {d.targetToken})
  /\ Once(d.client.in, "auth_error")
  /\ ~(Says(d.client.out, "hello") /\ Says(d.client.in, "auth_error"))

\* Before the connection is authenticated, nothing says it is.
Strange(d) ==
  /\ d.state # "Connected"
  /\ ~Says(d.client.in, "hello_ok") /\ ~Says(d.client.in, "paired")

\* After that, the device has the session's token, or is about to be told.
Tells(d, s) ==
  /\ Carry(d.client.in, "paired", {s.token})
  /\ Says(d.client.in, "paired") \/ d.targetToken = s.token
  /\ Says(d.client.in, "paired") => ~Says(d.client.in, "hello_ok")
  /\ d.state = "Connected" => d.targetToken = s.token

Talk(d, s) ==
  d.client.line = "open" =>
    IF d.worker # "idle" THEN s.phase = "hello"
    ELSE /\ s.phase = "hello" => Greets(d)
         /\ s.phase # "hello" => ~Says(d.client.out, "hello") /\ ~Says(d.client.in, "auth_error")
         /\ s.phase # "ready" => Strange(d)
         /\ s.phase = "ready" => Tells(d, s)

Good(d, s) == DeckInv(d) /\ Talk(d, s)

SessionOf(d) == IF d.client.peer = None THEN NoSession ELSE session[d.client.peer]

WorldOK ==
  /\ wifi \in BOOLEAN /\ reach \subseteq Mac /\ late \subseteq Mac
  /\ token \in [Mac -> Token \cup {None}]
  /\ session \in [Mac -> [phase : {"none", "hello", "code", "ready"}, token : Token \cup {None}]]

Inv == Good(deck, SessionOf(deck)) /\ WorldOK

-----------------------------------------------------------------------------
(* Lines on their way.                                                     *)
LEMMA SaysAppend ==
  ASSUME NEW S, NEW s \in Seq(S), NEW m \in S, NEW k
  PROVE  /\ Append(s, m) \in Seq(S)
         /\ Says(Append(s, m), k) <=> Says(s, k) \/ m.t = k
         /\ Once(s, k) /\ (m.t = k => ~Says(s, k)) => Once(Append(s, m), k)
         /\ \A T : Carry(s, k, T) /\ (m.t = k => m.token \in T) => Carry(Append(s, m), k, T)
<1> DEFINE a == Append(s, m)
<1>1. /\ a \in Seq(S) /\ Len(a) = Len(s) + 1 /\ Len(s) \in Nat /\ a[Len(s) + 1] = m
      /\ \A i \in 1 .. Len(s) : a[i] = s[i]
  OBVIOUS
<1> HIDE DEF a
<1>2. \A i \in 1 .. Len(a) : i \in 1 .. Len(s) \/ i = Len(s) + 1
  BY <1>1
<1>3. 1 .. Len(s) \subseteq 1 .. Len(a) /\ Len(s) + 1 \in 1 .. Len(a)
  BY <1>1
<1>4. Says(a, k) <=> Says(s, k) \/ m.t = k
  BY <1>1, <1>2, <1>3, Zenon DEF Says
<1>5. Once(s, k) /\ (m.t = k => ~Says(s, k)) => Once(a, k)
  BY <1>1, <1>2, <1>3, Zenon DEF Says, Once
<1>6. ASSUME NEW T PROVE Carry(s, k, T) /\ (m.t = k => m.token \in T) => Carry(a, k, T)
  BY <1>1, <1>2, <1>3, Zenon DEF Carry
<1> QED BY <1>1, <1>4, <1>5, <1>6 DEF a

LEMMA SaysTail ==
  ASSUME NEW S, NEW s \in Seq(S), s # <<>>, NEW k
  PROVE  /\ Tail(s) \in Seq(S) /\ Head(s) \in S
         /\ Says(s, k) <=> Head(s).t = k \/ Says(Tail(s), k)
         /\ Once(s, k) => Once(Tail(s), k) /\ (Head(s).t = k => ~Says(Tail(s), k))
         /\ \A T : Carry(s, k, T) => Carry(Tail(s), k, T) /\ (Head(s).t = k => Head(s).token \in T)
<1> DEFINE a == Tail(s)
<1>1. /\ a \in Seq(S) /\ Len(a) = Len(s) - 1 /\ Len(s) \in Nat /\ Len(s) >= 1 /\ Head(s) = s[1]
      /\ \A i \in 1 .. Len(a) : a[i] = s[i + 1]
      /\ Head(s) \in S
  OBVIOUS
<1> HIDE DEF a
<1>2. \A i \in 1 .. Len(a) : i + 1 \in 1 .. Len(s) /\ i + 1 # 1
  BY <1>1
<1>3. \A i \in 1 .. Len(s) : i = 1 \/ \E j \in 1 .. Len(a) : i = j + 1
  <2> SUFFICES ASSUME NEW i \in 1 .. Len(s), i # 1 PROVE \E j \in 1 .. Len(a) : i = j + 1
    OBVIOUS
  <2>1. i - 1 \in 1 .. Len(a) /\ i = (i - 1) + 1
    BY <1>1
  <2> QED BY <2>1
<1>4. 1 \in 1 .. Len(s) /\ \A i, j \in 1 .. Len(a) : i + 1 = j + 1 => i = j
  BY <1>1
<1>5. Says(s, k) <=> Head(s).t = k \/ Says(a, k)
  <2>1. Says(s, k) => Head(s).t = k \/ Says(a, k)
    BY <1>1, <1>3, Zenon DEF Says
  <2>2. Head(s).t = k => Says(s, k)
    BY <1>1, <1>4, Zenon DEF Says
  <2>3. ASSUME NEW i \in 1 .. Len(a), a[i].t = k PROVE Says(s, k)
    BY <1>1, <1>2, <2>3, Zenon DEF Says
  <2> QED BY <2>1, <2>2, <2>3, Zenon DEF Says
<1>6. ASSUME Once(s, k) PROVE Once(a, k)
  <2> SUFFICES ASSUME NEW i \in 1 .. Len(a), NEW j \in 1 .. Len(a), a[i].t = k, a[j].t = k
               PROVE  i = j
    BY DEF Once
  <2>1. s[i + 1].t = k /\ s[j + 1].t = k
    BY <1>1
  <2>2. i + 1 = j + 1
    BY <1>2, <1>6, <2>1, Zenon DEF Once
  <2> QED BY <1>4, <2>2
<1>7. ASSUME Once(s, k), Head(s).t = k PROVE ~Says(a, k)
  BY <1>1, <1>2, <1>4, <1>7, Zenon DEF Once, Says
<1>8. ASSUME NEW T, Carry(s, k, T) PROVE Carry(a, k, T) /\ (Head(s).t = k => Head(s).token \in T)
  BY <1>1, <1>2, <1>4, <1>8, Zenon DEF Carry
<1> QED BY <1>1, <1>5, <1>6, <1>7, <1>8 DEF a

LEMMA NothingSaid ==
  ASSUME NEW k
  PROVE  ~Says(<<>>, k) /\ Once(<<>>, k) /\ \A T : Carry(<<>>, k, T)
BY DEF Says, Once, Carry

-----------------------------------------------------------------------------
(* Steps that leave the connection and the target alone.                   *)
Harmless(d, e) ==
  /\ DOMAIN e = Fields
  /\ e.paired = d.paired /\ e.last = d.last
  /\ e.targetId = d.targetId /\ e.targetIp = d.targetIp /\ e.targetToken = d.targetToken
  /\ e.worker = d.worker /\ e.workerIp = d.workerIp /\ e.client = d.client
  /\ e.discovered \subseteq Mac
  /\ e.state = d.state \/ e.state \in States \ {"Connected"}
  /\ e.audio \in {d.audio, None}
  /\ d.cancel => e.cancel

LEMMA SameStored ==
  ASSUME NEW d, NEW e, Stored(d), e.paired = d.paired, e.last \in Mac \cup {None}
  PROVE  Stored(e)
<1>1. PairedCount(e) = PairedCount(d)
  BY DEF PairedCount, IsPaired
<1> QED BY <1>1 DEF Stored

LEMMA HarmlessGood ==
  ASSUME NEW d, NEW e, NEW s, Good(d, s), Harmless(d, e)
  PROVE  Good(e, s)
<1> USE DEF Good, DeckInv, Base, Harmless
<1>1. Stored(e)
  BY SameStored DEF Stored
<1>2. Aims(e)
  BY DEF Aims
<1>3. WorkerOK(e)
  BY DEF WorkerOK, ClientConnected
<1>4. Talk(e, s)
  BY DEF Talk, Greets, Strange, Tells
<1> QED BY <1>1, <1>2, <1>3, <1>4

LEMMA HarmlessTwice ==
  ASSUME NEW d, NEW e, NEW f, Harmless(d, e), Harmless(e, f)
  PROVE  Harmless(d, f)
BY DEF Harmless

\* After(d, e, s): what every member function does to the invariant.
After(d, e, s) == Good(e, s) /\ e.client.peer \in {d.client.peer, None}

LEMMA HarmlessAfter ==
  ASSUME NEW d, NEW e, NEW s, Good(d, s), Harmless(d, e)
  PROVE  After(d, e, s)
BY HarmlessGood DEF After, Harmless

LEMMA AfterTwice ==
  ASSUME NEW d, NEW e, NEW f, NEW s, After(d, e, s), After(e, f, s)
  PROVE  After(d, f, s)
BY DEF After

LEMMA NoClientOK == LineOK(NoClient) /\ NoClient.peer = None /\ NoClient.line = "off"
BY NothingSaid DEF LineOK, NoClient, Carry

LEMMA StopDoes ==
  ASSUME NEW d, Base(d)
  PROVE  /\ Base(Stop(d)) /\ Stop(d).client = NoClient
         /\ \A f \in Fields \ {"client"} : Stop(d)[f] = d[f]
<1> DEFINE e == Stop(d)
<1>1. DOMAIN e = Fields /\ e.client = NoClient /\ \A f \in Fields \ {"client"} : e[f] = d[f]
  BY DEF Stop, Base, Fields
<1>2. /\ e.paired = d.paired /\ e.last = d.last /\ e.targetId = d.targetId
      /\ e.targetToken = d.targetToken /\ e.discovered = d.discovered /\ e.audio = d.audio
      /\ e.state = d.state
  BY <1>1 DEF Fields
<1> HIDE DEF e
<1>3. Stored(e)
  BY <1>2, SameStored DEF Base, Stored
<1>4. Aims(e)
  BY <1>2 DEF Base, Aims
<1> QED BY <1>1, <1>3, <1>4, NoClientOK DEF Base, e

\* Without a connection there is no conversation.
LEMMA NoTalk ==
  ASSUME NEW d, NEW s, Base(d), d.worker = "idle", ~ClientConnected(d)
  PROVE  Good(d, s)
BY DEF Good, DeckInv, WorkerOK, Talk, ClientConnected

LEMMA Unconnected ==
  ASSUME NEW d, d.client = NoClient
  PROVE  ~ClientConnected(d)
BY DEF NoClient, ClientConnected

LEMMA StopGood ==
  ASSUME NEW d, NEW s, Base(d), d.worker = "idle"
  PROVE  Good(Stop(d), s) /\ Stop(d).client.peer = None
<1>1. /\ Base(Stop(d)) /\ Stop(d).client = NoClient /\ Stop(d).worker = "idle"
  BY StopDoes DEF Fields
<1> QED BY <1>1, NoTalk, Unconnected, NoClientOK

\* Left to a cancelled attempt, or to nobody: then the target may change.
Detached(d) == IF d.worker = "idle" THEN ~ClientConnected(d) ELSE d.cancel

LEMMA CancelDoes ==
  ASSUME NEW d, NEW s, Good(d, s)
  PROVE  LET e == CancelConnectionAttempt(d) IN After(d, e, s) /\ Detached(e)
<1> DEFINE e == CancelConnectionAttempt(d)
<1>1. CASE InFlight(d)
  <2>1. e = [d EXCEPT !.cancel = TRUE]
    BY <1>1 DEF CancelConnectionAttempt
  <2>2. Harmless(d, e) /\ e.cancel /\ e.worker # "idle"
    BY <1>1, <2>1 DEF Harmless, Good, DeckInv, Base, Fields, Aims, InFlight
  <2> QED BY <2>2, HarmlessAfter DEF Detached
<1>2. CASE ~InFlight(d) /\ ClientConnected(d)
  <2>1. e = Stop(d) /\ d.worker = "idle" /\ Base(d)
    BY <1>2 DEF CancelConnectionAttempt, InFlight, Good, DeckInv
  <2>2. e.client = NoClient /\ e.worker = "idle" /\ Good(e, s) /\ e.client.peer = None
    BY <2>1, StopDoes, StopGood DEF Fields
  <2> QED BY <2>2, Unconnected DEF Detached, After
<1>3. CASE ~InFlight(d) /\ ~ClientConnected(d)
  BY <1>3 DEF CancelConnectionAttempt, InFlight, Detached, After
<1> QED BY <1>1, <1>2, <1>3

LEMMA HarmlessDetached ==
  ASSUME NEW d, NEW e, Detached(d), Harmless(d, e)
  PROVE  Detached(e)
BY DEF Detached, Harmless, ClientConnected

LEMMA QuietHarmless ==
  ASSUME NEW d, NEW s, Good(d, s)
  PROVE  Harmless(d, Quiet(d)) /\ Quiet(d).state = "Offline"
BY DEF Quiet, Harmless, Good, DeckInv, Base, Fields, Aims, States

LEMMA ScheduleHarmless ==
  ASSUME NEW d, NEW s, Good(d, s)
  PROVE  Harmless(d, ScheduleReconnect(d))
BY DEF ScheduleReconnect, Harmless, Good, DeckInv, Base, Fields, Aims

LEMMA LostDoes ==
  ASSUME NEW d, NEW s, Good(d, s)
  PROVE  After(d, ConnectionLost(d), s)
<1> DEFINE e == CancelConnectionAttempt(d)
           f == Quiet(e)
<1>1. After(d, e, s)
  BY CancelDoes
<1>2. After(e, f, s)
  BY <1>1, QuietHarmless, HarmlessAfter DEF After
<1>3. After(f, ScheduleReconnect(f), s)
  BY <1>2, ScheduleHarmless, HarmlessAfter DEF After
<1>4. ConnectionLost(d) = ScheduleReconnect(f)
  BY DEF ConnectionLost
<1> HIDE DEF e, f
<1> QED BY <1>1, <1>2, <1>3, <1>4, AfterTwice

\* With nothing to lose, the device may aim elsewhere.
LEMMA Retargeted ==
  ASSUME NEW d, NEW e, NEW s, Good(d, s), Detached(d),
         DOMAIN e = Fields, e.paired = d.paired, e.last \in Mac \cup {None}, Aims(e),
         e.worker = d.worker, e.workerIp = d.workerIp, e.client = d.client,
         e.state = d.state, e.cancel = d.cancel
  PROVE  After(d, e, s)
<1>1. Stored(e)
  BY SameStored DEF Good, DeckInv, Base
<1>2. WorkerOK(e)
  BY DEF Good, DeckInv, Detached, WorkerOK, ClientConnected
<1>3. Talk(e, s)
  BY DEF Good, DeckInv, Detached, Talk, ClientConnected
<1> QED BY <1>1, <1>2, <1>3 DEF Good, DeckInv, Base, After

-----------------------------------------------------------------------------
(* Leaving, sending, greeting.                                             *)
LEMMA DisconnectDoes ==
  ASSUME NEW d, NEW s, Good(d, s), NEW manual \in BOOLEAN
  PROVE  LET e == Disconnect(d, manual) IN After(d, e, s) /\ Detached(e)
<1> DEFINE c == CancelConnectionAttempt(d)
           q == Quiet(c)
           l == [q EXCEPT !.manual = manual, !.missed = 0]
           g == [l EXCEPT !.targetId = None, !.targetToken = None, !.last = None]
<1>1. After(d, c, s) /\ Detached(c)
  BY CancelDoes
<1>2. After(c, q, s) /\ Detached(q)
  BY <1>1, QuietHarmless, HarmlessAfter, HarmlessDetached DEF After
<1>3. Harmless(q, l)
  BY <1>2 DEF After, Harmless, Good, DeckInv, Base, Fields, Aims
<1>4. After(q, l, s) /\ Detached(l)
  BY <1>2, <1>3, HarmlessAfter, HarmlessDetached DEF After
<1>5. After(d, l, s)
  BY <1>1, <1>2, <1>4, AfterTwice
<1>6. Disconnect(d, manual) = IF manual THEN g ELSE l
  BY DEF Disconnect
<1>7. /\ DOMAIN g = Fields /\ g.paired = l.paired /\ g.last = None /\ g.targetId = None
      /\ g.targetToken = None /\ g.discovered = l.discovered /\ g.audio = l.audio
      /\ g.worker = l.worker /\ g.workerIp = l.workerIp /\ g.client = l.client
      /\ g.state = l.state /\ g.cancel = l.cancel
  <2>1. DOMAIN l = Fields
    BY <1>4 DEF After, Good, DeckInv, Base
  <2> HIDE DEF l
  <2> QED BY <2>1 DEF Fields
<1> HIDE DEF c, q, l, g
<1>8. Aims(g)
  BY <1>4, <1>7 DEF After, Good, DeckInv, Base, Aims
<1>9. After(l, g, s) /\ Detached(g)
  BY <1>4, <1>7, <1>8, Retargeted DEF After, Detached, ClientConnected
<1> QED BY <1>4, <1>5, <1>6, <1>9, AfterTwice

LEMMA StoredTokenOf ==
  ASSUME NEW d, Stored(d), NEW m
  PROVE  StoredToken(d, m) # None => StoredToken(d, m) \in Of(m)
BY DEF StoredToken, IsPaired, Stored, Of

LEMMA SendDoes ==
  ASSUME NEW d, DOMAIN d = Fields, LineOK(d.client), NEW m \in Line(Said)
  PROVE  LET e == Send(d, m) IN
         /\ DOMAIN e = Fields /\ \A f \in Fields \ {"client"} : e[f] = d[f]
         /\ LineOK(e.client)
         /\ e.client.peer = d.client.peer /\ e.client.line = d.client.line
         /\ e.client.in = d.client.in
         /\ e.client.out = IF d.client.line = "open" THEN Append(d.client.out, m)
                           ELSE d.client.out
<1> DEFINE e == Send(d, m)
           c == [d.client EXCEPT !.out = Append(@, m)]
<1>1. CASE d.client.line # "open"
  BY <1>1 DEF Send
<1>2. CASE d.client.line = "open"
  <2>1. DOMAIN e = Fields /\ e.client = c /\ \A f \in Fields \ {"client"} : e[f] = d[f]
    BY <1>2 DEF Send, Fields
  <2>2. /\ DOMAIN c = DOMAIN d.client /\ c.peer = d.client.peer /\ c.line = d.client.line
        /\ c.in = d.client.in /\ c.out = Append(d.client.out, m)
    BY DEF LineOK
  <2>3. Append(d.client.out, m) \in Seq(Line(Said))
    BY DEF LineOK
  <2> HIDE DEF e, c
  <2>4. LineOK(c)
    BY <1>2, <2>2, <2>3 DEF LineOK
  <2> QED BY <1>2, <2>1, <2>2, <2>4 DEF e
<1> QED BY <1>1, <1>2

LEMMA SendGood ==
  ASSUME NEW d, NEW s, Good(d, s), NEW m \in Line(Said), m.t # "hello"
  PROVE  After(d, Send(d, m), s)
<1> DEFINE e == Send(d, m)
<1> USE DEF Good, DeckInv, Base
<1>1. /\ DOMAIN e = Fields /\ LineOK(e.client)
      /\ e.paired = d.paired /\ e.last = d.last /\ e.targetId = d.targetId
      /\ e.targetIp = d.targetIp /\ e.targetToken = d.targetToken
      /\ e.discovered = d.discovered /\ e.audio = d.audio /\ e.state = d.state
      /\ e.worker = d.worker /\ e.workerIp = d.workerIp /\ e.cancel = d.cancel
      /\ e.client.peer = d.client.peer /\ e.client.line = d.client.line
      /\ e.client.in = d.client.in
  BY SendDoes DEF Fields
<1>2. /\ Says(e.client.out, "hello") <=> Says(d.client.out, "hello")
      /\ Once(d.client.out, "hello") => Once(e.client.out, "hello")
      /\ \A T : Carry(d.client.out, "hello", T) => Carry(e.client.out, "hello", T)
  <2>1. CASE d.client.line # "open"
    <3>1. e.client.out = d.client.out
      BY <2>1, SendDoes
    <3> QED BY <3>1
  <2>2. CASE d.client.line = "open"
    <3>1. e.client.out = Append(d.client.out, m) /\ d.client.out \in Seq(Line(Said))
      BY <2>2, SendDoes DEF LineOK
    <3> HIDE DEF e
    <3> QED BY <3>1, SaysAppend
  <2> QED BY <2>1, <2>2
<1>3. d.client = NoClient => e.client = d.client
  BY SendDoes DEF NoClient, Send
<1> HIDE DEF e
<1>4. Stored(e) /\ Aims(e)
  BY <1>1, SameStored DEF Stored, Aims
<1>5. WorkerOK(e)
  BY <1>1, <1>2, <1>3 DEF WorkerOK, Unheard, ClientConnected
<1>6. Talk(e, s)
  BY <1>1, <1>2 DEF Talk, Greets, Strange, Tells
<1> QED BY <1>1, <1>4, <1>5, <1>6 DEF After, e

\* What a device must be to greet: a fresh connection, or one whose hello
\* was refused.
MayGreet(d, s) ==
  /\ DeckInv(d) /\ d.worker = "idle"
  /\ d.client.line = "open" => s.phase = "hello" /\ Unheard(d.client)

LEMMA SendHelloDoes ==
  ASSUME NEW d, NEW s, MayGreet(d, s)
  PROVE  After(d, SendHello(d), s)
<1> DEFINE t == StoredToken(d, d.targetId)
           h == [d EXCEPT !.targetToken = t]
           m == [t |-> "hello", token |-> t]
           k == Send(h, m)
           e == [k EXCEPT !.state = IF t = None THEN "AwaitingPairCode" ELSE "Authenticating"]
<1> USE DEF MayGreet, Unheard, DeckInv, Base
<1>1. t # None => t \in Of(d.targetId)
  BY StoredTokenOf
<1>2. /\ DOMAIN h = Fields /\ h.targetToken = t
      /\ h.paired = d.paired /\ h.last = d.last /\ h.targetId = d.targetId
      /\ h.targetIp = d.targetIp /\ h.discovered = d.discovered /\ h.audio = d.audio
      /\ h.state = d.state /\ h.worker = d.worker /\ h.workerIp = d.workerIp
      /\ h.cancel = d.cancel /\ h.client = d.client
  BY DEF Fields
<1> HIDE DEF h, t
<1>3. Base(h)
  BY <1>1, <1>2, SameStored DEF Stored, Aims
<1>4. CASE ~ClientConnected(d)
  <2>1. Good(h, s) /\ h.client.peer = d.client.peer
    BY <1>2, <1>3, <1>4, NoTalk DEF ClientConnected
  <2>2. SendHello(d) = ConnectionLost(h)
    BY <1>4 DEF SendHello, h, t
  <2> QED BY <2>1, <2>2, LostDoes DEF After
<1>5. CASE ClientConnected(d)
  <2>1. SendHello(d) = e
    BY <1>5 DEF SendHello, h, t
  <2>2. m \in Line(Said) /\ m.t = "hello" /\ m.token = t
    BY <1>1 DEF Line, Said, Of
  <2> HIDE DEF m
  <2>3. /\ DOMAIN k = Fields /\ \A f \in Fields \ {"client"} : k[f] = h[f]
        /\ LineOK(k.client)
        /\ k.client.peer = d.client.peer /\ k.client.line = d.client.line
        /\ k.client.in = d.client.in
        /\ k.client.out = IF d.client.line = "open" THEN Append(d.client.out, m)
                          ELSE d.client.out
    BY <1>2, <1>3, <2>2, SendDoes
  <2> HIDE DEF k
  <2>4. /\ DOMAIN e = Fields /\ e.client = k.client /\ e.state # "Connected"
        /\ e.paired = d.paired /\ e.last = d.last /\ e.targetId = d.targetId
        /\ e.targetIp = d.targetIp /\ e.targetToken = t /\ e.discovered = d.discovered
        /\ e.audio = d.audio /\ e.worker = "idle" /\ e.state \in States
    BY <1>2, <2>3 DEF Fields, States
  <2>5. d.client.line = "open" =>
          /\ Once(e.client.out, "hello") /\ Carry(e.client.out, "hello", {t})
    <3>1. /\ d.client.out \in Seq(Line(Said))
          /\ ~Says(d.client.out, "hello") =>
               Carry(d.client.out, "hello", {t}) /\ Once(d.client.out, "hello")
      BY DEF LineOK, Carry, Says, Once
    <3> HIDE DEF e
    <3>2. d.client.line = "open" =>
            /\ Carry(d.client.out, "hello", {t}) /\ Once(d.client.out, "hello")
            /\ ~Says(d.client.out, "hello") /\ e.client.out = Append(d.client.out, m)
      BY <2>3, <2>4, <3>1
    <3>3. ASSUME d.client.line = "open"
          PROVE  /\ Once(Append(d.client.out, m), "hello")
                 /\ \A T : t \in T => Carry(Append(d.client.out, m), "hello", T)
                                  \/ ~Carry(d.client.out, "hello", T)
      BY <2>2, <3>1, <3>2, <3>3, SaysAppend
    <3> QED BY <3>2, <3>3
  <2>6. d.client.line = "open" => Once(e.client.in, "auth_error")
    BY <2>3, <2>4 DEF Once, Says
  <2> HIDE DEF e
  <2>7. Stored(e) /\ Aims(e)
    BY <1>1, <2>4, SameStored DEF Stored, Aims
  <2>8. WorkerOK(e)
    BY <1>5, <2>3, <2>4 DEF WorkerOK, ClientConnected
  <2>9. Talk(e, s)
    BY <2>3, <2>4, <2>5, <2>6 DEF Talk, Greets, Strange
  <2> QED BY <2>1, <2>3, <2>4, <2>7, <2>8, <2>9 DEF After, Good
<1> QED BY <1>4, <1>5

-----------------------------------------------------------------------------
(* Connecting and searching.                                               *)
LEMMA BaseKept ==
  ASSUME NEW d, NEW e, Base(d), DOMAIN e = Fields,
         e.paired = d.paired, e.last = d.last, e.targetId = d.targetId,
         e.targetToken = d.targetToken, e.discovered \subseteq Mac,
         e.audio \in {d.audio, None}, e.client = d.client, e.state \in States
  PROVE  Base(e)
<1>1. Stored(e)
  BY SameStored DEF Base, Stored
<1> QED BY <1>1 DEF Base, Aims

LEMMA AimGood ==
  ASSUME NEW d, NEW s, Good(d, s), d.targetId \in Mac
  PROVE  LET e == Aim(d, d.targetId) IN
         After(d, e, s) /\ e.targetIp = e.targetId /\ e.targetId \in Mac
<1> DEFINE e == Aim(d, d.targetId)
<1> USE DEF Good, DeckInv
<1>1. /\ DOMAIN e = Fields /\ e.targetIp = d.targetId
      /\ e.paired = d.paired /\ e.last = d.last /\ e.targetId = d.targetId
      /\ e.targetToken = d.targetToken /\ e.discovered = d.discovered /\ e.audio = d.audio
      /\ e.state = d.state /\ e.worker = d.worker /\ e.workerIp = d.workerIp
      /\ e.cancel = d.cancel /\ e.client = d.client
  BY DEF Aim, Base, Fields
<1> HIDE DEF e
<1>2. Base(e)
  BY <1>1, BaseKept DEF Base, Aims
<1>3. WorkerOK(e)
  BY <1>1 DEF WorkerOK, ClientConnected
<1>4. Talk(e, s)
  BY <1>1 DEF Talk, Greets, Strange, Tells
<1> QED BY <1>1, <1>2, <1>3, <1>4 DEF After, e

LEMMA AttemptDoes ==
  ASSUME NEW d, NEW s, NEW ok \in BOOLEAN, Good(d, s),
         d.targetIp = d.targetId /\ d.targetId \in Mac
  PROVE  After(d, AttemptConnection(d, ok), s)
<1> DEFINE c == Stop(d)
           r == ScheduleReconnect(c)
           no == [r EXCEPT !.state = "Offline", !.cancel = FALSE]
           yes == [c EXCEPT !.state = "Connecting", !.worker = "trying",
                            !.workerIp = d.targetIp, !.cancel = FALSE]
<1>1. CASE InFlight(d)
  BY <1>1 DEF AttemptConnection, After
<1>2. CASE ~InFlight(d)
  <2>1. d.worker = "idle" /\ d.targetIp # None /\ Base(d)
    BY <1>2, Nones DEF InFlight, Good, DeckInv
  <2>2. AttemptConnection(d, ok) = IF ok THEN yes ELSE no
    BY <1>2, <2>1 DEF AttemptConnection
  <2>3. /\ Good(c, s) /\ c.client.peer = None /\ Base(c) /\ c.client = NoClient
        /\ \A f \in Fields \ {"client"} : c[f] = d[f]
    BY <2>1, StopDoes, StopGood
  <2>4. c.worker = "idle" /\ c.targetId = d.targetId /\ c.targetIp = d.targetIp
    BY <2>1, <2>3 DEF Fields
  <2> HIDE DEF c
  <2>5. Harmless(c, r)
    BY <2>3, ScheduleHarmless
  <2>6. /\ DOMAIN no = Fields /\ no.paired = c.paired /\ no.last = c.last
        /\ no.targetId = c.targetId /\ no.targetToken = c.targetToken
        /\ no.discovered \subseteq Mac /\ no.audio \in {c.audio, None}
        /\ no.client = c.client /\ no.worker = "idle" /\ no.state \in States
    BY <2>4, <2>5 DEF Harmless, Fields, States
  <2>7. /\ DOMAIN yes = Fields /\ yes.paired = c.paired /\ yes.last = c.last
        /\ yes.targetId = c.targetId /\ yes.targetIp = c.targetIp
        /\ yes.targetToken = c.targetToken
        /\ yes.discovered = c.discovered /\ yes.audio = c.audio
        /\ yes.client = c.client /\ yes.worker = "trying" /\ yes.workerIp = d.targetIp
        /\ yes.state = "Connecting" /\ yes.state \in States
    BY <2>3 DEF Base, Fields, States
  <2> HIDE DEF no, yes, r
  <2>8. Good(no, s)
    BY <2>3, <2>6, BaseKept, NoTalk, Unconnected
  <2>9. Base(yes)
    BY <2>3, <2>7, BaseKept DEF Base, Aims
  <2>10. WorkerOK(yes)
    BY <2>3, <2>4, <2>7 DEF WorkerOK
  <2>11. Talk(yes, s)
    BY <2>3, <2>7, NoClientOK DEF Talk
  <2> QED BY <2>2, <2>3, <2>6, <2>7, <2>8, <2>9, <2>10, <2>11 DEF After, Good, DeckInv
<1> QED BY <1>1, <1>2

LEMMA PollAttemptDoes ==
  ASSUME NEW d, NEW s, NEW up \in BOOLEAN, Good(d, s)
  PROVE  After(d, PollConnectionAttempt(d, up), s)
<1> DEFINE r == [d EXCEPT !.worker = "idle", !.workerIp = None, !.cancel = FALSE]
           c == Stop(r)
           off == [c EXCEPT !.state = "Offline"]
           l == ScheduleReconnect(r)
           lost == [l EXCEPT !.state = "Offline"]
           g == [r EXCEPT !.missed = 0]
<1> USE DEF Good, DeckInv
<1>1. CASE d.worker \notin {"connected", "failed"}
  BY <1>1 DEF PollConnectionAttempt, After
<1>2. CASE d.worker \in {"connected", "failed"}
  <2>1. /\ DOMAIN r = Fields /\ r.paired = d.paired /\ r.last = d.last
        /\ r.targetId = d.targetId /\ r.targetIp = d.targetIp /\ r.targetToken = d.targetToken
        /\ r.discovered = d.discovered /\ r.audio = d.audio /\ r.client = d.client
        /\ r.worker = "idle" /\ r.state = d.state
    BY DEF Base, Fields
  <2>2. PollConnectionAttempt(d, up) =
          IF Cancelled(d, up) THEN off
          ELSE IF d.worker = "failed" THEN lost
          ELSE SendHello(g)
    BY <1>2 DEF PollConnectionAttempt
  <2> HIDE DEF r
  <2>3. Base(r)
    BY <2>1, BaseKept DEF Base, Aims
  <2>4. After(d, off, s)
    <3>1. Good(c, s) /\ c.client.peer = None
      BY <2>1, <2>3, StopGood
    <3> HIDE DEF c
    <3>2. Harmless(c, off)
      BY <3>1 DEF Harmless, Base, Fields, Aims, States
    <3> QED BY <3>1, <3>2, HarmlessAfter DEF After
  <2>5. ASSUME d.worker = "failed" PROVE After(d, lost, s)
    <3>1. Good(r, s)
      BY <2>1, <2>3, <2>5, NoTalk, Unconnected DEF WorkerOK
    <3>2. Harmless(r, l)
      BY <3>1, ScheduleHarmless
    <3>3. Harmless(l, lost)
      BY <3>2 DEF Harmless, Fields, States
    <3>4. After(r, lost, s)
      BY <3>1, <3>2, <3>3, HarmlessTwice, HarmlessAfter
    <3> QED BY <2>1, <3>4 DEF After
  <2>6. ASSUME d.worker = "connected", ~d.cancel PROVE After(d, SendHello(g), s)
    <3>1. /\ DOMAIN g = Fields /\ g.paired = d.paired /\ g.last = d.last
          /\ g.targetId = d.targetId /\ g.targetIp = d.targetIp
          /\ g.targetToken = d.targetToken /\ g.discovered = d.discovered
          /\ g.audio = d.audio /\ g.client = d.client /\ g.worker = "idle"
          /\ g.state = d.state
      BY <2>1 DEF Fields
    <3> HIDE DEF g
    <3>2. Base(g)
      BY <3>1, BaseKept DEF Base, Aims
    <3>3. /\ d.targetId = d.workerIp /\ d.targetIp = d.workerIp /\ d.client.peer = d.workerIp
          /\ Unheard(d.client)
      BY <2>6 DEF WorkerOK
    <3>4. WorkerOK(g)
      BY <3>1, <3>3 DEF WorkerOK
    <3>5. MayGreet(g, s)
      BY <2>6, <3>1, <3>2, <3>3, <3>4 DEF MayGreet, Talk
    <3> QED BY <3>1, <3>5, SendHelloDoes DEF After
  <2> QED BY <1>2, <2>2, <2>4, <2>5, <2>6 DEF Cancelled
<1> QED BY <1>1, <1>2

LEMMA StartDiscoveryHarmless ==
  ASSUME NEW d, NEW s, Good(d, s), NEW forReconnect \in BOOLEAN, NEW ok \in BOOLEAN,
         NEW up \in BOOLEAN
  PROVE  After(d, StartDiscovery(d, forReconnect, ok, up), s)
<1> DEFINE mode == IF forReconnect THEN "reconnect" ELSE "list"
           begun == [d EXCEPT !.requested = FALSE, !.search = mode,
                       !.state = IF ClientConnected(d) THEN @ ELSE "Discovering"]
           refused == [begun EXCEPT !.search = "off",
                         !.state = IF ClientConnected(d) THEN @ ELSE "Offline"]
           joined == [d EXCEPT !.search = IF forReconnect THEN "reconnect" ELSE @]
<1>1. DOMAIN d = Fields /\ d.discovered \subseteq Mac
  BY DEF Good, DeckInv, Base, Aims
<1>2. Harmless(d, begun) /\ Harmless(d, joined)
  BY <1>1 DEF Harmless, Fields, States
<1>3. Harmless(begun, refused)
  <2> HIDE DEF begun
  <2> QED BY <1>2 DEF Harmless, Fields, States
<1>4. StartDiscovery(d, forReconnect, ok, up) \in
        {d, joined, begun, ScheduleReconnect(refused), refused}
  BY DEF StartDiscovery
<1> HIDE DEF begun, refused, joined
<1>5. Harmless(d, refused) /\ Good(refused, s)
  BY <1>2, <1>3, HarmlessTwice, HarmlessGood
<1>6. Harmless(d, ScheduleReconnect(refused))
  BY <1>5, ScheduleHarmless, HarmlessTwice
<1>7. After(d, d, s)
  BY DEF After
<1> QED BY <1>2, <1>4, <1>5, <1>6, <1>7, HarmlessAfter

LEMMA PollDiscoveryDoes ==
  ASSUME NEW d, NEW s, Good(d, s), NEW found \in SUBSET Mac, NEW ok \in BOOLEAN,
         NEW up \in BOOLEAN
  PROVE  After(d, PollDiscovery(d, found, ok, up), s)
<1> DEFINE over == [d EXCEPT !.search = "off"]
           gone == [over EXCEPT !.discovered = {}, !.rediscover = TRUE]
           known == [over EXCEPT !.discovered = found,
                       !.state = IF ClientConnected(d) THEN @ ELSE "Offline",
                       !.rediscover = d.targetId # None /\ d.targetId \notin found]
           aimed == Aim(known, d.targetId)
<1>1. DOMAIN d = Fields /\ d.discovered \subseteq Mac
  BY DEF Good, DeckInv, Base, Aims
<1>2. Harmless(d, over)
  BY <1>1 DEF Harmless, Fields
<1>3. Harmless(over, gone) /\ Harmless(over, known)
  <2> HIDE DEF over
  <2> QED BY <1>2 DEF Harmless, Fields, States
<1>4. PollDiscovery(d, found, ok, up) \in {gone, known, ScheduleReconnect(known)}
      \/ /\ PollDiscovery(d, found, ok, up) = AttemptConnection(aimed, ok)
         /\ d.targetId \in found
  BY DEF PollDiscovery
<1> HIDE DEF over, gone, known
<1>5. After(d, gone, s) /\ After(d, known, s)
  BY <1>2, <1>3, HarmlessTwice, HarmlessAfter
<1>6. After(d, ScheduleReconnect(known), s)
  BY <1>5, ScheduleHarmless, HarmlessAfter, AfterTwice DEF After
<1>7. ASSUME d.targetId \in found PROVE After(d, AttemptConnection(aimed, ok), s)
  <2>1. known.targetId = d.targetId /\ d.targetId \in Mac
    BY <1>2, <1>3, <1>7 DEF Harmless
  <2>2. After(known, aimed, s) /\ aimed.targetIp = aimed.targetId /\ aimed.targetId \in Mac
    BY <1>5, <2>1, AimGood DEF After
  <2> HIDE DEF aimed
  <2>3. After(aimed, AttemptConnection(aimed, ok), s)
    BY <2>2, AttemptDoes DEF After
  <2> QED BY <1>5, <2>2, <2>3, AfterTwice
<1> QED BY <1>4, <1>5, <1>6, <1>7

-----------------------------------------------------------------------------
(* What is stored changes.                                                 *)
PairedMacs(d) == {m \in Mac : IsPaired(d, m)}

LEMMA PairedFinite ==
  ASSUME NEW d
  PROVE  /\ IsFiniteSet(PairedMacs(d)) /\ PairedCount(d) = Cardinality(PairedMacs(d))
         /\ PairedCount(d) \in Nat
BY FiniteMacs, FS_Subset, FS_CardinalityType DEF PairedMacs, PairedCount

LEMMA PairingStored ==
  ASSUME NEW d, NEW e, Stored(d), NEW m \in Mac, NEW k \in Of(m),
         IsPaired(d, m) \/ PairedCount(d) < MaxPairedMacs,
         e.paired = [d.paired EXCEPT ![m] = k], e.last \in Mac \cup {None}
  PROVE  Stored(e)
<1>1. PairedMacs(e) = PairedMacs(d) \cup {m}
  BY Nones DEF PairedMacs, IsPaired, Stored, Of
<1>2. PairedCount(e) = IF IsPaired(d, m) THEN PairedCount(d) ELSE PairedCount(d) + 1
  <2>1. m \in PairedMacs(d) <=> IsPaired(d, m)
    BY DEF PairedMacs
  <2> QED BY <1>1, <2>1, PairedFinite, FS_AddElement
<1>3. PairedCount(e) <= MaxPairedMacs
  BY <1>2, PairedFinite, Limits DEF Stored
<1> QED BY <1>3 DEF Stored, Of

LEMMA ForgettingStored ==
  ASSUME NEW d, NEW e, Stored(d), NEW m, e.last \in Mac \cup {None},
         e.paired \in [Mac -> Token \cup {None, Unpaired}],
         \A x \in Mac : e.paired[x] = IF x = m /\ IsPaired(d, x) THEN None ELSE d.paired[x]
  PROVE  Stored(e)
<1>1. PairedMacs(e) = PairedMacs(d)
  BY Nones DEF PairedMacs, IsPaired, Stored
<1> QED BY <1>1, PairedFinite, Nones DEF Stored

LEMMA UnpairingStored ==
  ASSUME NEW d, NEW e, Stored(d), NEW m \in Mac, e.last \in Mac \cup {None},
         e.paired = [d.paired EXCEPT ![m] = Unpaired]
  PROVE  Stored(e)
<1>1. PairedMacs(e) \subseteq PairedMacs(d)
  BY DEF PairedMacs, IsPaired, Stored
<1>2. PairedCount(e) <= PairedCount(d)
  BY <1>1, PairedFinite, FS_Subset
<1>3. PairedCount(e) <= MaxPairedMacs
  BY <1>2, PairedFinite, Limits DEF Stored
<1> QED BY <1>3, Nones DEF Stored

-----------------------------------------------------------------------------
(* A line from the Mac.  d is the device before it is read.                *)
Reading(d, s) == Good(d, s) /\ d.worker = "idle" /\ ClientConnected(d) /\ d.client.in # <<>>

Rest(d) == [d EXCEPT !.client.in = Tail(@)]

LEMMA RestDoes ==
  ASSUME NEW d, NEW s, Reading(d, s)
  PROVE  LET e == Rest(d) m == Head(d.client.in) IN
         /\ DOMAIN e = Fields /\ \A f \in Fields \ {"client"} : e[f] = d[f]
         /\ e.client.peer = d.client.peer /\ e.client.line = d.client.line
         /\ e.client.out = d.client.out /\ e.client.in = Tail(d.client.in)
         /\ DeckInv(e) /\ m \in Line(Heard)
         /\ e.targetId = e.client.peer /\ e.targetIp = e.client.peer /\ e.client.peer \in Mac
         /\ m.t = "paired" => m.token \in Of(e.client.peer)
<1> DEFINE e == Rest(d)
           c == [d.client EXCEPT !.in = Tail(@)]
           m == Head(d.client.in)
<1> USE DEF Reading, Good, DeckInv, Base
<1>1. DOMAIN e = Fields /\ e.client = c /\ \A f \in Fields \ {"client"} : e[f] = d[f]
  BY DEF Rest, Fields
<1>2. /\ DOMAIN c = DOMAIN d.client /\ c.peer = d.client.peer /\ c.line = d.client.line
      /\ c.out = d.client.out /\ c.in = Tail(d.client.in)
  BY DEF LineOK
<1>3. d.client.line # "off" /\ d.client.peer \in Mac
  BY DEF ClientConnected, LineOK
<1>4. /\ c.in \in Seq(Line(Heard)) /\ m \in Line(Heard)
      /\ Carry(c.in, "paired", Of(c.peer)) /\ (m.t = "paired" => m.token \in Of(c.peer))
  <2>1. /\ d.client.in \in Seq(Line(Heard)) /\ d.client.in # <<>>
        /\ Carry(d.client.in, "paired", Of(d.client.peer))
    BY DEF LineOK
  <2>2. /\ Tail(d.client.in) \in Seq(Line(Heard)) /\ m \in Line(Heard)
        /\ Carry(Tail(d.client.in), "paired", Of(d.client.peer))
        /\ m.t = "paired" => m.token \in Of(d.client.peer)
    BY ONLY <2>1, SaysTail
  <2> QED BY <1>2, <2>2
<1>5. d.targetId = d.client.peer /\ d.targetIp = d.client.peer
  BY DEF WorkerOK
<1>6. /\ e.paired = d.paired /\ e.last = d.last /\ e.targetId = d.targetId
      /\ e.targetIp = d.targetIp /\ e.targetToken = d.targetToken
      /\ e.discovered = d.discovered /\ e.audio = d.audio /\ e.worker = "idle"
      /\ e.state = d.state
  BY <1>1 DEF Fields
<1> HIDE DEF e, c, m
<1>7. LineOK(c)
  BY <1>2, <1>3, <1>4 DEF LineOK
<1>8. Stored(e) /\ Aims(e)
  BY <1>6, SameStored DEF Stored, Aims
<1>9. WorkerOK(e)
  BY <1>1, <1>2, <1>5, <1>6 DEF WorkerOK
<1> QED BY <1>1, <1>2, <1>3, <1>4, <1>5, <1>6, <1>7, <1>8, <1>9 DEF e, m

\* What it means that a line has come, and what is left of the conversation.
LEMMA HearDoes ==
  ASSUME NEW d, NEW s, Reading(d, s)
  PROVE  LET e == Rest(d) m == Head(d.client.in) IN
         /\ m.t # "paired" => Good(e, s)
         /\ e.client.line = "open" =>
              /\ m.t = "hello_ok" => s.phase = "ready" /\ e.targetToken = s.token
              /\ m.t = "auth_error" => MayGreet(e, s)
              /\ m.t = "paired" =>
                   /\ s.phase = "ready" /\ m.token = s.token
                   /\ ~Says(e.client.out, "hello") /\ ~Says(e.client.in, "auth_error")
                   /\ ~Says(e.client.in, "hello_ok") /\ Carry(e.client.in, "paired", {s.token})
<1> DEFINE e == Rest(d)
           m == Head(d.client.in)
           q == d.client.in
<1>1. /\ DeckInv(e) /\ e.targetToken = d.targetToken /\ e.state = d.state
      /\ e.worker = "idle" /\ d.worker = "idle" /\ e.client.line = d.client.line
      /\ e.client.out = d.client.out /\ e.client.in = Tail(q)
  BY RestDoes DEF Fields, Reading
<1>2. q \in Seq(Line(Heard)) /\ q # <<>> /\ Talk(d, s)
  BY DEF Reading, Good, DeckInv, Base, LineOK
<1>3. /\ \A k \in Heard : Says(q, k) <=> m.t = k \/ Says(Tail(q), k)
      /\ Once(q, "auth_error") =>
           Once(Tail(q), "auth_error") /\ (m.t = "auth_error" => ~Says(Tail(q), "auth_error"))
      /\ Carry(q, "paired", {s.token}) =>
           Carry(Tail(q), "paired", {s.token}) /\ (m.t = "paired" => m.token \in {s.token})
  BY <1>2, SaysTail
<1> HIDE DEF e, m, q
<1> USE DEF Heard
<1>4. ASSUME d.client.line = "open", m.t = "hello_ok"
      PROVE  s.phase = "ready" /\ e.targetToken = s.token
  BY <1>1, <1>2, <1>3, <1>4 DEF Talk, Strange, Tells, q
<1>5. ASSUME m.t = "auth_error" PROVE d.client.line = "open" => MayGreet(e, s)
  BY <1>1, <1>2, <1>3, <1>5 DEF Talk, Greets, Strange, Tells, MayGreet, Unheard, q
<1>6. ASSUME d.client.line = "open", m.t = "paired"
      PROVE  /\ s.phase = "ready" /\ m.token = s.token
             /\ ~Says(e.client.out, "hello") /\ ~Says(e.client.in, "auth_error")
             /\ ~Says(e.client.in, "hello_ok") /\ Carry(e.client.in, "paired", {s.token})
  BY <1>1, <1>2, <1>3, <1>6 DEF Talk, Strange, Tells, q
<1>7. ASSUME m.t # "paired" PROVE Talk(e, s)
  BY <1>1, <1>2, <1>3, <1>7 DEF Talk, Greets, Strange, Tells, q
<1> QED BY <1>1, <1>4, <1>5, <1>6, <1>7 DEF Good, e, m

LEMMA WelcomeDoes ==
  ASSUME NEW d, NEW s, Good(d, s), d.worker = "idle",
         d.targetIp = d.targetId, d.targetId \in Mac,
         d.client.line = "open" => s.phase = "ready" /\ d.targetToken = s.token
  PROVE  After(d, Welcome(d), s)
<1> DEFINE c == [d EXCEPT !.state = "Connected"]
           a == SetAudioReady(c)
           m == [t |-> "agent_list_req", token |-> d.targetToken]
           n == Send(a, m)
           e == [n EXCEPT !.last = d.targetId]
<1> USE DEF Good, DeckInv
<1>1. Welcome(d) = e
  BY DEF Welcome
<1>2. /\ DOMAIN a = Fields /\ a.state = "Connected"
      /\ a.paired = d.paired /\ a.last = d.last /\ a.targetId = d.targetId
      /\ a.targetIp = d.targetIp /\ a.targetToken = d.targetToken
      /\ a.discovered = d.discovered /\ a.worker = d.worker /\ a.workerIp = d.workerIp
      /\ a.cancel = d.cancel /\ a.client = d.client
      /\ a.audio = IF d.targetToken = None THEN None
                   ELSE [mac |-> d.targetIp, token |-> d.targetToken]
  BY DEF SetAudioReady, Base, Fields
<1>3. m \in Line(Said) /\ m.t # "hello"
  BY DEF Line, Said, Base, Aims, Of
<1> HIDE DEF a, m
<1>4. Base(a)
  BY <1>2, SameStored DEF Base, Stored, Aims, Of, States
<1>5. WorkerOK(a)
  BY <1>2 DEF WorkerOK, ClientConnected
<1>6. Talk(a, s)
  BY <1>2 DEF Talk, Greets, Strange, Tells
<1>7. After(a, n, s)
  BY <1>3, <1>4, <1>5, <1>6, SendGood
<1>8. n.targetId = d.targetId /\ n.worker = "idle"
  BY <1>2, <1>3, <1>4, SendDoes DEF Base, Fields
<1> HIDE DEF n
<1>9. /\ DOMAIN e = Fields /\ e.last = d.targetId
      /\ e.paired = n.paired /\ e.targetId = n.targetId
      /\ e.targetIp = n.targetIp /\ e.targetToken = n.targetToken /\ e.state = n.state
      /\ e.discovered = n.discovered /\ e.audio = n.audio /\ e.worker = n.worker
      /\ e.workerIp = n.workerIp /\ e.cancel = n.cancel /\ e.client = n.client
  BY <1>7 DEF After, Base, Fields
<1> HIDE DEF e
<1>10. Stored(e) /\ Aims(e)
  BY <1>7, <1>9, SameStored DEF After, Base, Aims
<1>11. WorkerOK(e)
  BY <1>7, <1>9 DEF After, WorkerOK, ClientConnected
<1>12. Talk(e, s)
  BY <1>7, <1>9 DEF After, Talk, Greets, Strange, Tells
<1> QED BY <1>1, <1>2, <1>7, <1>9, <1>10, <1>11, <1>12 DEF After, Base

\* The token of a pairing is the session's.
LEMMA PairedDoes ==
  ASSUME NEW d, NEW s, DeckInv(d), d.worker = "idle", NEW k \in Of(d.targetId),
         d.targetIp = d.targetId, d.targetId \in Mac,
         d.client.line = "open" =>
           /\ s.phase = "ready" /\ k = s.token
           /\ ~Says(d.client.out, "hello") /\ ~Says(d.client.in, "auth_error")
           /\ ~Says(d.client.in, "hello_ok") /\ Carry(d.client.in, "paired", {s.token})
  PROVE  After(d, Paired(d, k), s)
<1> DEFINE p == [d EXCEPT !.targetToken = k]
           q == [p EXCEPT !.paired[d.targetId] = k]
<1> USE DEF Good, DeckInv
<1>1. /\ DOMAIN p = Fields /\ p.targetToken = k
      /\ p.paired = d.paired /\ p.last = d.last /\ p.targetId = d.targetId
      /\ p.targetIp = d.targetIp /\ p.discovered = d.discovered /\ p.audio = d.audio
      /\ p.state = d.state /\ p.worker = "idle" /\ p.client = d.client
  BY DEF Base, Fields
<1>2. Paired(d, k) = IF HasRoom(d) THEN Welcome(q) ELSE ConnectionLost(p)
  BY DEF Paired
<1> HIDE DEF p
<1>3. /\ DOMAIN q = Fields /\ q.targetToken = k
      /\ q.paired = [d.paired EXCEPT ![d.targetId] = k]
      /\ q.last = d.last /\ q.targetId = d.targetId
      /\ q.targetIp = d.targetIp /\ q.discovered = d.discovered /\ q.audio = d.audio
      /\ q.state = d.state /\ q.worker = "idle" /\ q.client = d.client
  BY <1>1 DEF Fields
<1> HIDE DEF q
<1>4. Good(p, s)
  <2>1. Base(p)
    BY <1>1, SameStored DEF Base, Stored, Aims
  <2>2. WorkerOK(p)
    BY <1>1 DEF WorkerOK, ClientConnected
  <2>3. Talk(p, s)
    BY <1>1 DEF Talk, Tells
  <2> QED BY <2>1, <2>2, <2>3
<1>5. ASSUME HasRoom(d) PROVE Good(q, s)
  <2>1. Stored(q)
    BY <1>3, <1>5, PairingStored DEF HasRoom, Base, Stored
  <2>2. Base(q)
    BY <1>3, <2>1 DEF Base, Aims
  <2>3. WorkerOK(q)
    BY <1>3 DEF WorkerOK, ClientConnected
  <2>4. Talk(q, s)
    BY <1>3 DEF Talk, Tells
  <2> QED BY <2>2, <2>3, <2>4
<1>6. ASSUME HasRoom(d) PROVE After(d, Welcome(q), s)
  BY <1>3, <1>5, <1>6, WelcomeDoes DEF After
<1>7. After(d, ConnectionLost(p), s)
  BY <1>1, <1>4, LostDoes DEF After
<1> QED BY <1>2, <1>6, <1>7

LEMMA ForgottenDoes ==
  ASSUME NEW d, NEW s, MayGreet(d, s)
  PROVE  LET e == Forgotten([d EXCEPT !.state = "AwaitingPairCode"]) IN
         MayGreet(e, s) /\ e.client = d.client
<1> DEFINE h == [d EXCEPT !.state = "AwaitingPairCode"]
           e == Forgotten(h)
<1> USE DEF MayGreet, DeckInv
<1>1. /\ DOMAIN e = Fields /\ e.targetToken = None
      /\ e.paired = [x \in Mac |-> IF x = d.targetId /\ IsPaired(d, x) THEN None ELSE d.paired[x]]
      /\ e.last = d.last /\ e.targetId = d.targetId
      /\ e.targetIp = d.targetIp /\ e.discovered = d.discovered /\ e.audio = d.audio
      /\ e.worker = "idle" /\ e.client = d.client /\ e.state = "AwaitingPairCode"
  BY DEF Forgotten, IsPaired, Base, Fields
<1> HIDE DEF e
<1>2. Stored(e)
  <2>1. Stored(d) /\ e.last \in Mac \cup {None} /\ d.paired \in [Mac -> Token \cup {None, Unpaired}]
    BY <1>1 DEF Base, Stored
  <2>2. /\ e.paired \in [Mac -> Token \cup {None, Unpaired}]
        /\ \A x \in Mac : e.paired[x] = IF x = d.targetId /\ IsPaired(d, x) THEN None ELSE d.paired[x]
    BY <1>1, <2>1
  <2> QED BY <2>1, <2>2, ForgettingStored
<1>3. Base(e)
  BY <1>1, <1>2 DEF Base, Aims, States
<1>4. WorkerOK(e)
  BY <1>1 DEF WorkerOK, ClientConnected
<1> QED BY <1>1, <1>3, <1>4 DEF e

\* The steps that only take note.
LEMMA Notes ==
  ASSUME NEW d, NEW s, Good(d, s)
  PROVE  /\ After(d, [d EXCEPT !.state = "AwaitingPairCode"], s)
         /\ After(d, [d EXCEPT !.missed = 0], s)
         /\ After(d, [d EXCEPT !.agents = TRUE], s)
<1>1. DOMAIN d = Fields /\ d.discovered \subseteq Mac
  BY DEF Good, DeckInv, Base, Aims
<1>2. /\ Harmless(d, [d EXCEPT !.state = "AwaitingPairCode"])
      /\ Harmless(d, [d EXCEPT !.missed = 0]) /\ Harmless(d, [d EXCEPT !.agents = TRUE])
  BY <1>1 DEF Harmless, Fields, States
<1> QED BY <1>2, HarmlessAfter

LEMMA SignedLine ==
  ASSUME NEW d, Aims(d), NEW k \in Said
  PROVE  [t |-> k, token |-> Signed(d)] \in Line(Said)
BY DEF Signed, Line, Aims, Of

LEMMA RefusedDoes ==
  ASSUME NEW d, NEW s, Good(d, s), d.worker = "idle"
  PROVE  After(d, [Stop(Quiet(d)) EXCEPT !.state = "Incompatible", !.manual = TRUE, !.missed = 0], s)
<1> DEFINE q == Quiet(d)
           c == Stop(q)
           e == [c EXCEPT !.state = "Incompatible", !.manual = TRUE, !.missed = 0]
<1>1. Good(q, s) /\ q.worker = "idle"
  BY QuietHarmless, HarmlessGood DEF Harmless
<1> HIDE DEF q
<1>2. Good(c, s) /\ c.client.peer = None
  BY <1>1, StopGood DEF Good, DeckInv
<1> HIDE DEF c
<1>3. Harmless(c, e)
  BY <1>2 DEF Harmless, Good, DeckInv, Base, Fields, Aims, States
<1> QED BY <1>2, <1>3, HarmlessAfter DEF After, c, q

LEMMA HandleDoes ==
  ASSUME NEW d, NEW s, Reading(d, s)
  PROVE  After(d, HandleLine(Rest(d), Head(d.client.in)), s)
<1> DEFINE e == Rest(d)
           m == Head(d.client.in)
           r == HandleLine(e, m)
<1>1. /\ DeckInv(e) /\ m \in Line(Heard) /\ e.worker = "idle"
      /\ e.client.peer = d.client.peer /\ e.targetIp = e.targetId /\ e.targetId \in Mac
      /\ m.t = "paired" => m.token \in Of(e.targetId)
  BY RestDoes DEF Reading, Fields
<1>2. m.t # "paired" => Good(e, s)
  BY HearDoes
<1>3. e.client.line = "open" =>
        /\ m.t = "hello_ok" => s.phase = "ready" /\ e.targetToken = s.token
        /\ m.t = "auth_error" => MayGreet(e, s)
        /\ m.t = "paired" =>
             /\ s.phase = "ready" /\ m.token = s.token
             /\ ~Says(e.client.out, "hello") /\ ~Says(e.client.in, "auth_error")
             /\ ~Says(e.client.in, "hello_ok") /\ Carry(e.client.in, "paired", {s.token})
  BY HearDoes
<1>4. m.t \in Heard
  BY <1>1 DEF Line
<1> HIDE DEF e, m
<1>5. CASE Foreign(e, m)
  <2>1. r = e /\ m.t # "paired"
    BY <1>5 DEF HandleLine, Foreign, Signable
  <2> QED BY <1>1, <1>2, <2>1 DEF After, r, e, m
<1>6. CASE ~Foreign(e, m)
  <2>1. CASE m.t = "upgrade_required"
    <3>1. r = [Stop(Quiet(e)) EXCEPT !.state = "Incompatible", !.manual = TRUE, !.missed = 0]
      BY <1>6, <2>1 DEF HandleLine
    <3>2. After(e, [Stop(Quiet(e)) EXCEPT !.state = "Incompatible", !.manual = TRUE, !.missed = 0], s)
      BY <1>1, <1>2, <2>1, RefusedDoes
    <3>3. After(e, r, s)
      BY <3>1, <3>2
    <3> QED BY <1>1, <3>3 DEF After, r, e, m
  <2>2. CASE m.t = "ping"
    <3>1. r = Send(e, [t |-> "pong", token |-> Signed(e)])
      BY <1>6, <2>2 DEF HandleLine
    <3>2. [t |-> "pong", token |-> Signed(e)] \in Line(Said)
      BY <1>1, SignedLine DEF Said, DeckInv, Base
    <3>3. After(e, r, s)
      BY <1>2, <2>2, <3>1, <3>2, SendGood
    <3> QED BY <1>1, <3>3 DEF After, r, e, m
  <2>3. CASE m.t \in {"pair_required", "pair_error"}
    <3>1. r = [e EXCEPT !.state = "AwaitingPairCode"]
      BY <1>6, <2>3 DEF HandleLine
    <3> QED BY <1>1, <1>2, <2>3, <3>1, Notes DEF After, r, e, m
  <2>4. CASE m.t = "paired"
    <3>1. r = Paired(e, m.token)
      BY <1>6, <2>4 DEF HandleLine
    <3>2. After(e, Paired(e, m.token), s)
      BY <1>1, <1>3, <2>4, PairedDoes
    <3> QED BY <1>1, <3>1, <3>2 DEF After, r, e, m
  <2>5. CASE m.t = "hello_ok"
    <3>1. r = Welcome(e)
      BY <1>6, <2>5 DEF HandleLine
    <3>2. After(e, Welcome(e), s)
      BY <1>1, <1>2, <1>3, <2>5, WelcomeDoes
    <3> QED BY <1>1, <3>1, <3>2 DEF After, r, e, m
  <2>6. CASE m.t = "auth_error"
    <3> DEFINE f == Forgotten([e EXCEPT !.state = "AwaitingPairCode"])
    <3>1. r = SendHello(f)
      BY <1>6, <2>6 DEF HandleLine
    <3>2. MayGreet(e, s)
      BY <1>1, <1>3, <2>6 DEF MayGreet
    <3>3. MayGreet(f, s) /\ f.client = e.client
      BY <3>2, ForgottenDoes
    <3> HIDE DEF f
    <3>4. After(f, SendHello(f), s)
      BY <3>3, SendHelloDoes
    <3> QED BY <1>1, <3>1, <3>3, <3>4 DEF After, r, e, m
  <2>7. CASE m.t = "pong"
    <3>1. r = [e EXCEPT !.missed = 0]
      BY <1>6, <2>7 DEF HandleLine
    <3> QED BY <1>1, <1>2, <2>7, <3>1, Notes DEF After, r, e, m
  <2>8. CASE m.t = "agent_list"
    <3>1. r = [e EXCEPT !.agents = TRUE]
      BY <1>6, <2>8 DEF HandleLine
    <3> QED BY <1>1, <1>2, <2>8, <3>1, Notes DEF After, r, e, m
  <2> QED BY <1>4, <2>1, <2>2, <2>3, <2>4, <2>5, <2>6, <2>7, <2>8 DEF Heard
<1> QED BY <1>5, <1>6

-----------------------------------------------------------------------------
(* tick.                                                                   *)
LEMMA ReadDoes ==
  ASSUME NEW d, NEW s, Good(d, s), d.worker = "idle", ClientConnected(d)
  PROVE  After(d, Read(d), s)
<1>1. CASE d.client.in = <<>>
  BY <1>1 DEF Read, After
<1>2. CASE d.client.in # <<>>
  BY <1>2, HandleDoes DEF Read, Reading, Rest
<1> QED BY <1>1, <1>2

LEMMA BeatDoes ==
  ASSUME NEW d, NEW s, Good(d, s)
  PROVE  After(d, Beat(d), s)
<1> DEFINE m == [t |-> "ping", token |-> Signed(d)]
           n == Send(d, m)
           p == [n EXCEPT !.missed = @ + 1]
<1>1. CASE ~ClientConnected(d)
  BY <1>1, LostDoes DEF Beat
<1>2. CASE ClientConnected(d)
  <2>1. m \in Line(Said) /\ m.t # "hello"
    BY SignedLine DEF Good, DeckInv, Base, Said
  <2>2. Beat(d) = IF p.missed >= HeartbeatMissLimit THEN ConnectionLost(p) ELSE p
    BY <1>2 DEF Beat
  <2> HIDE DEF m
  <2>3. After(d, n, s)
    BY <2>1, SendGood
  <2> HIDE DEF n
  <2>4. Harmless(n, p)
    BY <2>3 DEF After, Harmless, Good, DeckInv, Base, Fields, Aims
  <2> HIDE DEF p
  <2>5. After(d, p, s)
    BY <2>3, <2>4, HarmlessAfter, AfterTwice DEF After
  <2>6. After(d, ConnectionLost(p), s)
    BY <2>5, LostDoes, AfterTwice DEF After
  <2> QED BY <2>2, <2>5, <2>6
<1> QED BY <1>1, <1>2

\* What a tick meets.
Worlds == [found : SUBSET Mac, done : BOOLEAN, ok : BOOLEAN, beat : BOOLEAN]

LEMMA ServeDoes ==
  ASSUME NEW d, NEW s, Good(d, s), d.worker = "idle", ClientConnected(d), NEW w \in Worlds
  PROVE  After(d, Serve(d, w), s)
<1>1. After(d, Read(d), s)
  BY ReadDoes
<1>2. After(d, Beat(Read(d)), s)
  BY <1>1, BeatDoes, AfterTwice DEF After
<1> QED BY <1>1, <1>2 DEF Serve

LEMMA ReconnectDoes ==
  ASSUME NEW d, NEW s, Good(d, s), NEW w \in Worlds
  PROVE  After(d, Reconnect(d, w), s)
<1> DEFINE l == IF d.state \in {"Connected", "Authenticating", "AwaitingPairCode"}
                THEN ConnectionLost(d) ELSE d
           aimed == Aim(l, l.targetId)
<1>1. After(d, l, s)
  BY LostDoes DEF After
<1>2. w.ok \in BOOLEAN
  BY DEF Worlds
<1>3. Reconnect(d, w) = IF ~MayReconnect(l) THEN l
                        ELSE IF l.targetId \in l.discovered /\ ~l.rediscover
                             THEN AttemptConnection(aimed, w.ok)
                             ELSE StartDiscovery(l, TRUE, w.ok, TRUE)
  BY DEF Reconnect
<1> HIDE DEF l
<1>4. After(d, StartDiscovery(l, TRUE, w.ok, TRUE), s)
  BY <1>1, <1>2, StartDiscoveryHarmless, AfterTwice DEF After
<1>5. ASSUME l.targetId \in l.discovered PROVE After(d, AttemptConnection(aimed, w.ok), s)
  <2>1. l.targetId \in Mac
    BY <1>1, <1>5 DEF After, Good, DeckInv, Base, Aims
  <2>2. After(l, aimed, s) /\ aimed.targetIp = aimed.targetId /\ aimed.targetId \in Mac
    BY <1>1, <2>1, AimGood DEF After
  <2> HIDE DEF aimed
  <2>3. After(aimed, AttemptConnection(aimed, w.ok), s)
    BY <1>2, <2>2, AttemptDoes DEF After
  <2> QED BY <1>1, <2>2, <2>3, AfterTwice
<1> QED BY <1>1, <1>3, <1>4, <1>5

LEMMA NoWifiDoes ==
  ASSUME NEW d, NEW s, Good(d, s)
  PROVE  After(d, NoWifi(d), s)
<1> DEFINE c == CancelConnectionAttempt(d)
           q == Quiet(c)
           p == [q EXCEPT !.discovered = {}, !.requested = FALSE, !.rediscover = TRUE]
           e == [p EXCEPT !.mdns = FALSE, !.due = TRUE]
<1>1. NoWifi(d) \in {e, p}
  BY DEF NoWifi
<1>2. After(d, c, s)
  BY CancelDoes
<1> HIDE DEF c
<1>3. After(c, q, s)
  BY <1>2, QuietHarmless, HarmlessAfter DEF After
<1> HIDE DEF q
<1>4. Harmless(q, p)
  BY <1>3 DEF After, Harmless, Good, DeckInv, Base, Fields, Aims
<1> HIDE DEF p
<1>5. Harmless(p, e)
  BY <1>4 DEF Harmless, Fields
<1>6. Harmless(q, e)
  BY <1>4, <1>5, HarmlessTwice
<1>7. After(d, q, s) /\ After(q, p, s) /\ After(q, e, s)
  BY <1>2, <1>3, <1>4, <1>6, AfterTwice, HarmlessAfter DEF After
<1> QED BY <1>1, <1>7, AfterTwice

LEMMA TickDoes ==
  ASSUME NEW d, NEW s, Good(d, s), NEW up \in BOOLEAN, NEW w \in Worlds
  PROVE  After(d, Tick(d, up, w), s)
<1> DEFINE a == IF w.done /\ d.search # "off" THEN PollDiscovery(d, w.found, w.ok, up) ELSE d
           p == Polled(d, up, w)
           b == MdnsStarted(p, w)
           c == SearchRequested(b, w)
<1>1. w.found \in SUBSET Mac /\ w.ok \in BOOLEAN
  BY DEF Worlds
<1>2. After(d, a, s)
  BY <1>1, PollDiscoveryDoes DEF After
<1>3. p = PollConnectionAttempt(a, up)
  BY DEF Polled
<1> HIDE DEF a, p
<1>4. After(d, p, s)
  BY <1>2, <1>3, PollAttemptDoes, AfterTwice DEF After
<1>5. After(d, b, s)
  <2>1. CASE b = p
    BY <1>4, <2>1
  <2>2. CASE b = [p EXCEPT !.mdns = TRUE, !.requested = TRUE, !.rediscover = TRUE, !.due = TRUE]
    <3>1. Harmless(p, b)
      BY <1>4, <2>2 DEF After, Harmless, Good, DeckInv, Base, Fields, Aims
    <3> QED BY <1>4, <3>1, HarmlessAfter, AfterTwice DEF After
  <2> QED BY <2>1, <2>2 DEF MdnsStarted
<1> HIDE DEF b
<1>6. After(d, c, s)
  <2>1. (AutoReconnect(b) /\ b.due) \in BOOLEAN
    OBVIOUS
  <2>2. c = b \/ c = StartDiscovery(b, AutoReconnect(b) /\ b.due, w.ok, TRUE)
    BY DEF SearchRequested
  <2>3. After(b, StartDiscovery(b, AutoReconnect(b) /\ b.due, w.ok, TRUE), s)
    BY <1>1, <1>5, <2>1, StartDiscoveryHarmless DEF After
  <2> QED BY <1>5, <2>2, <2>3, AfterTwice
<1>7. Tick(d, up, w) = IF ~up THEN NoWifi(p) ELSE IF InFlight(c) THEN c
                       ELSE IF ClientConnected(c) THEN Serve(c, w) ELSE Reconnect(c, w)
  BY DEF Tick, b, p
<1> HIDE DEF c
<1>8. After(d, NoWifi(p), s)
  BY <1>4, NoWifiDoes, AfterTwice DEF After
<1>9. ASSUME ~InFlight(c), ClientConnected(c) PROVE After(d, Serve(c, w), s)
  BY <1>6, <1>9, ServeDoes, AfterTwice DEF After, InFlight
<1>10. After(d, Reconnect(c, w), s)
  BY <1>6, ReconnectDoes, AfterTwice DEF After
<1> QED BY <1>6, <1>7, <1>8, <1>9, <1>10

-----------------------------------------------------------------------------
(* Start, and what the user does.                                          *)
LEMMA BootedDoes ==
  ASSUME NEW paired, NEW last, NEW d, NEW s, Stored(d), paired = d.paired, last = d.last
  PROVE  Good(Booted(paired, last), s) /\ Booted(paired, last).client.peer = None
<1> DEFINE e == Booted(paired, last)
<1>1. /\ DOMAIN e = Fields /\ e.paired = d.paired /\ e.last = d.last /\ e.targetId = d.last
      /\ e.targetToken = None /\ e.discovered = {} /\ e.audio = None
      /\ e.worker = "idle" /\ e.client = NoClient /\ e.state = "Offline"
  BY DEF Booted, Fields
<1> HIDE DEF e
<1>2. Stored(e)
  BY <1>1, SameStored DEF Stored
<1>3. Base(e)
  BY <1>1, <1>2, NoClientOK DEF Base, Aims, Stored, States
<1> QED BY <1>1, <1>3, NoTalk, Unconnected, NoClientOK DEF e

LEMMA ConnectToDoes ==
  ASSUME NEW d, NEW s, Good(d, s), NEW m \in d.discovered
  PROVE  After(d, ConnectToDiscovered(d, m), s)
<1> DEFINE l == Disconnect(d, FALSE)
           t == StoredToken(d, m)
           e == [l EXCEPT !.targetId = m, !.targetIp = m, !.targetToken = t, !.due = TRUE,
                          !.rediscover = FALSE]
<1>1. After(d, l, s) /\ Detached(l)
  BY DisconnectDoes
<1>2. ConnectToDiscovered(d, m) = e
  BY DEF ConnectToDiscovered
<1>3. (t # None => t \in Of(m)) /\ m \in Mac
  BY StoredTokenOf DEF Good, DeckInv, Base, Aims
<1> HIDE DEF l, t
<1>4. /\ DOMAIN e = Fields /\ e.paired = l.paired /\ e.last = l.last
      /\ e.targetId = m /\ e.targetToken = t
      /\ e.discovered = l.discovered /\ e.audio = l.audio
      /\ e.worker = l.worker /\ e.workerIp = l.workerIp /\ e.client = l.client
      /\ e.state = l.state /\ e.cancel = l.cancel
  BY <1>1 DEF After, Good, DeckInv, Base, Fields
<1> HIDE DEF e
<1>5. Aims(e) /\ e.last \in Mac \cup {None} /\ Good(l, s)
  BY <1>1, <1>3, <1>4 DEF After, Good, DeckInv, Base, Aims, Stored
<1>6. After(l, e, s)
  BY <1>1, <1>4, <1>5, Retargeted
<1> QED BY <1>1, <1>2, <1>6, AfterTwice

LEMMA DeletePairingDoes ==
  ASSUME NEW d, NEW s, Good(d, s), NEW m \in Mac
  PROVE  After(d, DeletePairing(d, m), s)
<1> DEFINE l == IF PairedCurrent(d, m) THEN Disconnect(d, TRUE) ELSE d
           e == [l EXCEPT !.paired[m] = Unpaired]
<1> USE DEF Good, DeckInv
<1>1. After(d, l, s)
  BY DisconnectDoes DEF After
<1>2. DeletePairing(d, m) = e
  BY DEF DeletePairing
<1> HIDE DEF l
<1>3. /\ DOMAIN e = Fields /\ e.paired = [l.paired EXCEPT ![m] = Unpaired] /\ e.last = l.last
      /\ e.targetId = l.targetId /\ e.targetIp = l.targetIp /\ e.targetToken = l.targetToken
      /\ e.discovered = l.discovered /\ e.audio = l.audio
      /\ e.worker = l.worker /\ e.workerIp = l.workerIp /\ e.client = l.client
      /\ e.state = l.state /\ e.cancel = l.cancel
  BY <1>1 DEF After, Base, Fields
<1> HIDE DEF e
<1>4. Stored(e)
  BY <1>1, <1>3, UnpairingStored DEF After, Base, Stored
<1>5. Base(e)
  BY <1>1, <1>3, <1>4 DEF After, Base, Aims
<1>6. WorkerOK(e)
  BY <1>1, <1>3 DEF After, WorkerOK, ClientConnected
<1>7. Talk(e, s)
  BY <1>1, <1>3 DEF After, Talk, Greets, Strange, Tells
<1> QED BY <1>1, <1>2, <1>3, <1>5, <1>6, <1>7 DEF After

LEMMA SubmitDoes ==
  ASSUME NEW d, NEW s, Good(d, s), NEW right \in BOOLEAN
  PROVE  After(d, SubmitPairCode(d, right), s)
<1> DEFINE e == [d EXCEPT !.state = "Authenticating"]
           m == [t |-> IF right THEN "pair" ELSE "pair_wrong", token |-> None]
<1>1. SubmitPairCode(d, right) \in {d, Send(e, m)}
  BY DEF SubmitPairCode
<1>2. Harmless(d, e)
  BY DEF Harmless, Good, DeckInv, Base, Fields, Aims, States
<1>3. m \in Line(Said) /\ m.t # "hello"
  BY DEF Line, Said
<1> HIDE DEF e, m
<1>4. After(d, e, s)
  BY <1>2, HarmlessAfter
<1>5. After(e, Send(e, m), s)
  BY <1>3, <1>4, SendGood DEF After
<1>6. After(d, Send(e, m), s)
  BY <1>4, <1>5, AfterTwice
<1> QED BY <1>1, <1>6 DEF After

LEMMA RequestDoes ==
  ASSUME NEW d, NEW s, Good(d, s), NEW up \in BOOLEAN
  PROVE  After(d, RequestDiscovery(d, up), s)
<1>1. Harmless(d, [d EXCEPT !.requested = TRUE])
  BY DEF Harmless, Good, DeckInv, Base, Fields, Aims
<1>2. After(d, [d EXCEPT !.requested = TRUE], s)
  BY <1>1, HarmlessAfter
<1> QED BY <1>2 DEF RequestDiscovery, After

\* The device moves: only leaving a connection touches the session.
LEMMA MovesKeeps ==
  ASSUME Inv, NEW d, After(deck, d, SessionOf(deck)), Moves(d),
         UNCHANGED <<wifi, reach, token>>
  PROVE  Inv'
<1> USE DEF Inv, WorldOK
<1>1. DeckInv(d) /\ deck' = d
  BY DEF After, Good, Moves
<1>2. d.client.peer = None => d.client.line = "off"
  BY <1>1, Nones DEF DeckInv, Base, LineOK
<1>3. deck.client.peer \in Mac \cup {None}
  BY NoClientOK DEF Good, DeckInv, Base, LineOK
<1>4. CASE Leaves(d)
  <2>1. d.client.peer = None /\ deck.client.peer \in Mac
    BY <1>3, <1>4 DEF Leaves, After
  <2>2. /\ session' = [session EXCEPT ![deck.client.peer] = NoSession]
        /\ late' \subseteq Mac
    BY <1>4, <2>1 DEF Moves
  <2>3. NoSession \in [phase : {"none", "hello", "code", "ready"}, token : Token \cup {None}]
    BY DEF NoSession
  <2>4. WorldOK'
    BY <2>2, <2>3
  <2>5. Good(deck', SessionOf(deck)')
    BY <1>1, <1>2, <2>1 DEF Good, Talk
  <2> QED BY <2>4, <2>5
<1>5. CASE ~Leaves(d)
  <2>1. session' = session /\ late' = late
    BY <1>5 DEF Moves
  <2>2. d.client.peer = deck.client.peer
    BY <1>5 DEF Leaves, After
  <2>3. SessionOf(deck)' = SessionOf(deck)
    BY <1>1, <2>1, <2>2 DEF SessionOf
  <2>4. Good(deck', SessionOf(deck)')
    BY <1>1, <2>3 DEF After
  <2> QED BY <2>1, <2>4
<1> QED BY <1>4, <1>5

-----------------------------------------------------------------------------
(* The Agents and the network.                                             *)
\* Only the connection changes.
ClientOnly(d, e) == DOMAIN e = Fields /\ \A f \in Fields \ {"client"} : e[f] = d[f]

LEMMA ClientMoves ==
  ASSUME NEW d, NEW e, DeckInv(d), d.client.line = "open", ClientOnly(d, e),
         LineOK(e.client), e.client.peer = d.client.peer, e.client.line # "off",
         d.worker = "connected" => Unheard(e.client)
  PROVE  DeckInv(e)
<1>1. /\ DOMAIN e = Fields /\ e.paired = d.paired /\ e.last = d.last
      /\ e.targetId = d.targetId /\ e.targetIp = d.targetIp /\ e.targetToken = d.targetToken
      /\ e.discovered = d.discovered /\ e.audio = d.audio
      /\ e.worker = d.worker /\ e.workerIp = d.workerIp /\ e.state = d.state
      /\ e.cancel = d.cancel
  BY DEF ClientOnly, Fields
<1>2. Stored(e) /\ Aims(e)
  BY <1>1, SameStored DEF DeckInv, Base, Stored, Aims
<1>3. WorkerOK(e)
  BY <1>1, NoClientOK DEF DeckInv, WorkerOK, ClientConnected
<1> QED BY <1>1, <1>2, <1>3 DEF DeckInv, Base

\* A connection that is no longer open, with or without a last line.
LEMMA Closes ==
  ASSUME NEW d, NEW e, NEW s, DeckInv(d), d.client.line = "open", ClientOnly(d, e),
         DOMAIN e.client = DOMAIN d.client, e.client.peer = d.client.peer,
         e.client.line \in {"cut", "closed"}, e.client.out = <<>>,
         \/ e.client.in = d.client.in
         \/ e.client.in = Append(d.client.in, [t |-> "upgrade_required", token |-> None])
  PROVE  Good(e, s)
<1> DEFINE m == [t |-> "upgrade_required", token |-> None]
<1>1. m \in Line(Heard) /\ m.t = "upgrade_required"
  BY DEF Line, Heard
<1> HIDE DEF m
<1>2. d.client.in \in Seq(Line(Heard)) /\ Carry(d.client.in, "paired", Of(d.client.peer))
  BY DEF DeckInv, Base, LineOK
<1>3. /\ Append(d.client.in, m) \in Seq(Line(Heard))
      /\ Carry(Append(d.client.in, m), "paired", Of(d.client.peer))
      /\ \A k \in {"auth_error", "hello_ok", "paired"} :
           Says(Append(d.client.in, m), k) <=> Says(d.client.in, k)
  BY <1>1, <1>2, SaysAppend
<1>4. e.client.in \in {d.client.in, Append(d.client.in, m)}
  BY DEF m
<1>5. LineOK(e.client)
  <2>1. DOMAIN e.client = {"peer", "line", "out", "in"} /\ e.client.peer \in Mac
    BY DEF DeckInv, Base, LineOK
  <2>2. e.client.in \in Seq(Line(Heard)) /\ Carry(e.client.in, "paired", Of(e.client.peer))
    BY <1>2, <1>3, <1>4
  <2>3. e.client.out \in Seq(Line(Said))
    OBVIOUS
  <2> QED BY <2>1, <2>2, <2>3 DEF LineOK
<1>6. d.worker = "connected" => Unheard(e.client)
  BY <1>3, <1>4, NothingSaid DEF DeckInv, WorkerOK, Unheard
<1> QED BY <1>5, <1>6, ClientMoves DEF Good, Talk

LEMMA PeerOpen ==
  ASSUME Inv, NEW m \in Mac, Online(m)
  PROVE  /\ DeckInv(deck) /\ deck.client.line = "open" /\ deck.client.peer = m
         /\ SessionOf(deck) = session[m] /\ Talk(deck, session[m])
         /\ session[m].phase \in {"none", "hello", "code", "ready"}
         /\ deck.worker \in {"idle", "connected"}
<1>1. /\ DeckInv(deck) /\ deck.client.line = "open" /\ deck.client.peer = m
      /\ SessionOf(deck) = session[m]
  BY Nones DEF Inv, Good, Online, SessionOf
<1>2. deck.client # NoClient
  BY <1>1 DEF NoClient
<1> QED BY <1>1, <1>2 DEF Inv, Good, DeckInv, WorkerOK, WorldOK

LEMMA HangsCloses ==
  ASSUME Inv, NEW m \in Mac, Online(m), Hangs, NEW s
  PROVE  Good(deck', s) /\ deck'.client.peer = m
<1>1. DeckInv(deck) /\ deck.client.line = "open" /\ deck.client.peer = m
  BY PeerOpen
<1>2. DOMAIN deck = Fields /\ DOMAIN deck.client = {"peer", "line", "out", "in"}
  BY <1>1 DEF DeckInv, Base, LineOK
<1>3. /\ ClientOnly(deck, deck') /\ DOMAIN deck'.client = DOMAIN deck.client
      /\ deck'.client.peer = m /\ deck'.client.line = "closed" /\ deck'.client.out = <<>>
      /\ deck'.client.in = deck.client.in
  BY <1>1, <1>2 DEF Hangs, ClientOnly, Fields
<1> QED BY <1>1, <1>3, Closes

LEMMA IssuedOf ==
  ASSUME NEW m \in Mac, Issuable(m)
  PROVE  NewToken(m) \in Of(m) /\ NewToken(m) \in Token
<1>1. (CHOOSE n \in Fresh(m) : TRUE) \in 1 .. MaxTokens
  BY DEF Issuable, Fresh
<1> QED BY <1>1 DEF NewToken, Of, Token

-----------------------------------------------------------------------------
(* An Agent reads a line; r is its answer.                                 *)
Reply(d, r) == [d EXCEPT !.client.out = Tail(@), !.client.in = Append(@, r)]
Silence(d) == [d EXCEPT !.client.out = Tail(@)]

Asking(d) == DeckInv(d) /\ d.client.line = "open" /\ d.client.out # <<>>

\* e is d after its first line is read: what has been said, but for the answer.
ReadOff(d, e) ==
  /\ ClientOnly(d, e) /\ LineOK(e.client)
  /\ e.client.peer = d.client.peer /\ e.client.line = "open"
  /\ Says(e.client.out, "hello") => Says(d.client.out, "hello")
  /\ Once(d.client.out, "hello") =>
       /\ Once(e.client.out, "hello")
       /\ Head(d.client.out).t = "hello" => ~Says(e.client.out, "hello")
  /\ \A T : Carry(d.client.out, "hello", T) =>
              /\ Carry(e.client.out, "hello", T)
              /\ Head(d.client.out).t = "hello" => Head(d.client.out).token \in T
  /\ Head(d.client.out).t = "hello" => Says(d.client.out, "hello")
  /\ Head(d.client.out) \in Line(Said)

LEMMA OutTail ==
  ASSUME NEW d, Asking(d)
  PROVE  LET q == d.client.out IN
         /\ Tail(q) \in Seq(Line(Said)) /\ Head(q) \in Line(Said)
         /\ Says(q, "hello") <=> Head(q).t = "hello" \/ Says(Tail(q), "hello")
         /\ Once(q, "hello") =>
              Once(Tail(q), "hello") /\ (Head(q).t = "hello" => ~Says(Tail(q), "hello"))
         /\ \A T : Carry(q, "hello", T) =>
              Carry(Tail(q), "hello", T) /\ (Head(q).t = "hello" => Head(q).token \in T)
<1>1. d.client.out \in Seq(Line(Said)) /\ d.client.out # <<>>
  BY DEF Asking, DeckInv, Base, LineOK
<1> QED BY <1>1, SaysTail

LEMMA SilenceDoes ==
  ASSUME NEW d, Asking(d)
  PROVE  ReadOff(d, Silence(d)) /\ Silence(d).client.in = d.client.in
<1> DEFINE e == Silence(d)
           c == [d.client EXCEPT !.out = Tail(@)]
<1>1. DOMAIN d = Fields /\ DOMAIN d.client = {"peer", "line", "out", "in"} /\ LineOK(d.client)
  BY DEF Asking, DeckInv, Base, LineOK
<1>2. ClientOnly(d, e) /\ e.client = c
  BY <1>1 DEF Silence, ClientOnly, Fields
<1>3. /\ DOMAIN c = {"peer", "line", "out", "in"} /\ c.peer = d.client.peer
      /\ c.line = d.client.line /\ c.in = d.client.in /\ c.out = Tail(d.client.out)
  BY <1>1
<1> HIDE DEF e, c
<1>4. LineOK(c)
  BY <1>1, <1>3, OutTail DEF LineOK, Asking
<1> QED BY <1>2, <1>3, <1>4, OutTail DEF ReadOff, Asking, e

LEMMA ReplyDoes ==
  ASSUME NEW d, Asking(d), NEW r \in Line(Heard), r.t = "paired" => r.token \in Of(d.client.peer)
  PROVE  LET e == Reply(d, r) IN
         /\ ReadOff(d, e)
         /\ \A k \in Heard : Says(e.client.in, k) <=> Says(d.client.in, k) \/ r.t = k
         /\ Once(d.client.in, "auth_error") /\ (r.t = "auth_error" => ~Says(d.client.in, "auth_error"))
              => Once(e.client.in, "auth_error")
         /\ \A T : Carry(d.client.in, "paired", T) /\ (r.t = "paired" => r.token \in T)
              => Carry(e.client.in, "paired", T)
<1> DEFINE e == Reply(d, r)
           c == [d.client EXCEPT !.out = Tail(@), !.in = Append(@, r)]
           q == d.client.in
<1>1. DOMAIN d = Fields /\ DOMAIN d.client = {"peer", "line", "out", "in"} /\ LineOK(d.client)
  BY DEF Asking, DeckInv, Base, LineOK
<1>2. ClientOnly(d, e) /\ e.client = c
  BY <1>1 DEF Reply, ClientOnly, Fields
<1>3. /\ DOMAIN c = {"peer", "line", "out", "in"} /\ c.peer = d.client.peer
      /\ c.line = d.client.line /\ c.in = Append(q, r) /\ c.out = Tail(d.client.out)
  BY <1>1
<1> HIDE DEF e, c
<1>4. q \in Seq(Line(Heard)) /\ Carry(q, "paired", Of(d.client.peer))
  BY <1>1 DEF LineOK
<1> HIDE DEF q
<1>5. /\ Append(q, r) \in Seq(Line(Heard))
      /\ \A k \in Heard : Says(Append(q, r), k) <=> Says(q, k) \/ r.t = k
      /\ Once(q, "auth_error") /\ (r.t = "auth_error" => ~Says(q, "auth_error"))
           => Once(Append(q, r), "auth_error")
      /\ \A T : Carry(q, "paired", T) /\ (r.t = "paired" => r.token \in T)
           => Carry(Append(q, r), "paired", T)
  BY <1>4, SaysAppend
<1>6. LineOK(c)
  <2>1. Carry(c.in, "paired", Of(c.peer))
    BY <1>3, <1>4, <1>5
  <2> QED BY <1>1, <1>3, <1>5, <2>1, OutTail DEF LineOK, Asking
<1>7. ReadOff(d, e)
  BY <1>2, <1>3, <1>6, OutTail DEF ReadOff, Asking
<1> QED BY <1>2, <1>3, <1>5, <1>7 DEF e, q

\* An answer that says nothing of hello, refusal or pairing, or no answer.
LEMMA NeutralDoes ==
  ASSUME NEW d, NEW e, NEW s, Asking(d), Talk(d, s), ReadOff(d, e),
         \A k \in {"auth_error", "hello_ok", "paired"} : Says(e.client.in, k) <=> Says(d.client.in, k),
         Once(d.client.in, "auth_error") => Once(e.client.in, "auth_error"),
         \A T : Carry(d.client.in, "paired", T) => Carry(e.client.in, "paired", T)
  PROVE  Good(e, s)
<1>1. e.worker = d.worker /\ e.state = d.state /\ e.targetToken = d.targetToken
  BY DEF ReadOff, ClientOnly, Fields
<1>2. DeckInv(e)
  <2>1. d.worker = "connected" => Unheard(e.client)
    BY DEF Asking, DeckInv, WorkerOK, Unheard, ReadOff
  <2> QED BY <2>1, ClientMoves DEF Asking, ReadOff
<1>3. Talk(e, s)
  BY <1>1 DEF Asking, Talk, ReadOff, Greets, Strange, Tells
<1> QED BY <1>2, <1>3 DEF Good

LEMMA NeutralReply ==
  ASSUME NEW d, NEW s, Asking(d), Talk(d, s), NEW k \in {"pong", "agent_list", "pair_error"},
         NEW tok \in Token \cup {None}
  PROVE  Good(Reply(d, [t |-> k, token |-> tok]), s)
<1> DEFINE r == [t |-> k, token |-> tok]
<1>1. r \in Line(Heard) /\ r.t = k
  BY DEF Line, Heard
<1> HIDE DEF r
<1>2. r.t \notin {"auth_error", "hello_ok", "paired"}
  BY <1>1
<1>3. {"auth_error", "hello_ok", "paired"} \subseteq Heard
  BY DEF Heard
<1> QED BY <1>1, <1>2, <1>3, ReplyDoes, NeutralDoes DEF r

LEMMA NeutralSilence ==
  ASSUME NEW d, NEW s, Asking(d), Talk(d, s)
  PROVE  Good(Silence(d), s)
BY SilenceDoes, NeutralDoes

\* The answers that count.  Only an idle device has said hello.
LEMMA Greeted ==
  ASSUME NEW d, NEW s, Asking(d), Talk(d, s), Head(d.client.out).t = "hello",
         s.phase \in {"none", "hello", "code"}
  PROVE  /\ d.worker = "idle" /\ s.phase = "hello" /\ Greets(d) /\ Strange(d)
         /\ Head(d.client.out).token = d.targetToken /\ ~Says(d.client.in, "auth_error")
<1>1. Says(d.client.out, "hello")
  BY OutTail
<1>2. d.worker = "idle"
  <2>1. d.worker \in {"trying", "failed"} => d.client = NoClient
    BY DEF Asking, DeckInv, WorkerOK
  <2>2. d.client # NoClient
    BY DEF Asking, NoClient
  <2> QED BY <1>1, <2>1, <2>2 DEF Asking, DeckInv, WorkerOK, Unheard
<1>3. s.phase = "hello" /\ Greets(d) /\ Strange(d)
  <2>1. d.client.line = "open" /\ s.phase # "ready"
    BY DEF Asking
  <2>2. /\ s.phase = "hello" => Greets(d)
        /\ s.phase # "hello" => ~Says(d.client.out, "hello")
        /\ Strange(d)
    BY <1>2, <2>1 DEF Talk
  <2>3. s.phase = "hello"
    BY ONLY <1>1, <2>2, Zenon
  <2> QED BY <2>2, <2>3
<1>4. Carry(d.client.out, "hello", {d.targetToken}) /\ ~Says(d.client.in, "auth_error")
  BY <1>1, <1>3 DEF Greets
<1>5. Head(d.client.out).token \in {d.targetToken}
  BY <1>4, OutTail
<1> QED BY <1>2, <1>3, <1>4, <1>5

LEMMA WelcomesHello ==
  ASSUME NEW d, NEW s, NEW z, Asking(d), Talk(d, s), Head(d.client.out).t = "hello",
         s.phase \in {"none", "hello", "code"},
         z.phase = "ready", z.token = Head(d.client.out).token
  PROVE  Good(Reply(d, [t |-> "hello_ok", token |-> None]), z)
<1> DEFINE r == [t |-> "hello_ok", token |-> None]
           e == Reply(d, r)
<1>1. r \in Line(Heard) /\ r.t = "hello_ok"
  BY DEF Line, Heard
<1> HIDE DEF r
<1>2. /\ ReadOff(d, e)
      /\ \A k \in Heard : Says(e.client.in, k) <=> Says(d.client.in, k) \/ r.t = k
  BY <1>1, ReplyDoes
<1>3. /\ d.worker = "idle" /\ Greets(d) /\ Strange(d) /\ d.client.line = "open"
      /\ Head(d.client.out).token = d.targetToken /\ ~Says(d.client.in, "auth_error")
  BY Greeted DEF Asking
<1> HIDE DEF e
<1>4. e.worker = "idle" /\ e.state = d.state /\ e.targetToken = d.targetToken
  BY <1>2, <1>3 DEF ReadOff, ClientOnly, Fields
<1>5. DeckInv(e)
  BY <1>2, <1>3, ClientMoves DEF Asking, ReadOff
<1>6. ~Says(e.client.out, "hello") /\ ~Says(e.client.in, "auth_error") /\ ~Says(e.client.in, "paired")
  BY <1>1, <1>2, <1>3 DEF ReadOff, Greets, Strange, Heard
<1>7. Carry(e.client.in, "paired", {z.token})
  BY <1>6 DEF Carry, Says
<1>8. Talk(e, z)
  BY <1>3, <1>4, <1>6, <1>7 DEF Talk, Tells, Strange
<1> QED BY <1>5, <1>8 DEF Good, e, r

LEMMA RefusesHello ==
  ASSUME NEW d, NEW s, Asking(d), Talk(d, s), Head(d.client.out).t = "hello",
         s.phase \in {"none", "hello", "code"}
  PROVE  Good(Reply(d, [t |-> "auth_error", token |-> None]), s)
<1> DEFINE r == [t |-> "auth_error", token |-> None]
           e == Reply(d, r)
<1>1. r \in Line(Heard) /\ r.t = "auth_error"
  BY DEF Line, Heard
<1> HIDE DEF r
<1>2. /\ ReadOff(d, e)
      /\ \A k \in Heard : Says(e.client.in, k) <=> Says(d.client.in, k) \/ r.t = k
      /\ Once(d.client.in, "auth_error") /\ ~Says(d.client.in, "auth_error")
           => Once(e.client.in, "auth_error")
  BY <1>1, ReplyDoes
<1>3. /\ d.worker = "idle" /\ Greets(d) /\ Strange(d) /\ d.client.line = "open"
      /\ s.phase = "hello" /\ ~Says(d.client.in, "auth_error")
  BY Greeted DEF Asking
<1> HIDE DEF e
<1>4. e.worker = "idle" /\ e.state = d.state /\ e.targetToken = d.targetToken
  BY <1>2, <1>3 DEF ReadOff, ClientOnly, Fields
<1>5. DeckInv(e)
  BY <1>2, <1>3, ClientMoves DEF Asking, ReadOff
<1>6. ~Says(e.client.out, "hello") /\ ~Says(e.client.in, "hello_ok") /\ ~Says(e.client.in, "paired")
  BY <1>1, <1>2, <1>3 DEF ReadOff, Greets, Strange, Heard
<1>7. Talk(e, s)
  BY <1>2, <1>3, <1>4, <1>6 DEF Talk, Greets, Strange, ReadOff
<1> QED BY <1>5, <1>7 DEF Good, e, r

LEMMA AsksForCode ==
  ASSUME NEW d, NEW s, NEW z, Asking(d), Talk(d, s), Head(d.client.out).t = "hello",
         s.phase \in {"none", "hello", "code"}, z.phase = "code"
  PROVE  Good(Reply(d, [t |-> "pair_required", token |-> None]), z)
<1> DEFINE r == [t |-> "pair_required", token |-> None]
           e == Reply(d, r)
<1>1. r \in Line(Heard) /\ r.t = "pair_required"
  BY DEF Line, Heard
<1> HIDE DEF r
<1>2. /\ ReadOff(d, e)
      /\ \A k \in Heard : Says(e.client.in, k) <=> Says(d.client.in, k) \/ r.t = k
  BY <1>1, ReplyDoes
<1>3. /\ d.worker = "idle" /\ Greets(d) /\ Strange(d) /\ d.client.line = "open"
      /\ ~Says(d.client.in, "auth_error")
  BY Greeted DEF Asking
<1> HIDE DEF e
<1>4. e.worker = "idle" /\ e.state = d.state
  BY <1>2, <1>3 DEF ReadOff, ClientOnly, Fields
<1>5. DeckInv(e)
  BY <1>2, <1>3, ClientMoves DEF Asking, ReadOff
<1>6. /\ ~Says(e.client.out, "hello") /\ ~Says(e.client.in, "auth_error")
      /\ ~Says(e.client.in, "hello_ok") /\ ~Says(e.client.in, "paired")
  BY <1>1, <1>2, <1>3 DEF ReadOff, Greets, Strange, Heard
<1>7. Talk(e, z)
  BY <1>3, <1>4, <1>6 DEF Talk, Strange
<1> QED BY <1>5, <1>7 DEF Good, e, r

LEMMA Pairs ==
  ASSUME NEW d, NEW s, NEW z, Asking(d), Talk(d, s), s.phase = "code",
         NEW k \in Of(d.client.peer), z.phase = "ready", z.token = k
  PROVE  Good(Reply(d, [t |-> "paired", token |-> k]), z)
<1> DEFINE r == [t |-> "paired", token |-> k]
           e == Reply(d, r)
<1>1. r \in Line(Heard) /\ r.t = "paired" /\ r.token = k
  BY DEF Line, Heard, Of
<1> HIDE DEF r
<1>2. /\ ReadOff(d, e)
      /\ \A x \in Heard : Says(e.client.in, x) <=> Says(d.client.in, x) \/ r.t = x
      /\ \A T : Carry(d.client.in, "paired", T) /\ r.token \in T => Carry(e.client.in, "paired", T)
  BY <1>1, ReplyDoes
<1>3. d.worker = "idle" /\ d.client.line = "open"
  BY DEF Asking, Talk
<1>4. ~Says(d.client.out, "hello") /\ ~Says(d.client.in, "auth_error") /\ Strange(d)
  BY <1>3 DEF Talk
<1> HIDE DEF e
<1>5. e.worker = "idle" /\ e.state = d.state
  BY <1>2, <1>3 DEF ReadOff, ClientOnly, Fields
<1>6. DeckInv(e)
  BY <1>2, <1>3, ClientMoves DEF Asking, ReadOff
<1>7. Carry(e.client.in, "paired", {z.token})
  <2>1. Carry(d.client.in, "paired", {z.token})
    BY <1>4 DEF Strange, Says, Carry
  <2> QED BY <1>1, <1>2, <2>1
<1>8. /\ ~Says(e.client.out, "hello") /\ ~Says(e.client.in, "auth_error")
      /\ ~Says(e.client.in, "hello_ok") /\ Says(e.client.in, "paired")
  BY <1>1, <1>2, <1>4 DEF ReadOff, Strange, Heard
<1>9. Talk(e, z)
  BY <1>3, <1>4, <1>5, <1>7, <1>8 DEF Talk, Tells, Strange
<1> QED BY <1>6, <1>9 DEF Good, e, r

-----------------------------------------------------------------------------
(* The invariant.                                                          *)
LEMMA InitInv == Init => Inv
<1> SUFFICES ASSUME Init PROVE Inv
  OBVIOUS
<1>1. PICK P \in SUBSET Mac, m \in Mac \cup {None} :
        /\ Cardinality(P) <= MaxPairedMacs /\ (m # None => m \in P)
        /\ deck = Booted([x \in Mac |-> IF x \in P THEN [mac |-> x, n |-> 1] ELSE Unpaired], m)
        /\ token = [x \in Mac |-> IF x \in P THEN [mac |-> x, n |-> 1] ELSE None]
  BY DEF Init
<1> DEFINE paired == [x \in Mac |-> IF x \in P THEN [mac |-> x, n |-> 1] ELSE Unpaired]
           d == [paired |-> paired, last |-> m]
<1>2. \A x \in Mac : [mac |-> x, n |-> 1] \in Token
  BY Bounds DEF Token
<1>3. PairedMacs(d) = P
  BY <1>2, Nones DEF PairedMacs, IsPaired
<1>4. PairedCount(d) <= MaxPairedMacs
  BY <1>1, <1>3, PairedFinite
<1>5. Stored(d)
  <2>1. d.paired \in [Mac -> Token \cup {None, Unpaired}]
    BY <1>2
  <2>2. \A x \in Mac : d.paired[x] \in Token => d.paired[x].mac = x
    BY Nones
  <2>3. d.last \in Mac \cup {None}
    OBVIOUS
  <2> QED BY <1>4, <2>1, <2>2, <2>3 DEF Stored
<1>6. d.paired = paired /\ d.last = m
  OBVIOUS
<1> HIDE DEF d, paired
<1>7. Good(deck, SessionOf(deck))
  BY <1>1, <1>5, <1>6, BootedDoes DEF paired
<1>8. WorldOK
  <2>1. token \in [Mac -> Token \cup {None}]
    BY <1>1, <1>2
  <2> QED BY <2>1 DEF Init, WorldOK, NoSession
<1> QED BY <1>7, <1>8 DEF Inv

LEMMA TicksKeep ==
  ASSUME Inv, NEW found \in SUBSET Mac, NEW done \in BOOLEAN, NEW ok \in BOOLEAN,
         NEW beat \in BOOLEAN, Moves(Tick(deck, wifi, World(found, done, ok, beat))),
         UNCHANGED <<wifi, reach, token>>
  PROVE  Inv'
<1> DEFINE w == World(found, done, ok, beat)
<1>1. w \in Worlds
  BY DEF World, Worlds
<1> HIDE DEF w
<1>2. After(deck, Tick(deck, wifi, w), SessionOf(deck))
  BY <1>1, TickDoes DEF Inv, WorldOK
<1> QED BY <1>2, MovesKeeps DEF w

LEMMA UserKeeps == Inv /\ User => Inv'
<1> SUFFICES ASSUME Inv, User PROVE Inv'
  OBVIOUS
<1>1. Good(deck, SessionOf(deck)) /\ wifi \in BOOLEAN
  BY DEF Inv, WorldOK
<1>2. PICK d : Moves(d) /\ After(deck, d, SessionOf(deck))
  <2>1. CASE Moves(RequestDiscovery(deck, wifi))
    BY <1>1, <2>1, RequestDoes
  <2>2. CASE Moves(Disconnect(deck, TRUE))
    BY <1>1, <2>2, DisconnectDoes
  <2>3. ASSUME NEW m \in deck.discovered, Moves(ConnectToDiscovered(deck, m))
        PROVE  \E d : Moves(d) /\ After(deck, d, SessionOf(deck))
    BY <1>1, <2>3, ConnectToDoes
  <2>4. ASSUME NEW m \in Mac, Moves(DeletePairing(deck, m))
        PROVE  \E d : Moves(d) /\ After(deck, d, SessionOf(deck))
    BY <1>1, <2>4, DeletePairingDoes
  <2>5. ASSUME NEW right \in BOOLEAN, Moves(SubmitPairCode(deck, right))
        PROVE  \E d : Moves(d) /\ After(deck, d, SessionOf(deck))
    BY <1>1, <2>5, SubmitDoes
  <2> QED BY <2>1, <2>2, <2>3, <2>4, <2>5 DEF User
<1> QED BY <1>2, MovesKeeps DEF User

LEMMA WorkerKeeps == Inv /\ WorkerDone => Inv'
<1> SUFFICES ASSUME Inv, WorkerDone PROVE Inv'
  OBVIOUS
<1> USE DEF Inv, Good, DeckInv
<1> DEFINE m == deck.workerIp
           c == [peer |-> m, line |-> "open", out |-> <<>>, in |-> <<>>]
<1>1. /\ deck.worker = "trying" /\ m \in Mac /\ deck.client = NoClient
      /\ deck.state # "Connected" /\ DOMAIN deck = Fields
      /\ ~deck.cancel => deck.targetId = m /\ deck.targetIp = m
  BY DEF WorkerDone, WorkerOK, Base
<1>2. CASE wifi /\ m \in reach
  <2>1. /\ deck' = [deck EXCEPT !.worker = "connected", !.client = c]
        /\ session' = [session EXCEPT ![m] = [phase |-> "hello", token |-> None]]
        /\ UNCHANGED <<wifi, reach, token, late>>
    BY <1>2 DEF WorkerDone
  <2>2. /\ DOMAIN deck' = Fields /\ deck'.client = c /\ deck'.worker = "connected"
        /\ deck'.paired = deck.paired /\ deck'.last = deck.last
        /\ deck'.targetId = deck.targetId /\ deck'.targetIp = deck.targetIp
        /\ deck'.targetToken = deck.targetToken /\ deck'.state = deck.state
        /\ deck'.discovered = deck.discovered /\ deck'.audio = deck.audio
        /\ deck'.workerIp = m /\ deck'.cancel = deck.cancel
    BY <1>1, <2>1 DEF Fields
  <2>3. /\ c.peer = m /\ c.line = "open" /\ c.out = <<>> /\ c.in = <<>>
        /\ DOMAIN c = {"peer", "line", "out", "in"}
    OBVIOUS
  <2> HIDE DEF c, m
  <2>4. LineOK(c) /\ Unheard(c)
    <3>1. m \in Mac
      BY <1>1
    <3>2. c.out \in Seq(Line(Said)) /\ c.in \in Seq(Line(Heard)) /\ Carry(c.in, "paired", Of(c.peer))
      BY <2>3, NothingSaid
    <3> QED BY <2>3, <3>1, <3>2, NothingSaid DEF LineOK, Unheard
  <2>5. Stored(deck') /\ Aims(deck')
    BY <2>2, SameStored DEF Base, Stored, Aims
  <2>6. WorkerOK(deck')
    BY <1>1, <2>2, <2>3, <2>4 DEF WorkerOK
  <2>7. WorldOK'
    BY <1>1, <2>1 DEF WorldOK
  <2>8. SessionOf(deck)'.phase = "hello"
    BY <1>1, <2>1, <2>2, <2>3, Nones DEF SessionOf, WorldOK
  <2> QED BY <2>2, <2>4, <2>5, <2>6, <2>7, <2>8 DEF Base, Talk
<1>3. CASE ~(wifi /\ m \in reach)
  <2>1. /\ deck' = [deck EXCEPT !.worker = "failed"] /\ session' = session
        /\ UNCHANGED <<wifi, reach, token, late>>
    BY <1>3 DEF WorkerDone
  <2>2. /\ DOMAIN deck' = Fields /\ deck'.client = deck.client /\ deck'.worker = "failed"
        /\ deck'.paired = deck.paired /\ deck'.last = deck.last
        /\ deck'.targetId = deck.targetId /\ deck'.targetIp = deck.targetIp
        /\ deck'.targetToken = deck.targetToken /\ deck'.state = deck.state
        /\ deck'.discovered = deck.discovered /\ deck'.audio = deck.audio
        /\ deck'.workerIp = m /\ deck'.cancel = deck.cancel
    BY <1>1, <2>1 DEF Fields
  <2> HIDE DEF m
  <2>3. Stored(deck') /\ Aims(deck')
    BY <2>2, SameStored DEF Base, Stored, Aims
  <2>4. WorkerOK(deck')
    BY <1>1, <2>2 DEF WorkerOK
  <2>5. Talk(deck', SessionOf(deck)')
    BY <1>1, <2>2, NoClientOK DEF Talk
  <2> QED BY <2>1, <2>2, <2>3, <2>4, <2>5 DEF Base, WorldOK
<1> QED BY <1>2, <1>3


\* After a step of the Agent at the other end.
LEMMA PeerKeeps ==
  ASSUME NEW m \in Mac, deck'.client.peer = m, Good(deck', session'[m]), WorldOK'
  PROVE  Inv'
<1>1. SessionOf(deck)' = session'[m]
  BY Nones DEF SessionOf
<1> QED BY <1>1 DEF Inv

LEMMA SessionMoves ==
  ASSUME Inv, NEW m \in Mac, NEW p \in {"none", "hello", "code", "ready"},
         NEW k \in Token \cup {None}, session' = [session EXCEPT ![m] = [phase |-> p, token |-> k]],
         token' \in [Mac -> Token \cup {None}], late' \subseteq Mac, UNCHANGED <<wifi, reach>>
  PROVE  WorldOK' /\ session'[m] = [phase |-> p, token |-> k]
BY DEF Inv, WorldOK

LEMMA AnswerReplies ==
  ASSUME NEW m \in Mac, Inv, Online(m), NEW t, NEW k
  PROVE  /\ Answer(t, k) => /\ deck' = Reply(deck, [t |-> t, token |-> k])
                            /\ deck'.client.peer = m
         /\ Ignore => deck' = Silence(deck) /\ deck'.client.peer = m
<1>1. /\ DOMAIN deck = Fields /\ DOMAIN deck.client = {"peer", "line", "out", "in"}
      /\ deck.client.peer = m
  BY PeerOpen DEF DeckInv, Base, LineOK
<1> QED BY <1>1 DEF Answer, Ignore, Reply, Silence, Fields

LEMMA HelloKeeps ==
  ASSUME Inv, NEW m \in Mac, Online(m), deck.client.out # <<>>, session[m].phase # "ready",
         Head(deck.client.out).t = "hello", OnHello(m, Head(deck.client.out).token),
         UNCHANGED <<wifi, reach, late>>
  PROVE  Inv'
<1> DEFINE tok == Head(deck.client.out).token
           s == session[m]
<1>1. /\ Asking(deck) /\ Talk(deck, s) /\ s.phase \in {"none", "hello", "code"}
      /\ token' = token /\ token \in [Mac -> Token \cup {None}] /\ late' \subseteq Mac
      /\ s.token \in Token \cup {None} /\ session \in [Mac -> [phase : {"none", "hello", "code", "ready"}, token : Token \cup {None}]]
  BY PeerOpen DEF Asking, OnHello, Inv, WorldOK
<1>2. CASE Validates(m, tok)
  <2>1. session' = [session EXCEPT ![m] = [phase |-> "ready", token |-> tok]]
        /\ Answer("hello_ok", None) /\ tok \in Token \cup {None}
    BY <1>1, <1>2 DEF OnHello, Validates
  <2>2. WorldOK' /\ session'[m] = [phase |-> "ready", token |-> tok]
    BY <1>1, <2>1, SessionMoves
  <2>3. session'[m].phase = "ready" /\ session'[m].token = tok
    BY <2>2
  <2>4. Good(Reply(deck, [t |-> "hello_ok", token |-> None]), session'[m])
    BY <1>1, <2>3, WelcomesHello
  <2> QED BY <2>1, <2>2, <2>4, AnswerReplies, PeerKeeps
<1>3. CASE ~Validates(m, tok) /\ tok # None
  <2>1. session' = session /\ Answer("auth_error", None)
    BY <1>3 DEF OnHello
  <2>2. Good(Reply(deck, [t |-> "auth_error", token |-> None]), session'[m])
    BY <1>1, <2>1, RefusesHello
  <2>3. WorldOK'
    BY <1>1, <2>1 DEF Inv, WorldOK
  <2> QED BY <2>1, <2>2, <2>3, AnswerReplies, PeerKeeps
<1>4. CASE ~Validates(m, tok) /\ tok = None
  <2>1. session' = [session EXCEPT ![m].phase = "code"] /\ Answer("pair_required", None)
    BY <1>4 DEF OnHello
  <2>2. session' = [session EXCEPT ![m] = [phase |-> "code", token |-> s.token]]
    <3>1. s \in [phase : {"none", "hello", "code", "ready"}, token : Token \cup {None}]
      BY <1>1
    <3>2. [s EXCEPT !.phase = "code"] = [phase |-> "code", token |-> s.token]
      BY <3>1
    <3> QED BY <2>1, <3>2
  <2>3. WorldOK' /\ session'[m] = [phase |-> "code", token |-> s.token]
    BY <1>1, <2>2, SessionMoves
  <2>4. Good(Reply(deck, [t |-> "pair_required", token |-> None]), session'[m])
    BY <1>1, <2>3, AsksForCode
  <2> QED BY <2>1, <2>3, <2>4, AnswerReplies, PeerKeeps
<1> QED BY <1>2, <1>3, <1>4

LEMMA PairKeeps ==
  ASSUME Inv, NEW m \in Mac, Online(m), deck.client.out # <<>>, session[m].phase = "code",
         OnPair(m), UNCHANGED <<wifi, reach, late>>
  PROVE  Inv'
<1> DEFINE k == NewToken(m)
<1>1. /\ Asking(deck) /\ Talk(deck, session[m]) /\ deck.client.peer = m
      /\ token \in [Mac -> Token \cup {None}] /\ late' \subseteq Mac
  BY PeerOpen DEF Asking, Inv, WorldOK
<1>2. /\ token' = [token EXCEPT ![m] = k] /\ Answer("paired", k)
      /\ session' = [session EXCEPT ![m] = [phase |-> "ready", token |-> k]]
      /\ k \in Of(m) /\ k \in Token
  BY IssuedOf DEF OnPair
<1> HIDE DEF k
<1>3. WorldOK' /\ session'[m] = [phase |-> "ready", token |-> k]
  BY <1>1, <1>2, SessionMoves
<1>4. session'[m].phase = "ready" /\ session'[m].token = k
  BY <1>3
<1>5. Good(Reply(deck, [t |-> "paired", token |-> k]), session'[m])
  BY <1>1, <1>2, <1>4, Pairs
<1> QED BY <1>2, <1>3, <1>5, AnswerReplies, PeerKeeps

LEMMA AgentReadsKeeps ==
  ASSUME Inv, NEW m \in Mac, AgentReads(m)
  PROVE  Inv'
<1> DEFINE msg == Head(deck.client.out)
<1>1. Online(m) /\ deck.client.out # <<>> /\ UNCHANGED <<wifi, reach, late>>
  BY DEF AgentReads
<1>2. /\ Asking(deck) /\ Talk(deck, session[m]) /\ session[m].token \in Token \cup {None}
  BY <1>1, PeerOpen DEF Asking, Inv, WorldOK
<1>3. ASSUME UNCHANGED <<token, session>>,
             \/ Ignore
             \/ \E t \in {"pong", "agent_list", "pair_error"}, k \in Token \cup {None} : Answer(t, k)
      PROVE  Inv'
  <2>1. WorldOK' /\ session'[m] = session[m]
    BY <1>1, <1>3 DEF Inv, WorldOK
  <2>2. CASE Ignore
    BY <1>1, <1>2, <2>1, <2>2, NeutralSilence, AnswerReplies, PeerKeeps
  <2>3. ASSUME NEW t \in {"pong", "agent_list", "pair_error"}, NEW k \in Token \cup {None},
               Answer(t, k)
        PROVE  Inv'
    <3>1. Good(Reply(deck, [t |-> t, token |-> k]), session'[m])
      BY <1>2, <2>1, NeutralReply
    <3> QED BY <1>1, <2>1, <2>3, <3>1, AnswerReplies, PeerKeeps
  <2> QED BY <1>3, <2>2, <2>3
<1>4. CASE session[m].phase = "ready"
  <2>1. WhenReady(m, msg)
    BY <1>4 DEF AgentReads
  <2> QED BY <1>2, <1>3, <2>1 DEF WhenReady
<1>5. CASE session[m].phase # "ready"
  <2>1. BeforeReady(m, msg)
    BY <1>5 DEF AgentReads
  <2>2. CASE msg.t = "hello"
    BY <1>1, <1>5, <2>1, <2>2, HelloKeeps DEF BeforeReady
  <2>3. CASE msg.t = "pair" /\ session[m].phase = "code"
    BY <1>1, <2>1, <2>3, PairKeeps DEF BeforeReady
  <2>4. CASE ~(msg.t = "hello") /\ ~(msg.t = "pair" /\ session[m].phase = "code")
    <3>1. /\ UNCHANGED <<token, session>>
          /\ Ignore \/ Answer("pong", None) \/ Answer("pair_error", None)
      BY <2>1, <2>4 DEF BeforeReady
    <3> QED BY <1>3, <3>1
  <2> QED BY <2>2, <2>3, <2>4
<1> QED BY <1>4, <1>5

\* A connection that the Mac ends, or the network.
LEMMA EndKeeps ==
  ASSUME Inv, NEW m \in Mac, Online(m), Hangs, session' = [session EXCEPT ![m] = NoSession],
         token' \in [Mac -> Token \cup {None}], late' \subseteq Mac, UNCHANGED <<wifi, reach>>
  PROVE  Inv'
<1>1. WorldOK'
  BY SessionMoves DEF NoSession
<1>2. Good(deck', session'[m]) /\ deck'.client.peer = m
  BY HangsCloses
<1> QED BY <1>1, <1>2, PeerKeeps

LEMMA ElsewhereKeeps ==
  ASSUME Inv, UNCHANGED <<deck, wifi, reach, session>>,
         token' \in [Mac -> Token \cup {None}], late' \subseteq Mac
  PROVE  Inv'
BY DEF Inv, WorldOK, SessionOf

LEMMA LateKeeps ==
  ASSUME Inv, NEW m \in Mac, LatePair(m) \/ LateLost(m)
  PROVE  Inv'
<1>1. token \in [Mac -> Token \cup {None}] /\ late \subseteq Mac
  BY DEF Inv, WorldOK
<1>2. CASE LatePair(m)
  <2>1. token' \in [Mac -> Token \cup {None}] /\ late' \subseteq Mac /\ UNCHANGED <<wifi, reach>>
    BY <1>1, <1>2, IssuedOf DEF LatePair
  <2>2. \/ Online(m) /\ Hangs /\ session' = [session EXCEPT ![m] = NoSession]
        \/ UNCHANGED <<deck, session>>
    BY <1>2 DEF LatePair
  <2> QED BY <2>1, <2>2, EndKeeps, ElsewhereKeeps
<1>3. CASE LateLost(m)
  BY <1>1, <1>3, ElsewhereKeeps DEF LateLost
<1> QED BY <1>2, <1>3

LEMMA UnpairKeeps ==
  ASSUME Inv, NEW m \in Mac, Unpair(m)
  PROVE  Inv'
<1>1. token \in [Mac -> Token \cup {None}] /\ late \subseteq Mac
  BY DEF Inv, WorldOK
<1>2. token' \in [Mac -> Token \cup {None}] /\ late' \subseteq Mac /\ UNCHANGED <<wifi, reach>>
  BY <1>1 DEF Unpair
<1>3. \/ Online(m) /\ Hangs /\ session' = [session EXCEPT ![m] = NoSession]
      \/ UNCHANGED <<deck, session>>
  BY DEF Unpair
<1> QED BY <1>2, <1>3, EndKeeps, ElsewhereKeeps

LEMMA HangsUpKeeps ==
  ASSUME Inv, NEW m \in Mac, AgentHangsUp(m) \/ PairUnsaved(m)
  PROVE  Inv'
<1>1. token \in [Mac -> Token \cup {None}] /\ late \subseteq Mac
  BY DEF Inv, WorldOK
<1>2. CASE AgentHangsUp(m)
  BY <1>1, <1>2, EndKeeps DEF AgentHangsUp
<1>3. CASE PairUnsaved(m)
  <2>1. token' \in [Mac -> Token \cup {None}]
    BY <1>1, <1>3, IssuedOf DEF PairUnsaved
  <2> QED BY <1>1, <1>3, <2>1, EndKeeps DEF PairUnsaved
<1> QED BY <1>2, <1>3

LEMMA RefusesKeeps ==
  ASSUME Inv, NEW m \in Mac, AgentRefuses(m)
  PROVE  Inv'
<1> DEFINE r == [t |-> "upgrade_required", token |-> None]
<1>1. /\ DeckInv(deck) /\ deck.client.line = "open" /\ deck.client.peer = m
      /\ token' \in [Mac -> Token \cup {None}] /\ late' \subseteq Mac /\ UNCHANGED <<wifi, reach>>
      /\ session' = [session EXCEPT ![m] = NoSession]
  BY PeerOpen DEF AgentRefuses, Inv, WorldOK
<1>2. DOMAIN deck = Fields /\ DOMAIN deck.client = {"peer", "line", "out", "in"}
  BY <1>1 DEF DeckInv, Base, LineOK
<1>3. /\ ClientOnly(deck, deck') /\ DOMAIN deck'.client = DOMAIN deck.client
      /\ deck'.client.peer = m /\ deck'.client.line = "closed" /\ deck'.client.out = <<>>
      /\ deck'.client.in = Append(deck.client.in, r)
  BY <1>1, <1>2 DEF AgentRefuses, ClientOnly, Fields
<1>4. Good(deck', session'[m])
  BY <1>1, <1>3, Closes
<1>5. WorldOK'
  BY <1>1, SessionMoves DEF NoSession
<1> QED BY <1>3, <1>4, <1>5, PeerKeeps

LEMMA PingsKeeps ==
  ASSUME Inv, NEW m \in Mac, AgentPings(m)
  PROVE  Inv'
<1> DEFINE s == session[m]
           r == [t |-> "ping", token |-> s.token]
           q == deck.client.in
           c == [deck.client EXCEPT !.in = Append(@, r)]
<1>1. /\ DeckInv(deck) /\ deck.client.line = "open" /\ deck.client.peer = m /\ Talk(deck, s)
      /\ s.phase = "ready" /\ r \in Line(Heard) /\ r.t = "ping" /\ UNCHANGED <<wifi, reach, token, session, late>>
  BY PeerOpen DEF AgentPings, Inv, WorldOK, Line, Heard
<1>2. /\ DOMAIN deck = Fields /\ DOMAIN deck.client = {"peer", "line", "out", "in"}
      /\ LineOK(deck.client) /\ q \in Seq(Line(Heard)) /\ Carry(q, "paired", Of(m))
  BY <1>1 DEF DeckInv, Base, LineOK
<1>3. deck.worker = "idle"
  BY <1>1 DEF Talk
<1>4. ClientOnly(deck, deck') /\ deck'.client = c
  BY <1>2 DEF AgentPings, ClientOnly, Fields
<1>5. /\ DOMAIN c = {"peer", "line", "out", "in"} /\ c.peer = m /\ c.line = "open"
      /\ c.out = deck.client.out /\ c.in = Append(q, r)
  BY <1>1, <1>2
<1> HIDE DEF r, q, c
<1>6. /\ Append(q, r) \in Seq(Line(Heard))
      /\ \A k \in {"auth_error", "hello_ok", "paired"} : Says(Append(q, r), k) <=> Says(q, k)
      /\ \A T : Carry(q, "paired", T) => Carry(Append(q, r), "paired", T)
  BY <1>1, <1>2, SaysAppend
<1>7. LineOK(c)
  BY <1>1, <1>2, <1>5, <1>6 DEF LineOK
<1>8. DeckInv(deck')
  BY <1>1, <1>3, <1>4, <1>5, <1>7, ClientMoves
<1>9. Talk(deck', s)
  <2>1. deck'.worker = "idle" /\ deck'.state = deck.state /\ deck'.targetToken = deck.targetToken
    BY <1>3, <1>4 DEF ClientOnly, Fields
  <2> QED BY <1>1, <1>3, <1>4, <1>5, <1>6, <2>1 DEF Talk, Tells, q
<1>10. WorldOK' /\ session'[m] = s
  BY <1>1 DEF Inv, WorldOK
<1> QED BY <1>4, <1>5, <1>8, <1>9, <1>10, PeerKeeps DEF Good

\* deck' is deck or its line is cut.
LEMMA CutDoes ==
  ASSUME Inv
  PROVE  /\ CutLine.client.peer = deck.client.peer
         /\ Good(CutLine, SessionOf(deck))
<1>1. CASE deck.client.line # "open"
  BY <1>1 DEF CutLine, Inv
<1>2. CASE deck.client.line = "open"
  <2>1. /\ DOMAIN deck = Fields /\ DOMAIN deck.client = {"peer", "line", "out", "in"}
        /\ DeckInv(deck)
    BY DEF Inv, Good, DeckInv, Base, LineOK
  <2>2. /\ ClientOnly(deck, CutLine) /\ DOMAIN CutLine.client = DOMAIN deck.client
        /\ CutLine.client.peer = deck.client.peer /\ CutLine.client.line = "cut"
        /\ CutLine.client.out = <<>> /\ CutLine.client.in = deck.client.in
    BY <1>2, <2>1 DEF CutLine, ClientOnly, Fields
  <2> QED BY <1>2, <2>1, <2>2, Closes
<1> QED BY <1>1, <1>2

LEMMA NetworkKeeps == Inv /\ Network => Inv'
<1> SUFFICES ASSUME Inv, Network PROVE Inv'
  OBVIOUS
<1>1. deck' \in {deck, CutLine} /\ UNCHANGED <<token, session, late>>
  BY DEF Network
<1>2. WorldOK'
  BY <1>1 DEF Network, Inv, WorldOK
<1>3. deck'.client.peer = deck.client.peer /\ Good(deck', SessionOf(deck))
  BY <1>1, CutDoes DEF Inv
<1>4. SessionOf(deck)' = SessionOf(deck)
  BY <1>1, <1>3 DEF SessionOf
<1> QED BY <1>2, <1>3, <1>4 DEF Inv

LEMMA TimeKeeps == Inv /\ (QuietTick \/ SearchEnds \/ Heartbeat \/ BadTick \/ ReconnectDelayOver) => Inv'
<1> SUFFICES ASSUME Inv, QuietTick \/ SearchEnds \/ Heartbeat \/ BadTick \/ ReconnectDelayOver
             PROVE  Inv'
  OBVIOUS
<1>1. reach \in SUBSET Mac
  BY DEF Inv, WorldOK
<1>2. ASSUME NEW done \in BOOLEAN, NEW beat \in BOOLEAN, Ticks(done, beat)
      PROVE  Inv'
  BY <1>1, <1>2, TicksKeep DEF Ticks
<1>3. CASE BadTick
  <2>1. PICK found \in SUBSET reach, done \in BOOLEAN, ok \in BOOLEAN, beat \in BOOLEAN :
          Moves(Tick(deck, wifi, World(found, done, ok, beat)))
    BY <1>3 DEF BadTick
  <2>2. found \in SUBSET Mac /\ UNCHANGED <<wifi, reach, token>>
    BY <1>1, <1>3 DEF BadTick
  <2> QED BY <2>1, <2>2, TicksKeep
<1>4. CASE ReconnectDelayOver
  <2>1. deck' = [deck EXCEPT !.due = TRUE] /\ UNCHANGED <<wifi, reach, token, session, late>>
    BY <1>4 DEF ReconnectDelayOver
  <2>2. Harmless(deck, deck')
    BY <2>1 DEF Harmless, Inv, Good, DeckInv, Base, Fields, Aims
  <2>3. Good(deck', SessionOf(deck)) /\ deck'.client = deck.client
    BY <2>2, HarmlessGood DEF Inv, Harmless
  <2>4. SessionOf(deck)' = SessionOf(deck)
    BY <2>1, <2>3 DEF SessionOf
  <2> QED BY <2>1, <2>3, <2>4 DEF Inv, WorldOK
<1> QED BY <1>2, <1>3, <1>4 DEF QuietTick, SearchEnds, Heartbeat

LEMMA RebootKeeps == Inv /\ Reboot => Inv'
<1> SUFFICES ASSUME Inv, Reboot PROVE Inv'
  OBVIOUS
<1>1. Stored(deck)
  BY DEF Inv, Good, DeckInv, Base
<1>2. After(deck, Booted(deck.paired, deck.last), SessionOf(deck))
  BY <1>1, BootedDoes DEF After
<1> QED BY <1>2, MovesKeeps DEF Reboot

LEMMA StepInv == Inv /\ [Next]_vars => Inv'
<1> SUFFICES ASSUME Inv, [Next]_vars PROVE Inv'
  OBVIOUS
<1>1. CASE UNCHANGED vars
  BY <1>1 DEF vars, Inv, WorldOK, SessionOf
<1>2. CASE QuietTick \/ SearchEnds \/ Heartbeat \/ BadTick \/ ReconnectDelayOver
  BY <1>2, TimeKeeps
<1>3. CASE WorkerDone \/ Reboot \/ User \/ Network
  BY <1>3, WorkerKeeps, RebootKeeps, UserKeeps, NetworkKeeps
<1>4. ASSUME NEW m \in Mac,
             \/ AgentReads(m) \/ LatePair(m) \/ LateLost(m) \/ AgentHangsUp(m)
             \/ AgentRefuses(m) \/ PairUnsaved(m) \/ AgentPings(m) \/ Unpair(m)
      PROVE  Inv'
  BY <1>4, AgentReadsKeeps, LateKeeps, HangsUpKeeps, RefusesKeeps, PingsKeeps, UnpairKeeps
<1> QED BY <1>1, <1>2, <1>3, <1>4 DEF Next

LEMMA AlwaysInv == Spec => []Inv
BY InitInv, StepInv, PTL DEF Spec

-----------------------------------------------------------------------------
(* What the invariant says of tokens and of sessions.                      *)

LEMMA InvTokens == Inv => TokenOfIssuer
BY DEF Inv, Good, DeckInv, Base, Stored, Aims, TokenOfIssuer

LEMMA InvType == Inv => PairingTypeOK
BY DEF Inv, WorldOK, Good, DeckInv, Base, Stored, Aims, States, PairingTypeOK

LEMMA InvAgreement == Inv => Agreement
<1> SUFFICES ASSUME Inv, deck.state = "Connected", deck.client.line = "open"
             PROVE  /\ deck.client.peer = deck.targetId
                    /\ session[deck.targetId] = [phase |-> "ready", token |-> deck.targetToken]
  BY DEF Agreement
<1> DEFINE m == deck.client.peer
<1>1. DeckInv(deck) /\ Talk(deck, SessionOf(deck))
  BY DEF Inv, Good
<1>2. deck.worker = "idle" /\ m = deck.targetId
  BY <1>1 DEF DeckInv, WorkerOK, ClientConnected
<1>3. m \in Mac
  BY <1>1 DEF DeckInv, Base, LineOK, NoClient
<1>4. SessionOf(deck) = session[m]
  BY <1>3, Nones DEF SessionOf
<1>5. session[m].phase = "ready"
  BY <1>1, <1>2, <1>4 DEF Talk, Strange
<1>6. session[m].token = deck.targetToken
  BY <1>1, <1>2, <1>4, <1>5 DEF Talk, Tells
<1>7. session[m] \in [phase : {"none", "hello", "code", "ready"}, token : Token \cup {None}]
  BY <1>3 DEF Inv, WorldOK
<1>8. session[m] = [phase |-> "ready", token |-> deck.targetToken]
  BY <1>5, <1>6, <1>7
<1> QED BY <1>2, <1>8

\* What the device stores, shows and is told, and what the Macs keep of it,
\* has its type, and no more Macs are paired than fit (kMaxPairedMacs).
THEOREM PairingTypeCorrect == Spec => []PairingTypeOK
BY AlwaysInv, InvType, PTL

\* A token the device keeps, or signs its audio with, is of the Mac it keeps
\* it for and sends its audio to (PairingManager::storePairing, handleLine's
\* "paired", setReady of the audio): an answer on its way from a Mac that was
\* given up for another never reaches the other's slot, for however many Macs.
THEOREM TokensOfTheirMacs == Spec => []TokenOfIssuer
BY AlwaysInv, InvTokens, PTL

\* While the device shows itself connected over an open line, the Mac it
\* aimed at has authenticated that connection and holds the same token
\* (handleLine of pairing.cpp against handle_client of server.py), whatever
\* is lost, late, refused, unpaired or rebooted between.
THEOREM BothAgree == Spec => []Agreement
BY AlwaysInv, InvAgreement, PTL
=============================================================================
