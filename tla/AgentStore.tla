----------------------------- MODULE AgentStore -----------------------------
(***************************************************************************)
(* The Agent's view of the Codex sessions (agents.py) and what the decks   *)
(* are told of it (server.py).  Three sources report on a session: the     *)
(* hooks of Codex, as datagrams that may come late; the App Server's turn  *)
(* and item events; and the thread list, polled every two seconds.  A      *)
(* change schedules one broadcast, whose task then sends each linked deck  *)
(* a snapshot built when its turn comes; a deck acknowledges a session by  *)
(* its id, and the Agent notes, for that deck, the time of the update it   *)
(* holds then.                                                             *)
(*                                                                         *)
(* Titles, projects and activity texts are abstracted to whether an event  *)
(* changes them; the order of the dict, which breaks ties of equal times,  *)
(* to any order.  Snapshots of a deck are sent in the order they are built *)
(* (asyncio.Lock), so a deck ends up with the newest one built for it.     *)
(***************************************************************************)
EXTENDS Integers, FiniteSets

CONSTANTS Session,     \* ids of Codex sessions
          Turn,        \* ids of turns of the App Server
          NoTurn,      \* an event without a turn id; no turn noted
          Deck,        \* devices with agents.snapshot.v1
          NoFocus,     \* focus_id is empty
          AgentLimit,  \* AGENT_LIMIT: sessions of a snapshot, threads of a poll
          StoreLimit,  \* sessions _trim keeps
          CursorLimit, \* MAX_ACK_CURSORS
          MaxClock,    \* bound of the clock
          MaxFocus     \* bound of focus_seq

ASSUME StoreAssumption ==
  /\ NoTurn \notin Turn
  /\ NoFocus \notin Session
  /\ IsFiniteSet(Session)
  /\ AgentLimit \in Nat \ {0} /\ StoreLimit \in Nat \ {0} /\ CursorLimit \in Nat \ {0}
  /\ MaxClock \in Nat /\ MaxFocus \in Nat

VARIABLES clock,         \* the time, in milliseconds
          known,         \* the ids in AgentStore.sessions
          sessions,      \* their fields; a session not known has those of a new one
          turns,         \* _last_app_turn_ids
          focus,         \* focus_id
          focusSeq,      \* focus_seq
          latestPrompt,  \* _latest_prompt_ms
          fresh,         \* the focus came with a prompt told before any newer one,
                         \* and its session has been known ever since
          scheduled,     \* _agent_broadcast_pending
          due,           \* decks that a broadcast under way has still to reach
          linked,        \* decks with a device session
          cursors,       \* DeviceSession.ack_cursors, -1 for none
          listed,        \* known sessions of the newest snapshot sent to the deck
          shown,         \* how it shows them
          shownFocus     \* its focus_id and focus_seq

focusVars == <<focus, focusSeq, latestPrompt>>
deckVars == <<due, linked, cursors, listed, shown, shownFocus>>
storeVars == <<clock, known, sessions, turns, focusVars, fresh, scheduled, deckVars>>

Status == {"idle", "running", "needs_input", "ready", "blocked"}
SessionPhase == {"", "thinking", "tool"}
Appearance == [status : Status, phase : SessionPhase, unread : BOOLEAN]
AgentSession == [status : Status, phase : SessionPhase, unread : BOOLEAN,
                 updated : Nat, prompt : Nat]

NewSession == [status |-> "idle", phase |-> "", unread |-> FALSE, updated |-> 0, prompt |-> 0]
NeverSeen == [status |-> "idle", phase |-> "", unread |-> FALSE]

Later(m, n) == IF m > n THEN m ELSE n

StoreTypeOK ==
  /\ clock \in Nat /\ latestPrompt \in Nat /\ focusSeq \in Nat
  /\ known \in SUBSET Session
  /\ sessions \in [Session -> AgentSession]
  /\ turns \in [Session -> Turn \cup {NoTurn}]
  /\ focus \in Session \cup {NoFocus}
  /\ fresh \in BOOLEAN /\ scheduled \in BOOLEAN
  /\ linked \in SUBSET Deck /\ due \in SUBSET linked
  /\ cursors \in [Deck -> [Session -> Nat \cup {-1}]]
  /\ listed \in [Deck -> SUBSET known]
  /\ shown \in [Deck -> [Session -> Appearance]]
  /\ shownFocus \in [Deck -> (Session \cup {NoFocus}) \X Nat]

StoreInit ==
  /\ clock = 1
  /\ known = {} /\ sessions = [s \in Session |-> NewSession]
  /\ turns = [s \in Session |-> NoTurn]
  /\ focus = NoFocus /\ focusSeq = 0 /\ latestPrompt = 0
  /\ fresh = FALSE /\ scheduled = FALSE
  /\ due = {} /\ linked = {}
  /\ cursors = [d \in Deck |-> [s \in Session |-> -1]]
  /\ listed = [d \in Deck |-> {}]
  /\ shown = [d \in Deck |-> [s \in Session |-> NeverSeen]]
  /\ shownFocus = [d \in Deck |-> <<NoFocus, 0>>]

-----------------------------------------------------------------------------
(* The store.                                                              *)

(* _trim: the sessions it may keep of K, whose fields are S.               *)
Kept(K, S) ==
  IF Cardinality(K) <= StoreLimit THEN {K}
  ELSE {L \in SUBSET K : /\ Cardinality(L) = StoreLimit
                         /\ \A s \in L, o \in K \ L : S[s].updated >= S[o].updated}

(* The store is trimmed to L.  A snapshot a deck has lists of the known    *)
(* sessions those that were known ever since.                              *)
TrimTo(L, S, T) ==
  /\ known' = L
  /\ sessions' = [s \in Session |-> IF s \in L THEN S[s] ELSE NewSession]
  /\ turns' = [s \in Session |-> IF s \in L THEN T[s] ELSE NoTurn]
  /\ listed' = [d \in Deck |-> listed[d] \cap L]

(* An event leaves the session s with the fields r and the turn t:         *)
(* _session, then assignments, then _trim.                                 *)
Put(s, r, t) ==
  LET S == [sessions EXCEPT ![s] = r]
  IN  \E L \in Kept(known \cup {s}, S) : TrimTo(L, S, [turns EXCEPT ![s] = t])

(* _changed and _agent_changed, when the event changed something.          *)
Notify(changed) == scheduled' = (scheduled \/ changed)

(* The user's prompt in s, at time at, takes the focus.                    *)
FocusGiven(s, at) ==
  /\ focusSeq < MaxFocus
  /\ focus' = s /\ focusSeq' = focusSeq + 1
  /\ fresh' = (at >= latestPrompt /\ s \in known')

(* MUTANT: it is not noted as the latest.                                  *)
FocusOnlyOn(s, at) == FocusGiven(s, at) /\ UNCHANGED latestPrompt

FocusOn(s, at) == FocusGiven(s, at) /\ latestPrompt' = Later(latestPrompt, at)

FocusStays == UNCHANGED focusVars /\ fresh' = (fresh /\ focus \in known')

EventFrame == UNCHANGED <<clock, due, linked, cursors, shown, shownFocus>>

-----------------------------------------------------------------------------
(* App Server events.                                                      *)

(* turn/started, or the first userMessage of the turn: the second of them  *)
(* is dropped, by the turn's id or, without one, because the turn runs.    *)
SameTurn(s, t) ==
  IF t # NoTurn THEN turns[s] = t ELSE sessions[s].status = "running"

(* A started turn, as the fields of its session.                           *)
Started(r, at) ==
  [status |-> "running", phase |-> "thinking", unread |-> FALSE, updated |-> at,
   prompt |-> Later(r.prompt, at)]

TurnStarted(s, t, at) ==
  /\ ~SameTurn(s, t)
  /\ Put(s, Started(sessions[s], at), IF t # NoTurn THEN t ELSE turns[s])
  /\ FocusOn(s, at)
  /\ Notify(TRUE)
  /\ EventFrame

(* A second report of the turn, a reasoning item, an item of another kind: *)
(* the session is known from then on, and nothing else.  A new name is     *)
(* told, and does not trim either.                                         *)
Mention(s, renamed) ==
  /\ known' = known \cup {s}
  /\ Notify(renamed)
  /\ UNCHANGED <<sessions, turns, listed>>
  /\ FocusStays
  /\ EventFrame

TurnCompleted(s, failed) ==
  /\ Put(s, [sessions[s] EXCEPT !.status = IF failed THEN "blocked" ELSE "ready",
                                !.phase = "", !.unread = TRUE, !.updated = clock], turns[s])
  /\ Notify(TRUE)
  /\ FocusStays
  /\ EventFrame

(* apply_public_activity: what a message, or the start or end of an item   *)
(* tells.  Nobody is notified of one that tells what is known.             *)
(* MUTANT: another phase does not count.                                   *)
TellsStatus(s, phase, newText) ==
  newText \/ sessions[s].status # "running" \/ sessions[s].unread

Tells(s, phase, newText) ==
  newText \/ sessions[s].status # "running" \/ sessions[s].phase # phase \/ sessions[s].unread

PublicActivity(s, phase, newText) ==
  /\ Put(s, [sessions[s] EXCEPT !.status = "running", !.phase = phase, !.unread = FALSE,
                                !.updated = Later(@, clock)], turns[s])
  /\ Notify(Tells(s, phase, newText))
  /\ FocusStays
  /\ EventFrame

-----------------------------------------------------------------------------
(* thread/list: what it reports of a thread.  Both times are in seconds,   *)
(* as milliseconds; a prompt updates its thread; an older server has no    *)
(* recencyAt.                                                              *)
Report == {r \in [updated : 1 .. clock, recency : 0 .. clock] : r.recency <= r.updated}
Poll == UNION {[ids -> Report] : ids \in {I \in SUBSET Session : Cardinality(I) <= AgentLimit}}

(* The time of the thread's last prompt.                                   *)
PromptOf(r) == IF r.recency # 0 THEN r.recency ELSE r.updated

Polled(poll) ==
  [s \in Session |-> IF s \notin DOMAIN poll THEN sessions[s]
                     ELSE [sessions[s] EXCEPT !.prompt = Later(@, PromptOf(poll[s])),
                                              !.updated = Later(@, poll[s].updated)]]

Newest(poll) == {s \in DOMAIN poll :
                   \A o \in DOMAIN poll : PromptOf(poll[o]) <= PromptOf(poll[s])}

(* The thread the poll moves the focus to: that of a newer prompt, or,     *)
(* when there is no focus, the first.                                      *)
PollFocus(poll) ==
  \/ \E s \in Newest(poll) : PromptOf(poll[s]) > latestPrompt /\ FocusOn(s, PromptOf(poll[s]))
  \/ /\ \A s \in DOMAIN poll : PromptOf(poll[s]) <= latestPrompt
     /\ IF focus = NoFocus /\ DOMAIN poll # {}
        THEN \E s \in DOMAIN poll : FocusOn(s, latestPrompt)
        ELSE FocusStays

(* Whether the poll changes more than titles and projects.                 *)
PollChanges(poll) ==
  ~(DOMAIN poll \subseteq known) \/ Polled(poll) # sessions \/ focusSeq' # focusSeq

(* update_threads; relabelled: no more than titles and projects are others.*)
UpdateThreads(poll, relabelled) ==
  /\ \E L \in Kept(known \cup DOMAIN poll, Polled(poll)) : TrimTo(L, Polled(poll), turns)
  /\ PollFocus(poll)
  /\ relabelled => ~PollChanges(poll) /\ DOMAIN poll # {}
  /\ Notify(relabelled \/ PollChanges(poll))
  /\ EventFrame

-----------------------------------------------------------------------------
(* Hooks.  Each sets the time of its session to its own, even back.        *)

HookOutcome ==
  [sessionstart |-> [status |-> "idle", phase |-> "", unread |-> FALSE],
   userpromptsubmit |-> [status |-> "running", phase |-> "thinking", unread |-> FALSE],
   permissionrequest |-> [status |-> "needs_input", phase |-> "", unread |-> TRUE],
   question |-> [status |-> "needs_input", phase |-> "", unread |-> TRUE],  \* pretooluse
   pretooluse |-> [status |-> "running", phase |-> "tool", unread |-> FALSE],
   posttooluse |-> [status |-> "running", phase |-> "thinking", unread |-> FALSE],
   stop |-> [status |-> "ready", phase |-> "", unread |-> TRUE],
   error |-> [status |-> "blocked", phase |-> "", unread |-> TRUE]]

(* MUTANT: a prompt told late sets the time of the last one back.          *)
HookPromptLast(r, event, at) == IF event = "userpromptsubmit" THEN at ELSE r.prompt

HookPrompt(r, event, at) ==
  IF event = "userpromptsubmit" THEN Later(r.prompt, at) ELSE r.prompt

HookEvent(event, s, at) ==
  /\ LET o == HookOutcome[event]
     IN  Put(s, [status |-> o.status, phase |-> o.phase, unread |-> o.unread, updated |-> at,
                 prompt |-> HookPrompt(sessions[s], event, at)], turns[s])
  /\ CASE event = "userpromptsubmit" -> FocusOn(s, at)
     [] event = "sessionstart" /\ focus = NoFocus ->
          focus' = s /\ UNCHANGED <<focusSeq, latestPrompt, fresh>>
     [] OTHER -> FocusStays
  /\ Notify(TRUE)
  /\ EventFrame

-----------------------------------------------------------------------------
(* The decks.                                                              *)

(* AgentSession.as_dict for a deck whose cursor of the session is c.       *)
QuietFor(r, c) == c = r.updated /\ r.status \in {"ready", "blocked"}
As(r, c) ==
  [status |-> IF QuietFor(r, c) THEN "idle" ELSE r.status,
   phase |-> IF QuietFor(r, c) THEN "" ELSE r.phase,
   unread |-> r.unread /\ c # r.updated]

(* The history is ordered by the last prompt.                              *)
Recency(r) == IF r.prompt # 0 THEN r.prompt ELSE r.updated

(* snapshot: the n most recent sessions, the last of them replaced by the  *)
(* focused one when that is not among them.                                *)
Recent(n) ==
  {L \in SUBSET known :
     /\ Cardinality(L) = IF Cardinality(known) < n THEN Cardinality(known) ELSE n
     /\ \A s \in L, o \in known \ L : Recency(sessions[s]) >= Recency(sessions[o])}

Selections(n) ==
  UNION {IF focus \in known \ L
         THEN {(L \ {s}) \cup {focus} :
                 s \in {s \in L : \A o \in L : Recency(sessions[s]) <= Recency(sessions[o])}}
         ELSE {L} : L \in Recent(n)}

(* A snapshot of n sessions is built and sent to the deck, whose cursors   *)
(* are C.                                                                  *)
Send(d, C, n) ==
  \E L \in Selections(n) :
    /\ listed' = [listed EXCEPT ![d] = L]
    /\ shown' = [shown EXCEPT ![d] = [s \in Session |-> IF s \in L THEN As(sessions[s], C[s])
                                                        ELSE NeverSeen]]
    /\ shownFocus' = [shownFocus EXCEPT ![d] = <<focus, focusSeq>>]

StoreFrame == UNCHANGED <<clock, known, sessions, turns, focusVars, fresh>>

(* The device session starts, in place of the deck's last one if that is   *)
(* still there, and is sent a snapshot.                                    *)
Link(d) ==
  /\ linked' = linked \cup {d}
  /\ due' = due \ {d}
  /\ cursors' = [cursors EXCEPT ![d] = [s \in Session |-> -1]]
  /\ Send(d, cursors'[d], AgentLimit)
  /\ UNCHANGED scheduled
  /\ StoreFrame

Unlink(d) ==
  /\ d \in linked
  /\ linked' = linked \ {d}
  /\ due' = due \ {d}
  /\ UNCHANGED <<scheduled, cursors, listed, shown, shownFocus>>
  /\ StoreFrame

(* _broadcast_agent_status starts: changes from here on schedule another.  *)
Broadcast ==
  /\ scheduled
  /\ scheduled' = FALSE
  /\ due' = due \cup linked
  /\ UNCHANGED <<linked, cursors, listed, shown, shownFocus>>
  /\ StoreFrame

(* ... and comes to a deck.                                                *)
Reach(d) ==
  /\ d \in due
  /\ due' = due \ {d}
  /\ Send(d, cursors[d], AgentLimit)
  /\ UNCHANGED <<scheduled, linked, cursors>>
  /\ StoreFrame

(* agent_list_req, which may ask for fewer.                                *)
ListRequest(d) ==
  /\ d \in linked
  /\ \E n \in 1 .. AgentLimit : Send(d, cursors[d], n)
  /\ UNCHANGED <<scheduled, due, linked, cursors>>
  /\ StoreFrame

(* DeviceSession.acknowledge: past the limit the oldest other cursor goes. *)
Acknowledged(c, s, m) ==
  LET a == [c EXCEPT ![s] = m]
  IN  IF Cardinality({o \in Session : a[o] # -1}) <= CursorLimit THEN {a}
      ELSE {[a EXCEPT ![o] = -1] : o \in {o \in Session \ {s} : a[o] # -1}}

(* agent_ack.                                                              *)
Acknowledge(d, s) ==
  /\ d \in linked
  /\ s \in known
  /\ \E c \in Acknowledged(cursors[d], s, sessions[s].updated) :
       cursors' = [cursors EXCEPT ![d] = c]
  /\ Send(d, cursors'[d], AgentLimit)
  /\ UNCHANGED <<scheduled, due, linked>>
  /\ StoreFrame

-----------------------------------------------------------------------------
Tick ==
  /\ clock < MaxClock
  /\ clock' = clock + 1
  /\ UNCHANGED <<known, sessions, turns, focusVars, fresh, scheduled, deckVars>>

AppEvent(s) ==
  \/ \E t \in Turn \cup {NoTurn}, at \in 1 .. clock : TurnStarted(s, t, at)
  \/ \E renamed \in BOOLEAN : Mention(s, renamed)
  \/ \E failed \in BOOLEAN : TurnCompleted(s, failed)
  \/ \E phase \in {"thinking", "tool"}, newText \in BOOLEAN : PublicActivity(s, phase, newText)

StoreNext ==
  \/ Tick
  \/ \E s \in Session : AppEvent(s)
  \/ \E poll \in Poll, relabelled \in BOOLEAN : UpdateThreads(poll, relabelled)
  \/ \E event \in DOMAIN HookOutcome, s \in Session, at \in 1 .. clock : HookEvent(event, s, at)
  \/ \E d \in Deck : Link(d) \/ Unlink(d) \/ Reach(d) \/ ListRequest(d)
  \/ Broadcast
  \/ \E d \in Deck, s \in Session : Acknowledge(d, s)

StoreSpec == StoreInit /\ [][StoreNext]_storeVars

-----------------------------------------------------------------------------
(* Once no broadcast is scheduled and none has still to come to it, a deck *)
(* has the focus and, of every session it lists, status, phase and unread  *)
(* mark as they are: whatever changed them notified, also while an earlier *)
(* broadcast was under way, and what notified nobody changed none of them. *)
DecksUpToDate ==
  \A d \in linked \ due : ~scheduled =>
    /\ shownFocus[d] = <<focus, focusSeq>>
    /\ \A s \in listed[d] : shown[d][s] = As(sessions[s], cursors[d][s])

(* "uses recencyAt to follow only a newer user prompt" (VALIDATION.md):    *)
(* no known session was prompted after the focused one, in whatever order  *)
(* the hooks, the App Server and the polls, lagging or not, tell of the    *)
(* prompts.  There are two exceptions, and fresh names them: a hook, or    *)
(* the start of a turn, told after a newer prompt takes the focus back to  *)
(* its own (agents.py:334 and 469 do not compare), and the store forgets   *)
(* the prompt of a focused session that it trims.  They last until the     *)
(* focus is given anew.                                                    *)
FocusOnLatestPrompt ==
  fresh => \A s \in known : sessions[s].prompt <= sessions[focus].prompt

(* A session overtakes another in the history that decks page through.     *)
Overtakes(t, s) ==
  /\ Recency(sessions[s]) > Recency(sessions[t])
  /\ Recency(sessions'[s]) < Recency(sessions'[t])

PromptNews(s) == sessions'[s].prompt > sessions[s].prompt

(* "Background tool/output updates do not reorder history" (VALIDATION.md):*)
(* of two sessions with a known prompt one overtakes the other only by a   *)
(* newer prompt, also when hooks come late or polls lag behind them.       *)
HistoryKeepsOrder ==
  [][\A s, t \in known \cap known' :
       sessions[s].prompt # 0 /\ sessions[t].prompt # 0 /\ Overtakes(t, s) => PromptNews(t)
    ]_storeVars
=============================================================================
