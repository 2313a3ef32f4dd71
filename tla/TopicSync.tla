----------------------------- MODULE TopicSync ------------------------------
(***************************************************************************)
(* The sync_* topics of one device session: what it subscribed to, what is *)
(* pending for it, and the two tasks that write to its connection.  The    *)
(* session's own task answers one message at a time; the periodic task     *)
(* flushes pending topics as sync_update frames.  Each builds its frame,   *)
(* then awaits the connection's send lock and the drain, and the other     *)
(* task, and changes of the data, run meanwhile.                           *)
(*                                                                         *)
(* A topic's data is abstracted to whether the newest frame built for the  *)
(* device has it; sequence numbers to the order of frames (asyncio.Lock    *)
(* admits waiters in order); the delivery window, which is measured from   *)
(* the start of a flush, to whether it is still closed.                    *)
(***************************************************************************)
EXTENDS Naturals, Sequences, FiniteSets

CONSTANTS Topic,       \* the topics of the Agent
          Subscribable \* those whose capabilities the session negotiated

ASSUME TopicAssumption == Subscribable \subseteq Topic

VARIABLES alive,          \* the session is current and its writer open
          subscriptions,  \* DeviceSession.subscriptions
          pending_topics, \* DeviceSession.pending_topics
          closed,         \* topics sent less than min_interval_ms ago
          sends,          \* frames waiting for the send lock or the drain
          todo,           \* what the flush has still to visit
          sending,        \* the topics of the update the flush awaits
          told,           \* device: the topics of the last answer it got
          stale,          \* topics that changed after their newest frame was built
          overlooked      \* those that last changed while that frame, an update,
                          \* was being sent

topicVars == <<subscriptions, pending_topics, closed>>
flushVars == <<todo, sending>>
newsVars == <<stale, overlooked>>
syncVars == <<alive, topicVars, sends, flushVars, told, newsVars>>

Update(t) == [t |-> "sync_update", topics |-> {t}]
Snapshot(t) == [t |-> "sync_snapshot", topics |-> {t}]
Answer(T) == [t |-> "sync_subscribed", topics |-> T]   \* or sync_unsubscribed
Frame == [t : {"sync_update", "sync_snapshot", "sync_subscribed"},
          topics : SUBSET Topic]

InFlight(kinds) == \E i \in DOMAIN sends : sends[i].t \in kinds

(* Never more than one frame of each task: both await what they send.      *)
SyncTypeOK ==
  /\ alive \in BOOLEAN
  /\ subscriptions \in SUBSET Subscribable
  /\ pending_topics \in SUBSET Topic
  /\ closed \in SUBSET Topic
  /\ sends \in Seq(Frame) /\ Len(sends) <= 2
  /\ todo \in SUBSET Topic
  /\ sending \in {{}} \cup {{t} : t \in Topic}
  /\ told \in SUBSET Topic
  /\ stale \in SUBSET Topic /\ overlooked \in SUBSET Topic

SyncInit ==
  /\ alive = TRUE
  /\ subscriptions = {} /\ pending_topics = {} /\ closed = {}
  /\ sends = <<>>
  /\ todo = {} /\ sending = {}
  /\ told = {}
  /\ stale = Topic /\ overlooked = {}

-----------------------------------------------------------------------------
(* A frame is built from the data of t as it is.                           *)
Built(t) == stale' = stale \ {t} /\ overlooked' = overlooked \ {t}

(* The session's task.                                                     *)

(* It reads the next message when its last answer is sent.                 *)
Reads == alive /\ ~InFlight({"sync_snapshot", "sync_subscribed"})

(* sync_req: the data is taken before the send is awaited.                 *)
Request(t) ==
  /\ Reads
  /\ sends' = Append(sends, Snapshot(t))
  /\ Built(t)
  /\ UNCHANGED <<alive, topicVars, flushVars, told>>

(* sync_subscribe answers with all the session's topics.                   *)
(* MUTANT: it answers with those just accepted.                            *)
SubscribedNow(T) == T

Subscribed(T) == subscriptions \cup T

Subscribe(T) ==
  LET accepted == T \cap Subscribable
  IN  /\ Reads
      /\ subscriptions' = subscriptions \cup accepted
      /\ pending_topics' = pending_topics \cup accepted
      /\ sends' = Append(sends, Answer(Subscribed(accepted)))
      /\ UNCHANGED <<alive, closed, flushVars, told, newsVars>>

(* sync_unsubscribe from T: the topics, their pending updates and their    *)
(* delivery windows go.                                                    *)
Unsubscribe(T) ==
  /\ Reads
  /\ subscriptions' = subscriptions \ T
  /\ pending_topics' = pending_topics \ T
  /\ closed' = closed \ T
  /\ sends' = Append(sends, Answer(subscriptions \ T))
  /\ UNCHANGED <<alive, flushVars, told, newsVars>>

-----------------------------------------------------------------------------
(* The periodic task: _flush_topic_subscriptions, for this session.        *)

(* What may be sent of the topics the flush still has to visit.            *)
(* MUTANT: unsubscribing during the flush goes unnoticed.                  *)
ReadyUnchecked(T, C) == T \ C

Ready(T, C) == (T \cap subscriptions) \ C

(* Skipping a topic: one nobody subscribed to is no longer pending, one    *)
(* whose window is closed stays so.                                        *)
(* MUTANT: a topic whose window is closed is dropped.                      *)
SkipDrops(P, S) == P \ S

Skip(P, S) == P \ (S \ subscriptions)

(* The flush goes on, with T to visit, P pending and the windows C: in     *)
(* some order it skips topics until it sends one or has seen them all.     *)
FlushOn(T, P, C) ==
  /\ closed' = C
  /\ \/ \E t \in Ready(T, C), S \in SUBSET (T \ Ready(T, C)) :
          /\ sending' = {t}
          /\ todo' = T \ (S \cup {t})
          /\ pending_topics' = Skip(P, S)
          /\ sends' = Append(sends, Update(t))
          /\ Built(t)
     \/ /\ Ready(T, C) = {}
        /\ sending' = {}
        /\ todo' = {}
        /\ pending_topics' = Skip(P, T)
        /\ UNCHANGED <<sends, newsVars>>

FlushReach ==
  /\ sending = {}
  /\ alive
  /\ pending_topics # {}
  /\ FlushOn(pending_topics, pending_topics, closed)
  /\ UNCHANGED <<alive, subscriptions, told>>

(* The update has been sent: its window starts and it is not pending.      *)
FlushResume ==
  /\ sending # {}
  /\ ~InFlight({"sync_update"})
  /\ IF alive
     THEN FlushOn(todo, pending_topics \ sending, closed \cup sending)
     ELSE /\ sending' = {}
          /\ todo' = {}
          /\ UNCHANGED <<pending_topics, closed, sends, newsVars>>
  /\ UNCHANGED <<alive, subscriptions, told>>

(* min_interval_ms have passed since the flush that sent t began.          *)
WindowPasses(t) ==
  /\ sending = {}
  /\ t \in closed
  /\ closed' = closed \ {t}
  /\ UNCHANGED <<alive, subscriptions, pending_topics, sends, flushVars, told, newsVars>>

-----------------------------------------------------------------------------
(* The data of the topics T changes: they become pending for every session.*)
Change(T) ==
  /\ alive
  /\ stale' = stale \cup T
  /\ overlooked' = (overlooked \ T) \cup (T \cap sending)
  /\ pending_topics' = pending_topics \cup T
  /\ UNCHANGED <<alive, subscriptions, closed, sends, flushVars, told>>

(* A frame has been written and drained; the device reads it.              *)
Sent ==
  /\ sends # <<>>
  /\ sends' = Tail(sends)
  /\ told' = IF Head(sends).t = "sync_subscribed" THEN Head(sends).topics ELSE told
  /\ UNCHANGED <<alive, topicVars, flushVars, newsVars>>

(* A send fails or times out, the link drops, or the session is replaced,  *)
(* unpaired or stopped: it is cleaned up and every send of it fails from   *)
(* then on.                                                                *)
End ==
  /\ alive
  /\ alive' = FALSE
  /\ sends' = <<>>
  /\ subscriptions' = {}
  /\ pending_topics' = {}
  /\ UNCHANGED <<closed, flushVars, told, newsVars>>

SyncNext ==
  \/ \E t \in Topic : Request(t)
  \/ \E T \in SUBSET Topic : Subscribe(T) \/ Unsubscribe(T) \/ Change(T)
  \/ FlushReach \/ FlushResume
  \/ \E t \in Topic : WindowPasses(t)
  \/ Sent \/ End

(* The periodic task comes round, a send ends within its timeout, and the  *)
(* time of a window passes however often the task has come round.          *)
SyncFairness ==
  /\ WF_syncVars(FlushReach) /\ WF_syncVars(FlushResume)
  /\ WF_syncVars(Sent)
  /\ \A t \in Topic : SF_syncVars(WindowPasses(t))

SyncSpec == SyncInit /\ [][SyncNext]_syncVars /\ SyncFairness

-----------------------------------------------------------------------------
(* What the device was last told is what the Agent goes by, but for the    *)
(* answer still on its way ("sync_unsubscribe returns the remaining topic  *)
(* set", PROTOCOL.md).                                                     *)
ToldMatches ==
  alive /\ ~InFlight({"sync_subscribed"}) => told = subscriptions

(* The device never gets an update of a topic it has been told it does not *)
(* subscribe to, whatever was in flight when it unsubscribed.              *)
UpdatesOnlyWhileTold ==
  [][sends # <<>> /\ alive' /\ Len(sends') < Len(sends) /\ Head(sends).t = "sync_update"
       => Head(sends).topics \subseteq told]_syncVars

(* A pending topic the session subscribes to is sent, or unsubscribed, or  *)
(* the session ends: no topic starves behind the others or its window.     *)
PendingIsSent ==
  \A t \in Topic :
    (t \in pending_topics \cap subscriptions)
      ~> (t \in sending \/ t \notin subscriptions)

(* "updates are merged and rate-limited per session" (ARCHITECTURE.md):    *)
(* merged, not lost.  A subscribed topic whose newest frame is out of date *)
(* is pending, however subscriptions, flushes and closed windows           *)
(* interleave.  There is one exception, and it is the code's: a change     *)
(* during the send of an update of its topic is dropped when the send ends *)
(* (server.py:1355), and the device hears of it with the next change only. *)
ChangesArePending == subscriptions \cap (stale \ overlooked) \subseteq pending_topics
=============================================================================
