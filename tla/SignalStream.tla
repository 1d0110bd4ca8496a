---------------------------- MODULE SignalStream ----------------------------
(***************************************************************************)
(* The in-process signal event bus (autonomous_runner/signal_event_bus.py) *)
(* and the Server-Sent-Events stream of the dashboard that feeds browsers  *)
(* from it (autonomous_runner/dashboard.py, signal_stream).                *)
(*                                                                         *)
(* One thread publishes (the runner); every connection runs a generator on *)
(* the dashboard's event loop.  The bus lock covers the numbering of an    *)
(* event and the copy of the subscriber table, but not the callbacks, and  *)
(* a generator suspends at every yield and every queue.get().              *)
(*                                                                         *)
(* An event is its id; ids start again at 1 when the process restarts, so  *)
(* the model also tells the incarnation (epoch) of the bus apart.          *)
(***************************************************************************)
EXTENDS Integers, Sequences, FiniteSetsExt

CONSTANTS
    Browser,        \* consumers of the stream
    ReplaySize,     \* replay_buffer_size (deque maxlen)
    QueueSize,      \* maxsize of a connection's asyncio.Queue
    MaxNumbered,    \* bound: events published per epoch
    MaxEpochs       \* bound: incarnations of the process

VARIABLES
    epoch,          \* incarnation of the process
    counter,        \* _event_counter
    replayBuffer,   \* _replay_buffer, oldest first
    listeners,      \* _subscribers: connections registered with the bus
    publishing,     \* publish(): subscribers whose callback is still to run
    conn,           \* "down", "replaying" or "live"
    replay,         \* replayed events the generator has yet to yield
    queue,          \* the connection's queue
    lastSeen,       \* the last event the client received: [epoch, id]
    replayedTo,     \* history: counter when this connection read the buffer
    subscribedAt,   \* history: counter when this connection subscribed
    dropped         \* history: events this connection's full queue refused

numberVars == <<epoch, counter, replayBuffer, publishing>>
connVars == <<conn, replay, queue, replayedTo, subscribedAt, dropped>>
vars == <<numberVars, listeners, connVars, lastSeen>>

Init ==
    /\ epoch = 1
    /\ counter = 0
    /\ replayBuffer = << >>
    /\ listeners = {}
    /\ publishing = {}
    /\ conn = [c \in Browser |-> "down"]
    /\ replay = [c \in Browser |-> << >>]
    /\ queue = [c \in Browser |-> << >>]
    /\ lastSeen = [c \in Browser |-> [epoch |-> 1, id |-> 0]]
    /\ replayedTo = [c \in Browser |-> 0]
    /\ subscribedAt = [c \in Browser |-> 0]
    /\ dropped = [c \in Browser |-> {}]

----------------------------------------------------------------------------
(* SignalEventBus.publish, run by the runner thread *)

\* A buffer that is full one event early.
KeepOneLess(seq, e) ==
    IF Len(seq) < ReplaySize - 1 THEN Append(seq, e) ELSE Append(Tail(seq), e)

\* deque(maxlen=ReplaySize).append
Keep(seq, e) ==
    IF Len(seq) < ReplaySize THEN Append(seq, e) ELSE Append(Tail(seq), e)

\* The locked part: number the event, buffer it, copy the subscriber table.
Publish ==
    /\ publishing = {}
    /\ counter < MaxNumbered
    /\ counter' = counter + 1
    /\ replayBuffer' = Keep(replayBuffer, counter + 1)
    /\ publishing' = listeners
    /\ UNCHANGED <<epoch, listeners, connVars, lastSeen>>

\* on_event: put_nowait, and on QueueFull the event is passed over.
Enqueue(c, e) ==
    IF Len(queue[c]) < QueueSize
      THEN /\ queue' = [queue EXCEPT ![c] = Append(@, e)]
           /\ UNCHANGED dropped
      ELSE /\ dropped' = [dropped EXCEPT ![c] = @ \cup {e}]
           /\ UNCHANGED queue

\* A loop that a full queue's exception ends for the callbacks after it.
DeliverUntilFull(c) ==
    /\ c \in publishing
    /\ publishing' = IF Len(queue[c]) < QueueSize THEN publishing \ {c} ELSE {}
    /\ Enqueue(c, counter)
    /\ UNCHANGED <<epoch, counter, replayBuffer, listeners, conn, replay,
                   replayedTo, subscribedAt, lastSeen>>

\* One callback of the loop over the copied table, outside the lock.
Deliver(c) ==
    /\ c \in publishing
    /\ publishing' = publishing \ {c}
    /\ Enqueue(c, counter)
    /\ UNCHANGED <<epoch, counter, replayBuffer, listeners, conn, replay,
                   replayedTo, subscribedAt, lastSeen>>

----------------------------------------------------------------------------
(* signal_stream's event_generator, one per connection *)

\* The numbers in the buffer grow, so that the later ones are those from the
\* first later one on.
Rest(later) == SubSeq(replayBuffer, Min(later \cup {Len(replayBuffer) + 1}), Len(replayBuffer))

\* get_replay_buffer with >= for >: the last event comes again.
EventsFrom(id) == Rest({k \in DOMAIN replayBuffer : replayBuffer[k] >= id})

\* get_replay_buffer(since_id): under the lock.
EventsAfter(id) == Rest({k \in DOMAIN replayBuffer : replayBuffer[k] > id})

\* A client connects and asks, as last_event_id, for what comes after the last
\* event it received; the generator starts and reads the replay buffer.
Connect(c) ==
    /\ conn[c] = "down"
    /\ conn' = [conn EXCEPT ![c] = "replaying"]
    /\ replay' = [replay EXCEPT ![c] = EventsAfter(lastSeen[c].id)]
    /\ queue' = [queue EXCEPT ![c] = << >>]
    /\ replayedTo' = [replayedTo EXCEPT ![c] = counter]
    /\ dropped' = [dropped EXCEPT ![c] = {}]
    /\ UNCHANGED <<numberVars, listeners, subscribedAt, lastSeen>>

Receive(c, e) == lastSeen' = [lastSeen EXCEPT ![c] = [epoch |-> epoch, id |-> e]]

\* The generator yields a replayed event.
YieldReplay(c) ==
    /\ conn[c] = "replaying"
    /\ replay[c] # << >>
    /\ Receive(c, Head(replay[c]))
    /\ replay' = [replay EXCEPT ![c] = Tail(@)]
    /\ UNCHANGED <<numberVars, listeners, conn, queue, replayedTo, subscribedAt,
                   dropped>>

\* Only when the replay is exhausted does the generator subscribe.
Subscribe(c) ==
    /\ conn[c] = "replaying"
    /\ replay[c] = << >>
    /\ conn' = [conn EXCEPT ![c] = "live"]
    /\ listeners' = listeners \cup {c}
    /\ subscribedAt' = [subscribedAt EXCEPT ![c] = counter]
    /\ UNCHANGED <<numberVars, replay, queue, replayedTo, dropped, lastSeen>>

\* The generator takes an event from its queue and yields it.
YieldLive(c) ==
    /\ conn[c] = "live"
    /\ queue[c] # << >>
    /\ Receive(c, Head(queue[c]))
    /\ queue' = [queue EXCEPT ![c] = Tail(@)]
    /\ UNCHANGED <<numberVars, listeners, conn, replay, replayedTo, subscribedAt,
                   dropped>>

\* The client goes away; the generator unsubscribes in its finally clause.  A
\* callback still to come would fill the queue of a generator that is gone.
Disconnect(c) ==
    /\ conn[c] # "down"
    /\ conn' = [conn EXCEPT ![c] = "down"]
    /\ listeners' = listeners \ {c}
    /\ publishing' = publishing \ {c}
    /\ replay' = [replay EXCEPT ![c] = << >>]
    /\ queue' = [queue EXCEPT ![c] = << >>]
    /\ UNCHANGED <<epoch, counter, replayBuffer, replayedTo, subscribedAt, dropped,
                   lastSeen>>

\* The process restarts: bus and connections are gone, clients remember.
Restart ==
    /\ epoch < MaxEpochs
    /\ epoch' = epoch + 1
    /\ counter' = 0
    /\ replayBuffer' = << >>
    /\ listeners' = {}
    /\ publishing' = {}
    /\ conn' = [c \in Browser |-> "down"]
    /\ replay' = [c \in Browser |-> << >>]
    /\ queue' = [c \in Browser |-> << >>]
    /\ replayedTo' = [c \in Browser |-> 0]
    /\ subscribedAt' = [c \in Browser |-> 0]
    /\ dropped' = [c \in Browser |-> {}]
    /\ UNCHANGED lastSeen

BrowserStep(c) ==
    \/ Deliver(c)
    \/ Connect(c)
    \/ YieldReplay(c)
    \/ Subscribe(c)
    \/ YieldLive(c)
    \/ Disconnect(c)

Next == Publish \/ Restart \/ \E c \in Browser : BrowserStep(c)

Spec == Init /\ [][Next]_vars

----------------------------------------------------------------------------
(* Properties *)

Event == 1..MaxNumbered

\* Types of all variables; only live connections are registered or called.
TypeOK ==
    /\ epoch \in 1..MaxEpochs
    /\ counter \in 0..MaxNumbered
    /\ replayBuffer \in Seq(Event) /\ Len(replayBuffer) <= ReplaySize
    /\ listeners = {c \in Browser : conn[c] = "live"}
    /\ publishing \subseteq listeners
    /\ conn \in [Browser -> {"down", "replaying", "live"}]
    /\ \A c \in Browser :
         /\ replay[c] \in Seq(Event)
         /\ queue[c] \in Seq(Event) /\ Len(queue[c]) <= QueueSize
         /\ dropped[c] \subseteq Event
    /\ lastSeen \in [Browser -> [epoch : 1..MaxEpochs, id : 0..MaxNumbered]]
    /\ replayedTo \in [Browser -> 0..MaxNumbered]
    /\ subscribedAt \in [Browser -> 0..MaxNumbered]

\* What a live connection is still going to see, in order: its queue, then the
\* event whose callback has not run yet.
Coming(c) ==
    queue[c] \o (IF c \in publishing THEN <<counter>> ELSE << >>)

\* Everything published since a connection subscribed was received, is coming,
\* or was refused by its full queue, and what is coming is in order and comes
\* once: neither the copied subscriber table nor the unlocked callbacks lose,
\* repeat or reorder an event.
LiveStreamComplete ==
    \A c \in Browser : conn[c] = "live" =>
        LET got == IF lastSeen[c].epoch = epoch THEN lastSeen[c].id ELSE 0
            from == IF got > subscribedAt[c] THEN got ELSE subscribedAt[c]
            coming == Coming(c)
        IN  /\ \A j, k \in DOMAIN coming : j < k => coming[j] < coming[k]
            /\ {coming[k] : k \in DOMAIN coming} = ((from + 1)..counter) \ dropped[c]

\* A client receives events in the order of publication and never twice, over
\* all its connections and over restarts of the process.
InOrderOnce ==
    [][\A c \in Browser :
          YieldReplay(c) \/ YieldLive(c) =>
            \/ lastSeen'[c].epoch > lastSeen[c].epoch
            \/ lastSeen'[c].id > lastSeen[c].id]_vars

\* A client that follows the stream misses an event only where the design lets
\* it: the event had left the replay buffer (or precedes the id the client
\* asked for) when the buffer was read, was published between that and the
\* subscription, or met a full queue.
GapsExplained ==
    [][\A c \in Browser : \A e \in Event :
          (/\ lastSeen'[c] # lastSeen[c]
           /\ lastSeen[c].epoch = epoch
           /\ lastSeen[c].id < e /\ e < lastSeen'[c].id)
            => \/ e <= replayedTo[c] - ReplaySize
               \/ e > replayedTo[c] /\ e <= subscribedAt[c]
               \/ e \in dropped[c]]_vars

\* dashboard.py line 222: "New connections can replay missed events via
\* last_event_id".  An event that is in the replay buffer when the client
\* receives a later one was not skipped.
NoReplayableGap ==
    [][\A c \in Browser : \A k \in DOMAIN replayBuffer :
          (lastSeen'[c] # lastSeen[c] /\ lastSeen[c].epoch = epoch)
            => ~(lastSeen[c].id < replayBuffer[k] /\ replayBuffer[k] < lastSeen'[c].id)]_vars

=============================================================================
