------------------------------ MODULE AgentGateway ------------------------------
(***************************************************************************)
(* The event streams of agent_gateway/main.py for the browsers behind one  *)
(* IP address: connection_tracker, session_manager with its cleanup, and   *)
(* the generators that carry the events of Redis pub/sub to a connection.  *)
(*                                                                         *)
(* A generator runs until it yields, and then rests until the connection   *)
(* has taken what it yielded, however long that lasts.  Heartbeats are due *)
(* at any time.  The queue of a session is never filled (nothing in the    *)
(* repository puts anything in), so that backpressure never shows; a       *)
(* request that check refuses for its rate changes nothing here.           *)
(***************************************************************************)
EXTENDS Integers, Sequences, FiniteSets

CONSTANTS
    Connection,        \* requests for a stream
    MaxConnections,    \* MAX_CONNECTIONS_PER_IP
    MaxBroadcasts,     \* bound: events published
    MaxHeartbeats      \* bound: heartbeats of a connection

VARIABLES
    stream,        \* stream[c]: where the generator of c stands
    sessions,      \* the connections whose session is kept
    sequence,      \* sequence[c]: "sequence" of the session
    resumeAfter,   \* resumeAfter[c]: the number in the Last-Event-ID of c
    inbox,         \* inbox[c]: pub/sub messages not yet polled
    connections,   \* connection_tracker's count for the address
    broadcasts,    \* events published so far
    shown          \* shown[c]: what c was given, number and event (0 for none)

gatewayVars == <<stream, sessions, sequence, resumeAfter, inbox, connections, broadcasts, shown>>

Init ==
    /\ stream = [c \in Connection |-> "none"]
    /\ sessions = {}
    /\ sequence = [c \in Connection |-> 0]
    /\ resumeAfter = [c \in Connection |-> 0]
    /\ inbox = [c \in Connection |-> <<>>]
    /\ connections = 0
    /\ broadcasts = 0
    /\ shown = [c \in Connection |-> <<>>]

\* A generator that has begun and not ended; one that has subscribed; one that
\* rests at a yield.
Begun(c) == stream[c] \in {"greeting", "polling", "beating", "writing"}
Subscribed(c) == stream[c] \in {"polling", "beating", "writing"}
Resting(c) == stream[c] \in {"greeting", "beating", "writing"}

\* What a browser may send as its Last-Event-ID: nothing, or the last number it
\* was shown on a connection that has ended.
LastEventIds ==
    {0} \cup {shown[d][Len(shown[d])].number :
                d \in {e \in Connection : stream[e] = "ended" /\ shown[e] # <<>>}}

\* The connection is counted when the stream begins.
OpenUncounted(c) ==
    /\ stream[c] = "none"
    /\ connections < MaxConnections
    /\ stream' = [stream EXCEPT ![c] = "accepted"]
    /\ sessions' = sessions \cup {c}
    /\ UNCHANGED <<sequence, inbox, connections, resumeAfter, broadcasts, shown>>

\* agent_stream: the limit, the session and the count, with no await between.
Open(c) ==
    /\ stream[c] = "none"
    /\ connections < MaxConnections
    /\ stream' = [stream EXCEPT ![c] = "accepted"]
    /\ sessions' = sessions \cup {c}
    /\ connections' = connections + 1
    /\ \E id \in LastEventIds : resumeAfter' = [resumeAfter EXCEPT ![c] = id]
    /\ UNCHANGED <<sequence, inbox, broadcasts, shown>>

\* next_sequence: 0 when the session is gone.
NextSequence(c) == IF c \in sessions THEN sequence[c] + 1 ELSE 0

\* The number that was given is not kept.
CountedNever(c) == UNCHANGED sequence

Counted(c) ==
    sequence' = IF c \in sessions THEN [sequence EXCEPT ![c] = @ + 1] ELSE sequence

\* The generator yields an event with the next number, and rests.
Yield(c, event, place) ==
    /\ Counted(c)
    /\ shown' = [shown EXCEPT ![c] = Append(@, [number |-> NextSequence(c), event |-> event])]
    /\ stream' = [stream EXCEPT ![c] = place]

\* generate's finally: the connection is not counted any more, the session goes.
End(c) ==
    /\ stream' = [stream EXCEPT ![c] = "ended"]
    /\ sessions' = sessions \ {c}
    /\ connections' = IF connections <= 1 THEN 0 ELSE connections - 1
    /\ inbox' = [inbox EXCEPT ![c] = <<>>]
    /\ UNCHANGED <<sequence, resumeAfter, broadcasts, shown>>

\* The generator begins with session_start, or ends if its session was cleaned up.
Begin(c) ==
    /\ stream[c] = "accepted"
    /\ IF c \in sessions
       THEN /\ Yield(c, 0, "greeting")
            /\ UNCHANGED <<sessions, resumeAfter, inbox, connections, broadcasts>>
       ELSE End(c)

\* The connection breaks before the server begins to iterate over the generator:
\* a generator that has not begun runs no finally.
Abandon(c) ==
    /\ stream[c] = "accepted"
    /\ stream' = [stream EXCEPT ![c] = "abandoned"]
    /\ UNCHANGED <<sessions, sequence, resumeAfter, inbox, connections, broadcasts, shown>>

\* The browser has taken what was yielded: after the greeting the generator
\* subscribes, and it begins another turn of its loop.
Resume(c) ==
    /\ stream[c] \in {"greeting", "writing"}
    /\ stream' = [stream EXCEPT ![c] = "polling"]
    /\ UNCHANGED <<sessions, sequence, resumeAfter, inbox, connections, broadcasts, shown>>

Heartbeats(c) == Cardinality({k \in DOMAIN shown[c] : shown[c][k].event = 0}) - 1

\* A turn of the loop: its session must be there, and a heartbeat may be due.
Heartbeat(c) ==
    /\ stream[c] = "polling"
    /\ c \in sessions
    /\ Heartbeats(c) < MaxHeartbeats
    /\ Yield(c, 0, "beating")
    /\ UNCHANGED <<sessions, resumeAfter, inbox, connections, broadcasts>>

SessionGone(c) ==
    /\ stream[c] = "polling"
    /\ c \notin sessions
    /\ End(c)

\* The rest of the turn, after a heartbeat without another look at the session:
\* a message is polled, passed over by a filter or for its number, or yielded.
Poll(c) ==
    /\ \/ stream[c] = "polling" /\ c \in sessions
       \/ stream[c] = "beating"
    /\ IF inbox[c] = <<>>
       THEN /\ stream[c] = "beating"
            /\ stream' = [stream EXCEPT ![c] = "polling"]
            /\ UNCHANGED <<sequence, inbox, shown>>
       ELSE /\ inbox' = [inbox EXCEPT ![c] = Tail(@)]
            /\ \/ /\ stream' = [stream EXCEPT ![c] = "polling"]
                  /\ UNCHANGED <<sequence, shown>>
               \/ /\ NextSequence(c) <= resumeAfter[c]
                  /\ stream' = [stream EXCEPT ![c] = "polling"]
                  /\ Counted(c)
                  /\ UNCHANGED shown
               \/ /\ NextSequence(c) > resumeAfter[c]
                  /\ Yield(c, Head(inbox[c]), "writing")
    /\ UNCHANGED <<sessions, resumeAfter, connections, broadcasts>>

\* The browser goes away.
Break(c) == Begun(c) /\ End(c)

\* _cleanup_loop: a session nobody asked for during SESSION_TIMEOUT_SECONDS.  A
\* generator asks every two seconds, unless it rests.
CleanUp(c) ==
    /\ c \in sessions
    /\ stream[c] \in {"accepted", "abandoned"} \/ Resting(c)
    /\ sessions' = sessions \ {c}
    /\ UNCHANGED <<stream, sequence, resumeAfter, inbox, connections, broadcasts, shown>>

\* An agent publishes an event, which Redis gives to who is subscribed.
Broadcast ==
    /\ broadcasts < MaxBroadcasts
    /\ broadcasts' = broadcasts + 1
    /\ inbox' = [c \in Connection |->
                    IF Subscribed(c) THEN Append(inbox[c], broadcasts + 1) ELSE inbox[c]]
    /\ UNCHANGED <<stream, sessions, sequence, resumeAfter, connections, shown>>

Next ==
    \/ Broadcast
    \/ \E c \in Connection :
          \/ Open(c) \/ Begin(c) \/ Abandon(c) \/ Resume(c) \/ Heartbeat(c)
          \/ SessionGone(c) \/ Poll(c) \/ Break(c) \/ CleanUp(c)

Spec == Init /\ [][Next]_gatewayVars

----------------------------------------------------------------------------
(* Properties *)

\* The numbers of a connection grow, whatever its Last-Event-ID and also when its
\* session is cleaned up while the generator rests, and no event comes twice or
\* before an older one ("Event ordering with sequence numbers",
\* agent_gateway/main.py:15).
InOrder ==
    \A c \in Connection :
        \A j, k \in DOMAIN shown[c] :
            j < k => /\ 0 < shown[c][j].number
                     /\ shown[c][j].number < shown[c][k].number
                     /\ shown[c][k].event # 0 => shown[c][j].event < shown[c][k].event

\* The count of the address is that of its connections which have not ended, the
\* abandoned ones included for as long as the process lives, and so no more than
\* the limit are served ("Connection limits per IP (max 5)", main.py:17).
ConnectionsCounted ==
    /\ connections = Cardinality({c \in Connection : stream[c] \notin {"none", "ended"}})
    /\ connections <= MaxConnections
===============================================================================
