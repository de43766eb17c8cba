--------------------------- MODULE ProgressRelay ---------------------------
(***************************************************************************)
(* How a viewer learns what became of its job: the writers of the row      *)
(* (run_pipeline, cancel_job) publish each change on Redis, a thread of    *)
(* the API server relays it to JobProgressManager, which broadcasts it to  *)
(* the sockets of websocket_job_handler; useJobWebSocket reconnects and    *)
(* asks for what it missed.                                                *)
(*                                                                         *)
(* The coroutines of the event loop interleave at their awaits only; the   *)
(* writers and the subscriber thread interleave with everything.           *)
(***************************************************************************)
EXTENDS Selection, FiniteSets, SequencesExt

CONSTANTS
    Outcomes,       \* the terminal statuses that are written
    MaxWrites,      \* bound on the changes of the row
    MaxSockets,     \* bound on the connections the viewer opens
    MaxHistory,     \* _MAX_EVENT_HISTORY
    ThreadHasLoop,  \* does get_running_loop() return in the subscriber thread?
    Losses          \* may connections and the subscriber thread break?

ASSUME RelayAssumption ==
    /\ Outcomes \subseteq {"completed", "failed", "cancelled"}
    /\ {MaxWrites, MaxSockets} \subseteq Nat /\ MaxHistory \in Nat \ {0}
    /\ {ThreadHasLoop, Losses} \subseteq BOOLEAN

Sockets  == 1..MaxSockets
Terminal == {"completed", "failed", "cancelled"}
None     == 0

VARIABLES
    log,        \* the statuses written to the row, the last one is its own
    unsent,     \* changes (indices of log) their writer has not yet published
    bus,        \* published changes on their way to the subscriber thread
    thread,     \* is the subscriber thread alive?
    scheduled,  \* changes whose broadcast call_soon_threadsafe has scheduled
    seq,        \* _seq of the job
    events,     \* _events of the job
    conns,      \* _connections of the job
    casts,      \* broadcasts under way: event, sockets to go, sockets found dead
    sock,       \* the connections: handler and wire
    hook,       \* useJobWebSocket: its socket, lastSeqRef, phase
    view        \* what App shows: "open", "settled", or "stuck"

vars == <<log, unsent, bus, thread, scheduled, seq, events, conns, casts,
          sock, hook, view>>
source  == <<log, unsent, bus, thread, scheduled>>
manager == <<seq, events, conns, casts>>
client  == <<hook, view>>

\* What a socket carries: the change it tells of and its sequence number.
Message(change, n) == [change |-> change, seq |-> n]
StatusOf(m) == log[m.change]

\* A connection: where its handler is, the last_seq presented, the change of
\* the row it was told or is about to be, the number of the registration, what
\* is still to be replayed, what was handed to the wire, what is on it, and
\* whether it is up.
NoSocket == [pc |-> "none", since |-> None, read |-> None, at |-> None,
             todo |-> << >>, told |-> {}, wire |-> << >>, up |-> FALSE]

Init ==
    /\ log = <<"pending">>
    /\ unsent = {} /\ bus = << >> /\ thread = "alive" /\ scheduled = << >>
    /\ seq = 0 /\ events = << >> /\ conns = {} /\ casts = {}
    /\ sock = [s \in Sockets |-> NoSocket]
    /\ hook = [phase |-> "timer", socket |-> None, lastSeq |-> 0]
    /\ view = "open"
-----------------------------------------------------------------------------
(* The writers: the row first, then the channel. *)

\* A progress, a retry or an outcome; that a worker may overwrite the status
\* cancelled is the subject of JobLifecycle, here nothing follows an outcome.
Write(s) ==
    /\ Len(log) <= MaxWrites /\ Last(log) \notin Terminal
    /\ log' = Append(log, s)
    /\ unsent' = unsent \cup {Len(log) + 1}
    /\ UNCHANGED <<bus, thread, scheduled, manager, sock, client>>

\* _publish_progress: Redis hands it to the subscriber if there is one.
Publish(v) ==
    /\ v \in unsent
    /\ unsent' = unsent \ {v}
    /\ bus' = IF thread = "alive" THEN Append(bus, v) ELSE bus
    /\ UNCHANGED <<log, thread, scheduled, manager, sock, client>>

\* broadcast_progress in the subscriber thread: dropped without connections;
\* the RuntimeError of get_running_loop is swallowed.
Relay ==
    /\ bus # << >>
    /\ bus' = Tail(bus)
    /\ scheduled' = IF conns # {} /\ ThreadHasLoop
                      THEN Append(scheduled, Head(bus)) ELSE scheduled
    /\ UNCHANGED <<log, unsent, thread, manager, sock, client>>

\* Any exception ends the thread; nothing starts it again.
ThreadDies ==
    /\ Losses /\ thread = "alive"
    /\ thread' = "dead" /\ bus' = << >>
    /\ UNCHANGED <<log, unsent, scheduled, manager, sock, client>>
-----------------------------------------------------------------------------
(* The event loop. *)

\* From job_store.get to its first send a handler awaits nothing that waits.
LoopFreeMutant == TRUE
LoopFree == \A s \in Sockets : sock[s].pc # "read"

\* A message is handed to the wire of s; a broken one loses it.
Told(s, m) == IF sock[s].up
                THEN [sock[s] EXCEPT !.told = @ \cup {m.seq}, !.wire = Append(@, m)]
                ELSE sock[s]

\* Nothing of a handler that is gone matters, but that it raised.
Gone(pc) == [NoSocket EXCEPT !.pc = pc]

\* broadcast, up to its first send: under the lock.
BroadcastStarts ==
    /\ LoopFree /\ scheduled # << >>
    /\ LET e == Message(Head(scheduled), seq + 1)
           all == Append(events, e)
       IN /\ events' = IF Len(all) > MaxHistory THEN Tail(all) ELSE all
          /\ casts' = IF conns = {} THEN casts
                      ELSE casts \cup {[event |-> e, left |-> conns, dead |-> {}]}
    /\ seq' = seq + 1
    /\ scheduled' = Tail(scheduled)
    /\ UNCHANGED <<log, unsent, bus, thread, conns, sock, client>>

\* One send_text: on a broken connection it raises or loses the message.  After
\* the last one the connections found dead are unregistered.
BroadcastSends(c, s) ==
    /\ LoopFree /\ c \in casts /\ s \in c.left
    /\ \E raises \in {FALSE} \cup {~sock[s].up} :
          LET dead == IF raises THEN c.dead \cup {s} ELSE c.dead
              last == c.left = {s}
          IN /\ casts' = (casts \ {c}) \cup
                   IF last THEN {} ELSE {[c EXCEPT !.left = @ \ {s}, !.dead = dead]}
             /\ conns' = IF last THEN conns \ dead ELSE conns
             /\ sock' = IF raises THEN sock ELSE [sock EXCEPT ![s] = Told(s, c.event)]
    /\ UNCHANGED <<source, seq, events, client>>

\* websocket_job_handler: the token is refused or late (4001), or the wire
\* broke before it came.
HandlerRefuses(s) ==
    /\ LoopFree /\ sock[s].pc = "auth" /\ (Losses \/ ~sock[s].up)
    /\ sock' = [sock EXCEPT ![s] = Gone("over")]
    /\ UNCHANGED <<source, manager, client>>

\* job_store.get
HandlerReads(s) ==
    /\ LoopFree /\ sock[s].pc = "auth" /\ sock[s].up
    /\ sock' = [sock EXCEPT ![s].pc = "read", ![s].read = Len(log)]
    /\ UNCHANGED <<source, manager, client>>

\* get_events_since
SinceMutant(n) == Selected(events, {i \in DOMAIN events : events[i].seq > n + 1})
Since(n) == Selected(events, {i \in DOMAIN events : events[i].seq > n})

\* What a new connection is told first: what it missed, or else the row.
Missed(s) == IF sock[s].since > 0 THEN Since(sock[s].since) ELSE << >>

\* The first of the messages is sent; after the last one the handler serves.
Sends(s, msgs) ==
    [Told(s, Head(msgs)) EXCEPT !.todo = Tail(msgs),
        !.pc = IF Len(msgs) = 1 THEN "serving" ELSE "replay"]

FirstSend(s) ==
    IF Missed(s) # << >>
      THEN [Sends(s, Missed(s)) EXCEPT !.at = seq, !.read = None]
      ELSE [Sends(s, <<Message(sock[s].read, seq)>>) EXCEPT !.at = seq]

\* connect, and the first send: when it raises, nothing undoes the connect.
HandlerRegisters(s) ==
    /\ sock[s].pc = "read"
    /\ conns' = conns \cup {s}
    /\ \E raises \in {FALSE} \cup {~sock[s].up} :
          sock' = [sock EXCEPT ![s] =
                      IF raises THEN Gone("raised") ELSE FirstSend(s)]
    /\ UNCHANGED <<source, seq, events, casts, client>>

HandlerReplays(s) ==
    /\ LoopFree /\ sock[s].pc = "replay"
    /\ \E raises \in {FALSE} \cup {~sock[s].up} :
          sock' = [sock EXCEPT ![s] =
                      IF raises THEN Gone("raised") ELSE Sends(s, @.todo)]
    /\ UNCHANGED <<source, manager, client>>

\* WebSocketDisconnect, and disconnect in the finally clause.
HandlerEndsMutant(s) ==
    /\ LoopFree /\ sock[s].pc = "serving" /\ ~sock[s].up
    /\ sock' = [sock EXCEPT ![s] = Gone("over")]
    /\ UNCHANGED <<source, manager, client>>
HandlerEnds(s) ==
    /\ LoopFree /\ sock[s].pc = "serving" /\ ~sock[s].up
    /\ sock' = [sock EXCEPT ![s] = Gone("over")]
    /\ conns' = conns \ {s}
    /\ UNCHANGED <<source, seq, events, casts, client>>
-----------------------------------------------------------------------------
(* useJobWebSocket and App. *)

\* connect and onopen: the token and lastSeqRef are sent.
HookConnects(s) ==
    /\ hook.phase = "timer" /\ sock[s].pc = "none"
    /\ \A t \in 1..(s - 1) : sock[t].pc # "none"
    /\ hook' = [hook EXCEPT !.phase = "open", !.socket = s]
    /\ sock' = [sock EXCEPT ![s] = [@ EXCEPT !.pc = "auth", !.since = hook.lastSeq, !.up = TRUE]]
    /\ UNCHANGED <<source, manager, view>>

\* The connection breaks; what was on the wire is lost.
WireBreaks(s) ==
    /\ Losses /\ sock[s].up
    /\ sock' = [sock EXCEPT ![s].up = FALSE, ![s].wire = << >>, ![s].told = {}]
    /\ UNCHANGED <<source, manager, client>>

\* onclose
HookCloses ==
    /\ hook.phase = "open" /\ ~sock[hook.socket].up
    /\ hook' = [hook EXCEPT !.phase = "timer", !.socket = None]
    /\ UNCHANGED <<source, manager, sock, view>>

\* onmessage, and onWsMessage in App: an outcome ends the subscription; for a
\* completed job the result is still to be fetched, and when that fails nothing
\* asks again.
HookReceives ==
    LET s == hook.socket
        m == Head(sock[s].wire)
        final == StatusOf(m) \in Terminal
    IN /\ hook.phase = "open" /\ sock[s].wire # << >>
       /\ hook' = [hook EXCEPT !.lastSeq = m.seq, !.phase = IF final THEN "stopped" ELSE @]
       /\ sock' = [sock EXCEPT ![s].wire = IF final THEN << >> ELSE Tail(@),
                               ![s].up = ~final]
       /\ \E fetched \in {TRUE} \cup {~Losses} :
             view' = CASE ~final -> view
                       [] StatusOf(m) = "completed" /\ ~fetched -> "stuck"
                       [] OTHER -> "settled"
       /\ UNCHANGED <<source, manager>>
-----------------------------------------------------------------------------
Writers   == (\E s \in {"processing"} \cup Outcomes : Write(s))
             \/ \E v \in 1..(MaxWrites + 1) : Publish(v)
Broadcast == BroadcastStarts \/ \E c \in casts, s \in Sockets : BroadcastSends(c, s)
Handler(s) == \/ HandlerRefuses(s) \/ HandlerReads(s) \/ HandlerRegisters(s)
              \/ HandlerReplays(s) \/ HandlerEnds(s)
Hook == HookCloses \/ HookReceives \/ \E s \in Sockets : HookConnects(s)

Next ==
    \/ Writers \/ Relay \/ ThreadDies \/ Broadcast \/ Hook
    \/ \E s \in Sockets : Handler(s) \/ WireBreaks(s)

Spec == Init /\ [][Next]_vars

\* The threads, the event loop and the browser go on; nothing need be written,
\* and nothing need break.
FairSpec ==
    /\ Spec
    /\ \A v \in 1..(MaxWrites + 1) : WF_vars(Publish(v))
    /\ WF_vars(Relay) /\ WF_vars(Broadcast) /\ WF_vars(Hook)
    /\ \A s \in Sockets : WF_vars(Handler(s))
-----------------------------------------------------------------------------
(* Properties. *)

Numbers(seqOfEvents) == {seqOfEvents[i].seq : i \in DOMAIN seqOfEvents}

\* A connected viewer is told of every event: of those of the history it says
\* it missed (get_events_since), or a state read from the row in their place,
\* and of each broadcast after it registered; a live event that overtakes the
\* replay suppresses nothing.
NoEventSkipped ==
    \A s \in Sockets : sock[s].pc \in {"replay", "serving"} /\ sock[s].up =>
        \A i \in DOMAIN events :
            LET n == events[i].seq
            IN \/ n \in sock[s].told \cup Numbers(sock[s].todo)
               \/ \E c \in casts : c.event.seq = n /\ s \in c.left
               \/ n <= sock[s].since
               \/ n <= sock[s].at /\ sock[s].read # None

\* The state a new connection is told is not older than the sequence number
\* given with it: whatever was broadcast up to that number had been written
\* when the row was read, although the row is read before the registration.
InitialFresh ==
    \A s \in Sockets : sock[s].read # None =>
        LET at == IF sock[s].pc = "read" THEN seq ELSE sock[s].at
        IN \A i \in DOMAIN events : events[i].seq <= at => events[i].change <= sock[s].read

\* A connection whose handler is gone stays registered only if a send before
\* the try block raised: every other way out of the handler unregisters it,
\* whatever broadcasts are under way.
NoDeadConnection ==
    \A s \in conns : sock[s].pc \in {"replay", "serving", "raised"}

\* main.py:131, "WebSocket으로 작업 진행률을 실시간 전달한다": a viewer that stays
\* connected learns the outcome of its job.
OutcomeShown == (Last(log) \in Terminal) ~> (view = "settled")
=============================================================================
