------------------------ MODULE ProgressRelayProofs ------------------------
(***************************************************************************)
(* TLAPS proofs about ProgressRelay: whatever connections and threads      *)
(* break, and however broadcasts, replays and reconnections interleave, a  *)
(* connected viewer misses no event of the history.                        *)
(***************************************************************************)
EXTENDS ProgressRelay, SelectionProofs

Messages == [change : Nat, seq : Nat]

Connections ==
    [pc : {"none", "auth", "read", "replay", "serving", "raised", "over"},
     since : Nat, read : Nat, at : Nat, todo : Seq(Messages),
     told : SUBSET Nat, wire : Seq(Messages), up : BOOLEAN]

Types ==
    /\ log \in Seq(Terminal \cup {"pending", "processing"}) /\ Len(log) > 0
    /\ unsent \subseteq Nat /\ bus \in Seq(Nat) /\ scheduled \in Seq(Nat)
    /\ seq \in Nat /\ events \in Seq(Messages) /\ conns \subseteq Sockets
    /\ \A c \in casts : c \in [event : Messages, left : SUBSET Sockets, dead : SUBSET Sockets]
    /\ sock \in [Sockets -> Connections]
    /\ hook \in [phase : {"timer", "open", "stopped"}, socket : Nat, lastSeq : Nat]
    /\ hook.phase = "open" => hook.socket \in Sockets

\* What is under way tells of changes the row has already had, and no number
\* is in use that the manager has not given out.
Bounds ==
    /\ unsent \subseteq 1..Len(log)
    /\ \A i \in DOMAIN bus : bus[i] \in 1..Len(log)
    /\ \A i \in DOMAIN scheduled : scheduled[i] \in 1..Len(log)
    /\ \A i \in DOMAIN events : events[i].change <= Len(log) /\ events[i].seq <= seq
    /\ \A s \in Sockets : sock[s].at <= seq

\* A connection that is gone does not come back, and a handler holds what its
\* next step needs.
Wires ==
    \A s \in Sockets :
        /\ sock[s].wire # << >> => sock[s].up
        /\ sock[s].up => sock[s].pc # "none"
        /\ sock[s].pc = "read" => sock[s].read # None
        /\ sock[s].pc = "replay" => sock[s].todo # << >>

\* Only a connection that is gone is taken out of the broadcasts.
Registered ==
    /\ \A s \in Sockets : sock[s].pc \in {"replay", "serving"} /\ sock[s].up => s \in conns
    /\ \A c \in casts :
          /\ \A s \in c.left : sock[s].pc # "none"
          /\ \A s \in c.dead : sock[s].pc # "none" /\ ~sock[s].up

RelayInv ==
    /\ Types /\ Bounds /\ Wires /\ Registered
    /\ NoEventSkipped /\ InitialFresh /\ NoDeadConnection
-----------------------------------------------------------------------------
LEMMA InitInv == Init => RelayInv
<1> SUFFICES ASSUME Init PROVE RelayInv
  OBVIOUS
<1>0. /\ NoSocket \in Connections /\ \A s \in Sockets : sock[s] = NoSocket
      /\ << >> \in Seq(Messages) /\ << >> \in Seq(Nat) /\ events = << >>
      /\ bus = << >> /\ scheduled = << >>
  BY DEF Init, NoSocket, Connections, None
<1>1. Types
  <2>1. log \in Seq(Terminal \cup {"pending", "processing"}) /\ Len(log) > 0
    BY DEF Init, Terminal
  <2>2. sock \in [Sockets -> Connections]
    BY <1>0 DEF Init
  <2>3. hook \in [phase : {"timer", "open", "stopped"}, socket : Nat, lastSeq : Nat]
        /\ (hook.phase = "open" => hook.socket \in Sockets)
    BY DEF Init, None
  <2>4. seq \in Nat /\ unsent \subseteq Nat /\ conns \subseteq Sockets /\ casts = {}
    BY DEF Init
  <2> QED
    BY <1>0, <2>1, <2>2, <2>3, <2>4 DEF Types
<1>2. Bounds /\ Wires
  BY <1>0 DEF Init, Bounds, Wires, NoSocket, None
<1>3. Registered /\ NoDeadConnection
  BY <1>0 DEF Init, Registered, NoDeadConnection, NoSocket
<1>4. NoEventSkipped /\ InitialFresh
  BY <1>0 DEF NoEventSkipped, InitialFresh
<1> QED
  BY <1>1, <1>2, <1>3, <1>4 DEF RelayInv

\* What the properties say of sockets and broadcasts that a step leaves alone.
LEMMA Stutters ==
    ASSUME RelayInv, UNCHANGED <<manager, sock, hook>>,
           Len(log') >= Len(log), Len(log') \in Nat
    PROVE  /\ Registered' /\ NoEventSkipped' /\ InitialFresh' /\ NoDeadConnection' /\ Wires'
           /\ \A i \in DOMAIN events' : events'[i].change <= Len(log') /\ events'[i].seq <= seq'
           /\ \A s \in Sockets : sock'[s].at <= seq'
<1>1. Registered' /\ NoDeadConnection' /\ Wires'
  BY DEF RelayInv, Registered, NoDeadConnection, Wires, manager
<1>2. NoEventSkipped'
  BY DEF RelayInv, NoEventSkipped, Numbers, manager
<1>3. InitialFresh'
  BY DEF RelayInv, InitialFresh, manager
<1>4. \A i \in DOMAIN events' : events'[i].change <= Len(log') /\ events'[i].seq <= seq'
  <2>1. events' = events /\ seq' = seq
    BY DEF manager
  <2>2. ASSUME NEW i \in DOMAIN events
        PROVE  events[i].change <= Len(log') /\ events[i].seq <= seq
    <3>1. events[i].change <= Len(log) /\ events[i].seq <= seq
      BY DEF RelayInv, Bounds
    <3>2. events[i] \in Messages /\ Len(log) \in Nat
      BY DEF RelayInv, Types
    <3>3. events[i].change \in Nat
      BY <3>2 DEF Messages
    <3> QED
      BY <3>1, <3>2, <3>3
  <2> QED
    BY <2>1, <2>2
<1>5. \A s \in Sockets : sock'[s].at <= seq'
  BY DEF RelayInv, Bounds, manager
<1> QED
  BY <1>1, <1>2, <1>3, <1>4, <1>5

LEMMA StepWrite ==
    ASSUME RelayInv, NEW s \in {"processing"} \cup Outcomes, Write(s)
    PROVE  RelayInv'
<1>0. /\ UNCHANGED <<bus, thread, scheduled, manager, sock, client>>
      /\ log' = Append(log, s) /\ unsent' = unsent \cup {Len(log) + 1}
      /\ s \in Terminal \cup {"pending", "processing"}
  BY RelayAssumption DEF Write, Terminal
<1>1. /\ log \in Seq(Terminal \cup {"pending", "processing"})
      /\ log' \in Seq(Terminal \cup {"pending", "processing"})
      /\ Len(log) \in Nat /\ Len(log') = Len(log) + 1
  BY <1>0 DEF RelayInv, Types
<1>2. Types'
  <2>1. Len(log') > 0 /\ Len(log) + 1 \in Nat
    BY <1>1
  <2>2. unsent' \subseteq Nat
    BY <1>0, <2>1 DEF RelayInv, Types
  <2>3. /\ bus' = bus /\ scheduled' = scheduled /\ sock' = sock /\ hook' = hook
        /\ seq' = seq /\ events' = events /\ conns' = conns /\ casts' = casts
    BY <1>0 DEF manager, client
  <2> QED
    BY <1>1, <2>1, <2>2, <2>3 DEF RelayInv, Types
<1>3. /\ Registered' /\ NoEventSkipped' /\ InitialFresh' /\ NoDeadConnection' /\ Wires'
      /\ \A i \in DOMAIN events' : events'[i].change <= Len(log') /\ events'[i].seq <= seq'
      /\ \A t \in Sockets : sock'[t].at <= seq'
  <2>1. UNCHANGED <<manager, sock, hook>>
    BY <1>0 DEF client
  <2>2. Len(log') >= Len(log) /\ Len(log') \in Nat
    BY <1>1
  <2> QED
    BY <2>1, <2>2, Stutters
<1>4. Bounds'
  <2>2. 1..Len(log) \subseteq 1..Len(log') /\ Len(log) + 1 \in 1..Len(log')
    BY <1>1
  <2>1. unsent' \subseteq 1..Len(log')
    BY <1>0, <2>2 DEF RelayInv, Bounds
  <2>3. /\ \A i \in DOMAIN bus' : bus'[i] \in 1..Len(log')
        /\ \A i \in DOMAIN scheduled' : scheduled'[i] \in 1..Len(log')
    BY <1>0, <2>2 DEF RelayInv, Bounds
  <2> QED
    BY <1>3, <2>1, <2>3 DEF Bounds
<1> QED
  BY <1>2, <1>3, <1>4 DEF RelayInv

\* Publishing, relaying and the death of the thread move changes along.
LEMMA StepSource ==
    ASSUME RelayInv, (\E v \in 1..(MaxWrites + 1) : Publish(v)) \/ Relay \/ ThreadDies
    PROVE  RelayInv'
<1>0. UNCHANGED <<log, manager, sock, client>>
  BY DEF Publish, Relay, ThreadDies
<1>1. Len(log) \in Nat /\ bus \in Seq(Nat) /\ scheduled \in Seq(Nat) /\ unsent \subseteq Nat
  BY DEF RelayInv, Types
<1>b. /\ \A i \in DOMAIN bus : bus[i] \in 1..Len(log)
      /\ \A i \in DOMAIN scheduled : scheduled[i] \in 1..Len(log)
      /\ unsent \subseteq 1..Len(log)
  BY DEF RelayInv, Bounds
<1> DEFINE Moved == /\ bus' \in Seq(Nat) /\ scheduled' \in Seq(Nat)
                    /\ unsent' \subseteq 1..Len(log)
                    /\ \A i \in DOMAIN bus' : bus'[i] \in 1..Len(log)
                    /\ \A i \in DOMAIN scheduled' : scheduled'[i] \in 1..Len(log)
<1>2. Moved
  <2>1. ASSUME NEW v \in 1..(MaxWrites + 1), Publish(v) PROVE Moved
    <3>1. v \in 1..Len(log) /\ v \in Nat /\ scheduled' = scheduled /\ unsent' \subseteq unsent
      BY <1>b, <2>1 DEF Publish
    <3>2. bus' = bus \/ bus' = Append(bus, v)
      BY <2>1 DEF Publish
    <3>3. /\ Append(bus, v) \in Seq(Nat)
          /\ \A i \in DOMAIN Append(bus, v) : Append(bus, v)[i] \in 1..Len(log)
      BY <1>1, <1>b, <3>1, ListGrows
    <3> QED
      BY <1>1, <1>b, <3>1, <3>2, <3>3
  <2>2. ASSUME Relay PROVE Moved
    <3>1. bus # << >> /\ bus' = Tail(bus) /\ unsent' = unsent
          /\ (scheduled' = scheduled \/ scheduled' = Append(scheduled, Head(bus)))
      BY <2>2 DEF Relay
    <3>2. /\ Tail(bus) \in Seq(Nat) /\ Head(bus) \in Nat /\ Head(bus) \in 1..Len(log)
          /\ \A i \in DOMAIN Tail(bus) : Tail(bus)[i] \in 1..Len(log)
      BY <1>1, <1>b, <3>1, ListShrinks
    <3>3. /\ Append(scheduled, Head(bus)) \in Seq(Nat)
          /\ \A i \in DOMAIN Append(scheduled, Head(bus)) :
                 Append(scheduled, Head(bus))[i] \in 1..Len(log)
      BY <1>1, <1>b, <3>2, ListGrows
    <3> QED
      BY <1>1, <1>b, <3>1, <3>2, <3>3
  <2>3. ASSUME ThreadDies PROVE Moved
    BY <1>1, <1>b, <2>3 DEF ThreadDies
  <2> QED
    BY <2>1, <2>2, <2>3
<1>3. /\ Registered' /\ NoEventSkipped' /\ InitialFresh' /\ NoDeadConnection' /\ Wires'
      /\ \A i \in DOMAIN events' : events'[i].change <= Len(log') /\ events'[i].seq <= seq'
      /\ \A s \in Sockets : sock'[s].at <= seq'
  <2>1. UNCHANGED <<manager, sock, hook>> /\ Len(log') >= Len(log) /\ Len(log') \in Nat
    BY <1>0, <1>1 DEF client
  <2> QED
    BY <2>1, Stutters
<1>4. Bounds'
  BY <1>0, <1>2, <1>3 DEF Bounds
<1>5. Types'
  <2>1. unsent' \subseteq Nat
    BY <1>1, <1>2
  <2> QED
    BY <1>0, <1>2, <2>1 DEF RelayInv, Types, manager, client
<1> QED
  BY <1>3, <1>4, <1>5 DEF RelayInv
-----------------------------------------------------------------------------
(* One socket at a time. *)

\* Nothing the history holds is missing at connection s, be it as in k.
Covered(s, k) ==
    k.pc \in {"replay", "serving"} /\ k.up =>
        \A i \in DOMAIN events :
            LET n == events[i].seq
            IN \/ n \in k.told \cup Numbers(k.todo)
               \/ \E c \in casts : c.event.seq = n /\ s \in c.left
               \/ n <= k.since
               \/ n <= k.at /\ k.read # None

Fresh(k) ==
    k.read # None =>
        LET at == IF k.pc = "read" THEN seq ELSE k.at
        IN \A i \in DOMAIN events : events[i].seq <= at => events[i].change <= k.read

Wired(k) ==
    /\ k.wire # << >> => k.up
    /\ k.up => k.pc # "none"
    /\ k.pc = "read" => k.read # None
    /\ k.pc = "replay" => k.todo # << >>

\* A step that changes one connection, and perhaps registers or unregisters it.
LEMMA OneSocket ==
    ASSUME RelayInv, UNCHANGED <<source, seq, events, casts>>,
           NEW s \in Sockets, NEW k \in Connections, sock' = [sock EXCEPT ![s] = k],
           conns' \subseteq conns \cup {s}, conns \ {s} \subseteq conns',
           hook' \in [phase : {"timer", "open", "stopped"}, socket : Nat, lastSeq : Nat],
           hook'.phase = "open" => hook'.socket \in Sockets,
           Wired(k), Covered(s, k), Fresh(k), k.at <= seq, k.pc # "none",
           k.up => sock[s].up \/ sock[s].pc = "none",
           k.pc \in {"replay", "serving"} /\ k.up => s \in conns',
           s \in conns' => k.pc \in {"replay", "serving", "raised"}
    PROVE  RelayInv'
<1>1. /\ sock \in [Sockets -> Connections] /\ sock' \in [Sockets -> Connections]
      /\ sock'[s] = k /\ \A t \in Sockets \ {s} : sock'[t] = sock[t]
      /\ \A t \in Sockets \ {s} : t \in conns' <=> t \in conns
      /\ conns' \subseteq Sockets
  BY DEF RelayInv, Types
<1>2. /\ log' = log /\ unsent' = unsent /\ bus' = bus /\ scheduled' = scheduled
      /\ seq' = seq /\ events' = events /\ casts' = casts
  BY DEF source
<1>3. Types'
  BY <1>1, <1>2 DEF RelayInv, Types
<1>4. Bounds'
  <2>1. \A t \in Sockets : sock[t].at <= seq
    BY DEF RelayInv, Bounds
  <2>2. \A t \in Sockets : sock'[t].at <= seq'
    BY <1>1, <1>2, <2>1
  <2> QED
    BY <1>2, <2>2 DEF RelayInv, Bounds
<1>5. Wires'
  BY <1>1 DEF RelayInv, Wires, Wired
<1>6. Registered'
  <2>1. ASSUME NEW t \in Sockets, sock'[t].pc \in {"replay", "serving"} /\ sock'[t].up
        PROVE  t \in conns'
    BY <1>1, <2>1 DEF RelayInv, Registered
  <2>2. ASSUME NEW c \in casts PROVE c.left \subseteq Sockets /\ c.dead \subseteq Sockets
    BY DEF RelayInv, Types
  <2>3. ASSUME NEW c \in casts, NEW t \in c.left PROVE sock'[t].pc # "none"
    BY <1>1, <2>2, <2>3 DEF RelayInv, Registered
  <2>4. ASSUME NEW c \in casts, NEW t \in c.dead
        PROVE  sock'[t].pc # "none" /\ ~sock'[t].up
    <3>1. sock[t].pc # "none" /\ ~sock[t].up /\ t \in Sockets
      BY <2>2, <2>4 DEF RelayInv, Registered
    <3>2. CASE t = s
      <4>1. ~k.up
        <5>1. k.up \in BOOLEAN
          BY DEF Connections
        <5> QED
          BY <3>1, <3>2, <5>1
      <4> QED
        BY <1>1, <3>2, <4>1
    <3>3. CASE t # s
      BY <1>1, <3>1, <3>3
    <3> QED
      BY <3>2, <3>3
  <2> QED
    BY <1>2, <2>1, <2>3, <2>4 DEF Registered
<1>7. NoEventSkipped'
  <2>1. \A t \in Sockets : Covered(t, sock[t])
    BY DEF RelayInv, NoEventSkipped, Covered
  <2>2. \A t \in Sockets : Covered(t, sock'[t])
    BY <1>1, <2>1
  <2> QED
    BY <1>2, <2>2 DEF NoEventSkipped, Covered, Numbers
<1>8. InitialFresh'
  <2>1. \A t \in Sockets : Fresh(sock[t])
    BY DEF RelayInv, InitialFresh, Fresh
  <2>2. \A t \in Sockets : Fresh(sock'[t])
    BY <1>1, <2>1
  <2> QED
    BY <1>2, <2>2 DEF InitialFresh, Fresh
<1>9. NoDeadConnection'
  BY <1>1 DEF RelayInv, NoDeadConnection
<1> QED
  BY <1>3, <1>4, <1>5, <1>6, <1>7, <1>8, <1>9 DEF RelayInv

\* What is left of a connection whose handler is gone fits always.
LEMMA GoneFits ==
    ASSUME RelayInv, NEW pc \in {"raised", "over"}, NEW s \in Sockets
    PROVE  /\ Gone(pc) \in Connections /\ Wired(Gone(pc)) /\ Covered(s, Gone(pc))
           /\ Fresh(Gone(pc)) /\ Gone(pc).at <= seq /\ Gone(pc).pc = pc /\ ~Gone(pc).up
<1>1. << >> \in Seq(Messages) /\ seq \in Nat
  BY DEF RelayInv, Types
<1>2. NoSocket \in Connections
  BY <1>1 DEF NoSocket, Connections, None
<1>3. Gone(pc) \in Connections
  BY <1>2 DEF Gone, Connections
<1>4. /\ Gone(pc).wire = << >> /\ Gone(pc).up = FALSE /\ Gone(pc).read = None
      /\ Gone(pc).at = 0 /\ Gone(pc).pc = pc
  BY <1>2 DEF Gone, NoSocket, None, Connections
<1> QED
  BY <1>1, <1>3, <1>4 DEF Wired, Covered, Fresh

LEMMA StepHandlerEnds ==
    ASSUME RelayInv, NEW s \in Sockets, HandlerRefuses(s) \/ HandlerEnds(s)
    PROVE  RelayInv'
<1>1. /\ UNCHANGED <<source, seq, events, casts, hook>>
      /\ sock' = [sock EXCEPT ![s] = Gone("over")]
      /\ conns' \subseteq conns \cup {s} /\ conns \ {s} \subseteq conns' /\ s \notin conns'
  BY DEF HandlerRefuses, HandlerEnds, RelayInv, NoDeadConnection, manager, client
<1>2. /\ Gone("over") \in Connections /\ Wired(Gone("over")) /\ Covered(s, Gone("over"))
      /\ Fresh(Gone("over")) /\ Gone("over").at <= seq /\ Gone("over").pc = "over"
      /\ ~Gone("over").up
  BY GoneFits
<1>3. /\ hook' \in [phase : {"timer", "open", "stopped"}, socket : Nat, lastSeq : Nat]
      /\ hook'.phase = "open" => hook'.socket \in Sockets
  BY <1>1 DEF RelayInv, Types
<1> QED
  BY <1>1, <1>2, <1>3, OneSocket

LEMMA StepHandlerReads ==
    ASSUME RelayInv, NEW s \in Sockets, HandlerReads(s)
    PROVE  RelayInv'
<1> DEFINE k == [sock[s] EXCEPT !.pc = "read", !.read = Len(log)]
<1>1. /\ sock \in [Sockets -> Connections] /\ sock[s] \in Connections
      /\ Len(log) \in Nat /\ Len(log) # 0 /\ seq \in Nat
  BY DEF RelayInv, Types
<1>2. /\ k \in Connections /\ k.pc = "read" /\ k.read = Len(log) /\ k.at = sock[s].at
      /\ k.up = sock[s].up /\ k.wire = sock[s].wire
  BY <1>1 DEF Connections
<1>3. /\ UNCHANGED <<source, seq, events, casts, hook>> /\ conns' = conns
      /\ sock[s].pc = "auth" /\ sock[s].up
  BY DEF HandlerReads, manager, client
<1>4. sock' = [sock EXCEPT ![s] = k]
  BY <1>1 DEF HandlerReads
<1> HIDE DEF k
<1>5. Wired(k) /\ Covered(s, k)
  BY <1>1, <1>2, <1>3 DEF Wired, Covered, None
<1>6. Fresh(k)
  BY <1>1, <1>2 DEF Fresh, RelayInv, Bounds
<1>7. k.at <= seq /\ s \notin conns
  BY <1>2, <1>3 DEF RelayInv, Bounds, NoDeadConnection
<1>8. /\ hook' \in [phase : {"timer", "open", "stopped"}, socket : Nat, lastSeq : Nat]
      /\ hook'.phase = "open" => hook'.socket \in Sockets
  BY <1>3 DEF RelayInv, Types
<1> QED
  BY <1>2, <1>3, <1>4, <1>5, <1>6, <1>7, <1>8, OneSocket

\* Sending the first of some messages.
LEMMA Sending ==
    ASSUME RelayInv, NEW s \in Sockets, NEW msgs \in Seq(Messages), msgs # << >>
    PROVE  LET k == Sends(s, msgs)
           IN  /\ k \in Connections /\ k.since = sock[s].since /\ k.read = sock[s].read
               /\ k.at = sock[s].at /\ k.up = sock[s].up
               /\ k.pc \in {"serving", "replay"}
               /\ k.pc = "replay" => k.todo # << >>
               /\ ~k.up => k.wire = sock[s].wire
               /\ k.up => Numbers(msgs) \cup sock[s].told \subseteq k.told \cup Numbers(k.todo)
<1>1. /\ sock[s] \in Connections /\ DOMAIN msgs = 1..Len(msgs)
      /\ Len(msgs) \in Nat /\ Len(msgs) # 0
  BY DEF RelayInv, Types
<1>2. /\ Tail(msgs) \in Seq(Messages) /\ Head(msgs) \in Messages /\ Head(msgs) = msgs[1]
      /\ Len(Tail(msgs)) = Len(msgs) - 1 /\ DOMAIN Tail(msgs) = 1..(Len(msgs) - 1)
  BY <1>1
<1>3. Numbers(msgs) \subseteq {Head(msgs).seq} \cup Numbers(Tail(msgs))
  <2>1. ASSUME NEW i \in 1..Len(msgs)
        PROVE  msgs[i].seq \in {Head(msgs).seq} \cup Numbers(Tail(msgs))
    <3>1. CASE i = 1
      BY <1>2, <3>1
    <3>2. CASE i # 1
      <4>1. i - 1 \in 1..(Len(msgs) - 1) /\ Tail(msgs)[i - 1] = msgs[i]
        BY <1>1, <3>2
      <4>2. Tail(msgs)[i - 1].seq \in Numbers(Tail(msgs))
        BY <1>2, <4>1 DEF Numbers
      <4> QED
        BY <4>1, <4>2
    <3> QED
      BY <3>1, <3>2
  <2> QED
    BY <1>1, <2>1 DEF Numbers
<1>7. Len(msgs) # 1 => Tail(msgs) # << >>
  <2>1. \A q \in Seq(Messages) : q = << >> => Len(q) = 0
    OBVIOUS
  <2>2. Tail(msgs) = << >> => Len(msgs) - 1 = 0
    BY <1>2, <2>1
  <2> QED
    BY <1>1, <2>2
<1> DEFINE m == Head(msgs)
           h == Told(s, m)
           k == [h EXCEPT !.todo = Tail(msgs),
                          !.pc = IF Len(msgs) = 1 THEN "serving" ELSE "replay"]
<1>4. k = Sends(s, msgs)
  BY DEF Sends
<1>5. /\ h \in Connections /\ h.since = sock[s].since /\ h.read = sock[s].read
      /\ h.at = sock[s].at /\ h.up = sock[s].up
      /\ ~h.up => h.wire = sock[s].wire
      /\ h.up => h.told = sock[s].told \cup {m.seq}
  <2>1. m \in Messages /\ m.seq \in Nat
    BY <1>2 DEF Messages
  <2> HIDE DEF m
  <2>2. CASE sock[s].up
    <3>1. /\ sock[s].told \cup {m.seq} \in SUBSET Nat /\ Append(sock[s].wire, m) \in Seq(Messages)
      BY <1>1, <2>1 DEF Connections
    <3> QED
      BY <1>1, <2>1, <2>2, <3>1 DEF Told, Connections
  <2>3. CASE ~sock[s].up
    BY <1>1, <2>3 DEF Told
  <2> QED
    BY <2>2, <2>3
<1> HIDE DEF h, m
<1>6. /\ k \in Connections /\ k.since = h.since /\ k.read = h.read /\ k.at = h.at
      /\ k.up = h.up /\ k.wire = h.wire /\ k.told = h.told /\ k.todo = Tail(msgs)
      /\ k.pc = IF Len(msgs) = 1 THEN "serving" ELSE "replay"
  BY <1>2, <1>5 DEF Connections
<1> HIDE DEF k
<1> QED
  BY <1>3, <1>4, <1>5, <1>6, <1>7 DEF m

LEMMA StepHandlerReplays ==
    ASSUME RelayInv, NEW s \in Sockets, HandlerReplays(s)
    PROVE  RelayInv'
<1>1. /\ UNCHANGED <<source, seq, events, casts, hook>> /\ conns' = conns
      /\ sock[s].pc = "replay"
      /\ \/ ~sock[s].up /\ sock' = [sock EXCEPT ![s] = Gone("raised")]
         \/ sock' = [sock EXCEPT ![s] = Sends(s, sock[s].todo)]
  BY DEF HandlerReplays, manager, client, RelayInv, Types
<1>2. sock[s] \in Connections /\ sock[s].todo \in Seq(Messages) /\ sock[s].todo # << >>
  BY <1>1 DEF RelayInv, Types, Wires, Connections
<1>3. /\ hook' \in [phase : {"timer", "open", "stopped"}, socket : Nat, lastSeq : Nat]
      /\ hook'.phase = "open" => hook'.socket \in Sockets
  BY <1>1 DEF RelayInv, Types
<1>4. CASE sock' = [sock EXCEPT ![s] = Gone("raised")]
  <2>1. /\ Gone("raised") \in Connections /\ Wired(Gone("raised")) /\ Covered(s, Gone("raised"))
        /\ Fresh(Gone("raised")) /\ Gone("raised").at <= seq /\ Gone("raised").pc = "raised"
        /\ ~Gone("raised").up
    BY GoneFits
  <2> QED
    BY <1>1, <1>3, <1>4, <2>1, OneSocket
<1>5. CASE sock' = [sock EXCEPT ![s] = Sends(s, sock[s].todo)]
  <2> DEFINE k == Sends(s, sock[s].todo)
  <2>1. /\ k \in Connections /\ k.since = sock[s].since /\ k.read = sock[s].read
        /\ k.at = sock[s].at /\ k.up = sock[s].up
        /\ k.pc \in {"serving", "replay"}
        /\ k.pc = "replay" => k.todo # << >>
        /\ ~k.up => k.wire = sock[s].wire
        /\ k.up => Numbers(sock[s].todo) \cup sock[s].told \subseteq k.told \cup Numbers(k.todo)
    BY <1>2, Sending
  <2> HIDE DEF k
  <2>2. Wired(k)
    BY <2>1 DEF Wired, RelayInv, Wires
  <2>3. Covered(s, k)
    <3>1. Covered(s, sock[s])
      BY DEF RelayInv, NoEventSkipped, Covered
    <3> QED
      BY <1>1, <2>1, <3>1 DEF Covered
  <2>4. Fresh(k)
    <3>1. Fresh(sock[s])
      BY DEF RelayInv, InitialFresh, Fresh
    <3> QED
      BY <1>1, <2>1, <3>1 DEF Fresh
  <2>5. k.at <= seq /\ (k.up => s \in conns)
    BY <1>1, <2>1 DEF RelayInv, Bounds, Registered
  <2>6. sock' = [sock EXCEPT ![s] = k]
    BY <1>5 DEF k
  <2> QED
    BY <1>1, <1>3, <2>1, <2>2, <2>3, <2>4, <2>5, <2>6, OneSocket
<1> QED
  BY <1>1, <1>4, <1>5

\* get_events_since gives what has a higher number, and all of that.
LEMMA SinceComplete ==
    ASSUME RelayInv, NEW n \in Nat
    PROVE  /\ Since(n) \in Seq(Messages)
           /\ \A i \in DOMAIN events : events[i].seq > n => events[i].seq \in Numbers(Since(n))
<1>1. events \in Seq(Messages)
  BY DEF RelayInv, Types
<1> DEFINE kept == {i \in DOMAIN events : events[i].seq > n}
           sel == Selected(events, kept)
<1>2. /\ sel \in Seq(Messages)
      /\ \A i \in 1..Len(events) : i \in kept => \E j \in 1..Len(sel) : sel[j] = events[i]
  <2> HIDE DEF kept
  <2> QED
    BY <1>1, SelectedElements
<1>3. Since(n) = sel
  BY DEF Since
<1>4. DOMAIN events = 1..Len(events) /\ DOMAIN sel = 1..Len(sel)
  BY <1>1, <1>2
<1> HIDE DEF sel
<1> QED
  BY <1>2, <1>3, <1>4 DEF Numbers

LEMMA StepHandlerRegisters ==
    ASSUME RelayInv, NEW s \in Sockets, HandlerRegisters(s)
    PROVE  RelayInv'
<1>1. /\ UNCHANGED <<source, seq, events, casts, hook>> /\ conns' = conns \cup {s}
      /\ sock[s].pc = "read"
      /\ \/ ~sock[s].up /\ sock' = [sock EXCEPT ![s] = Gone("raised")]
         \/ sock' = [sock EXCEPT ![s] = FirstSend(s)]
  BY DEF HandlerRegisters, client, RelayInv, Types
<1>2. /\ sock[s] \in Connections /\ sock[s].since \in Nat /\ sock[s].read \in Nat
      /\ sock[s].read # None /\ seq \in Nat
  BY <1>1 DEF RelayInv, Types, Wires, Connections
<1>3. /\ hook' \in [phase : {"timer", "open", "stopped"}, socket : Nat, lastSeq : Nat]
      /\ hook'.phase = "open" => hook'.socket \in Sockets
  BY <1>1 DEF RelayInv, Types
<1>4. CASE sock' = [sock EXCEPT ![s] = Gone("raised")]
  <2>1. /\ Gone("raised") \in Connections /\ Wired(Gone("raised")) /\ Covered(s, Gone("raised"))
        /\ Fresh(Gone("raised")) /\ Gone("raised").at <= seq /\ Gone("raised").pc = "raised"
        /\ ~Gone("raised").up
    BY GoneFits
  <2> QED
    BY <1>1, <1>3, <1>4, <2>1, OneSocket
<1>5. CASE sock' = [sock EXCEPT ![s] = FirstSend(s)]
  <2>m. /\ Missed(s) \in Seq(Messages)
        /\ \/ Missed(s) = << >>
           \/ \A i \in DOMAIN events : events[i].seq > sock[s].since =>
                  events[i].seq \in Numbers(Missed(s))
    <3>1. Missed(s) = IF sock[s].since > 0 THEN Since(sock[s].since) ELSE << >>
      BY DEF Missed
    <3>2. << >> \in Seq(Messages)
      OBVIOUS
    <3>3. CASE sock[s].since > 0
      BY <1>2, <3>1, <3>3, SinceComplete
    <3>4. CASE ~(sock[s].since > 0)
      BY <3>1, <3>2, <3>4
    <3> QED
      BY <3>3, <3>4
  <2>n. /\ \A i \in DOMAIN events : events[i].seq \in Nat /\ events[i].seq <= seq
        /\ \A i \in DOMAIN events : events[i].change <= sock[s].read
    <3>1. events \in Seq(Messages)
      BY DEF RelayInv, Types
    <3>2. \A i \in DOMAIN events : events[i] \in Messages
      BY <3>1
    <3>3. \A i \in DOMAIN events : events[i].seq <= seq
      BY DEF RelayInv, Bounds
    <3>4. \A i \in DOMAIN events : events[i].seq <= seq => events[i].change <= sock[s].read
      BY <1>1, <1>2 DEF RelayInv, InitialFresh
    <3> QED
      BY <3>2, <3>3, <3>4 DEF Messages
  <2> DEFINE msgs == IF Missed(s) # << >> THEN Missed(s) ELSE <<Message(sock[s].read, seq)>>
             h == Sends(s, msgs)
             k == FirstSend(s)
  <2>1. msgs \in Seq(Messages) /\ msgs # << >>
    <3>1. Message(sock[s].read, seq) \in Messages
      BY <1>2 DEF Message, Messages
    <3> QED
      BY <2>m, <3>1
  <2>2. /\ h \in Connections /\ h.since = sock[s].since /\ h.read = sock[s].read
        /\ h.at = sock[s].at /\ h.up = sock[s].up
        /\ h.pc \in {"serving", "replay"}
        /\ h.pc = "replay" => h.todo # << >>
        /\ ~h.up => h.wire = sock[s].wire
        /\ h.up => Numbers(msgs) \cup sock[s].told \subseteq h.told \cup Numbers(h.todo)
    <3> HIDE DEF msgs
    <3> QED
      BY <2>1, Sending
  <2>3. k = IF Missed(s) # << >> THEN [h EXCEPT !.at = seq, !.read = None]
            ELSE [h EXCEPT !.at = seq]
    BY DEF FirstSend
  <2> HIDE DEF h
  <2>4. /\ k \in Connections /\ k.since = h.since /\ k.at = seq /\ k.up = h.up
        /\ k.pc = h.pc /\ k.todo = h.todo /\ k.wire = h.wire /\ k.told = h.told
        /\ k.read = IF Missed(s) # << >> THEN None ELSE sock[s].read
    <3>1. None \in Nat
      BY DEF None
    <3>2. CASE Missed(s) # << >>
      <4>1. k = [h EXCEPT !.at = seq, !.read = None]
        BY <2>3, <3>2
      <4> HIDE DEF k
      <4>2. /\ k \in Connections /\ k.since = h.since /\ k.at = seq /\ k.up = h.up
            /\ k.pc = h.pc /\ k.todo = h.todo /\ k.wire = h.wire /\ k.told = h.told
            /\ k.read = None
        BY <1>2, <2>2, <3>1, <4>1 DEF Connections
      <4> QED
        BY <3>2, <4>2
    <3>3. CASE Missed(s) = << >>
      <4>1. k = [h EXCEPT !.at = seq]
        BY <2>3, <3>3
      <4> HIDE DEF k
      <4>2. /\ k \in Connections /\ k.since = h.since /\ k.at = seq /\ k.up = h.up
            /\ k.pc = h.pc /\ k.todo = h.todo /\ k.wire = h.wire /\ k.told = h.told
            /\ k.read = h.read
        BY <1>2, <2>2, <4>1 DEF Connections
      <4> QED
        BY <2>2, <3>3, <4>2
    <3> QED
      BY <3>2, <3>3
  <2> HIDE DEF k
  <2>5. Wired(k)
    BY <2>2, <2>4 DEF Wired, RelayInv, Wires
  <2>6. Covered(s, k)
    <3>1. CASE Missed(s) = << >>
      BY <1>2, <2>n, <2>4, <3>1 DEF Covered
    <3>2. CASE Missed(s) # << >>
      <4>1. msgs = Missed(s)
        BY <3>2
      <4> HIDE DEF msgs
      <4>2. ASSUME k.up, NEW i \in DOMAIN events
            PROVE  events[i].seq \in k.told \cup Numbers(k.todo) \/ events[i].seq <= k.since
        <5>1. CASE events[i].seq > sock[s].since
          BY <2>m, <2>2, <2>4, <3>2, <4>1, <4>2, <5>1
        <5>2. CASE ~(events[i].seq > sock[s].since)
          BY <1>2, <2>n, <2>2, <2>4, <5>2
        <5> QED
          BY <5>1, <5>2
      <4> QED
        BY <4>2 DEF Covered
    <3> QED
      BY <3>1, <3>2
  <2>7. Fresh(k)
    BY <2>n, <2>2, <2>4 DEF Fresh, None
  <2>8. sock' = [sock EXCEPT ![s] = k] /\ k.at <= seq
    BY <1>2, <1>5, <2>4 DEF k
  <2> QED
    BY <1>1, <1>3, <2>2, <2>4, <2>5, <2>6, <2>7, <2>8, OneSocket
<1> QED
  BY <1>1, <1>4, <1>5

LEMMA StepWireBreaks ==
    ASSUME RelayInv, NEW s \in Sockets, WireBreaks(s)
    PROVE  RelayInv'
<1> DEFINE k == [sock[s] EXCEPT !.up = FALSE, !.wire = << >>, !.told = {}]
<1>1. /\ sock \in [Sockets -> Connections] /\ sock[s] \in Connections
      /\ << >> \in Seq(Messages)
  BY DEF RelayInv, Types
<1>2. /\ k \in Connections /\ k.pc = sock[s].pc /\ k.read = sock[s].read /\ k.at = sock[s].at
      /\ k.up = FALSE /\ k.wire = << >> /\ k.todo = sock[s].todo
  BY <1>1 DEF Connections
<1>3. /\ UNCHANGED <<source, seq, events, casts, hook>> /\ conns' = conns /\ sock[s].up
  BY DEF WireBreaks, manager, client
<1>4. sock' = [sock EXCEPT ![s] = k]
  BY <1>1 DEF WireBreaks
<1> HIDE DEF k
<1>5. Wired(k) /\ Covered(s, k) /\ k.pc # "none"
  BY <1>2, <1>3 DEF Wired, Covered, RelayInv, Wires
<1>6. Fresh(k)
  <2>1. Fresh(sock[s])
    BY DEF RelayInv, InitialFresh, Fresh
  <2> QED
    BY <1>2, <2>1 DEF Fresh
<1>7. k.at <= seq /\ (s \in conns => k.pc \in {"replay", "serving", "raised"})
  BY <1>2 DEF RelayInv, Bounds, NoDeadConnection
<1>8. /\ hook' \in [phase : {"timer", "open", "stopped"}, socket : Nat, lastSeq : Nat]
      /\ hook'.phase = "open" => hook'.socket \in Sockets
  BY <1>3 DEF RelayInv, Types
<1> QED
  BY <1>2, <1>3, <1>4, <1>5, <1>6, <1>7, <1>8, OneSocket

LEMMA StepHookConnects ==
    ASSUME RelayInv, NEW s \in Sockets, HookConnects(s)
    PROVE  RelayInv'
<1> DEFINE k == [sock[s] EXCEPT !.pc = "auth", !.since = hook.lastSeq, !.up = TRUE]
<1>1. /\ sock \in [Sockets -> Connections] /\ sock[s] \in Connections
      /\ hook \in [phase : {"timer", "open", "stopped"}, socket : Nat, lastSeq : Nat]
  BY DEF RelayInv, Types
<1>2. /\ k \in Connections /\ k.pc = "auth" /\ k.read = sock[s].read /\ k.at = sock[s].at
      /\ k.up = TRUE /\ k.wire = sock[s].wire /\ k.todo = sock[s].todo
  BY <1>1 DEF Connections
<1>3. /\ UNCHANGED <<source, seq, events, casts>> /\ conns' = conns /\ sock[s].pc = "none"
      /\ hook' = [hook EXCEPT !.phase = "open", !.socket = s]
      /\ sock' = [sock EXCEPT ![s] = k]
  BY DEF HookConnects, manager
<1> HIDE DEF k
<1>5. Wired(k) /\ Covered(s, k)
  BY <1>2, <1>3 DEF Wired, Covered, RelayInv, Wires
<1>6. Fresh(k)
  <2>1. Fresh(sock[s])
    BY DEF RelayInv, InitialFresh, Fresh
  <2> QED
    BY <1>2, <1>3, <2>1 DEF Fresh
<1>7. k.at <= seq /\ s \notin conns
  BY <1>2, <1>3 DEF RelayInv, Bounds, NoDeadConnection
<1>8. /\ hook' \in [phase : {"timer", "open", "stopped"}, socket : Nat, lastSeq : Nat]
      /\ hook'.phase = "open" => hook'.socket \in Sockets
  <2>1. s \in Nat
    BY RelayAssumption DEF Sockets
  <2> QED
    BY <1>1, <1>3, <2>1
<1> QED
  BY <1>2, <1>3, <1>5, <1>6, <1>7, <1>8, OneSocket

LEMMA StepHookReceives ==
    ASSUME RelayInv, HookReceives
    PROVE  RelayInv'
<1> DEFINE s == hook.socket
           final == StatusOf(Head(sock[s].wire)) \in Terminal
           k == [sock[s] EXCEPT !.wire = IF final THEN << >> ELSE Tail(@), !.up = ~final]
<1>0. s \in Sockets /\ sock[s].wire # << >>
  BY DEF RelayInv, Types, HookReceives
<1>1. /\ sock \in [Sockets -> Connections] /\ sock[s] \in Connections
      /\ hook \in [phase : {"timer", "open", "stopped"}, socket : Nat, lastSeq : Nat]
      /\ << >> \in Seq(Messages) /\ final \in BOOLEAN
  BY <1>0 DEF RelayInv, Types
<1>2. /\ Tail(sock[s].wire) \in Seq(Messages) /\ Head(sock[s].wire).seq \in Nat
      /\ sock[s].up
  <2>1. sock[s].wire \in Seq(Messages)
    BY <1>1 DEF Connections
  <2>2. Tail(sock[s].wire) \in Seq(Messages) /\ Head(sock[s].wire) \in Messages
    BY <1>0, <2>1
  <2> QED
    BY <1>0, <2>2 DEF Messages, RelayInv, Wires
<1>3. /\ UNCHANGED <<source, seq, events, casts>> /\ conns' = conns
      /\ hook' = [hook EXCEPT !.lastSeq = Head(sock[s].wire).seq,
                              !.phase = IF final THEN "stopped" ELSE @]
      /\ sock' = [sock EXCEPT ![s] = k]
  BY <1>0, <1>1 DEF HookReceives, manager
<1> HIDE DEF final
<1>4. /\ k \in Connections /\ k.pc = sock[s].pc /\ k.read = sock[s].read /\ k.at = sock[s].at
      /\ k.since = sock[s].since /\ k.told = sock[s].told /\ k.todo = sock[s].todo
      /\ k.up = ~final /\ (final => k.wire = << >>)
  BY <1>1, <1>2 DEF Connections
<1> HIDE DEF k
<1>5. hook' \in [phase : {"timer", "open", "stopped"}, socket : Nat, lastSeq : Nat]
      /\ (hook'.phase = "open" => hook'.socket \in Sockets)
  <2> HIDE DEF s
  <2>1. hook'.socket = s /\ hook'.lastSeq \in Nat /\ hook'.phase \in {"timer", "open", "stopped"}
    BY <1>1, <1>2, <1>3 DEF s
  <2> QED
    BY <1>0, <1>1, <1>2, <1>3, <2>1
<1> HIDE DEF s
<1>6. Wired(k) /\ k.pc # "none"
  BY <1>0, <1>1, <1>2, <1>4 DEF Wired, RelayInv, Wires
<1>7. Covered(s, k) /\ Fresh(k)
  <2>1. Covered(s, sock[s]) /\ Fresh(sock[s])
    BY <1>0 DEF RelayInv, NoEventSkipped, InitialFresh, Covered, Fresh
  <2> QED
    BY <1>2, <1>4, <2>1 DEF Covered, Fresh
<1>8. /\ k.at <= seq /\ (s \in conns => k.pc \in {"replay", "serving", "raised"})
      /\ k.pc \in {"replay", "serving"} /\ k.up => s \in conns
  BY <1>0, <1>2, <1>4 DEF RelayInv, Bounds, NoDeadConnection, Registered
<1> QED
  BY <1>0, <1>2, <1>3, <1>4, <1>5, <1>6, <1>7, <1>8, OneSocket

LEMMA StepHookCloses ==
    ASSUME RelayInv, HookCloses
    PROVE  RelayInv'
<1>1. /\ UNCHANGED <<source, manager, sock>>
      /\ hook' = [hook EXCEPT !.phase = "timer", !.socket = None]
  BY DEF HookCloses
<1>2. hook' \in [phase : {"timer", "open", "stopped"}, socket : Nat, lastSeq : Nat]
      /\ hook'.phase = "timer"
  BY <1>1 DEF RelayInv, Types, None
<1>3. Types' /\ Bounds' /\ Wires'
  BY <1>1, <1>2 DEF RelayInv, Types, Bounds, Wires, source, manager
<1>4. Registered' /\ NoDeadConnection' /\ InitialFresh'
  BY <1>1 DEF RelayInv, Registered, NoDeadConnection, InitialFresh, manager
<1>5. NoEventSkipped'
  BY <1>1 DEF RelayInv, NoEventSkipped, Numbers, manager
<1> QED
  BY <1>3, <1>4, <1>5 DEF RelayInv

LEMMA StepBroadcastStarts ==
    ASSUME RelayInv, BroadcastStarts
    PROVE  RelayInv'
<1> DEFINE e == Message(Head(scheduled), seq + 1)
           all == Append(events, e)
           cast == [event |-> e, left |-> conns, dead |-> {}]
<1>1. /\ LoopFree /\ scheduled # << >> /\ seq' = seq + 1 /\ scheduled' = Tail(scheduled)
      /\ UNCHANGED <<log, unsent, bus, conns, sock, hook>>
      /\ events' = all \/ events' = Tail(all)
      /\ casts' = IF conns = {} THEN casts ELSE casts \cup {cast}
  BY DEF BroadcastStarts, client
<1>2. /\ Len(log) \in Nat /\ scheduled \in Seq(Nat) /\ events \in Seq(Messages) /\ seq \in Nat
      /\ \A i \in DOMAIN scheduled : scheduled[i] \in 1..Len(log)
      /\ \A i \in DOMAIN events : events[i].change <= Len(log) /\ events[i].seq <= seq
      /\ sock \in [Sockets -> Connections] /\ conns \subseteq Sockets
  BY DEF RelayInv, Types, Bounds
<1>3. /\ scheduled' \in Seq(Nat) /\ Head(scheduled) \in Nat /\ Head(scheduled) \in 1..Len(log)
      /\ \A i \in DOMAIN scheduled' : scheduled'[i] \in 1..Len(log)
  BY <1>1, <1>2, ListShrinks
<1>4. /\ e \in Messages /\ e.seq = seq + 1 /\ e.change <= Len(log)
  BY <1>2, <1>3 DEF Message, Messages
<1> HIDE DEF e
<1> DEFINE K == {m \in Messages : m.change <= Len(log) /\ m.seq <= seq + 1 /\
                     (m = e \/ \E i \in DOMAIN events : events[i] = m)}
<1>5. \A i \in DOMAIN events : events[i] \in K
  <2>1. ASSUME NEW i \in DOMAIN events PROVE events[i] \in K
    <3>1. events[i] \in Messages /\ events[i].change <= Len(log) /\ events[i].seq <= seq
      BY <1>2
    <3>2. events[i].seq \in Nat
      BY <3>1 DEF Messages
    <3> QED
      BY <1>2, <3>1, <3>2
  <2> QED
    BY <2>1
<1>6. e \in K
  <2>1. e.seq <= seq + 1
    BY <1>2, <1>4
  <2> QED
    BY <1>4, <2>1
<1> HIDE DEF K
<1>7. all \in Seq(Messages) /\ Len(all) = Len(events) + 1 /\ \A i \in DOMAIN all : all[i] \in K
  BY <1>2, <1>4, <1>5, <1>6, ListGrows
<1>8. events' \in Seq(Messages) /\ \A i \in DOMAIN events' : events'[i] \in K
  <2>1. all # << >>
    <3>1. \A q \in Seq(Messages) : q = << >> => Len(q) = 0
      OBVIOUS
    <3>2. Len(events) \in Nat
      BY <1>2
    <3> HIDE DEF all
    <3> QED
      BY <1>7, <3>1, <3>2
  <2> HIDE DEF all
  <2>2. Tail(all) \in Seq(Messages) /\ \A i \in DOMAIN Tail(all) : Tail(all)[i] \in K
    BY <1>7, <2>1, ListShrinks
  <2> QED
    BY <1>1, <1>7, <2>2 DEF all
<1> HIDE DEF all
<1>9. Types'
  <2>1. cast \in [event : Messages, left : SUBSET Sockets, dead : SUBSET Sockets]
    BY <1>2, <1>4
  <2> HIDE DEF cast
  <2>2. \A c \in casts' : c \in [event : Messages, left : SUBSET Sockets, dead : SUBSET Sockets]
    BY <1>1, <2>1 DEF RelayInv, Types
  <2>3. seq' \in Nat
    BY <1>1, <1>2
  <2> QED
    BY <1>1, <1>3, <1>8, <2>2, <2>3 DEF RelayInv, Types
<1>10. Bounds'
  <2>1. \A i \in DOMAIN events' : events'[i].change <= Len(log') /\ events'[i].seq <= seq'
    BY <1>1, <1>8 DEF K
  <2>2. \A s \in Sockets : sock'[s].at <= seq'
    <3>1. ASSUME NEW s \in Sockets PROVE sock[s].at <= seq /\ sock[s].at \in Nat
      BY <1>2 DEF RelayInv, Bounds, Connections
    <3> QED
      BY <1>1, <1>2, <3>1
  <2> QED
    BY <1>1, <1>3, <2>1, <2>2 DEF RelayInv, Bounds
<1>11. Wires' /\ NoDeadConnection'
  BY <1>1 DEF RelayInv, Wires, NoDeadConnection
<1>12. Registered'
  <2>1. \A s \in conns : sock[s].pc # "none"
    BY DEF RelayInv, NoDeadConnection
  <2>2. /\ \A s \in cast.left : sock[s].pc # "none"
        /\ \A s \in cast.dead : sock[s].pc # "none" /\ ~sock[s].up
    BY <2>1
  <2> HIDE DEF cast
  <2> QED
    BY <1>1, <2>2 DEF RelayInv, Registered
<1>13. NoEventSkipped'
  <2>1. ASSUME NEW s \in Sockets, sock[s].pc \in {"replay", "serving"}, sock[s].up,
               NEW m \in K
        PROVE  \/ m.seq \in sock[s].told \cup Numbers(sock[s].todo)
               \/ \E c \in casts' : c.event.seq = m.seq /\ s \in c.left
               \/ m.seq <= sock[s].since
               \/ m.seq <= sock[s].at /\ sock[s].read # None
    <3>1. CASE m = e
      <4>1. s \in conns
        BY <2>1 DEF RelayInv, Registered
      <4>2. cast \in casts' /\ cast.event.seq = m.seq /\ s \in cast.left
        BY <1>1, <3>1, <4>1
      <4> HIDE DEF cast
      <4> QED
        BY <4>2
    <3>2. CASE \E i \in DOMAIN events : events[i] = m
      <4> HIDE DEF cast
      <4>1. casts \subseteq casts'
        BY <1>1
      <4> QED
        BY <2>1, <3>2, <4>1 DEF RelayInv, NoEventSkipped
    <3> QED
      BY <2>1, <3>1, <3>2 DEF K
  <2> HIDE DEF cast
  <2>2. ASSUME NEW s \in Sockets, sock'[s].pc \in {"replay", "serving"}, sock'[s].up,
               NEW i \in DOMAIN events'
        PROVE  \/ events'[i].seq \in sock'[s].told \cup Numbers(sock'[s].todo)
               \/ \E c \in casts' : c.event.seq = events'[i].seq /\ s \in c.left
               \/ events'[i].seq <= sock'[s].since
               \/ events'[i].seq <= sock'[s].at /\ sock'[s].read # None
    <3>1. events'[i] \in K /\ sock' = sock
      BY <1>1, <1>8
    <3> QED
      BY <2>1, <2>2, <3>1
  <2> QED
    BY <2>2 DEF NoEventSkipped, Numbers
<1>14. InitialFresh'
  <2>1. ASSUME NEW s \in Sockets, sock[s].read # None, NEW m \in K, m.seq <= sock[s].at
        PROVE  sock[s].pc # "read" /\ m.change <= sock[s].read
    <3>1. sock[s].pc # "read" /\ sock[s].at <= seq /\ sock[s].at \in Nat
      BY <1>1, <1>2 DEF LoopFree, RelayInv, Bounds, Connections
    <3>2. m # e
      BY <1>2, <1>4, <2>1, <3>1
    <3>3. PICK i \in DOMAIN events : events[i] = m
      BY <3>2 DEF K
    <3> QED
      BY <2>1, <3>1, <3>3 DEF RelayInv, InitialFresh
  <2>2. \A s \in Sockets : sock[s].pc # "read"
    BY <1>1 DEF LoopFree
  <2> QED
    BY <1>1, <1>8, <2>1, <2>2 DEF InitialFresh
<1> QED
  BY <1>9, <1>10, <1>11, <1>12, <1>13, <1>14 DEF RelayInv

LEMMA StepBroadcastSends ==
    ASSUME RelayInv, NEW c \in casts, NEW s \in Sockets, BroadcastSends(c, s)
    PROVE  RelayInv'
<1>1. PICK raises \in {FALSE} \cup {~sock[s].up} :
         LET dead == IF raises THEN c.dead \cup {s} ELSE c.dead
             last == c.left = {s}
         IN /\ casts' = (casts \ {c}) \cup
                  IF last THEN {} ELSE {[c EXCEPT !.left = @ \ {s}, !.dead = dead]}
            /\ conns' = IF last THEN conns \ dead ELSE conns
            /\ sock' = IF raises THEN sock ELSE [sock EXCEPT ![s] = Told(s, c.event)]
  BY DEF BroadcastSends
<1> DEFINE dead == IF raises THEN c.dead \cup {s} ELSE c.dead
           d == [c EXCEPT !.left = @ \ {s}, !.dead = dead]
           k == Told(s, c.event)
<1>2. /\ s \in c.left /\ UNCHANGED <<source, seq, events, hook>>
      /\ casts' \subseteq (casts \ {c}) \cup {d}
      /\ casts \ {c} \subseteq casts'
      /\ c.left # {s} => d \in casts' /\ conns' = conns
      /\ conns' \subseteq conns /\ conns \ dead \subseteq conns'
      /\ sock' = IF raises THEN sock ELSE [sock EXCEPT ![s] = k]
  BY <1>1 DEF BroadcastSends, client
<1>3. /\ sock \in [Sockets -> Connections] /\ sock[s] \in Connections
      /\ c \in [event : Messages, left : SUBSET Sockets, dead : SUBSET Sockets]
      /\ c.event \in Messages /\ c.event.seq \in Nat /\ sock[s].up \in BOOLEAN
      /\ raises => ~sock[s].up
  BY <1>1 DEF RelayInv, Types, Messages, Connections
<1>4. /\ d \in [event : Messages, left : SUBSET Sockets, dead : SUBSET Sockets]
      /\ d.event = c.event /\ d.left = c.left \ {s} /\ d.dead = dead
  BY <1>3
<1>5. /\ k \in Connections /\ k.pc = sock[s].pc /\ k.since = sock[s].since
      /\ k.read = sock[s].read /\ k.at = sock[s].at /\ k.todo = sock[s].todo
      /\ k.up = sock[s].up
      /\ ~k.up => k.wire = sock[s].wire
      /\ k.up => k.told = sock[s].told \cup {c.event.seq}
  <2>1. CASE sock[s].up
    <3>1. sock[s].told \cup {c.event.seq} \in SUBSET Nat
          /\ Append(sock[s].wire, c.event) \in Seq(Messages)
      BY <1>3 DEF Connections
    <3> QED
      BY <1>3, <2>1, <3>1 DEF Told, Connections
  <2>2. CASE ~sock[s].up
    BY <1>3, <2>2 DEF Told
  <2> QED
    BY <2>1, <2>2
<1>6. /\ \A t \in dead : sock[t].pc # "none" /\ ~sock[t].up /\ t \in Sockets
      /\ \A t \in c.left : sock[t].pc # "none"
  BY <1>2, <1>3 DEF RelayInv, Registered
<1> HIDE DEF dead, d, k
<1>7. /\ sock' \in [Sockets -> Connections]
      /\ \A t \in Sockets : /\ sock'[t].pc = sock[t].pc /\ sock'[t].since = sock[t].since
                            /\ sock'[t].read = sock[t].read /\ sock'[t].at = sock[t].at
                            /\ sock'[t].todo = sock[t].todo /\ sock'[t].up = sock[t].up
                            /\ ~sock'[t].up => sock'[t].wire = sock[t].wire
                            /\ sock'[t].up => sock[t].told \subseteq sock'[t].told
      /\ sock[s].up => c.event.seq \in sock'[s].told
  <2>1. CASE raises
    BY <1>2, <1>3, <2>1
  <2>2. CASE ~raises
    <3>1. sock' = [sock EXCEPT ![s] = k]
      BY <1>2, <2>2
    <3> QED
      BY <1>3, <1>5, <3>1
  <2> QED
    BY <2>1, <2>2
<1>8. Types'
  <2>1. /\ log' = log /\ unsent' = unsent /\ bus' = bus /\ scheduled' = scheduled
        /\ seq' = seq /\ events' = events /\ hook' = hook /\ conns' \subseteq Sockets
    BY <1>2 DEF source, RelayInv, Types
  <2>2. \A b \in casts' : b \in [event : Messages, left : SUBSET Sockets, dead : SUBSET Sockets]
    BY <1>2, <1>4 DEF RelayInv, Types
  <2> QED
    BY <1>7, <2>1, <2>2 DEF RelayInv, Types
<1>9. Bounds'
  BY <1>2, <1>7 DEF RelayInv, Bounds, source
<1>10. Wires'
  BY <1>7 DEF RelayInv, Wires
<1>11. Registered'
  <2>1. ASSUME NEW t \in Sockets, sock[t].pc \in {"replay", "serving"}, sock[t].up
        PROVE  t \in conns'
    BY <1>2, <1>6, <2>1 DEF RelayInv, Registered
  <2>2. ASSUME NEW b \in casts'
        PROVE  /\ \A t \in b.left : sock[t].pc # "none" /\ t \in Sockets
               /\ \A t \in b.dead : sock[t].pc # "none" /\ ~sock[t].up /\ t \in Sockets
    <3>1. CASE b = d
      BY <1>3, <1>4, <1>6, <3>1
    <3>2. CASE b \in casts
      BY <3>2 DEF RelayInv, Registered, Types
    <3> QED
      BY <1>2, <3>1, <3>2
  <2> QED
    BY <1>7, <2>1, <2>2 DEF Registered
<1>12. NoEventSkipped'
  <2>1. ASSUME NEW t \in Sockets, sock[t].pc \in {"replay", "serving"}, sock[t].up,
               NEW i \in DOMAIN events
        PROVE  \/ events[i].seq \in sock'[t].told \cup Numbers(sock[t].todo)
               \/ \E b \in casts' : b.event.seq = events[i].seq /\ t \in b.left
               \/ events[i].seq <= sock[t].since
               \/ events[i].seq <= sock[t].at /\ sock[t].read # None
    <3>1. ASSUME NEW b \in casts, b.event.seq = events[i].seq, t \in b.left
          PROVE  \/ events[i].seq \in sock'[t].told
                 \/ \E b2 \in casts' : b2.event.seq = events[i].seq /\ t \in b2.left
      <4>1. CASE b # c
        BY <1>2, <3>1, <4>1
      <4>2. CASE b = c /\ t = s
        BY <1>7, <2>1, <3>1, <4>2
      <4>3. CASE b = c /\ t # s
        <5>1. d \in casts' /\ d.event.seq = events[i].seq /\ t \in d.left
          BY <1>2, <1>4, <3>1, <4>3
        <5> QED
          BY <5>1
      <4> QED
        BY <4>1, <4>2, <4>3
    <3>2. \/ events[i].seq \in sock[t].told \cup Numbers(sock[t].todo)
          \/ \E b \in casts : b.event.seq = events[i].seq /\ t \in b.left
          \/ events[i].seq <= sock[t].since
          \/ events[i].seq <= sock[t].at /\ sock[t].read # None
      BY <2>1 DEF RelayInv, NoEventSkipped
    <3>3. sock[t].told \subseteq sock'[t].told
      BY <1>7, <2>1
    <3> QED
      BY <3>1, <3>2, <3>3
  <2> QED
    BY <1>2, <1>7, <2>1 DEF NoEventSkipped, Numbers
<1>13. InitialFresh'
  BY <1>2, <1>7 DEF RelayInv, InitialFresh
<1>14. NoDeadConnection'
  BY <1>2, <1>7 DEF RelayInv, NoDeadConnection, Types
<1> QED
  BY <1>8, <1>9, <1>10, <1>11, <1>12, <1>13, <1>14 DEF RelayInv
-----------------------------------------------------------------------------
LEMMA StutterInv ==
    ASSUME RelayInv, UNCHANGED vars
    PROVE  RelayInv'
<1>1. /\ log' = log /\ unsent' = unsent /\ bus' = bus /\ scheduled' = scheduled
      /\ seq' = seq /\ events' = events /\ conns' = conns /\ casts' = casts
      /\ sock' = sock /\ hook' = hook
  BY DEF vars
<1>2. Types' /\ Bounds' /\ Wires'
  BY <1>1 DEF RelayInv, Types, Bounds, Wires
<1>3. Registered' /\ InitialFresh' /\ NoDeadConnection'
  BY <1>1 DEF RelayInv, Registered, InitialFresh, NoDeadConnection
<1>4. NoEventSkipped'
  BY <1>1 DEF RelayInv, NoEventSkipped, Numbers
<1> QED
  BY <1>2, <1>3, <1>4 DEF RelayInv

LEMMA RelayInvInvariant == Spec => []RelayInv
<1>1. ASSUME RelayInv, [Next]_vars PROVE RelayInv'
  <2>1. CASE Writers
    BY <1>1, <2>1, StepWrite, StepSource DEF Writers
  <2>2. CASE Relay \/ ThreadDies
    BY <1>1, <2>2, StepSource
  <2>3. CASE Broadcast
    BY <1>1, <2>3, StepBroadcastStarts, StepBroadcastSends DEF Broadcast
  <2>4. CASE Hook
    BY <1>1, <2>4, StepHookCloses, StepHookReceives, StepHookConnects DEF Hook
  <2>5. ASSUME NEW s \in Sockets, Handler(s) \/ WireBreaks(s) PROVE RelayInv'
    BY <1>1, <2>5, StepHandlerEnds, StepHandlerReads, StepHandlerRegisters,
       StepHandlerReplays, StepWireBreaks DEF Handler
  <2>6. CASE UNCHANGED vars
    BY <1>1, <2>6, StutterInv
  <2> QED
    BY <1>1, <2>1, <2>2, <2>3, <2>4, <2>5, <2>6 DEF Next
<1> QED
  BY <1>1, InitInv, PTL DEF Spec

\* A viewer that is connected has been told, is being told, or is owed every
\* event of the history, for any number of connections and writes, any length
\* of the history, and whatever breaks (websocket_job_handler, broadcast).
THEOREM EventsNotSkipped == Spec => []NoEventSkipped
<1>1. RelayInv => NoEventSkipped
  BY DEF RelayInv
<1> QED
  BY <1>1, RelayInvInvariant, PTL

\* The row a new connection is told is never older than the number that goes
\* with it, because the handler does not wait between the read and the
\* registration.
THEOREM InitialStateFresh == Spec => []InitialFresh
<1>1. RelayInv => InitialFresh
  BY DEF RelayInv
<1> QED
  BY <1>1, RelayInvInvariant, PTL

\* Whatever broadcasts are under way, only a send that raised before the try
\* block leaves a connection registered whose handler is gone.
THEOREM ConnectionsLive == Spec => []NoDeadConnection
<1>1. RelayInv => NoDeadConnection
  BY DEF RelayInv
<1> QED
  BY <1>1, RelayInvInvariant, PTL
=============================================================================
