------------------------------- MODULE EventBus -------------------------------
(***************************************************************************)
(* events.py with AIRBAG_EVENTS=pubsub: every instance keeps a bounded log *)
(* of the thought-chain's events, publishes its own over a topic, and      *)
(* mirrors the others' from a subscription that may deliver late, out of   *)
(* order and more than once.  A dashboard streams the log of one instance  *)
(* by absolute index.                                                      *)
(***************************************************************************)
EXTENDS Integers, Sequences, FiniteSets

CONSTANTS
  Peers,      \* instances
  Dashboards, \* those a dashboard is connected to
  Max,        \* _MAX, which bounds the log and the set of seen ids
  MaxEvents,  \* bound on the events published
  MaxAgain    \* bound on redeliveries

ASSUME BusAssumption ==
  /\ Dashboards \subseteq Peers
  /\ Max \in Nat \ {0, 1}
  /\ MaxEvents \in Nat
  /\ MaxAgain \in Nat

VARIABLES
  source,   \* the instance each event was published on, by event id
  mirror,   \* per instance: _events, _offset and _seen
  wire,     \* per instance: events its subscription has not acknowledged
  viewer,   \* per dashboard: the index of its stream
  shown,    \* per dashboard: the absolute positions it got (ghost)
  history,  \* per instance: every event its log ever took (ghost)
  cleared,  \* instances whose _seen was cleared (ghost)
  again     \* redeliveries so far (ghost)

busvars == <<source, mirror, wire, viewer, shown, history, cleared, again>>

BusInit ==
  /\ source = <<>>
  /\ mirror = [n \in Peers |-> [events |-> <<>>, offset |-> 0, seen |-> {}]]
  /\ wire = [n \in Peers |-> {}]
  /\ viewer = [n \in Dashboards |-> 0]
  /\ shown = [n \in Dashboards |-> <<>>]
  /\ history = [n \in Peers |-> <<>>]
  /\ cleared = {}
  /\ again = 0

Full(seen) == Cardinality(seen) > Max

\* _append_local: the set of seen ids is emptied once it is too large, the new
\* id with it.
Remember(seen, e) == IF Full(seen \cup {e}) THEN {} ELSE seen \cup {e}

\* Mutated form: the offset does not follow.
TrimUncounted(log) ==
  IF Len(log.events) > Max
  THEN [log EXCEPT !.events = SubSeq(@, Max \div 2 + 1, Len(@))]
  ELSE log

\* and the older half of the log goes once that is too long.
Trim(log) ==
  IF Len(log.events) > Max
  THEN [log EXCEPT !.events = SubSeq(@, Max \div 2 + 1, Len(@)), !.offset = @ + Max \div 2]
  ELSE log

\* What the log of an instance is once it has taken event e.
Received(log, e) == Trim([log EXCEPT !.events = Append(@, e), !.seen = Remember(@, e)])

Known(n, e) == e \in mirror[n].seen

AppendLocal(n, e) ==
  IF Known(n, e)
  THEN UNCHANGED <<mirror, history, cleared>>
  ELSE /\ mirror' = [mirror EXCEPT ![n] = Received(mirror[n], e)]
       /\ history' = [history EXCEPT ![n] = Append(@, e)]
       /\ cleared' = IF Full(mirror[n].seen \cup {e}) THEN cleared \cup {n} ELSE cleared

\* publish: the local log first, then the topic, whose failure is swallowed.
\* The topic fans out to every subscription, the publisher's own included.
Publish(n, sent) ==
  /\ Len(source) < MaxEvents
  /\ source' = Append(source, n)
  /\ AppendLocal(n, Len(source) + 1)
  /\ wire' = IF sent THEN [p \in Peers |-> wire[p] \cup {Len(source) + 1}] ELSE wire
  /\ UNCHANGED <<viewer, shown, again>>

\* Mutated form: an instance mirrors its own events too.
ForeignAlways(n, e) == TRUE

\* The callback's test: an instance has its own events already.
Foreign(n, e) == source[e] # n

\* A message reaches the callback; if its ack is lost it comes again.
Deliver(n, e, acked) ==
  /\ e \in wire[n]
  /\ acked \/ again < MaxAgain
  /\ again' = IF acked THEN again ELSE again + 1
  /\ wire' = IF acked THEN [wire EXCEPT ![n] = @ \ {e}] ELSE wire
  /\ IF Foreign(n, e) THEN AppendLocal(n, e) ELSE UNCHANGED <<mirror, history, cleared>>
  /\ UNCHANGED <<source, viewer, shown>>

\* get_since: what the log still holds from the viewer's index on.
From(log, index) == IF index > log.offset THEN index - log.offset ELSE 0

GetSince(n) ==
  LET log == mirror[n]
      start == From(log, viewer[n])
  IN  /\ viewer[n] # log.offset + Len(log.events)
      /\ viewer' = [viewer EXCEPT ![n] = log.offset + Len(log.events)]
      /\ shown' = [shown EXCEPT ![n] = @ \o [k \in 1..(Len(log.events) - start) |-> log.offset + start + k]]
      /\ UNCHANGED <<source, mirror, wire, history, cleared, again>>

BusNext ==
  \E n \in Peers :
    \/ \E sent \in BOOLEAN : Publish(n, sent)
    \/ \E e \in 1..MaxEvents, acked \in BOOLEAN : Deliver(n, e, acked)
    \/ n \in Dashboards /\ GetSince(n)

BusSpec == BusInit /\ [][BusNext]_busvars
------------------------------------------------------------------------------
\* An event appears twice in the log of an instance (_append_local) only when
\* it is another instance's, was redelivered, and the set of seen ids had been
\* cleared there; an instance never repeats its own.
RepeatOnlyBy ==
  \A n \in Peers : \A j, k \in DOMAIN history[n] :
    (j < k /\ history[n][j] = history[n][k])
      => again > 0 /\ n \in cleared /\ Foreign(n, history[n][j])

\* Indices are absolute (get_since): the log is the end of everything it ever
\* took, at its offset; so a dashboard gets the events of its instance in
\* order, none twice, and misses only those trimmed before it looked.
ViewersMissOnlyTheTrimmed ==
  \A n \in Peers :
    LET log == mirror[n]
    IN  /\ Len(log.events) <= Max
        /\ log.events = SubSeq(history[n], log.offset + 1, Len(history[n]))
        /\ n \in Dashboards =>
             /\ \A j, k \in DOMAIN shown[n] : j < k => shown[n][j] < shown[n][k]
             /\ \A p \in 1..viewer[n] : p <= log.offset \/ \E k \in DOMAIN shown[n] : shown[n][k] = p
==============================================================================
