------------------------------- MODULE EventQ -------------------------------
(* The generic event queue of eventq.c: actions scheduled for a time, run   *)
(* by eventq_service_events() or, before their time, by eventq_execute().   *)
(*                                                                          *)
(* The pending list is a sequence, the free list the number of its          *)
(* descriptors.  An action is a callback, which may use the queue itself    *)
(* before it returns, or a write of a bit, a flag or a sum, which may not.  *)
(* Callbacks that are running are frames of `stack'; calls are made by the  *)
(* innermost one, or by the simulator when none runs.  A callback neither   *)
(* executes nor removes the event it runs for and does not service the      *)
(* queue: the code would follow the links of a descriptor it has freed.     *)
EXTENDS Integers, FiniteSets, Sequences

CONSTANTS
    Time,           \* times events are queued for and serviced at
    MAX_ID          \* bound on the events queued

VARIABLES
    eventq_pending, \* list of [id, when, callback]
    eventq_free,    \* descriptors on the free list
    allocated,      \* descriptors obtained from calloc()
    next_ID,
    now,            \* argument of the running eventq_service_events(), or NONE
    stack,          \* running callbacks [ev, via], innermost last
    ran, removed,   \* history: ids whose action was run, ids removed
    early,          \* history: ids a serviced callback queued at or before its own time
    at              \* history: time of the last event this service call ran

vars == <<eventq_pending, eventq_free, allocated, next_ID, now, stack,
          ran, removed, early, at>>

NONE == -1
Event == [id : 1 .. MAX_ID, when : Time, callback : BOOLEAN]
Ids(q) == {q[i].id : i \in DOMAIN q}
Place(id) == CHOOSE i \in DOMAIN eventq_pending : eventq_pending[i].id = id
Running == {stack[i].ev.id : i \in DOMAIN stack}
\* The event whose callback eventq_service_events() waits for.
Serviced == {stack[i].ev : i \in {j \in DOMAIN stack : stack[j].via = "service"}}
CallerRuns == stack # << >> \/ now = NONE

Init ==
    /\ eventq_pending = << >> /\ eventq_free = 0 /\ allocated = 0 /\ next_ID = 1
    /\ now = NONE /\ stack = << >>
    /\ ran = {} /\ removed = {} /\ early = {} /\ at = 0

\* Mutant: the head of the list is moved although an event in the middle is unlinked.
UnlinkAsHead(q, i) == SubSeq(q, i + 1, Len(q))

\* A list without its event number i.
Without(q, i) == SubSeq(q, 1, i - 1) \o SubSeq(q, i + 1, Len(q))

\* The free list after a descriptor was taken from it or, when it is empty, from calloc().
Take(n) == IF n = 0 THEN 0 ELSE n - 1

\* Mutant: the new event is put behind the first event that is not earlier.
InsertBehind(q, ev) ==
    LET n == Cardinality({i \in DOMAIN q : q[i].when < ev.when})
        m == IF n < Len(q) THEN n + 1 ELSE n
    IN SubSeq(q, 1, m) \o <<ev>> \o SubSeq(q, m + 1, Len(q))

\* The insertion of __QUEUE_EVENT: in front of the first event that is not earlier.
Insert(q, ev) ==
    LET n == CHOOSE k \in 0 .. Len(q) : /\ \A i \in 1 .. k : q[i].when < ev.when
                                        /\ k < Len(q) => q[k + 1].when >= ev.when
    IN SubSeq(q, 1, n) \o <<ev>> \o SubSeq(q, n + 1, Len(q))

\* eventq_queue_callback() and, for the other actions, eventq_queue_setbit() and
\* its relatives.  eventq_event_count stays 0, so the limit is never reached.
eventq_queue(w, cb) ==
    LET ev == [id |-> next_ID, when |-> w, callback |-> cb] IN
    /\ CallerRuns /\ next_ID <= MAX_ID
    /\ allocated' = IF eventq_free = 0 THEN allocated + 1 ELSE allocated
    /\ eventq_free' = Take(eventq_free)
    /\ next_ID' = next_ID + 1
    /\ eventq_pending' = Insert(eventq_pending, ev)
    /\ early' = IF \E s \in Serviced : w <= s.when THEN early \cup {ev.id} ELSE early
    /\ UNCHANGED <<now, stack, ran, removed, at>>

\* The event is unlinked, its action run, its descriptor freed.
eventq_execute(id) ==
    LET i == Place(id)  ev == eventq_pending[i] IN
    /\ CallerRuns /\ id \in Ids(eventq_pending) \ Running
    /\ eventq_pending' = Without(eventq_pending, i)
    /\ ran' = ran \cup {id}
    /\ IF ev.callback
       THEN /\ stack' = Append(stack, [ev |-> ev, via |-> "execute"])
            /\ UNCHANGED eventq_free
       ELSE /\ eventq_free' = eventq_free + 1
            /\ UNCHANGED stack
    /\ UNCHANGED <<allocated, next_ID, now, removed, early, at>>

\* Mutant: the descriptor is not put on the free list.
RemoveLeaks(id) ==
    /\ CallerRuns /\ id \in Ids(eventq_pending) \ Running
    /\ eventq_pending' = Without(eventq_pending, Place(id))
    /\ removed' = removed \cup {id}
    /\ UNCHANGED <<eventq_free, allocated, next_ID, now, stack, ran, early, at>>

eventq_remove(id) ==
    /\ CallerRuns /\ id \in Ids(eventq_pending) \ Running
    /\ eventq_pending' = Without(eventq_pending, Place(id))
    /\ eventq_free' = eventq_free + 1
    /\ removed' = removed \cup {id}
    /\ UNCHANGED <<allocated, next_ID, now, stack, ran, early, at>>

ServiceStart(t) ==
    /\ stack = << >> /\ now = NONE
    /\ now' = t /\ at' = 0
    /\ UNCHANGED <<eventq_pending, eventq_free, allocated, next_ID, stack, ran, removed, early>>

\* Unlink: eventq_pending = ev->next forgets whatever precedes ev by then.
After(id) == SubSeq(eventq_pending, Place(id) + 1, Len(eventq_pending))

\* One iteration of eventq_service_events(), up to the action's end or, for a
\* callback, up to its beginning.
ServiceNext ==
    LET ev == Head(eventq_pending) IN
    /\ stack = << >> /\ now # NONE
    /\ eventq_pending # << >> /\ ev.when <= now
    /\ ran' = ran \cup {ev.id} /\ at' = ev.when
    /\ IF ev.callback
       THEN /\ stack' = <<[ev |-> ev, via |-> "service"]>>
            /\ UNCHANGED <<eventq_pending, eventq_free>>
       ELSE /\ eventq_pending' = After(ev.id)
            /\ eventq_free' = eventq_free + 1
            /\ UNCHANGED stack
    /\ UNCHANGED <<allocated, next_ID, now, removed, early>>

ServiceDone ==
    /\ stack = << >> /\ now # NONE
    /\ eventq_pending # << >> => Head(eventq_pending).when > now
    /\ now' = NONE
    /\ UNCHANGED <<eventq_pending, eventq_free, allocated, next_ID, stack, ran, removed, early, at>>

\* The innermost callback returns to the function that ran it.
CallbackReturn ==
    LET f == stack[Len(stack)] IN
    /\ stack # << >>
    /\ stack' = SubSeq(stack, 1, Len(stack) - 1)
    /\ eventq_pending' = IF f.via = "service" THEN After(f.ev.id) ELSE eventq_pending
    /\ eventq_free' = eventq_free + 1
    /\ UNCHANGED <<allocated, next_ID, now, ran, removed, early, at>>

Next ==
    \/ \E w \in Time, cb \in BOOLEAN : eventq_queue(w, cb)
    \/ \E id \in 1 .. MAX_ID : eventq_execute(id) \/ eventq_remove(id)
    \/ \E t \in Time : ServiceStart(t)
    \/ ServiceNext \/ ServiceDone \/ CallbackReturn

Spec == Init /\ [][Next]_vars

(***************************************************************************)
(* Properties                                                              *)
(***************************************************************************)
Lost == (1 .. next_ID - 1) \ (Ids(eventq_pending) \cup ran \cup removed)

\* eventq_service_events() looks only at the head of the list, and its callbacks
\* queue, run and remove events meanwhile: it still returns only when nothing
\* due is pending, and runs what it runs in the order of its time.
ServicedInOrder ==
    [][ /\ now # NONE /\ now' = NONE => \A i \in DOMAIN eventq_pending : eventq_pending[i].when > now
        /\ now # NONE /\ now' = now => at' >= at ]_vars

\* eventq_service_events() is to "service all events in order of occurrance until
\* and at NOW" (eventq.h), so no event queued is ever forgotten.  It forgets some:
\* see OnceUnlessForgotten.
NoneForgotten == Lost = {}

\* Nothing is forgotten but the events that a callback queued at or before the time
\* of the very event eventq_service_events() runs it for, which are linked in front
\* of that event and dropped with it.  Every other event queued is pending, or was
\* run once, or was removed, and only one of these, unless eventq_service_events()
\* is still running it.
OnceUnlessForgotten ==
    /\ Lost \subseteq early
    /\ Cardinality(Ids(eventq_pending)) = Len(eventq_pending)
    /\ ran \cap removed = {}
    /\ Ids(eventq_pending) \cap (ran \cup removed) \subseteq {s.id : s \in Serviced}

\* Every descriptor obtained from calloc() is free, pending, held by a running
\* eventq_execute(), or gone with a lost event; calloc() is called only when all
\* are in use.
DescriptorsConserved ==
    allocated = eventq_free + Len(eventq_pending) + Cardinality(Lost)
                + Cardinality({i \in DOMAIN stack : stack[i].via = "execute"})
=============================================================================
