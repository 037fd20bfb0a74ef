------------------------------- MODULE Timers -------------------------------
(***************************************************************************)
(* zmq_timers: repeating timers an application runs itself, by asking for  *)
(* the time left and executing what has expired.  The timers are in a map  *)
(* ordered by due time, here a sequence; a cancelled timer stays in it     *)
(* until it comes to the front.  A handler runs in the middle of execute   *)
(* and may add and cancel timers, move others, and take time.              *)
(***************************************************************************)
EXTENDS Integers, FiniteSets, SequencesExt

CONSTANTS Intervals,  \* milliseconds, none of them 0: execute () would not end
          MaxTimers,  \* bound: timers ever added
          MaxNow      \* bound: the clock

VARIABLES timers,     \* the map, in its order
          cancelled,  \* _cancelled_timers
          next_id,    \* _next_timer_id
          now,        \* the clock
          run,        \* execute in progress: the place it is at and its time
          due,        \* for every timer that is not cancelled, when it is to run next
          odd         \* handlers run wrongly, expired timers left out

vars == <<timers, cancelled, next_id, now, run, due, odd>>

Resting == [it |-> 0, at |-> 0, in |-> FALSE]

Init ==
    /\ timers = <<>> /\ cancelled = {} /\ next_id = 0 /\ now = 0
    /\ run = Resting /\ due = <<>> /\ odd = {}

\* A multimap keeps equal keys in the order in which they came.
insert(ts, t) ==
    LET k == Cardinality({i \in DOMAIN ts : ts[i].when <= t.when})
    IN  SubSeq(ts, 1, k) \o <<t>> \o SubSeq(ts, k + 1, Len(ts))

At(id) == {i \in DOMAIN timers : timers[i].id = id}
Calling == run.it = 0 \/ run.in    \* the application, or a handler, has control

add == \E interval \in Intervals :
    /\ Calling /\ next_id < MaxTimers
    /\ next_id' = next_id + 1
    /\ timers' = insert(timers, [when |-> now + interval, id |-> next_id', interval |-> interval])
    /\ due' = [id \in 1..next_id' |-> IF id = next_id' THEN now + interval ELSE due[id]]
    /\ UNCHANGED <<cancelled, now, run, odd>>

cancel == \E id \in 1..next_id :
    /\ Calling /\ At(id) # {} /\ id \notin cancelled
    /\ cancelled' = cancelled \cup {id}
    /\ due' = [due EXCEPT ![id] = 0]
    /\ UNCHANGED <<timers, next_id, now, run, odd>>

\* A timer moves to its new time.  execute () is at an element of the map and
\* remembers the first: from a handler only the elements after are moved.
move(i, interval) ==
    /\ timers' = insert(RemoveAt(timers, i),
                        [timers[i] EXCEPT !.when = now + interval, !.interval = interval])
    /\ due' = [due EXCEPT ![timers[i].id] = IF @ = 0 THEN 0 ELSE now + interval]
    /\ UNCHANGED <<cancelled, next_id, now, run, odd>>
set_interval == \E id \in 1..next_id, interval \in Intervals :
    /\ Calling /\ At(id) # {} /\ Min(At(id)) > run.it
    /\ move(Min(At(id)), interval)
reset == \E id \in 1..next_id :
    /\ Calling /\ At(id) # {} /\ Min(At(id)) > run.it
    /\ move(Min(At(id)), timers[Min(At(id))].interval)

\* timeout: cancelled timers at the front are dropped, with their marks; the
\* first other one says how long to wait.  A handler is not to call it: the
\* first element is then one that execute is going to erase, and would be erased
\* at once if the handler has cancelled its own timer.
Live == {i \in DOMAIN timers : timers[i].id \notin cancelled}
timeout ==
    /\ Calling /\ ~run.in
    /\ LET n == IF Live = {} THEN Len(timers) ELSE Min(Live) - 1
           res == IF Live = {} THEN -1 ELSE Max({timers[n + 1].when - now, 0})
           next == {due[id] : id \in {i \in 1..next_id : due[i] # 0}}
       IN  /\ timers' = SubSeq(timers, n + 1, Len(timers))
           /\ cancelled' = cancelled \ {timers[i].id : i \in 1..n}
           /\ odd' = odd \cup (IF res = (IF next = {} THEN -1 ELSE Max({Min(next) - now, 0}))
                               THEN {} ELSE {"timeout"})
    /\ UNCHANGED <<next_id, now, run, due>>

\* execute: one element at a time, a cancelled one is passed over.
execute ==
    /\ run = Resting
    /\ run' = [it |-> 1, at |-> now, in |-> FALSE]
    /\ UNCHANGED <<timers, cancelled, next_id, now, due, odd>>

\* A plausible slip: a timer due now waits for the next call.
Over_early == run.it \in DOMAIN timers =>
                  timers[run.it].id \notin cancelled /\ timers[run.it].when >= run.at

Over == run.it \in DOMAIN timers =>
            timers[run.it].id \notin cancelled /\ timers[run.it].when > run.at
pass_cancelled ==
    /\ run.it > 0 /\ ~run.in /\ ~Over /\ timers[run.it].id \in cancelled
    /\ cancelled' = cancelled \ {timers[run.it].id}
    /\ run' = [run EXCEPT !.it = @ + 1]
    /\ UNCHANGED <<timers, next_id, now, due, odd>>

handler ==
    /\ run.it > 0 /\ ~run.in /\ ~Over /\ timers[run.it].id \notin cancelled
    /\ run' = [run EXCEPT !.in = TRUE]
    /\ odd' = odd \cup (IF due[timers[run.it].id] \in 1..now THEN {} ELSE {"handler"})
    /\ due' = [due EXCEPT ![timers[run.it].id] = run.at + timers[run.it].interval]
    /\ UNCHANGED <<timers, cancelled, next_id, now>>

\* The handler returns and its timer is put back.
insert_again ==
    /\ run.in
    /\ timers' = insert(timers, [timers[run.it] EXCEPT !.when = run.at + timers[run.it].interval])
    /\ run' = [run EXCEPT !.it = @ + 1, !.in = FALSE]
    /\ UNCHANGED <<cancelled, next_id, now, due, odd>>

erase ==
    /\ run.it > 0 /\ ~run.in /\ Over
    /\ timers' = SubSeq(timers, run.it, Len(timers))
    /\ odd' = odd \cup (IF \E id \in 1..next_id : due[id] \in 1..run.at THEN {"expired"} ELSE {})
    /\ run' = Resting
    /\ UNCHANGED <<cancelled, next_id, now, due>>

tick ==
    /\ Calling /\ now < MaxNow
    /\ now' = now + 1
    /\ UNCHANGED <<timers, cancelled, next_id, run, due, odd>>

Next ==
    \/ add \/ cancel \/ set_interval \/ reset \/ timeout
    \/ execute \/ pass_cancelled \/ handler \/ insert_again \/ erase \/ tick

Spec == Init /\ [][Next]_vars

-----------------------------------------------------------------------------
\* No handler runs before its time or after its timer was cancelled, execute
\* leaves no expired timer out, and timeout () names exactly the moment of the
\* next one, while handlers add and cancel timers and move those that execute has
\* not come to yet.
\* Under it: every timer that is not cancelled is in the map once, besides the
\* elements execute is about to erase, and exactly the cancelled are marked.
TimersRight ==
    /\ odd = {}
    /\ \A i \in 1..(Len(timers) - 1) : timers[i].when <= timers[i + 1].when
    /\ run = Resting =>
        /\ \A id \in 1..next_id :
            due[id] # 0 => /\ Cardinality(At(id)) = 1
                           /\ timers[Min(At(id))].when = due[id]
        /\ \A i \in DOMAIN timers : due[timers[i].id] = 0 <=> timers[i].id \in cancelled
=============================================================================
