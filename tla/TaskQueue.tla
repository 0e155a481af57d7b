----------------------------- MODULE TaskQueue ------------------------------
(***************************************************************************)
(* What the dispatcher promises to the rest of the server, without thread, *)
(* lock or condition variable: a task is served at most once; the          *)
(* scheduler's tasks are served before all others, the latest first; the   *)
(* others are served in the order of their submission; and while the queue *)
(* is in service every submitted task is eventually served.                *)
(***************************************************************************)
EXTENDS Naturals, Sequences

CONSTANTS Items, UrgentItems, Final

VARIABLES urgent,       \* pending urgent items, the next to serve first
          ordinary,     \* pending ordinary items, the next to serve first
          served,       \* items that were served
          phase         \* idle, open, closing, over

queueVars == <<urgent, ordinary, served, phase>>

Pending == {urgent[i] : i \in DOMAIN urgent} \cup {ordinary[i] : i \in DOMAIN ordinary}

QueueInit == /\ urgent = <<>>
             /\ ordinary = <<>>
             /\ served = {}
             /\ phase = "idle"

Open == /\ phase = "idle"
        /\ phase' = "open"
        /\ UNCHANGED <<urgent, ordinary, served>>

Submit(i) ==
    /\ phase = "open"
    /\ i \notin Pending \cup served
    /\ IF i \in UrgentItems
         THEN urgent' = <<i>> \o urgent /\ UNCHANGED ordinary
         ELSE ordinary' = Append(ordinary, i) /\ UNCHANGED urgent
    /\ UNCHANGED <<served, phase>>

Close == /\ phase = "open"
         /\ phase' = "closing"
         /\ UNCHANGED <<urgent, ordinary, served>>

\* The final item can be submitted in any phase, once; it is an ordinary one.
SubmitFinal ==
    /\ phase # "idle"
    /\ Final \notin Pending \cup served
    /\ ordinary' = Append(ordinary, Final)
    /\ UNCHANGED <<urgent, served, phase>>

Serve ==
    /\ phase \in {"open", "closing"}
    /\ Final \notin served
    /\ \/ /\ urgent # <<>>
          /\ served' = served \cup {Head(urgent)}
          /\ urgent' = Tail(urgent)
          /\ UNCHANGED ordinary
       \/ /\ urgent = <<>>
          /\ ordinary # <<>>
          /\ served' = served \cup {Head(ordinary)}
          /\ ordinary' = Tail(ordinary)
          /\ UNCHANGED urgent
    /\ UNCHANGED phase

\* Serving the final item ends the service; after an orderly closing nothing
\* is left behind.
End == /\ Final \in served
       /\ phase \in {"open", "closing"}
       /\ phase = "closing" => urgent \o ordinary = <<>>
       /\ phase' = "over"
       /\ UNCHANGED <<urgent, ordinary, served>>

QueueNext == \/ Open \/ Close \/ SubmitFinal \/ Serve \/ End
             \/ \E i \in Items : Submit(i)

QueueSpec == /\ QueueInit
             /\ [][QueueNext]_queueVars
             /\ WF_queueVars(Serve)
             /\ WF_queueVars(End)

=============================================================================
