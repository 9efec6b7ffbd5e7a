----------------------------- MODULE DurableMap -----------------------------
(***************************************************************************)
(* What a state store backend promises to its user: a key-value map that   *)
(* outlives the process.  The user sees `view`; `durable` is the table the *)
(* next process would load, `recent` the tables a loss of power may fall   *)
(* back to.                                                                *)
(*                                                                         *)
(* An update is visible at once and may fail to become durable, which is   *)
(* reported.  An "ok" means that ALL of the view is durable, earlier       *)
(* updates that reported an error included.  Whatever the process does or  *)
(* suffers, `durable` only ever moves to the view.                         *)
(***************************************************************************)
EXTENDS Integers

CONSTANTS Keys, Vals, NoVal

VARIABLES
    view,      \* the table the running process serves
    durable,   \* the table that the files on disk stand for
    recent,    \* the tables that the disk may show after a loss of power
    mode,      \* "down", "ready" or "busy"
    result     \* what the last call returned

vars == <<view, durable, recent, mode, result>>

Table == [Keys -> Vals \cup {NoVal}]

EmptyTable == [k \in Keys |-> NoVal]

Init == /\ view = EmptyTable
        /\ durable = EmptyTable
        /\ recent = {EmptyTable}
        /\ mode = "down"
        /\ result = "none"

\* A process is created or fails to start: nothing of the map changes.
NotOpened == /\ mode = "down"
             /\ result' \in {"none", "err"}
             /\ UNCHANGED <<view, durable, recent, mode>>

\* The store is opened: the process serves what is durable.
Open == /\ mode = "down"
        /\ mode' = "ready"
        /\ view' = durable
        /\ result' = "none"
        /\ UNCHANGED <<durable, recent>>

\* A call begins, an update or one that only asks to persist.
Begin == /\ mode = "ready"
         /\ mode' = "busy"
         /\ \/ UNCHANGED view
            \/ \E k \in Keys, v \in Vals \cup {NoVal} : view' = [view EXCEPT ![k] = v]
         /\ result' = "none"
         /\ UNCHANGED <<durable, recent>>

\* All of the view becomes durable, in a form that survives a loss of power.
Persist == /\ mode = "busy"
           /\ durable' = view
           /\ recent' = {view}
           /\ UNCHANGED <<view, mode, result>>

\* The call returns: the view may have been added to what is durable, and
\* has been when the call succeeds.
Return == /\ mode = "busy"
          /\ mode' = "ready"
          /\ \/ UNCHANGED <<durable, recent>>
             \/ durable' = view /\ recent' = recent \cup {view}
          /\ result' \in {"ok", "err"}
          /\ result' = "ok" => durable' = view
          /\ UNCHANGED view

\* An ordinary shutdown, which may sync what is still at risk.
Close == /\ mode = "ready"
         /\ mode' = "down"
         /\ view' = EmptyTable
         /\ recent' \in {recent, {durable}}
         /\ result' \in {"ok", "err"}
         /\ UNCHANGED durable

\* The process dies, possibly while it appends the view.
Crash == /\ mode # "down"
         /\ mode' = "down"
         /\ view' = EmptyTable
         /\ \/ UNCHANGED <<durable, recent>>
            \/ mode = "busy" /\ durable' = view /\ recent' = recent \cup {view}
         /\ result' = "none"

\* The machine dies: what was not yet synced may be lost.
PowerLoss == /\ mode' = "down"
             /\ view' = EmptyTable
             /\ durable' \in recent
             /\ recent' \subseteq recent
             /\ durable' \in recent'
             /\ result' = "none"

Next == NotOpened \/ Open \/ Begin \/ Persist \/ Return \/ Close \/ Crash \/ PowerLoss

Spec == Init /\ [][Next]_vars
=============================================================================
