--------------------------- MODULE TicketDelivery ---------------------------
(***************************************************************************)
(* What the pipeline promises of each error (an application, a normalised  *)
(* line and a day), without goroutines, rows, receipt handles or restarts: *)
(* it is raised once and then given to the queue at most once; it is       *)
(* closed, or taken from the queue, only after the actions of its          *)
(* application completed for it.                                           *)
(***************************************************************************)
EXTENDS Naturals

CONSTANT Errors

VARIABLES
    raised,   \* the errors that have a ticket
    sent,     \* how many messages the queue was given for each
    worked,   \* the errors all whose actions completed
    closed,   \* the errors whose ticket says done
    gone      \* the errors whose message was deleted

vars == <<raised, sent, worked, closed, gone>>

Init ==
    /\ raised = {}
    /\ sent = [e \in Errors |-> 0]
    /\ worked = {}
    /\ closed = {}
    /\ gone = {}

Raise(e) ==
    /\ e \notin raised
    /\ raised' = raised \cup {e}
    /\ UNCHANGED <<sent, worked, closed, gone>>

Send(e) ==
    /\ e \in raised
    /\ sent[e] = 0
    /\ sent' = [sent EXCEPT ![e] = 1]
    /\ UNCHANGED <<raised, worked, closed, gone>>

Work(e) ==
    /\ sent[e] = 1
    /\ worked' = worked \cup {e}
    /\ UNCHANGED <<raised, sent, closed, gone>>

Close(e) ==
    /\ e \in worked
    /\ closed' = closed \cup {e}
    /\ UNCHANGED <<raised, sent, worked, gone>>

(* A late status write replaces done.                                      *)
Reopen(e) ==
    /\ closed' = closed \ {e}
    /\ UNCHANGED <<raised, sent, worked, gone>>

Remove(e) ==
    /\ e \in worked
    /\ gone' = gone \cup {e}
    /\ UNCHANGED <<raised, sent, worked, closed>>

Next == \E e \in Errors :
    Raise(e) \/ Send(e) \/ Work(e) \/ Close(e) \/ Reopen(e) \/ Remove(e)

Spec == Init /\ [][Next]_vars
=============================================================================
