---------------------------- MODULE EventLedger -----------------------------
(***************************************************************************)
(* What the psycal daemon promises about an event, without queues, threads  *)
(* or files: a client's event is accepted once, waits among the upcoming    *)
(* ones, and is archived once.  Upcoming events may be lost; the archive    *)
(* only grows.                                                              *)
(***************************************************************************)
CONSTANT Ids

VARIABLES accepted, upcoming, archived

Init == accepted = {} /\ upcoming = {} /\ archived = {}

Accept(e) ==
    /\ e \in Ids \ accepted
    /\ accepted' = accepted \cup {e}
    /\ upcoming' = upcoming \cup {e}
    /\ UNCHANGED archived

Archive(e) ==
    /\ e \in upcoming
    /\ upcoming' = upcoming \ {e}
    /\ archived' = archived \cup {e}
    /\ UNCHANGED accepted

Lose(lost) ==
    /\ lost \subseteq upcoming
    /\ upcoming' = upcoming \ lost
    /\ UNCHANGED <<accepted, archived>>

Next == \/ \E e \in Ids : Accept(e) \/ Archive(e)
        \/ \E lost \in SUBSET upcoming : Lose(lost)

Spec == Init /\ [][Next]_<<accepted, upcoming, archived>>
=============================================================================
