------------------------------- MODULE RunContract -----------------------------
(****************************************************************************)
(* What docs/architecture promises of a Run, without files, caches, crashes *)
(* or exceptions: a Run opens once and closes once; a transaction is asked  *)
(* for only when none is owed; its calls start in order, before any result; *)
(* every call gets exactly one result, in order; nothing follows the close. *)
(* RunLifecycle implements this module.                                     *)
(****************************************************************************)
EXTENDS Naturals, Sequences

CONSTANTS Runs, CallIds

VARIABLE run    \* run[r]: the phase of r, the calls still owed a result, and
                \* which calls of the transaction have started

Phases == {"absent", "open", "closed"}

Init == run = [r \in Runs |-> [phase |-> "absent", owed |-> <<>>, started |-> {}]]

Open(r) ==
    /\ run[r].phase = "absent"
    /\ run' = [run EXCEPT ![r].phase = "open"]

Request(r) ==
    /\ run[r].phase = "open"
    /\ run[r].owed = <<>>
    /\ run'[r].owed # <<>>
    /\ run'[r].owed \in Seq(CallIds)
    /\ run' = [run EXCEPT ![r].owed = run'[r].owed]

\* Calls start in order: nobody behind c in the transaction has started.
Start(r) ==
    \E i \in DOMAIN run[r].owed :
        /\ run[r].phase = "open"
        /\ \A j \in DOMAIN run[r].owed : j >= i => run[r].owed[j] \notin run[r].started
        /\ run' = [run EXCEPT ![r].started = @ \cup {run[r].owed[i]}]

\* The first owed call is answered; with the last answer the starts are forgotten.
Settle(r) ==
    /\ run[r].phase = "open"
    /\ run[r].owed # <<>>
    /\ run' = [run EXCEPT ![r].owed = Tail(@),
                          ![r].started = IF Len(run[r].owed) = 1 THEN {} ELSE @]

Close(r) ==
    /\ run[r].phase = "open"
    /\ run[r].owed = <<>>
    /\ run' = [run EXCEPT ![r].phase = "closed"]

Next == \E r \in Runs : Open(r) \/ Request(r) \/ Start(r) \/ Settle(r) \/ Close(r)

Spec == Init /\ [][Next]_run
================================================================================
