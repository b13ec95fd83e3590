----------------------------- MODULE MCDelivery ------------------------------
(* An instance of DeliveryHistory for TLC. *)
EXTENDS DeliveryHistory, TLC

CONSTANTS i1, m1, e1

\* One import with one row.
OneRow == [i \in Imports |-> [m \in Mappings |-> {e1}]]

\* The state an upload, a mapping and an undisturbed validation lead to. The
\* second job is then a confirmation, or a validation under a mapping saved
\* again.
ValidatedInit ==
    /\ batch = [i \in Imports |-> [NoBatch EXCEPT
                   !.status = "validated", !.mapping = m1, !.accepted = {e1}]]
    /\ job = [j \in JobIds |->
                 IF j = 1 THEN [status |-> "succeeded", import |-> i1,
                                kind |-> "validate", attempts |-> 1]
                 ELSE NoJob]
    /\ attempt = [j \in JobIds |-> [n \in AttemptNumbers |->
                     IF j = 1 /\ n = 1 THEN "succeeded" ELSE None]]
    /\ outbox = [j \in JobIds |-> IF j = 1 THEN "published" ELSE None]
    /\ contacts = [e \in Emails |-> None]
    /\ report = [i \in Imports |-> {e1}]
    /\ queue = [m \in Messages |-> 0]
    /\ worker = [w \in Workers |-> IdleWorker]
    /\ recon = [r \in Reconcilers |-> IdleReconciler]
    /\ session = [s \in Sessions |-> IdleSession]
    /\ overtaken = {}

ValidatedSpec == ValidatedInit /\ [][HistoryNext]_historyVars

ProcessSymmetry == Permutations(Workers) \cup Permutations(Reconcilers)
=============================================================================
