------------------------------ MODULE Directory ------------------------------
(***************************************************************************)
(* What an import promises the contact directory, with no jobs, messages   *)
(* or workers: an operator's Idempotency-Key is accepted once, and only    *)
(* then may the import's contacts enter, each email keeping the import     *)
(* that brought it first.                                                  *)
(***************************************************************************)
CONSTANTS Imports, Emails, Keys, None

VARIABLES
    key,        \* the accepted key of an import, or None
    imported,   \* whether the import's transaction has committed
    contacts    \* the import each email in the directory came from, or None

vars == <<key, imported, contacts>>

Init ==
    /\ key = [i \in Imports |-> None]
    /\ imported = [i \in Imports |-> FALSE]
    /\ contacts = [e \in Emails |-> None]

Accept(i, k) ==
    /\ key[i] = None
    /\ key' = [key EXCEPT ![i] = k]
    /\ UNCHANGED <<imported, contacts>>

\* All of an import's emails at once; a known email is skipped.
Import(i, emails) ==
    /\ key[i] # None
    /\ imported' = [imported EXCEPT ![i] = TRUE]
    /\ contacts' = [e \in Emails |->
          IF e \in emails /\ contacts[e] = None THEN i ELSE contacts[e]]
    /\ UNCHANGED key

Next ==
    \E i \in Imports :
        \/ \E k \in Keys : Accept(i, k)
        \/ \E emails \in SUBSET Emails : Import(i, emails)

Spec == Init /\ [][Next]_vars
=============================================================================
