---------------------------- MODULE BatchLedger ----------------------------
(***************************************************************************)
(* What a batch job promises to its user (docs/batch.md), whatever         *)
(* processes run it and however they end: one file at a time is being      *)
(* worked on, each attempt is counted, a file whose response was saved is  *)
(* finished for good, and a file whose attempt did not give a response is  *)
(* on record either as refused or as unknown before anything else starts.  *)
(***************************************************************************)
EXTENDS Naturals

CONSTANT Files

VARIABLES
    state,      \* what is known of each file
    attempts    \* how often each file was tried

ledgerVars == <<state, attempts>>

States == {"waiting", "open", "done", "refused", "unknown"}

LedgerTypeOK ==
    /\ state \in [Files -> States]
    /\ attempts \in [Files -> Nat]

LedgerInit ==
    /\ state = [f \in Files |-> "waiting"]
    /\ attempts = [f \in Files |-> 0]

\* A new attempt: only when every earlier one is accounted for.
Open(f) ==
    /\ \A g \in Files : state[g] # "open"
    /\ state[f] # "done"
    /\ state' = [state EXCEPT ![f] = "open"]
    /\ attempts' = [attempts EXCEPT ![f] = @ + 1]

\* The open attempt ends in one of three ways.
Close(f, outcome) ==
    /\ state[f] = "open"
    /\ state' = [state EXCEPT ![f] = outcome]
    /\ UNCHANGED attempts

LedgerNext ==
    \E f \in Files :
        \/ Open(f)
        \/ Close(f, "done")
        \/ Close(f, "refused")
        \/ Close(f, "unknown")

LedgerSpec == LedgerInit /\ [][LedgerNext]_ledgerVars
=============================================================================
