---------------------------- MODULE PortalPause ----------------------------
(***************************************************************************)
(* What portal mode promises its user: protections go off only under a     *)
(* record of the posture they belong to, come back only as recorded, and   *)
(* the record goes only when all of them are back, or when the user takes  *)
(* over by hand; then what the user leaves is the new posture.             *)
(***************************************************************************)
CONSTANTS Protections, NoRecord

VARIABLES
    posture,  \* what the user chose
    on,       \* the protections in force
    held,     \* the posture on record during a pause
    user,     \* the user is switching a protection
    calm      \* nobody has interfered with anybody

Init ==
    /\ posture \in SUBSET Protections
    /\ on = posture
    /\ held = NoRecord
    /\ user = FALSE
    /\ calm = TRUE

Pause ==
    /\ held = NoRecord /\ on = posture
    /\ held' = posture
    /\ UNCHANGED <<posture, on>>

Relax(x) ==
    /\ held # NoRecord /\ x \in on
    /\ on' = on \ {x}
    /\ UNCHANGED <<posture, held>>

Restore(x) ==
    /\ held # NoRecord /\ x \in held \ on
    /\ on' = on \cup {x}
    /\ UNCHANGED <<posture, held>>

Resume ==
    /\ held # NoRecord /\ on = held
    /\ held' = NoRecord
    /\ UNCHANGED <<posture, on>>

\* The machine acts while the user does not.
Machine ==
    /\ ~user /\ ~user'
    /\ Pause \/ Resume \/ \E x \in Protections : Relax(x) \/ Restore(x)

TakeOver == ~user /\ user' /\ UNCHANGED <<posture, on, held>>

\* One protection at a time is switched, on or off.
Switch ==
    /\ user /\ user'
    /\ \E x \in Protections : on' \cup {x} = on \cup {x}
    /\ UNCHANGED <<posture, held>>

HandBack ==
    /\ user /\ ~user'
    /\ posture' = on /\ held' = NoRecord
    /\ UNCHANGED on

Next == \/ calm /\ calm' /\ (Machine \/ TakeOver \/ Switch \/ HandBack)
        \/ ~calm'

Spec == Init /\ [][Next]_<<posture, on, held, user, calm>>
=============================================================================
