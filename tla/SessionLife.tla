---------------------------- MODULE SessionLife ----------------------------
(***************************************************************************)
(* What the session store promises the rest of the daemon: a token is      *)
(* issued at most once, and once its session has ended (logout, expiry) it *)
(* is never valid again.                                                   *)
(***************************************************************************)
CONSTANT Tokens

VARIABLES
    live,   \* tokens with a session
    issued  \* tokens ever handed out

Init == live = {} /\ issued = {}

Issue(t) ==
    /\ t \notin issued
    /\ issued' = issued \cup {t}
    /\ live' = live \cup {t}

End(t) ==
    /\ t \in live
    /\ live' = live \ {t}
    /\ UNCHANGED issued

Next == \E t \in Tokens : Issue(t) \/ End(t)

Spec == Init /\ [][Next]_<<live, issued>>
=============================================================================
