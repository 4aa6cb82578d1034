---------------------------- MODULE CallbackPromise ----------------------------
(***************************************************************************)
(* What a visitor who sends the callback form is promised: the form is     *)
(* stored, then the notification service is told of it, and only then does *)
(* the visitor read that all went well.  Nothing of it is taken back.      *)
(***************************************************************************)
CONSTANT Forms   \* what visitors fill in; a retry sends the same form

VARIABLES
    kept,      \* forms stored as a callback request
    told,      \* forms whose stored request the stream announces
    done       \* forms answered with 201

vars == <<kept, told, done>>

Init == kept = {} /\ told = {} /\ done = {}

Keep(f) ==
    /\ f \notin kept
    /\ kept' = kept \cup {f}
    /\ UNCHANGED <<told, done>>

Tell(f) ==
    /\ f \in kept \ told
    /\ told' = told \cup {f}
    /\ UNCHANGED <<kept, done>>

Settle(f) ==
    /\ f \in told \ done
    /\ done' = done \cup {f}
    /\ UNCHANGED <<kept, told>>

Next == \E f \in Forms : Keep(f) \/ Tell(f) \/ Settle(f)

Spec == Init /\ [][Next]_vars
================================================================================
