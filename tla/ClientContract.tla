--------------------------- MODULE ClientContract ---------------------------
(***************************************************************************)
(* What a `TwitchIRCClient` promises to the callers that share it: as long *)
(* as one of them holds a handle the client serves, every call that waits  *)
(* comes back, and after the last handle is dropped the client ends.       *)
(*                                                                         *)
(* A panic in one connection takes part of this back.  When its loop has   *)
(* panicked, calls may end in a panic and the client may end too, under    *)
(* the callers that hold it.  When its login has, the calls that were      *)
(* handed to this connection are stranded: they wait as long as it is      *)
(* there.                                                                  *)
(***************************************************************************)
CONSTANTS Callers

VARIABLES holding,   \* callers that hold a handle
          asking,    \* callers that wait for a reply
          stranded,  \* those of them whose reply may never come
          serving,   \* the client loop runs
          crashed    \* the loop of a connection has panicked

vars == <<holding, asking, stranded, serving, crashed>>

Init ==
    /\ holding \in (SUBSET Callers) \ {{}}
    /\ asking = {} /\ stranded = {} /\ serving = TRUE /\ crashed = FALSE

Ask(k) ==
    /\ serving /\ k \in holding \ asking
    /\ asking' = asking \union {k}
    /\ UNCHANGED <<holding, stranded, serving, crashed>>

\* With a reply, or because the caller dropped the future.
Return(k) ==
    /\ serving \/ crashed
    /\ k \in asking
    /\ asking' = asking \ {k}
    /\ stranded' = stranded \ {k}
    /\ UNCHANGED <<holding, serving, crashed>>

Clone(k, other) ==
    /\ k \in holding
    /\ holding' = holding \union {other}
    /\ UNCHANGED <<asking, stranded, serving, crashed>>

\* A future borrows the handle it was made from.
Drop(k) ==
    /\ k \in holding \ asking
    /\ holding' = holding \ {k}
    /\ UNCHANGED <<asking, stranded, serving, crashed>>

Strand ==
    /\ stranded' \in SUBSET asking /\ stranded \subseteq stranded'
    /\ UNCHANGED <<holding, asking, serving, crashed>>

\* Some calls panic: those whose replies are lost with a loop that panics.
Lose == asking' \in SUBSET asking /\ stranded' = stranded \intersect asking'

ConnectionPanics ==
    /\ serving /\ Lose
    /\ crashed' = TRUE
    /\ UNCHANGED <<holding, serving>>

\* The client panics over a connection that has, and drops all the others.
Break ==
    /\ crashed /\ serving
    /\ serving' = FALSE
    /\ asking' \in SUBSET asking /\ stranded' = {}
    /\ UNCHANGED <<holding, crashed>>

\* What the others still owed is lost when they end.
FallOut ==
    /\ crashed /\ ~serving /\ Lose
    /\ UNCHANGED <<holding, serving, crashed>>

End ==
    /\ serving /\ holding = {}
    /\ serving' = FALSE
    /\ UNCHANGED <<holding, asking, stranded, crashed>>

Next ==
    \/ \E k \in Callers : Ask(k) \/ Return(k) \/ Drop(k) \/ \E other \in Callers : Clone(k, other)
    \/ Strand \/ ConnectionPanics \/ Break \/ FallOut \/ End

Safe == Init /\ [][Next]_vars
Spec == Safe /\ WF_vars(End) /\ \A k \in Callers : WF_vars(k \notin stranded /\ Return(k))
=============================================================================
