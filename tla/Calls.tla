------------------------------- MODULE Calls -------------------------------
(***************************************************************************)
(* A computation without state of its own, as one call and its answer: the  *)
(* modules that extend this one add the calls.                              *)
(***************************************************************************)
CONSTANT None

VARIABLES
    request,    \* the call that is made
    answer      \* what it returns, None if it raises

calls == <<request, answer>>

NoCall == request = None /\ answer = None

Answer(q, accepted, result) ==
    /\ request' = q
    /\ answer' = IF accepted THEN result ELSE None

Answered(name) == request # None /\ answer # None /\ request.call = name
=============================================================================
