------------------------ MODULE UserSessionRefinement ------------------------
(***************************************************************************)
(* UserSession implements JobService: the session as its user sees it.     *)
(***************************************************************************)
EXTENDS UserSession

sessionBar ==
    CASE pc \in {"first_config", "configuring", "config_resp"} -> "opening"
      [] pc \in {"loop", "dispatch"} -> "open"
      [] pc \in {"drain", "join"} -> "draining"
      [] pc = "ended" -> "closed"

statusBar ==
    [i \in Input |-> CASE stage[i] = "new" -> "new"
                       [] stage[i] = "answered" -> "answered"
                       [] OTHER -> "accepted"]

Service == INSTANCE JobService WITH session <- sessionBar, status <- statusBar

(* Every step of the session is a step of the service or no step of it: no *)
(* input is answered twice or unasked, none is accepted once a new         *)
(* configuration was received, and the session of a reconfigured user ends *)
(* with every accepted input answered (class User).  Holds while no incr() *)
(* passes UIntMax.                                                         *)
ImplementsService == Service!Spec

(* With no failing node, a user that stays and a new configuration that    *)
(* fits, the session also answers every accepted input and then closes.    *)
ImplementsFairService == Service!FairSpec
=============================================================================
