-------------------------- MODULE MCSoftwareTimers --------------------------
(* SoftwareTimers with a few callers and a short command queue.  A long    *)
(* timeout may end at once or never, with one shorter than a tick on_timer *)
(* does not wait at all; one task has the patience of the default.         *)
EXTENDS SoftwareTimers

TwoForMain == [c \in Caller |-> IF c = "main" THEN 2 ELSE 1]

Patient ==
    [c \in Caller |-> CASE c = "t"      -> {"0xFFFFFFFF"}
                        [] c = "main"   -> {"long"}
                        [] c = "daemon" -> {"long", "short"}
                        [] c = "isr"    -> {}]

(* A one-shot timer on two cores, a periodic timer on an AVR.              *)
SupportedBuilds ==
    {[AutoReload |-> FALSE, DaemonFirst |-> FALSE, CreateMayFail |-> FALSE],
     [AutoReload |-> TRUE,  DaemonFirst |-> TRUE,  CreateMayFail |-> TRUE]}
=============================================================================
