----------------------------- MODULE MCRCInput -----------------------------
(***************************************************************************)
(* Instances of RCInput for TLC: who is active in a behaviour.             *)
(***************************************************************************)
EXTENDS RCInput

\* Timers of every kind and a clock that is set, dialogs that are woken up or opened over
\* each other, keys and the clock, the pipes.
MCScenarios == {
    {"oneshot", "periodic", "kill", "dvb"},
    {"oneshot", "programme", "kill", "dvb"},
    {"oneshot", "programme", "ntp", "UNKNOWN"},
    {"BOX", "UNKNOWN", "oneshot", "dvb"},
    {"keys", "dvb"},
    {"keys", "ntp"},
    {"keys", "clear"},
    {"keys", "BOX", "post", "UNKNOWN"}}
=============================================================================
