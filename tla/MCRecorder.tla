----------------------------- MODULE MCRecorder -----------------------------
(***************************************************************************)
(* Instances of Recorder for TLC: the boxes of each run.                   *)
(***************************************************************************)
EXTENDS Recorder

Box(timed, manual, settings, users, n, faults) ==
    [timed |-> timed, manual |-> manual, settings |-> settings, users |-> users,
     inputs |-> n, faults |-> faults]

\* Timers and standby; two timers that follow each other.
TimerBoxes ==
    {Box({"a"}, {"m"}, {"auto_delete", "zap_on_announce", "stopplayback"},
         {"standby", "zap", "STANDBY_ON"}, 4, {}),
     Box({"a", "b"}, {"m"}, {"auto_delete"},
         {"standby", "zap", "STANDBY_ON", "STANDBY_OFF"}, 3, {})}

\* Everything a user can do, an automatic timeshift, and faults.
FaultBox ==
    Box({"a"}, {"m", "n"}, {"auto_timeshift", "auto_delete", "zap_on_announce"},
        {"record", "timeshift", "menu", "standby", "zap"}, 2, {"open", "short"})

\* Two timers and recordings begun by hand.
KeyBox ==
    Box({"a", "b"}, {"m", "n"}, {"auto_delete", "zap_on_announce"},
        {"record", "timeshift", "standby", "zap"}, 2, {})

SafetyBoxes == TimerBoxes \cup {FaultBox}
KeyBoxes    == {KeyBox}
OverBoxes   == {[KeyBox EXCEPT !.manual = {"m"}, !.users = {"record"}, !.inputs = 1]}
=============================================================================
