---- MODULE MCEventChannel ----
(* Values for the constants of EventChannel. *)
EXTENDS EventChannel

CONSTANTS r1, c1, c2, t1, t2

NoReaders == {}
OneReader == {r1}
NoCallbacks == {}
OneCallback == {c1}
TwoCallbacks == {c1, c2}
OneRun == {t1}
TwoRuns == {t1, t2}
====
