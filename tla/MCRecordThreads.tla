-------------------------- MODULE MCRecordThreads --------------------------
EXTENDS RecordThreads

ASSUME TwoRecordings == Recordings = 2

\* Two recordings that share an object are both mixed, and the properties say nothing of
\* them any more: a behaviour is followed up to there.
MCNext == mixed = {} /\ Next

MCSpec == Init /\ [][MCNext]_vars /\ Fairness
=============================================================================
