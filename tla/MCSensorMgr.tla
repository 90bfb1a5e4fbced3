---------------------------- MODULE MCSensorMgr ----------------------------
(* Instances of SensorMgr for TLC. *)
EXTENDS SensorMgr

(* Two samples that differ in every field of their records: 1360, an alarm *)
(* at the upper limit, and -639, the last cold sample that is no alarm.    *)
TwoReplies == {<<5, 80>>, <<253, 129>>}
=============================================================================
