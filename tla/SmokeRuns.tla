------------------------------ MODULE SmokeRuns ------------------------------
(***************************************************************************)
(* foundation_smoke.py: the fast smoke, which proves the stores and the    *)
(* alerting work, and the recovery smoke, which restarts every service and *)
(* proves that what it wrote is still there.  Smokes share one table, one  *)
(* topic and one exporter, run against each other, have a deadline after   *)
(* which they may start no command, and may be killed.                     *)
(***************************************************************************)
EXTENDS Naturals, Sequences

CONSTANTS
  Fast,      \* invocations of foundation_smoke.py fast
  Recovery,  \* invocations of foundation_smoke.py recovery
  MaxLog     \* bound on the messages in the topic

ASSUME SmokeAssumption == Fast \intersect Recovery = {} /\ MaxLog \in Nat

Smokes == Fast \union Recovery
Stores == {"postgres", "kafka"}

VARIABLES
  persistent,  \* stores whose data survives a restart of their container
  rows,        \* foundation.smoke_events
  log,         \* dcim.synthetic.smoke.v1: who sent each message
  exporterUp,
  firing,      \* FoundationTargetDown, which Prometheus raises and clears later
  restoring,   \* restore databases and the rows in each
  smoking,     \* where each smoke is
  offset,      \* the offset it took before it published, or measured
  dumped,      \* the rows in its dump
  expired,     \* its deadline has passed
  verdict

smokeVars == <<persistent, rows, log, exporterUp, firing, restoring, smoking, offset, dumped,
               expired, verdict>>
stores == <<rows, log>>
alerting == <<exporterUp, firing>>
own == <<offset, dumped>>

NotThere == {"no database"}
FastPlan == <<"capacity", "topic", "oversize", "insert", "offset", "publish", "consume", "observe",
              "stop", "alert", "start", "clear", "done">>
RecoveryPlan == <<"capacity", "insert", "offset", "publish", "consume", "restart", "rows", "log",
                  "converge", "dump", "create", "restore", "drop", "done">>
PlanOf(s) == IF s \in Fast THEN FastPlan ELSE RecoveryPlan

SmokeTypeOK ==
  /\ persistent \subseteq Stores /\ rows \subseteq Smokes /\ log \in Seq(Smokes) /\ Len(log) <= MaxLog
  /\ exporterUp \in BOOLEAN /\ firing \in BOOLEAN
  /\ restoring \in [Smokes -> (SUBSET Smokes) \union {NotThere}]
  /\ smoking \in [Smokes -> Nat]
  /\ \A s \in Smokes : smoking[s] \in 1 .. Len(PlanOf(s)) + (IF verdict[s] = "pass" THEN 1 ELSE 0)
  /\ offset \in [Smokes -> 0 .. MaxLog] /\ dumped \in [Smokes -> SUBSET Smokes]
  /\ expired \in [Smokes -> BOOLEAN]
  /\ verdict \in [Smokes -> {"none", "pass", "fail", "killed"}]

SmokeInit ==
  /\ persistent \in SUBSET Stores /\ rows = {} /\ log = <<>>
  /\ exporterUp = TRUE /\ firing = FALSE
  /\ restoring = [s \in Smokes |-> NotThere]
  /\ smoking = [s \in Smokes |-> 1]
  /\ offset = [s \in Smokes |-> 0] /\ dumped = [s \in Smokes |-> {}]
  /\ expired = [s \in Smokes |-> FALSE]
  /\ verdict = [s \in Smokes |-> "none"]
-----------------------------------------------------------------------------
(* run: a smoke does the next step of its plan unless its deadline passed. *)
Takes(s, name) ==
  /\ verdict[s] = "none" /\ ~expired[s]
  /\ PlanOf(s)[smoking[s]] = name
  /\ smoking' = [smoking EXCEPT ![s] = @ + 1]

(* Steps that change nothing: the capacity, the topic and its inventory.   *)
CheckSetup(s) ==
  /\ Takes(s, "capacity") \/ Takes(s, "topic")
  /\ UNCHANGED <<persistent, stores, alerting, restoring, own, expired, verdict>>

(* kafka_next_offset: before the oversize message, and before its own.     *)
MeasureLog(s) ==
  /\ Takes(s, "oversize") \/ Takes(s, "offset")
  /\ offset' = [offset EXCEPT ![s] = Len(log)]
  /\ UNCHANGED <<persistent, stores, alerting, restoring, dumped, expired, verdict>>

(* The oversize message was refused: the log is as long as before; then    *)
(* the row is inserted.                                                    *)
InsertRow(s) ==
  /\ Takes(s, "insert")
  /\ s \in Fast => Len(log) = offset[s]
  /\ rows' = rows \union {s}
  /\ UNCHANGED <<persistent, log, alerting, restoring, own, expired, verdict>>

(* kafka_round_trip: a second smoke may have sent since the measurement.   *)
PublishMessage(s) ==
  /\ Takes(s, "publish") /\ Len(log) < MaxLog
  /\ log' = Append(log, s)
  /\ UNCHANGED <<persistent, rows, alerting, restoring, own, expired, verdict>>

(* kafka_consume_at_offset: the message there must be its own.             *)
Holds(s) == offset[s] < Len(log) /\ log[offset[s] + 1] = s

Consume(s) ==
  /\ Takes(s, "consume") /\ Holds(s)
  /\ UNCHANGED <<persistent, stores, alerting, restoring, own, expired, verdict>>

(* compose restart and up: every service starts anew, the exporter too.    *)
Restart(s) ==
  /\ Takes(s, "restart")
  /\ rows' = IF "postgres" \in persistent THEN rows ELSE {}
  /\ log' = IF "kafka" \in persistent THEN log ELSE <<>>
  /\ exporterUp' = TRUE
  /\ UNCHANGED <<persistent, firing, restoring, own, expired, verdict>>

(* postgres_verify_persisted.                                              *)
VerifyRows(s) ==
  /\ Takes(s, "rows") /\ s \in rows
  /\ UNCHANGED <<persistent, stores, alerting, restoring, own, expired, verdict>>

(* Slip: only the end of the log is looked at.                             *)
VerifyOffset(s) ==
  /\ Takes(s, "log") /\ Len(log) > offset[s]
  /\ UNCHANGED <<persistent, stores, alerting, restoring, own, expired, verdict>>

(* kafka_verify_persisted.                                                 *)
VerifyLog(s) ==
  /\ Takes(s, "log") /\ Len(log) > offset[s] /\ Holds(s)
  /\ UNCHANGED <<persistent, stores, alerting, restoring, own, expired, verdict>>

(* Every target is up, the exporter among them.                            *)
Observe(s) ==
  /\ Takes(s, "observe") \/ Takes(s, "converge")
  /\ exporterUp
  /\ UNCHANGED <<persistent, stores, alerting, restoring, own, expired, verdict>>

(* controlled_alert_transition: stop the exporter, wait for the alert,     *)
(* start it again, wait until it clears.                                   *)
StopExporter(s) ==
  /\ Takes(s, "stop")
  /\ exporterUp' = FALSE
  /\ UNCHANGED <<persistent, stores, firing, restoring, own, expired, verdict>>

SeeAlert(s) ==
  /\ \/ Takes(s, "alert") /\ firing
     \/ Takes(s, "clear") /\ ~firing
  /\ UNCHANGED <<persistent, stores, alerting, restoring, own, expired, verdict>>

StartExporter(s) ==
  /\ Takes(s, "start")
  /\ exporterUp' = TRUE
  /\ UNCHANGED <<persistent, stores, firing, restoring, own, expired, verdict>>

(* Prometheus follows the target.                                          *)
Evaluate ==
  /\ firing = exporterUp
  /\ firing' = ~exporterUp
  /\ UNCHANGED <<persistent, stores, exporterUp, restoring, smoking, own, expired, verdict>>

DumpFoundation(s) ==
  /\ Takes(s, "dump")
  /\ dumped' = [dumped EXCEPT ![s] = rows]
  /\ UNCHANGED <<persistent, stores, alerting, restoring, offset, expired, verdict>>

CreateRestore(s) ==
  /\ Takes(s, "create")
  /\ restoring' = [restoring EXCEPT ![s] = {}]
  /\ UNCHANGED <<persistent, stores, alerting, own, expired, verdict>>

(* The dump is restored, then compared with the live table as it is now.   *)
RestoreDump(s) ==
  /\ Takes(s, "restore") /\ dumped[s] = rows
  /\ restoring' = [restoring EXCEPT ![s] = dumped[s]]
  /\ UNCHANGED <<persistent, stores, alerting, own, expired, verdict>>

DropRestore(s) ==
  /\ Takes(s, "drop")
  /\ restoring' = [restoring EXCEPT ![s] = NotThere]
  /\ UNCHANGED <<persistent, stores, alerting, own, expired, verdict>>

Pass(s) ==
  /\ Takes(s, "done")
  /\ verdict' = [verdict EXCEPT ![s] = "pass"]
  /\ UNCHANGED <<persistent, stores, alerting, restoring, own, expired>>

(* Any step fails; the finally blocks still run their command, unless the  *)
(* deadline has passed, which refuses that command as well.                *)
FailSmoke(s) ==
  /\ verdict[s] = "none"
  /\ verdict' = [verdict EXCEPT ![s] = "fail"]
  /\ exporterUp' = (exporterUp \/ (~expired[s] /\ PlanOf(s)[smoking[s]] = "alert"))
  /\ restoring' = IF ~expired[s] /\ PlanOf(s)[smoking[s]] = "restore"
                  THEN [restoring EXCEPT ![s] = NotThere] ELSE restoring
  /\ UNCHANGED <<persistent, stores, firing, smoking, own, expired>>

Expire(s) ==
  /\ verdict[s] = "none" /\ ~expired[s]
  /\ expired' = [expired EXCEPT ![s] = TRUE]
  /\ UNCHANGED <<persistent, stores, alerting, restoring, smoking, own, verdict>>

KillSmoke(s) ==
  /\ verdict[s] = "none"
  /\ verdict' = [verdict EXCEPT ![s] = "killed"]
  /\ UNCHANGED <<persistent, stores, alerting, restoring, smoking, own, expired>>

SmokeNext ==
  \/ Evaluate
  \/ \E s \in Smokes :
       \/ CheckSetup(s) \/ MeasureLog(s) \/ InsertRow(s) \/ Consume(s) \/ Restart(s)
       \/ PublishMessage(s)
       \/ VerifyRows(s) \/ VerifyLog(s) \/ Observe(s)
       \/ StopExporter(s) \/ SeeAlert(s) \/ StartExporter(s)
       \/ DumpFoundation(s) \/ CreateRestore(s) \/ RestoreDump(s) \/ DropRestore(s)
       \/ Pass(s) \/ FailSmoke(s) \/ Expire(s) \/ KillSmoke(s)

SmokeSpec == SmokeInit /\ [][SmokeNext]_smokeVars
-----------------------------------------------------------------------------
(* A recovery smoke passes only where both stores keep their data over a   *)
(* restart, whatever other smokes write meanwhile.                         *)
SmokePassProvesPersistence ==
  \A s \in Recovery : verdict[s] = "pass" => persistent = Stores
=============================================================================
