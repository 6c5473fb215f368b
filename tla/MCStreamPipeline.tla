-------------------------- MODULE MCStreamPipeline --------------------------
(* One publisher of an accepted content, of a file that is no JSON object  *)
(* and of a content whose identity is rejected; another producer's valid   *)
(* and invalid messages for the same event, and those that no consumer can *)
(* store; and two consumer slots: one always subscribes, what the other    *)
(* does is chosen by the configuration.                                    *)
EXTENDS StreamPipeline

CONSTANTS q1, c1, e1, e2, prepared, omitted, rejected, unvalidated, nul,
          persist, counting

SubscribeReplayOrCount == [p \in Consumers |->
  IF p = c1 THEN {"subscribe"} ELSE {"subscribe", "replay", "count"}]

SubscribeOnly == [p \in Consumers |-> {"subscribe"}]

(* scripts/phase2/latency.py starts a consumer of the default group at     *)
(* captured end offsets.                                                   *)
SubscribeOrStart == [p \in Consumers |->
  IF p = c1 THEN {"subscribe"} ELSE {"start"}]

MCGroupId == [m \in Modes |-> IF m = "count" THEN counting ELSE persist]

MCVerdict ==
  [c \in Contents |->
     CASE c = prepared -> "prepared"
       [] c = omitted -> "omitted"
       [] c = rejected -> "rejected"
       [] c = unvalidated -> "unvalidated"
       [] c = nul -> "omitted"]

MCInputs ==
  [q \in Publishers |-> << [event |-> e1, content |-> prepared],
                           [event |-> e1, content |-> None],
                           [event |-> e2, content |-> rejected] >>]

Storable == {[event |-> e1, content |-> omitted, run |-> NoRun],
             [event |-> e1, content |-> unvalidated, run |-> Run]}

WithRefused == Storable \union
  {[event |-> e2, content |-> None, run |-> NoRun],
   [event |-> e2, content |-> nul, run |-> Run]}

InvalidOrEmpty ==
  {[event |-> e1, content |-> unvalidated, run |-> Run],
   [event |-> e2, content |-> None, run |-> NoRun]}
=============================================================================
