---------------------------- MODULE MCEventStore ----------------------------
(* Small tables: two quotes, three commands, batches of up to two events.  *)
EXTENDS EventStore

MCEventLists == {<<>>} \cup {<<p>> : p \in Payloads} \cup (Payloads \X Payloads)
=============================================================================
