------------------------------ MODULE MCWebhook ------------------------------
(* Instances of the webhook pipeline for TLC. *)
EXTENDS WebhookPipeline

CONSTANTS Internal, SchemaEvents,          (* events that are not of type "entry" *)
          AdminBound, RotationBound, ArchiveBound, CrashBound

MCEventTypes == {"schema", "entry"}
MCTypeOf == [e \in Events |-> CASE e \in Internal     -> "internal"
                                [] e \in SchemaEvents -> "schema"
                                [] OTHER              -> "entry"]
(* Behaviours that reconfigure an endpoint, and ones that rotate its secret. *)
MCBounds ==
  {[admin |-> AdminBound, rotation |-> 0, archive |-> ArchiveBound, crash |-> CrashBound]}
    \cup IF RotationBound = 0 THEN {}
         ELSE {[admin |-> 1, rotation |-> RotationBound, archive |-> 1, crash |-> CrashBound]}


(* Every attempt loop in a process of its own. *)
MCWorkerOf == [f \in Fibers |-> f]
=============================================================================
