--------------------------- MODULE MCServiceBoot ---------------------------
(* Instances of ServiceBoot for TLC. *)
EXTENDS ServiceBoot

\* The two instances of RabbitService in each process.
MCClient == Replica \X {"app", "health"}
=============================================================================
