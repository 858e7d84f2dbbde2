------------------------------ MODULE OutboxRows ------------------------------
(* The rows of the outbox, which its publisher and its readers share.       *)
EXTENDS Integers, FiniteSets

CONSTANTS
    Event,        \* OutboxEvent rows that domain transactions may write
    CreatedAt     \* createdAt of each row; two rows may share an instant

CreationTimed == CreatedAt \in [Event -> Nat]
=============================================================================
