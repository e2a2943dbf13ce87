---------------------------- MODULE MCFlashConfig ----------------------------
(* FlashConfig on three settings and a few sequence numbers. *)
EXTENDS FlashConfig

\* Each operation of configSave may report an error.
MCFaults == SaveOps
=============================================================================
