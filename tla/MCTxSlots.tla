----------------------------- MODULE MCTxSlots -----------------------------
(* TxSlots for TLC.  Senders are model values; a run's .cfg says which of    *)
(* them call from the USB thread.                                          *)
EXTENDS TxSlots
=============================================================================
