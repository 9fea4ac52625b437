------------------------------ MODULE MCOutbox ------------------------------
(* The outbox for TLC.  Outbox.cfg paces at two ticks, backs off from one    *)
(* tick to a cap of three, no power of two (as sixty seconds is none), and   *)
(* lets a server ask for a wait of nothing or of more than the cap.          *)
EXTENDS Outbox
=============================================================================
