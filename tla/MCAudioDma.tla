----------------------------- MODULE MCAudioDma -----------------------------
(* Instance of AudioDma for TLC. *)
EXTENDS AudioDma
=============================================================================
