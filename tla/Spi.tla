---------------------------------- MODULE Spi ----------------------------------
(***************************************************************************)
(* spi.c: one byte out, one byte back.                                     *)
(***************************************************************************)
EXTENDS Sercom

(* spi_init; spi_set_baud refuses no rate. *)
SpiInit == SercomInit("spi", TRUE)

Command ==
  /\ Usable("spi")
  /\ ~RXC \/ "leave unread" \in CallerMay
  /\ pc' = "command"
  /\ UNCHANGED <<portVars, rxVars, txVars>>

CommandWrite ==
  /\ pc = "command" /\ DRE
  /\ WritesData /\ pc' = "answer"
  /\ UNCHANGED <<portVars, rxVars>>

(* The wait between the byte out and the byte back. *)
AnsweredWhenReady == DRE   \* mutant: waits until DATA is free
Answered == txc

CommandAnswer ==
  /\ pc = "answer" /\ Answered
  /\ ReadsData /\ pc' = "idle"
  /\ UNCHANGED <<portVars, txVars>>

-----------------------------------------------------------------------------
(* A transfer past these calls, by DMA, that reads none of its answers. *)
Transfer ==
  /\ mode = "spi" /\ pc = "idle" /\ data = <<>> /\ shift = <<>>
  /\ sent' = After(sent) /\ line' = sent' /\ txc' = TRUE
  /\ Receives(sent')
  /\ UNCHANGED <<portVars, data, shift, pc>>
=============================================================================
