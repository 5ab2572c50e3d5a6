----------------------------- MODULE UsbInterrupt -----------------------------
(***************************************************************************)
(* How an interrupt of the USB controller reaches usb_handle_function     *)
(* (main.c and the frame of that function in usb_samd.c).  The handler    *)
(* cannot clear the cause, so it masks its own interrupt in the NVIC and  *)
(* sets usb_interrupt; the USB process waits for that flag, makes one     *)
(* pass over the controller and unmasks the interrupt.  When the process  *)
(* gets the processor is up to the scheduler: any number of other steps   *)
(* fall between two of its own.                                            *)
(*                                                                         *)
(* UsbControl and UsbSerial put the body of the pass between              *)
(* ClearInterrupt and EndPass.                                             *)
(***************************************************************************)
EXTENDS Integers

VARIABLES
  nvic_enabled,   \* USB_IRQn is enabled in the NVIC
  nvic_pending,   \* and is pending there
  usb_interrupt,
  pc              \* where the USB process is

interruptVars == <<nvic_enabled, nvic_pending, usb_interrupt, pc>>

(* Not dispatched or not started; in wait_until; between its end and line *)
(* 153; then inside usb_handle_function, by what comes next.              *)
PassSteps == {"summary", "status", "flags", "ack", "setup", "in",
              "endpoints", "disable", "out_completion", "in_completion", "end"}
ProcessSteps == {"init", "wait", "clear"} \cup PassSteps

InterruptTypeOK ==
  /\ nvic_enabled \in BOOLEAN
  /\ nvic_pending \in BOOLEAN
  /\ usb_interrupt \in BOOLEAN
  /\ pc \in ProcessSteps

(* main, lines 103-111; usb_interrupt is in .bss. *)
InitInterrupt ==
  /\ nvic_enabled = TRUE
  /\ nvic_pending = FALSE
  /\ usb_interrupt = FALSE
  /\ pc = "init"

(* An asserted line makes the interrupt pending, enabled or not.          *)
Pends(line) == nvic_pending' = (nvic_pending \/ line)

(* Steps of the controller and of the host. *)
ProcessWaits == UNCHANGED <<nvic_enabled, usb_interrupt, pc>>

(* A step of the pass, on to the next. *)
Goes(from, to) ==
  /\ pc = from /\ pc' = to
  /\ UNCHANGED <<nvic_enabled, usb_interrupt>>

(* usb_proc_loop. *)
StartProcess(line) ==
  /\ pc = "init" /\ pc' = "wait"
  /\ usb_interrupt' = FALSE
  /\ Pends(line)
  /\ UNCHANGED nvic_enabled

Unblock(line) ==
  /\ usb_interrupt
  /\ Goes("wait", "clear")
  /\ Pends(line)

ClearInterrupt(line) ==
  /\ pc = "clear" /\ pc' = "summary"
  /\ usb_interrupt' = FALSE
  /\ Pends(line)
  /\ UNCHANGED nvic_enabled

(* The end of usb_handle_function, back to wait_until. *)
EndPass(line) ==
  /\ pc = "end" /\ pc' = "wait"
  /\ nvic_enabled' = TRUE
  /\ Pends(line)
  /\ UNCHANGED usb_interrupt

(* The line is still asserted when the handler returns, so the interrupt  *)
(* is pending again behind its own mask.                                   *)
USB_Handler(line) ==
  /\ nvic_enabled /\ nvic_pending
  /\ nvic_enabled' = FALSE
  /\ nvic_pending' = line
  /\ usb_interrupt' = TRUE
  /\ UNCHANGED pc

(* While the process waits, the interrupt is masked only if the process   *)
(* has been told: neither a spurious interrupt, nor one that arrives at   *)
(* any point of a pass, nor a pass that ends early on a bus reset, leaves *)
(* the device deaf (main.c:152-163, usb_samd.c:288-320).                   *)
NeverDeaf == pc = "wait" /\ ~nvic_enabled => usb_interrupt
=============================================================================
