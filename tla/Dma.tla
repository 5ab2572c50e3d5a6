---------------------------------- MODULE Dma ----------------------------------
(***************************************************************************)
(* dma.c.  The registers of all channels are one window, which CHID        *)
(* points at a channel: dma_set_channel is a step of each call, and the    *)
(* access that follows it another.  A descriptor is made by one store      *)
(* after the other.  The controller reads it, and moves the beats of a     *)
(* block, between any two of these steps.  Blocks are not linked.           *)
(***************************************************************************)
EXTENDS Integers

CONSTANTS
  Channels,
  Blocks,        \* arguments of dma_create_descriptor
  DmaCallers,    \* "process"; "handler", that interrupts it to make calls itself
  DmaMay         \* what callers may do to a channel, and the code does not stop:
                 \*   "make while enabled": a descriptor that has yet to be read
                 \*   "enable while enabled"

ASSUME DmaAssumption ==
  /\ Channels \subseteq 0 .. 11
  /\ DmaCallers \subseteq {"process", "handler"}
  /\ DmaMay \subseteq {"make while enabled", "enable while enabled"}
  /\ Blocks \subseteq [beatsize : 0 .. 2, count : Nat \ {0},
                       incsource : BOOLEAN, incdest : BOOLEAN, src : Nat, dst : Nat]

VARIABLES
  descriptor,    \* dma_descriptor
  CHID,
  channel,       \* the registers of each channel
  active,        \* the controller's copy of the descriptor a channel works on
  beat,          \* the addresses of the last beat of each channel
  moved,         \* beats since the channel was enabled
  told,          \* dma_transfer_complete has returned true since then
  dma_calls      \* of each caller: the function, its channel and its block

dmaVars == <<descriptor, CHID, channel, active, beat, moved, told, dma_calls>>

NoBlock == [beatsize |-> 0, count |-> 0, incsource |-> FALSE, incdest |-> FALSE,
            src |-> 0, dst |-> 0]
NoBeat == [srcaddr |-> 0, dstaddr |-> 0]
NoCall == [function |-> "none", channel |-> 0, block |-> NoBlock]
ResetChannel == [trigact |-> "block", enabled |-> FALSE, suspended |-> FALSE,
                 triggered |-> FALSE, TCMPL |-> FALSE]

(* Of an address that is incremented, the controller wants the end of the  *)
(* block.                                                                   *)
EndAddressInBeats(address, inc, b) ==   \* mutant: beats taken for bytes
  IF inc THEN address + b.count ELSE address
EndAddress(address, inc, b) ==
  IF inc THEN address + b.count * (b.beatsize + 1) ELSE address

(* A descriptor in memory.  BTCTRL holds what the block it was made for     *)
(* says of the size and the increments of a beat, and VALID.               *)
Descriptor(b) ==
  [block |-> b, BTCNT |-> b.count, SRCADDR |-> EndAddress(b.src, b.incsource, b),
                                   DSTADDR |-> EndAddress(b.dst, b.incdest, b)]

(* After dma_init. *)
InitDma ==
  /\ descriptor = [c \in Channels |-> Descriptor(NoBlock)] /\ active = descriptor
  /\ CHID = 0 /\ channel = [c \in Channels |-> ResetChannel]
  /\ beat = [c \in Channels |-> NoBeat] /\ moved = [c \in Channels |-> 0]
  /\ told = [c \in Channels |-> FALSE]
  /\ dma_calls = [k \in DmaCallers |-> NoCall]

-----------------------------------------------------------------------------
(* A handler runs to its end before what it has interrupted goes on. *)
GoesOn(k) == k = "handler" \/ \A h \in DmaCallers \ {k} : dma_calls[h] = NoCall

(* dma_create_descriptor stores BTCTRL, with VALID, first.  The code does  *)
(* not look whether the channel waits with this descriptor for its first    *)
(* beat: not to call it then is left to the caller.                         *)
CreateDescriptor(k, c, b) ==
  /\ dma_calls[k] = NoCall
  /\ channel[c].enabled /\ moved[c] = 0 => "make while enabled" \in DmaMay
  /\ descriptor' = [descriptor EXCEPT ![c].block = b]
  /\ dma_calls' = [dma_calls EXCEPT ![k] = [function |-> "BTCNT", channel |-> c, block |-> b]]
  /\ UNCHANGED <<CHID, channel, active, beat, moved, told>>

(* The stores that follow it, of the count and of the two addresses. *)
Store(k) ==
  LET c == dma_calls[k].channel
      b == dma_calls[k].block
      Then(f) == dma_calls' = [dma_calls EXCEPT ![k] = [function |-> f, channel |-> c, block |-> b]]
      now == dma_calls[k].function
  IN /\ GoesOn(k)
     /\ \/ /\ now = "BTCNT" /\ Then("SRCADDR")
           /\ descriptor' = [descriptor EXCEPT ![c].BTCNT = b.count]
        \/ /\ now = "SRCADDR" /\ Then("DSTADDR")
           /\ descriptor' = [descriptor EXCEPT ![c].SRCADDR = EndAddress(b.src, b.incsource, b)]
        \/ /\ now = "DSTADDR" /\ dma_calls' = [dma_calls EXCEPT ![k] = NoCall]
           /\ descriptor' = [descriptor EXCEPT ![c].DSTADDR = EndAddress(b.dst, b.incdest, b)]
     /\ UNCHANGED <<CHID, channel, active, beat, moved, told>>

Functions == {"init block", "init beat", "enable", "disable", "suspend", "resume", "complete"}

(* dma_set_channel, the first step of every other call.  The code checks   *)
(* no more than the range of the channel: to initialise and to enable it    *)
(* only while it is disabled, and with a descriptor, is left to the caller. *)
SetChannel(k, f, c) ==
  /\ dma_calls[k] = NoCall
  /\ f \in {"init block", "init beat"} => ~channel[c].enabled
  /\ f = "enable" => /\ descriptor[c].block # NoBlock
                     /\ channel[c].enabled => "enable while enabled" \in DmaMay
  /\ CHID' = c
  /\ dma_calls' = [dma_calls EXCEPT ![k] = [function |-> f, channel |-> c, block |-> NoBlock]]
  /\ UNCHANGED <<descriptor, channel, active, beat, moved, told>>

Uncleared(r) == r   \* mutant: an old TCMPL stays
Cleared(r) == [r EXCEPT !.TCMPL = FALSE]

(* dma_init_channel writes all of CHCTRLB; the others change one field.    *)
(* The field of commands reads as empty once a command has been taken.     *)
Accessed(f, r) ==
  CASE f = "init block" -> [r EXCEPT !.trigact = "block", !.suspended = FALSE]
    [] f = "init beat" -> [r EXCEPT !.trigact = "beat", !.suspended = FALSE]
    [] f = "enable" -> Cleared(r)
    [] f = "disable" -> [r EXCEPT !.enabled = FALSE, !.triggered = FALSE, !.suspended = FALSE]
    [] f = "suspend" -> [r EXCEPT !.suspended = r.enabled]
    [] f = "resume" -> [r EXCEPT !.suspended = FALSE]
    [] f = "complete" -> r

(* The rest of a call, on the channel that CHID points at.  With TCMPL     *)
(* set, dma_transfer_complete ends without a return.                        *)
Access(k) ==
  LET f == dma_calls[k].function
      c == dma_calls[k].channel
  IN /\ f \in Functions /\ GoesOn(k)
     /\ channel' = [channel EXCEPT ![CHID] = Accessed(f, @)]
     /\ \/ f = "complete" /\ channel[CHID].TCMPL /\ told' = [told EXCEPT ![c] = TRUE]
        \/ told' = told
     /\ dma_calls' = [dma_calls EXCEPT ![k] =
          IF f = "enable" THEN [function |-> "ENABLE", channel |-> c, block |-> NoBlock] ELSE NoCall]
     /\ UNCHANGED <<descriptor, CHID, active, beat, moved>>

(* dma_enable_channel, its flag cleared, sets ENABLE.  A channel that was  *)
(* disabled begins anew; one that was not goes on.                          *)
Enable(k) ==
  LET anew == {c \in {dma_calls[k].channel, CHID} : ~channel[c].enabled}
  IN /\ dma_calls[k].function = "ENABLE" /\ GoesOn(k)
     /\ channel' = [channel EXCEPT ![CHID].enabled = TRUE]
     /\ active' = [c \in Channels |-> IF c \in anew THEN Descriptor(NoBlock) ELSE active[c]]
     /\ beat' = [c \in Channels |-> IF c \in anew THEN NoBeat ELSE beat[c]]
     /\ moved' = [c \in Channels |-> IF c \in anew THEN 0 ELSE moved[c]]
     /\ told' = [c \in Channels |-> c \notin anew /\ told[c]]
     /\ dma_calls' = [dma_calls EXCEPT ![k] = NoCall]
     /\ UNCHANGED <<descriptor, CHID>>

(* dma_trigger_channel, without CHID, or a peripheral. *)
Trigger(c) ==
  /\ channel[c].enabled
  /\ channel' = [channel EXCEPT ![c].triggered = TRUE]
  /\ UNCHANGED <<descriptor, CHID, active, beat, moved, told, dma_calls>>

-----------------------------------------------------------------------------
(* The controller moves a beat, having fetched the descriptor before the   *)
(* first one.  The beat's address is that far before the end of the block. *)
BeatBytes(b) == <<1, 2, 4>>[b.beatsize + 1]
Address(end, inc, b, left) == IF inc THEN end - left * BeatBytes(b) ELSE end

MoveBeat(c) ==
  LET d == IF moved[c] = 0 THEN descriptor[c] ELSE active[c]
      b == d.block
      left == d.BTCNT - moved[c]
  IN /\ b # NoBlock
     /\ channel[c].enabled /\ channel[c].triggered /\ ~channel[c].suspended
     /\ active' = [active EXCEPT ![c] = d]
     /\ beat' = [beat EXCEPT ![c] =
          [srcaddr |-> Address(d.SRCADDR, b.incsource, b, left),
           dstaddr |-> Address(d.DSTADDR, b.incdest, b, left)]]
     /\ moved' = [moved EXCEPT ![c] = @ + 1]
     /\ channel' = [channel EXCEPT ![c] =
          [@ EXCEPT !.triggered = left > 1 /\ channel[c].trigact # "beat",
                    !.enabled = left > 1, !.TCMPL = channel[c].TCMPL \/ left = 1]]
     /\ UNCHANGED <<descriptor, CHID, told, dma_calls>>

DmaNext ==
  \/ \E c \in Channels : Trigger(c) \/ MoveBeat(c)
  \/ \E k \in DmaCallers, c \in Channels, b \in Blocks : CreateDescriptor(k, c, b)
  \/ \E k \in DmaCallers, f \in Functions, c \in Channels : SetChannel(k, f, c)
  \/ \E k \in DmaCallers : Store(k) \/ Access(k) \/ Enable(k)

-----------------------------------------------------------------------------
Descriptors == [block : Blocks \cup {NoBlock}, BTCNT : Nat, SRCADDR : Nat, DSTADDR : Nat]
ChannelType == [trigact : {"block", "beat"}, enabled : BOOLEAN, suspended : BOOLEAN,
                triggered : BOOLEAN, TCMPL : BOOLEAN]
CallType == [function : Functions \cup {"none", "ENABLE", "BTCNT", "SRCADDR", "DSTADDR"},
             channel : Channels \cup {0}, block : Blocks \cup {NoBlock}]
DmaTypeOK ==
  /\ descriptor \in [Channels -> Descriptors] /\ active \in [Channels -> Descriptors]
  /\ CHID \in Channels \cup {0}
  /\ channel \in [Channels -> ChannelType]
  /\ beat \in [Channels -> [srcaddr : Int, dstaddr : Int]]
  /\ moved \in [Channels -> Nat] /\ told \in [Channels -> BOOLEAN]
  /\ dma_calls \in [DmaCallers -> CallType]

(* What dma.c:45-46 is off by: a word is taken for three bytes. *)
Displacement(b) == b.count * (b.beatsize + 1 - BeatBytes(b))

(* A transfer is that of one call of dma_create_descriptor, never of parts *)
(* of two: no more beats than the block has, in order, from and to the     *)
(* addresses asked for, also when the channel is suspended, or its          *)
(* descriptor made anew, between two of them.  Only words, whose addresses  *)
(* are incremented, come from and go to a place Displacement away           *)
(* (dma.c:29-52).                                                           *)
BeatsAsAsked ==
  \A c \in Channels : moved[c] > 0 =>
    LET b == active[c].block
        at(address, inc) ==
          IF inc THEN address + Displacement(b) + (moved[c] - 1) * BeatBytes(b) ELSE address
    IN /\ moved[c] <= b.count
       /\ beat[c] = [srcaddr |-> at(b.src, b.incsource), dstaddr |-> at(b.dst, b.incdest)]

(* dma_transfer_complete says yes only when the whole block has been moved *)
(* since the channel was enabled, whatever the transfers before it left    *)
(* (dma.c:65-73, 107-113).                                                  *)
CompleteIsHonest ==
  \A c \in Channels : told[c] => moved[c] > 0 /\ moved[c] = active[c].block.count
=============================================================================
