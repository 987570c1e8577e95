------------------------------ MODULE LedStrip ------------------------------
(* The driver of the LED strip (led_strip_api.c, led_strip_rmt_dev.c,        *)
(* led_strip_rmt_encoder.c).  A refresh hands the pixels to the RMT channel, *)
(* whose interrupt calls the encoder again and again: each time there is     *)
(* room for so many symbols, and the encoder goes on from where it was, in   *)
(* two phases, the bytes of the pixels and then the reset code.              *)
(* The channel, its two elementary encoders and the strip are external; the  *)
(* channel refills half of its memory at a time.                             *)
EXTENDS Naturals, Sequences, SequencesExt

CONSTANTS
  Leds,     \* max_leds: the length of the strip
  Bits,     \* bits in a byte (8)
  Values,   \* the colour arguments that callers pass
  Memories  \* the sizes of the RMT memory, in symbols (64)

ConstantsAssumption == Leds \in Nat /\ Bits \in Nat \ {0} /\ Memories \subseteq Nat

VARIABLES
  strip,     \* the caller's handle: "none", "made", or "broken" by a failed deletion
  res,       \* what is allocated
  mem,       \* mem_block_symbols
  pixel_buf, \* three bytes for each LED
  pc,        \* "idle", "sending" (in rmt_tx_wait_all_done) or "sent"
  state,     \* led_encoder->state: 0, the bytes; 1, the reset code
  index,     \* the symbols of the bytes that bytes_encoder has written
  room,      \* the free symbols at the next call of the encoder
  wire,      \* the symbols written since the refresh began
  asked      \* a history: the colours the caller set, as <<red, green, blue>>

device == <<strip, res, mem>>
encoder == <<state, index, room, wire>>
vars == <<device, encoder, pixel_buf, pc, asked>>

Bytes == 0..(Leds * 3 - 1)
Reset == 2 \* the reset code as a symbol; the other symbols are the bits 0 and 1

Resources == {"strip", "channel", "encoder", "bytes", "copy"}
Black == [i \in 0..(Leds - 1) |-> <<0, 0, 0>>]

Init ==
  /\ strip = "none" /\ res = {} /\ mem \in Memories
  /\ pixel_buf = [b \in Bytes |-> 0] /\ pc = "idle" /\ asked = Black
  /\ state = 0 /\ index = 0 /\ room = 0 /\ wire = <<>>

-----------------------------------------------------------------------------
(* led_strip_new_rmt_device and led_strip_rmt_del.                         *)

\* rmt_new_led_strip_encoder: what it adds, and whether it succeeds; on an error
\* it deletes the two encoders it has, and itself.
NewEncoder(failing) ==
  LET made == CASE failing = "encoder" -> {}
                [] failing = "bytes" -> {"encoder"}
                [] failing = "copy" -> {"encoder", "bytes"}
                [] OTHER -> {"encoder", "bytes", "copy"}
  IN IF failing \in {"encoder", "bytes", "copy"} THEN made \ {"encoder", "bytes", "copy"} ELSE made

\* What is there when the step failing fails (a resource, or the call of
\* rmt_enable), before the cleanup.
Made(failing) ==
  CASE failing = "strip" -> {}
    [] failing = "channel" -> {"strip"}
    [] OTHER -> {"strip", "channel"} \cup NewEncoder(failing)

\* The branch err: the channel and the encoder if they are there, and the strip.
Cleanup(made) ==
  made \ ((IF "channel" \in made THEN {"channel"} ELSE {})
          \cup (IF "encoder" \in made THEN {"encoder", "bytes", "copy"} ELSE {})
          \cup {"strip"})

New ==
  /\ strip = "none" /\ res = {}
  /\ strip' = "made" /\ res' = Made("none")
  /\ pixel_buf' = [b \in Bytes |-> 0] /\ asked' = Black /\ pc' = "idle"
  /\ mem' \in Memories
  /\ UNCHANGED encoder

NewFails ==
  /\ strip = "none" /\ res = {}
  /\ \E failing \in Resources \cup {"enable"} : res' = Cleanup(Made(failing))
  /\ UNCHANGED <<strip, mem, pixel_buf, encoder, pc, asked>>

\* Freed before the call of rmt_disable, rmt_del_channel or rmt_del_encoder that fails.
FreedBefore(failing) ==
  CASE failing \in {"disable", "channel"} -> {}
    [] failing = "encoder" -> {"channel"}
    [] failing = "none" -> {"channel"} \cup {"encoder", "bytes", "copy"} \cup {"strip"}

\* A deletion returns at the first call that fails.  A channel that is not disabled goes
\* on working; the handle is of no more use once it is, a second deletion fails.
Del ==
  /\ strip = "made" /\ pc # "sending"
  /\ \E failing \in {"disable", "channel", "encoder", "none"} :
       /\ res' = res \ FreedBefore(failing)
       /\ strip' = CASE failing = "disable" -> "made" [] failing = "none" -> "none" [] OTHER -> "broken"
  /\ pc' = "idle"
  /\ UNCHANGED <<mem, pixel_buf, encoder, asked>>

-----------------------------------------------------------------------------
(* The pixels.                                                             *)

Byte(v) == v % (2 ^ Bits)

\* led_strip_rmt_set_pixel; an index behind the end is refused.
SetPixel(i, red, green, blue) ==
  /\ strip = "made" /\ pc # "sending" /\ i < Leds
  /\ pixel_buf' = [pixel_buf EXCEPT ![3 * i] = Byte(green), ![3 * i + 1] = Byte(red),
                                    ![3 * i + 2] = Byte(blue)]
  /\ asked' = [asked EXCEPT ![i] = <<Byte(red), Byte(green), Byte(blue)>>]
  /\ pc' = "idle"
  /\ UNCHANGED <<device, encoder>>

\* rmt_transmit: the channel is idle, so the transaction begins at once.
Transmit == pc' = "sending" /\ room' = mem /\ wire' = <<>>

Refresh ==
  /\ strip = "made" /\ pc # "sending"
  /\ Transmit
  /\ UNCHANGED <<device, pixel_buf, state, index, asked>>

\* rmt_transmit may refuse; Clear has written the pixels before it is called.
Clear ==
  /\ strip = "made" /\ pc # "sending"
  /\ pixel_buf' = [b \in Bytes |-> 0] /\ asked' = Black
  /\ \/ Transmit
     \/ pc' = "idle" /\ UNCHANGED <<room, wire>>
  /\ UNCHANGED <<device, state, index>>

-----------------------------------------------------------------------------
(* The encoder, called by the interrupt.                                   *)

\* The symbol of bit k of the pixels, the most significant bit of a byte first.
Symbol(k) == (pixel_buf[k \div Bits] \div 2 ^ (Bits - 1 - (k % Bits))) % 2
DataSymbols == Leds * 3 * Bits

\* An elementary encoder with want symbols left and have of them free writes
\* what fits; it is complete when all fits, and says that the memory is full
\* when nothing is left free (external).
Written(want, have) == IF want < have THEN want ELSE have
Complete(want, have) == want <= have
MemFull(want, have) == want >= have

\* The end of an encode call that wrote the symbols s: the transmission is
\* over, or the interrupt comes back when half of the memory is free.
Return(s, complete) ==
  /\ wire' = wire \o s
  /\ IF complete THEN pc' = "sent" /\ room' = room
                 ELSE pc' = pc /\ room' = mem \div 2

\* Falling through to the reset code whether or not the memory is full.
EncodeFallsThrough ==
  LET want == DataSymbols - index
      n    == Written(want, room)
      bits == [k \in 1..n |-> Symbol(index + k - 1)]
  IN
  /\ pc = "sending" /\ state = 0
  /\ index' = IF Complete(want, room) THEN 0 ELSE index + n
  /\ state' = 0 /\ Return(bits \o <<Reset>>, Complete(want, room))
  /\ UNCHANGED <<device, pixel_buf, asked>>

\* rmt_encode_led_strip in state 0.  When the memory is full it leaves, with the
\* state already switched if the bytes are complete; else it falls through to
\* the reset code, which then has room.
EncodeBytes ==
  LET want == DataSymbols - index
      n    == Written(want, room)
      bits == [k \in 1..n |-> Symbol(index + k - 1)]
  IN
  /\ pc = "sending" /\ state = 0
  /\ index' = IF Complete(want, room) THEN 0 ELSE index + n
  /\ IF MemFull(want, room)
     THEN state' = (IF Complete(want, room) THEN 1 ELSE 0) /\ Return(bits, FALSE)
     ELSE state' = 0 /\ Return(bits \o <<Reset>>, TRUE)
  /\ UNCHANGED <<device, pixel_buf, asked>>

\* rmt_encode_led_strip in state 1: one symbol.
EncodeReset ==
  /\ pc = "sending" /\ state = 1
  /\ IF Complete(1, room)
     THEN state' = 0 /\ Return(<<Reset>>, TRUE)
     ELSE state' = 1 /\ Return(<<>>, FALSE)
  /\ UNCHANGED <<device, pixel_buf, index, asked>>

-----------------------------------------------------------------------------
Next ==
  \/ New \/ NewFails \/ Del
  \/ \E i \in 0..Leds, r, g, b \in Values : SetPixel(i, r, g, b)
  \/ Refresh \/ Clear
  \/ EncodeBytes \/ EncodeReset

Fairness == WF_vars(EncodeBytes \/ EncodeReset)

Spec == Init /\ [][Next]_vars /\ Fairness

-----------------------------------------------------------------------------
\* The strip (external): each LED takes its bits off the front of the stream,
\* green, red and blue, and shows them at the reset code.
Value(bits) == FoldLeft(LAMBDA v, bit : 2 * v + bit, 0, bits)
Channel(i, c) == Value(SubSeq(wire, (3 * i + c) * Bits + 1, (3 * i + c + 1) * Bits))

\* However the RMT memory cuts the stream into pieces, a refresh that returned
\* has sent every bit once and in order with one reset code, at the end, and the
\* LEDs show the colours that were set ("flush colors to strip", led_strip.h:46).
ShowsWhatWasAsked ==
  pc = "sent" =>
    /\ Len(wire) = DataSymbols + 1
    /\ \A k \in DOMAIN wire : wire[k] = Reset <=> k = Len(wire)
    /\ \A i \in 0..(Leds - 1) : asked[i] = <<Channel(i, 1), Channel(i, 0), Channel(i, 2)>>

\* A creation that fails at any step gives back what it took, and so does a deletion that
\* succeeds.  One that fails leaves a strip that works, or one that cannot be sent to but
\* whose handle still points to what is there (led_strip.h: "Free resources failed").
NothingLeaks ==
  /\ strip = "made" => res = Resources
  /\ strip = "none" => res = {}
  /\ strip = "broken" => Resources \ {"channel"} \subseteq res

\* Why, as an inductive invariant: the pixels are the colours that were asked for, and
\* stay what they are while they are sent; what is on the wire is the stream up to where
\* the encoder is, which starts each refresh at the first bit.
PixelsAsAsked ==
  /\ pixel_buf \in [Bytes -> Range(pixel_buf)] /\ asked \in [0..(Leds - 1) -> Range(asked)]
  /\ \A i \in 0..(Leds - 1) :
       asked[i] = <<pixel_buf[3 * i + 1], pixel_buf[3 * i], pixel_buf[3 * i + 2]>>
Sent(n) == Len(wire) >= n /\ \A k \in 1..n : wire[k] = Symbol(k - 1)
EncoderInv ==
  /\ mem \in Nat /\ room \in Nat /\ index \in Nat /\ state \in {0, 1}
  /\ pc \in {"idle", "sending", "sent"}
  /\ pc = "sending" => strip = "made"
  /\ pc # "sending" => state = 0 /\ index = 0
  /\ pc # "idle" => wire \in Seq(Range(wire))
  /\ pc = "sending" /\ state = 0 =>
       index <= DataSymbols /\ Len(wire) = index /\ Sent(index)
  /\ pc = "sending" /\ state = 1 =>
       index = 0 /\ Len(wire) = DataSymbols /\ Sent(DataSymbols)
  /\ pc = "sent" =>
       Len(wire) = DataSymbols + 1 /\ Sent(DataSymbols) /\ wire[Len(wire)] = Reset
LedInv == PixelsAsAsked /\ EncoderInv /\ NothingLeaks

\* A refresh does return, wherever the memory fills up.
RefreshReturns == pc = "sending" ~> pc = "sent"

\* The driver as a whole: what a refresh shows, that it returns, and that
\* creation and deletion give everything back.
StripCorrect == []ShowsWhatWasAsked /\ []NothingLeaks /\ RefreshReturns
=============================================================================
