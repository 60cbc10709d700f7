-------------------------------- MODULE Ps2 --------------------------------
(***************************************************************************)
(* The keyboard, kernel/driver/ps2.c: the ring that the interrupt handler  *)
(* fills and kernel_getkey empties, and the modifiers.                     *)
(*                                                                         *)
(* The handler runs with interrupts masked: what it does with a key is one *)
(* step.  kernel_getkey runs with interrupts enabled: each access to what  *)
(* the handler changes is a step of its own.  Keys are told apart by the   *)
(* order they are pressed in; a key is a letter, or one of the shift and   *)
(* caps lock keys, which have no character but take a slot all the same.   *)
(* Releases only matter for the shift key, and never take a slot.          *)
(***************************************************************************)
EXTENDS Integers, Sequences

CONSTANTS
  N,         \* the number of slots, 32 in the code
  MaxKeys    \* bound: how many keys are pressed

ASSUME NAssumption == N \in Nat /\ N > 0
ASSUME MaxKeysAssumption == MaxKeys \in Nat

Slots == 0 .. N - 1
Kinds == {"letter", "shift", "caps"}

VARIABLES
  slot,          \* buffer: the number of the key in each slot, 0 for none
  ready,
  buffer_wptr,
  buffer_rptr,
  shift, caps,   \* keyboard_state
  pc,            \* kernel_getkey and kernel_getchar: the next access
  temp,          \* kernel_getkey's local variable
  wiped,         \* init_buffer's loop variable
  pressed,       \* the keys pressed so far, with the case a letter should have
  taken,         \* what kernel_getchar has made of the keys it got
  calm           \* whether the typist has always waited for a key to appear

ring == <<slot, ready, buffer_wptr>>
vars == <<ring, buffer_rptr, shift, caps, pc, temp, wiped, pressed, taken, calm>>

Init ==
  /\ slot = [i \in Slots |-> 0]
  /\ ready = [i \in Slots |-> FALSE]
  /\ buffer_wptr = 0
  /\ buffer_rptr = 0
  /\ shift = FALSE
  /\ caps = FALSE
  /\ pc = "test"
  /\ temp = 0
  /\ wiped = 0
  /\ pressed = <<>>
  /\ taken = <<>>
  /\ calm = TRUE

\* kernel_scantoascii: caps lock and shift cancel each other.
Upper(s, c) == s # c

----------------------------------------------------------------------------
\* A key is pressed or released with all that was typed before taken, or not.
Typing == calm' = (calm /\ pc = "test" /\ Len(pressed) = Len(taken))

\* Variant: the pointer is moved before the store.
PressMovesFirst(kind) ==
  /\ Len(pressed) < MaxKeys
  /\ Typing
  /\ buffer_wptr' = (buffer_wptr + 1) % N
  /\ slot' = [slot EXCEPT ![buffer_wptr'] = Len(pressed) + 1]
  /\ ready' = [ready EXCEPT ![buffer_wptr'] = TRUE]
  /\ shift' = (shift \/ kind = "shift")
  /\ caps' = (caps # (kind = "caps"))
  /\ pressed' = Append(pressed, [kind |-> kind, upper |-> Upper(shift, caps)])
  /\ UNCHANGED <<buffer_rptr, pc, temp, wiped, taken>>

\* ps2_handler for a key that goes down.
Press(kind) ==
  /\ Len(pressed) < MaxKeys
  /\ Typing
  /\ slot' = [slot EXCEPT ![buffer_wptr] = Len(pressed) + 1]
  /\ ready' = [ready EXCEPT ![buffer_wptr] = TRUE]
  /\ buffer_wptr' = (buffer_wptr + 1) % N
  /\ shift' = (shift \/ kind = "shift")
  /\ caps' = (caps # (kind = "caps"))
  /\ pressed' = Append(pressed, [kind |-> kind, upper |-> Upper(shift, caps)])
  /\ UNCHANGED <<buffer_rptr, pc, temp, wiped, taken>>

\* ps2_handler for the shift key that goes up.
ReleaseShift ==
  /\ Typing
  /\ shift
  /\ shift' = FALSE
  /\ UNCHANGED <<ring, buffer_rptr, caps, pc, temp, wiped, pressed, taken>>

----------------------------------------------------------------------------
\* kernel_getkey; with no key ready it returns at once and is called again.
Test ==
  /\ pc = "test"
  /\ ready[buffer_rptr]
  /\ pc' = "load"
  /\ UNCHANGED <<ring, buffer_rptr, shift, caps, temp, wiped, pressed, taken, calm>>

Load ==
  /\ pc = "load"
  /\ temp' = slot[buffer_rptr]
  /\ pc' = "clear"
  /\ UNCHANGED <<ring, buffer_rptr, shift, caps, wiped, pressed, taken, calm>>

Clear ==
  /\ pc = "clear"
  /\ ready' = [ready EXCEPT ![buffer_rptr] = FALSE]
  /\ pc' = "step"
  /\ UNCHANGED <<slot, buffer_wptr, buffer_rptr, shift, caps, temp, wiped, pressed, taken, calm>>

\* After the last slot init_buffer is called: it empties every slot and sets
\* both pointers to 0.
Step ==
  /\ pc = "step"
  /\ buffer_rptr' = buffer_rptr + 1
  /\ pc' = IF buffer_rptr + 1 = N THEN "wipe" ELSE "decode"
  /\ wiped' = 0
  /\ UNCHANGED <<ring, shift, caps, temp, pressed, taken, calm>>

\* Variant: the slots are emptied and stay ready.
WipeKeepsReady ==
  /\ pc = "wipe"
  /\ slot' = [slot EXCEPT ![wiped] = 0]
  /\ wiped' = IF wiped + 1 = N THEN 0 ELSE wiped + 1
  /\ pc' = IF wiped + 1 = N THEN "reset wptr" ELSE "wipe"
  /\ UNCHANGED <<ready, buffer_wptr, buffer_rptr, shift, caps, temp, pressed, taken, calm>>

Wipe ==
  /\ pc = "wipe"
  /\ slot' = [slot EXCEPT ![wiped] = 0]
  /\ ready' = [ready EXCEPT ![wiped] = FALSE]
  /\ wiped' = IF wiped + 1 = N THEN 0 ELSE wiped + 1
  /\ pc' = IF wiped + 1 = N THEN "reset wptr" ELSE "wipe"
  /\ UNCHANGED <<buffer_wptr, buffer_rptr, shift, caps, temp, pressed, taken, calm>>

\* Variant: off by one.
ResetWptrToOne ==
  /\ pc = "reset wptr"
  /\ buffer_wptr' = 1
  /\ pc' = "reset rptr"
  /\ UNCHANGED <<slot, ready, buffer_rptr, shift, caps, temp, wiped, pressed, taken, calm>>

ResetWptr ==
  /\ pc = "reset wptr"
  /\ buffer_wptr' = 0
  /\ pc' = "reset rptr"
  /\ UNCHANGED <<slot, ready, buffer_rptr, shift, caps, temp, wiped, pressed, taken, calm>>

ResetRptr ==
  /\ pc = "reset rptr"
  /\ buffer_rptr' = 0
  /\ pc' = "decode"
  /\ UNCHANGED <<ring, shift, caps, temp, wiped, pressed, taken, calm>>

\* kernel_scantoascii with the modifiers as they are now.
Decode ==
  /\ pc = "decode"
  /\ taken' = Append(taken, [key |-> temp, upper |-> Upper(shift, caps)])
  /\ pc' = "test"
  /\ UNCHANGED <<ring, buffer_rptr, shift, caps, temp, wiped, pressed, calm>>

Next ==
  \/ \E kind \in Kinds : Press(kind)
  \/ ReleaseShift
  \/ Test
  \/ Load
  \/ Clear
  \/ Step
  \/ Wipe
  \/ ResetWptr
  \/ ResetRptr
  \/ Decode

Spec == Init /\ [][Next]_vars
Reader == Test \/ Load \/ Clear \/ Step \/ Wipe \/ ResetWptr \/ ResetRptr \/ Decode
\* The shell polls for ever: it gets the processor again after every tick.
FairSpec == Spec /\ WF_vars(Reader)

----------------------------------------------------------------------------
\* What the variables hold: the types on which the proofs of the properties below
\* rest (Ps2Proofs).
TypeOK ==
  /\ slot \in [Slots -> 0 .. MaxKeys]
  /\ ready \in [Slots -> BOOLEAN]
  /\ buffer_wptr \in Slots
  /\ buffer_rptr \in 0 .. N
  /\ shift \in BOOLEAN
  /\ caps \in BOOLEAN
  /\ pc \in {"test", "load", "clear", "step", "wipe", "reset wptr", "reset rptr", "decode"}
  /\ temp \in 0 .. MaxKeys
  /\ wiped \in Slots
  /\ pressed \in Seq([kind : Kinds, upper : BOOLEAN])
  /\ taken \in Seq([key : 0 .. MaxKeys, upper : BOOLEAN])
  /\ calm \in BOOLEAN

\* However the handler and kernel_getkey interleave, and however far the ring
\* is overrun: what comes out was pressed, and no key comes out twice.
EveryKeyOnce ==
  /\ \A i \in 1 .. Len(taken) : taken[i].key \in 1 .. Len(pressed)
  /\ \A i, j \in 1 .. Len(taken) : taken[i].key = taken[j].key => i = j

\* A typist who waits for what was typed to appear gets what was typed, in
\* order, over the wrap of the ring as well.
AsTyped ==
  calm =>
    /\ \A i \in 1 .. Len(taken) :
         /\ taken[i].key = i
         /\ pressed[i].kind = "letter" => taken[i].upper = pressed[i].upper
    /\ pc = "test" /\ ~ready[buffer_rptr] => Len(taken) = Len(pressed)

\* And every key does appear.
EveryKeyAppears ==
  \A k \in 1 .. MaxKeys : calm /\ Len(pressed) >= k ~> ~calm \/ Len(taken) >= k
=============================================================================
