---------------------------- MODULE TypingProofs ----------------------------
(***************************************************************************)
(* What is typed: the keyboard's ring and the editor.                      *)
(*                                                                         *)
(* What comes out of the ring was typed, for a ring of any size, any       *)
(* number of keys, and however the interrupt handler comes between the     *)
(* accesses of kernel_getkey.  A session of the editor is one of Text, and *)
(* shows the cursor, for every file, buffer and screen.                    *)
(***************************************************************************)
EXTENDS Ps2, Editor, FiniteSetTheorems, NaturalsInduction, WellFoundedInduction,
  SequenceTheorems, TLAPS

(***************************************************************************)
(* The keyboard                                                            *)
(***************************************************************************)

\* kernel_getkey has read a key and kernel_getchar has not decoded it yet.
InHand == pc \in {"clear", "step", "wipe", "reset wptr", "reset rptr", "decode"}

\* The places from which the pointer is past the last slot.
PastEnd == pc \in {"wipe", "reset wptr", "reset rptr"}

\* Key k has come out.
Out(k) == \E i \in 1 .. Len(taken) : taken[i].key = k

ReaderOK ==
  /\ IF PastEnd THEN buffer_rptr = N ELSE buffer_rptr \in Slots
  /\ pc = "load" => ready[buffer_rptr]
  /\ InHand => temp \in 1 .. Len(pressed) /\ ~Out(temp)

\* The keys in ready slots were pressed, are different, and did not come out;
\* the key in the reader's hand is in no ready slot, but for the one it has
\* read it from and is about to clear.
Fresh ==
  \A i \in Slots : ready[i] =>
    /\ slot[i] \in 1 .. Len(pressed)
    /\ ~Out(slot[i])
    /\ \A j \in Slots : ready[j] /\ slot[i] = slot[j] => i = j
    /\ InHand /\ slot[i] = temp => pc = "clear" /\ i = buffer_rptr

RingInv ==
  /\ TypeOK
  /\ Len(pressed) <= MaxKeys
  /\ ReaderOK
  /\ Fresh
  /\ EveryKeyOnce

----------------------------------------------------------------------------
LEMMA SlotFacts ==
  /\ 0 \in Slots
  /\ \A w \in Slots : (w + 1) % N \in Slots
  /\ \A r \in Slots : r + 1 = N \/ r + 1 \in Slots
BY NAssumption DEF Slots

LEMMA Appended ==
  ASSUME NEW S, NEW seq \in Seq(S), NEW e \in S, NEW t, t = Append(seq, e)
  PROVE  /\ t \in Seq(S)
         /\ Len(seq) \in Nat
         /\ Len(t) = Len(seq) + 1
         /\ t[Len(seq) + 1] = e
         /\ \A i \in 1 .. Len(seq) : t[i] = seq[i]
BY AppendProperties, LenProperties

LEMMA UpperType == \A s, c : Upper(s, c) \in BOOLEAN
BY DEF Upper

LEMMA RingInvInit == Init => RingInv
<1> SUFFICES ASSUME Init PROVE RingInv
  OBVIOUS
<1>1. TypeOK
  BY SlotFacts, NAssumption, MaxKeysAssumption DEF Init, TypeOK
<1>2. Len(pressed) = 0 /\ Len(taken) = 0 /\ buffer_rptr = 0 /\ pc = "test"
  BY DEF Init
<1>3. \A i \in Slots : ~ready[i]
  BY DEF Init
<1> QED BY <1>1, <1>2, <1>3, SlotFacts, MaxKeysAssumption
        DEF RingInv, ReaderOK, Fresh, InHand, PastEnd, Out, EveryKeyOnce

\* ps2_handler may overwrite a key that was not read: that one is lost, and
\* the new one is fresh.
LEMMA PressKeepsRing ==
  ASSUME RingInv, NEW kind \in Kinds, Press(kind)
  PROVE  RingInv'
<1> DEFINE new == Len(pressed) + 1
<1>1. /\ TypeOK /\ Len(pressed) \in Nat /\ new <= MaxKeys /\ new \in 0 .. MaxKeys
  <2>1. TypeOK /\ Len(pressed) < MaxKeys
    BY DEF RingInv, Press
  <2>2. Len(pressed) \in Nat
    BY <2>1, LenProperties DEF TypeOK
  <2> QED BY <2>1, <2>2, MaxKeysAssumption
<1>2. /\ slot' = [slot EXCEPT ![buffer_wptr] = new]
      /\ ready' = [ready EXCEPT ![buffer_wptr] = TRUE]
      /\ buffer_wptr \in Slots /\ buffer_wptr' \in Slots
      /\ UNCHANGED <<buffer_rptr, pc, temp, wiped, taken>>
  BY <1>1, SlotFacts DEF Press, TypeOK
<1>3. pressed' \in Seq([kind : Kinds, upper : BOOLEAN]) /\ Len(pressed') = new
  <2>1. PICK typed \in [kind : Kinds, upper : BOOLEAN] : pressed' = Append(pressed, typed)
    BY UpperType DEF Press
  <2>2. pressed \in Seq([kind : Kinds, upper : BOOLEAN])
    BY <1>1 DEF TypeOK
  <2>3. \A S : pressed \in Seq(S) /\ typed \in S => pressed' \in Seq(S) /\ Len(pressed') = new
    BY <2>1, Appended
  <2> QED BY <2>1, <2>2, <2>3
<1>4. shift' \in BOOLEAN /\ caps' \in BOOLEAN /\ calm' \in BOOLEAN
  BY Zenon DEF Press, Typing
<1>5. TypeOK'
  BY <1>1, <1>2, <1>3, <1>4 DEF TypeOK
<1>6. \A k : Out(k)' <=> Out(k)
  BY <1>2 DEF Out
<1>7. ~Out(new)
  BY <1>1 DEF Out, RingInv, EveryKeyOnce
<1>8. ReaderOK'
  <2>1. \A r \in Slots : ready[r] => ready'[r]
    BY <1>1, <1>2 DEF TypeOK
  <2>2. \A k \in 1 .. Len(pressed) : k \in 1 .. Len(pressed')
    BY <1>1, <1>3
  <2>3. PastEnd <=> PastEnd'
    BY <1>2 DEF PastEnd
  <2>4. InHand <=> InHand'
    BY <1>2 DEF InHand
  <2>5. pc = "load" => buffer_rptr \in Slots
    BY DEF RingInv, ReaderOK, PastEnd
  <2> QED BY <1>2, <1>6, <2>1, <2>2, <2>3, <2>4, <2>5 DEF RingInv, ReaderOK
<1>9. Fresh'
  <2> SUFFICES ASSUME NEW i \in Slots, ready'[i]
               PROVE  /\ slot'[i] \in 1 .. new
                      /\ ~Out(slot'[i])
                      /\ \A j \in Slots : ready'[j] /\ slot'[i] = slot'[j] => i = j
                      /\ InHand /\ slot'[i] = temp => pc = "clear" /\ i = buffer_rptr
    BY <1>2, <1>3, <1>6 DEF Fresh, InHand
  <2>1. \A j \in Slots : ready'[j] =>
          IF j = buffer_wptr THEN slot'[j] = new
          ELSE slot'[j] = slot[j] /\ ready[j] /\ slot[j] \in 1 .. Len(pressed)
    BY <1>1, <1>2 DEF TypeOK, RingInv, Fresh
  <2>2. InHand => temp \in 1 .. Len(pressed)
    BY DEF RingInv, ReaderOK
  <2>3. new \notin 1 .. Len(pressed) /\ \A k \in 1 .. Len(pressed) : k \in 1 .. new
    BY <1>1
  <2>4. new \in 1 .. new
    BY <1>1
  <2> QED BY <1>7, <2>1, <2>2, <2>3, <2>4 DEF RingInv, Fresh
<1>10. EveryKeyOnce'
  BY <1>1, <1>2, <1>3 DEF RingInv, EveryKeyOnce
<1> QED BY <1>1, <1>3, <1>5, <1>8, <1>9, <1>10 DEF RingInv

\* What the reader does with the ring and its pointers.
LEMMA ReaderKeepsRing ==
  ASSUME RingInv, Test \/ Load \/ Clear \/ Step \/ Wipe \/ ResetWptr \/ ResetRptr
  PROVE  RingInv'
<1>1. /\ TypeOK /\ pressed' = pressed /\ taken' = taken /\ Len(pressed) <= MaxKeys
      /\ shift' = shift /\ caps' = caps /\ calm' = calm
  BY DEF RingInv, Test, Load, Clear, Step, Wipe, ResetWptr, ResetRptr, ring
<1>2. \A k : Out(k)' <=> Out(k)
  BY <1>1 DEF Out
<1>3. EveryKeyOnce'
  BY <1>1 DEF RingInv, EveryKeyOnce
<1>4. TypeOK' /\ ReaderOK' /\ Fresh'
  <2>1. CASE Test
    <3>1. TypeOK'
      BY <1>1, <2>1 DEF Test, TypeOK, ring
    <3> QED BY <1>2, <2>1, <3>1 DEF Test, RingInv, ReaderOK, Fresh, InHand, PastEnd, ring
  <2>2. CASE Load
    <3>1. buffer_rptr \in Slots /\ ready[buffer_rptr] /\ temp' = slot[buffer_rptr]
      BY <2>2 DEF Load, RingInv, ReaderOK, PastEnd
    <3>2. TypeOK'
      BY <1>1, <2>2, <3>1 DEF Load, TypeOK, ring
    <3>3. ReaderOK'
      BY <1>1, <1>2, <2>2, <3>1 DEF Load, RingInv, ReaderOK, Fresh, InHand, PastEnd, ring
    <3>4. Fresh'
      BY <1>1, <1>2, <2>2, <3>1 DEF Load, RingInv, Fresh, ring
    <3> QED BY <3>2, <3>3, <3>4
  <2>3. CASE Clear
    <3>1. buffer_rptr \in Slots /\ ready' = [ready EXCEPT ![buffer_rptr] = FALSE]
      BY <2>3 DEF Clear, RingInv, ReaderOK, PastEnd
    <3>2. TypeOK'
      BY <1>1, <2>3, <3>1 DEF Clear, TypeOK
    <3>3. ReaderOK'
      BY <1>1, <1>2, <2>3, <3>1 DEF Clear, RingInv, ReaderOK, InHand, PastEnd
    <3>4. \A i \in Slots : ready'[i] => ready[i] /\ i # buffer_rptr
      BY <1>1, <3>1 DEF TypeOK
    <3>5. Fresh'
      BY <1>1, <1>2, <2>3, <3>4 DEF Clear, RingInv, Fresh, InHand
    <3> QED BY <3>2, <3>3, <3>5
  <2>4. CASE Step
    <3>1. /\ buffer_rptr \in Slots /\ buffer_rptr' = buffer_rptr + 1
          /\ pc' = IF buffer_rptr + 1 = N THEN "wipe" ELSE "decode"
      BY <2>4 DEF Step, RingInv, ReaderOK, PastEnd
    <3>2. TypeOK'
      BY <1>1, <2>4, <3>1, SlotFacts, NAssumption DEF Step, TypeOK, ring, Slots
    <3>3. ReaderOK'
      BY <1>1, <1>2, <2>4, <3>1, SlotFacts DEF Step, RingInv, ReaderOK, InHand, PastEnd, ring
    <3>4. Fresh'
      BY <1>1, <1>2, <2>4 DEF Step, RingInv, Fresh, InHand, ring
    <3> QED BY <3>2, <3>3, <3>4
  <2>5. CASE Wipe
    <3>1. /\ wiped \in Slots /\ ready' = [ready EXCEPT ![wiped] = FALSE]
          /\ slot' = [slot EXCEPT ![wiped] = 0]
          /\ wiped' = IF wiped + 1 = N THEN 0 ELSE wiped + 1
      BY <1>1, <2>5 DEF Wipe, TypeOK
    <3>2. wiped' \in Slots /\ 0 \in 0 .. MaxKeys
      BY <3>1, SlotFacts, MaxKeysAssumption
    <3>6. TypeOK'
      BY <1>1, <2>5, <3>1, <3>2 DEF Wipe, TypeOK
    <3>3. ReaderOK'
      BY <1>1, <1>2, <2>5 DEF Wipe, RingInv, ReaderOK, InHand, PastEnd
    <3>4. \A i \in Slots : ready'[i] => ready[i] /\ slot'[i] = slot[i]
      BY <1>1, <3>1 DEF TypeOK
    <3>5. Fresh'
      BY <1>1, <1>2, <2>5, <3>4 DEF Wipe, RingInv, Fresh, InHand
    <3> QED BY <3>3, <3>5, <3>6
  <2>6. CASE ResetWptr
    <3>1. TypeOK'
      BY <1>1, <2>6, SlotFacts DEF ResetWptr, TypeOK
    <3> QED BY <1>1, <1>2, <2>6, <3>1 DEF ResetWptr, RingInv, ReaderOK, Fresh, InHand, PastEnd
  <2>7. CASE ResetRptr
    <3>0. 0 \in 0 .. N
      BY NAssumption
    <3>1. TypeOK'
      BY <1>1, <2>7, <3>0 DEF ResetRptr, TypeOK, ring
    <3> QED BY <1>1, <1>2, <2>7, <3>1, SlotFacts
            DEF ResetRptr, RingInv, ReaderOK, Fresh, InHand, PastEnd, ring
  <2> QED BY <2>1, <2>2, <2>3, <2>4, <2>5, <2>6, <2>7
<1> QED BY <1>1, <1>3, <1>4 DEF RingInv

\* kernel_getchar takes the key in hand, which has not come out before.
LEMMA DecodeKeepsRing ==
  ASSUME RingInv, Decode
  PROVE  RingInv'
<1>0. PICK char : char = [key |-> temp, upper |-> Upper(shift, caps)]
  OBVIOUS
<1>1. /\ TypeOK /\ Len(pressed) \in Nat /\ Len(pressed) <= MaxKeys /\ Len(taken) \in Nat
      /\ temp \in 1 .. Len(pressed) /\ ~Out(temp) /\ buffer_rptr \in Slots
  BY DEF RingInv, TypeOK, Decode, ReaderOK, InHand, PastEnd
<1>2. /\ taken' = Append(taken, char) /\ pc' = "test" /\ pressed' = pressed
      /\ slot' = slot /\ ready' = ready /\ buffer_wptr' = buffer_wptr
      /\ UNCHANGED <<buffer_rptr, shift, caps, temp, wiped, calm>>
  BY <1>0 DEF Decode, ring
<1>3. char \in [key : 0 .. MaxKeys, upper : BOOLEAN] /\ char.key = temp
  BY <1>0, <1>1, UpperType DEF TypeOK
<1>4. /\ taken' \in Seq([key : 0 .. MaxKeys, upper : BOOLEAN])
      /\ Len(taken') = Len(taken) + 1
      /\ taken'[Len(taken) + 1] = char
      /\ \A i \in 1 .. Len(taken) : taken'[i] = taken[i]
  <2>1. taken \in Seq([key : 0 .. MaxKeys, upper : BOOLEAN])
    BY <1>1 DEF TypeOK
  <2>2. \A S : taken \in Seq(S) /\ char \in S =>
          /\ taken' \in Seq(S)
          /\ Len(taken') = Len(taken) + 1
          /\ taken'[Len(taken) + 1] = char
          /\ \A i \in 1 .. Len(taken) : taken'[i] = taken[i]
    BY <1>2, Appended
  <2> QED BY <1>3, <2>1, <2>2
<1>5. TypeOK'
  BY <1>1, <1>2, <1>4 DEF TypeOK
<1>6. \A i \in 1 .. Len(taken') : i \in 1 .. Len(taken) \/ i = Len(taken) + 1
  BY <1>1, <1>4
<1>7. \A k : Out(k)' => Out(k) \/ k = temp
  BY <1>3, <1>4, <1>6 DEF Out
<1>8. ReaderOK'
  BY <1>1, <1>2 DEF ReaderOK, InHand, PastEnd
<1>9. Fresh'
  <2>1. \A i \in Slots : ready[i] => slot[i] # temp
    BY DEF RingInv, Fresh, Decode, InHand
  <2> QED BY <1>2, <1>7, <2>1 DEF RingInv, Fresh, InHand
<1>10. EveryKeyOnce'
  <2>1. \A i \in 1 .. Len(taken) : taken[i].key \in 1 .. Len(pressed) /\ taken[i].key # temp
    BY <1>1 DEF RingInv, EveryKeyOnce, Out
  <2> QED BY <1>1, <1>2, <1>3, <1>4, <1>6, <2>1 DEF RingInv, EveryKeyOnce
<1> QED BY <1>1, <1>2, <1>5, <1>8, <1>9, <1>10 DEF RingInv

LEMMA RingInvNext == RingInv /\ [Next]_vars => RingInv'
<1> SUFFICES ASSUME RingInv, [Next]_vars PROVE RingInv'
  OBVIOUS
<1>1. CASE \E kind \in Kinds : Press(kind)
  BY <1>1, PressKeepsRing
<1>2. CASE ReleaseShift \/ UNCHANGED vars
  <2>1. /\ slot' = slot /\ ready' = ready /\ buffer_wptr' = buffer_wptr
        /\ UNCHANGED <<buffer_rptr, caps, pc, temp, wiped, pressed, taken>>
        /\ shift' \in BOOLEAN /\ calm' \in BOOLEAN
    BY <1>2 DEF ReleaseShift, Typing, vars, ring, RingInv, TypeOK
  <2>2. \A k : Out(k)' <=> Out(k)
    BY <2>1 DEF Out
  <2> QED BY <2>1, <2>2 DEF RingInv, TypeOK, ReaderOK, Fresh, InHand, PastEnd, EveryKeyOnce
<1>3. CASE Decode
  BY <1>3, DecodeKeepsRing
<1>4. CASE Test \/ Load \/ Clear \/ Step \/ Wipe \/ ResetWptr \/ ResetRptr
  BY <1>4, ReaderKeepsRing
<1> QED BY <1>1, <1>2, <1>3, <1>4 DEF Next

\* However the handler and kernel_getkey interleave and however far the ring
\* is overrun, what comes out was pressed and comes out once: EveryKeyOnce.
THEOREM NoKeyTwice == Spec => []EveryKeyOnce
<1>1. RingInv => EveryKeyOnce
  BY DEF RingInv
<1> QED BY <1>1, RingInvInit, RingInvNext, PTL DEF Spec

----------------------------------------------------------------------------
\* A typist who waits.

\* The key that was typed last has not appeared yet.
Waiting == Len(pressed) = Len(taken) + 1

\* The keys that have appeared are right.
RightSoFar ==
  \A i \in 1 .. Len(taken) :
    /\ taken[i].key = i
    /\ pressed[i].kind = "letter" => taken[i].upper = pressed[i].upper

\* Between two keys the ring is empty and the reader asks; a key that waits is
\* in the one ready slot, at the reader's pointer, or in the reader's hand, and
\* the modifiers are still those it was typed under.
OneAtATime ==
  /\ Len(pressed) = Len(taken) \/ Waiting
  /\ ~Waiting => pc = "test"
  /\ \A i \in Slots : ready[i] => i = buffer_rptr /\ Waiting /\ pc \in {"test", "load", "clear"}
  /\ Waiting =>
       /\ pressed[Len(pressed)].kind = "letter" =>
            pressed[Len(pressed)].upper = Upper(shift, caps)
       /\ pc \in {"test", "load", "clear"} =>
            ready[buffer_rptr] /\ slot[buffer_rptr] = Len(pressed)
       /\ InHand => temp = Len(pressed)

\* The handler's pointer is where the reader will be.
PointersMeet ==
  buffer_wptr = IF PastEnd THEN 0
                ELSE IF Waiting /\ pc # "decode" THEN (buffer_rptr + 1) % N
                ELSE buffer_rptr

CalmInv == calm => RightSoFar /\ OneAtATime /\ PointersMeet

LEMMA NextSlot ==
  \A r \in Slots : (r + 1) % N = IF r + 1 = N THEN 0 ELSE r + 1
BY NAssumption DEF Slots

LEMMA LettersDoNotShift ==
  ASSUME NEW kind \in Kinds, RingInv, Press(kind), kind = "letter"
  PROVE  Upper(shift, caps)' = Upper(shift, caps)
<1>1. shift' = (shift \/ kind = "shift") /\ caps' = (caps # (kind = "caps"))
  BY DEF Press
<1>2. kind # "shift" /\ kind # "caps"
  OBVIOUS
<1>3. shift \in BOOLEAN /\ caps \in BOOLEAN
  BY DEF RingInv, TypeOK
<1>4. (kind = "shift") = FALSE /\ (kind = "caps") = FALSE
  BY <1>2
<1>5. shift' = shift
  BY <1>1, <1>3, <1>4
<1>6. caps' = caps
  BY <1>1, <1>3, <1>4
<1> QED BY <1>5, <1>6 DEF Upper

LEMMA PressKeepsCalm ==
  ASSUME RingInv, CalmInv, NEW kind \in Kinds, Press(kind)
  PROVE  CalmInv'
<1> SUFFICES ASSUME calm' PROVE RightSoFar' /\ OneAtATime' /\ PointersMeet'
  BY DEF CalmInv
<1>0. PICK typed : typed = [kind |-> kind, upper |-> Upper(shift, caps)]
  OBVIOUS
<1>1. /\ calm /\ pc = "test" /\ Len(pressed) = Len(taken) /\ Len(pressed) \in Nat
      /\ RightSoFar /\ OneAtATime /\ PointersMeet /\ ~Waiting
      /\ buffer_rptr \in Slots
  <2>1. Len(pressed) \in Nat
    BY LenProperties DEF RingInv, TypeOK
  <2>2. calm' = (calm /\ pc = "test" /\ Len(pressed) = Len(taken))
    BY DEF Press, Typing
  <2>3. calm /\ pc = "test" /\ Len(pressed) = Len(taken)
    BY <2>2
  <2> QED BY <2>1, <2>3 DEF CalmInv, Waiting, RingInv, ReaderOK, PastEnd
<1>2. /\ pressed' = Append(pressed, typed)
      /\ UNCHANGED <<buffer_rptr, pc, temp, wiped, taken>>
  BY <1>0 DEF Press
<1>3. /\ Len(pressed') = Len(pressed) + 1
      /\ pressed'[Len(pressed) + 1] = typed
      /\ \A i \in 1 .. Len(pressed) : pressed'[i] = pressed[i]
  <2>1. pressed \in Seq([kind : Kinds, upper : BOOLEAN])
    BY DEF RingInv, TypeOK
  <2>2. typed \in [kind : Kinds, upper : BOOLEAN]
    BY <1>0, UpperType
  <2> QED BY <1>2, <2>1, <2>2, Appended
<1>4. Waiting'
  BY <1>1, <1>2, <1>3 DEF Waiting
<1>5. RightSoFar'
  BY <1>1, <1>2, <1>3 DEF RightSoFar
<1>6. /\ buffer_wptr = buffer_rptr
      /\ slot' = [slot EXCEPT ![buffer_rptr] = Len(pressed')]
      /\ ready' = [ready EXCEPT ![buffer_rptr] = TRUE]
      /\ buffer_wptr' = (buffer_rptr + 1) % N
  BY <1>1, <1>3 DEF Press, PointersMeet, PastEnd
<1>7. PointersMeet'
  BY <1>1, <1>2, <1>4, <1>6 DEF PointersMeet, PastEnd
<1>8. OneAtATime'
  <2>1. \A i \in Slots : ready'[i] => i = buffer_rptr
    BY <1>1, <1>6 DEF OneAtATime, RingInv, TypeOK
  <2>2. ready'[buffer_rptr] /\ slot'[buffer_rptr] = Len(pressed')
    BY <1>1, <1>6 DEF RingInv, TypeOK
  <2>3. typed.kind = "letter" => typed.upper = Upper(shift, caps)'
    BY <1>0, LettersDoNotShift
  <2> QED BY <1>1, <1>2, <1>3, <1>4, <2>1, <2>2, <2>3 DEF OneAtATime, InHand
<1> QED BY <1>5, <1>7, <1>8

\* The reader takes the waiting key from the ring into its hand.
LEMMA ReaderKeepsCalm ==
  ASSUME RingInv, CalmInv, Test \/ Load \/ Clear \/ Step \/ Wipe \/ ResetWptr \/ ResetRptr
  PROVE  CalmInv'
<1> SUFFICES ASSUME calm PROVE RightSoFar' /\ OneAtATime' /\ PointersMeet'
  BY DEF CalmInv, Test, Load, Clear, Step, Wipe, ResetWptr, ResetRptr
<1>1. /\ pressed' = pressed /\ taken' = taken /\ Upper(shift, caps)' = Upper(shift, caps)
      /\ (Waiting' <=> Waiting)
  BY DEF Test, Load, Clear, Step, Wipe, ResetWptr, ResetRptr, ring, Waiting, Upper
<1>2. /\ RightSoFar /\ OneAtATime /\ PointersMeet /\ TypeOK
      /\ ~PastEnd => buffer_rptr \in Slots
      /\ PastEnd => buffer_rptr = N
  BY DEF CalmInv, RingInv, ReaderOK
<1>3. RightSoFar'
  BY <1>1, <1>2 DEF RightSoFar
<1>4. Waiting
  BY <1>2 DEF Test, Load, Clear, Step, Wipe, ResetWptr, ResetRptr, OneAtATime, PastEnd
<1>5. OneAtATime' /\ PointersMeet'
  <2>1. CASE Test
    <3>1. UNCHANGED <<slot, ready, buffer_wptr, buffer_rptr, temp>> /\ pc = "test" /\ pc' = "load"
      BY <2>1 DEF Test, ring
    <3> QED BY <1>1, <1>2, <1>4, <3>1 DEF OneAtATime, PointersMeet, InHand, PastEnd
  <2>2. CASE Load
    <3>1. /\ UNCHANGED <<slot, ready, buffer_wptr, buffer_rptr>> /\ pc = "load" /\ pc' = "clear"
          /\ temp' = slot[buffer_rptr]
      BY <2>2 DEF Load, ring
    <3> QED BY <1>1, <1>2, <1>4, <3>1 DEF OneAtATime, PointersMeet, InHand, PastEnd
  <2>3. CASE Clear
    <3>1. /\ UNCHANGED <<slot, buffer_wptr, buffer_rptr, temp>> /\ pc = "clear" /\ pc' = "step"
          /\ ready' = [ready EXCEPT ![buffer_rptr] = FALSE]
      BY <2>3 DEF Clear
    <3>2. \A i \in Slots : ~ready'[i]
      BY <1>2, <3>1 DEF OneAtATime, TypeOK
    <3> QED BY <1>1, <1>2, <1>4, <3>1, <3>2 DEF OneAtATime, PointersMeet, InHand, PastEnd
  <2>4. CASE Step
    <3>1. /\ UNCHANGED <<slot, ready, buffer_wptr, temp>> /\ pc = "step"
          /\ pc' = IF buffer_rptr + 1 = N THEN "wipe" ELSE "decode"
          /\ buffer_rptr' = buffer_rptr + 1 /\ buffer_rptr \in Slots
      BY <1>2, <2>4 DEF Step, ring, PastEnd
    <3>2. \A i \in Slots : ~ready[i]
      BY <1>2, <3>1 DEF OneAtATime
    <3>3. OneAtATime'
      BY <1>1, <1>2, <1>4, <3>1, <3>2 DEF OneAtATime, InHand
    <3>4. buffer_wptr = IF buffer_rptr + 1 = N THEN 0 ELSE buffer_rptr + 1
      BY <1>2, <1>4, <3>1, NextSlot DEF PointersMeet, PastEnd
    <3>5. PointersMeet'
      BY <1>1, <3>1, <3>4 DEF PointersMeet, PastEnd
    <3> QED BY <3>3, <3>5
  <2>5. CASE Wipe
    <3>1. /\ UNCHANGED <<buffer_wptr, buffer_rptr, temp>> /\ pc = "wipe"
          /\ pc' \in {"wipe", "reset wptr"}
          /\ ready' = [ready EXCEPT ![wiped] = FALSE]
      BY <2>5 DEF Wipe
    <3>2. \A i \in Slots : ~ready'[i]
      BY <1>2, <3>1 DEF OneAtATime, TypeOK
    <3> QED BY <1>1, <1>2, <1>4, <3>1, <3>2 DEF OneAtATime, PointersMeet, InHand, PastEnd
  <2>6. CASE ResetWptr
    <3>1. /\ UNCHANGED <<slot, ready, buffer_rptr, temp>> /\ buffer_wptr' = 0
          /\ pc = "reset wptr" /\ pc' = "reset rptr"
      BY <2>6 DEF ResetWptr
    <3> QED BY <1>1, <1>2, <1>4, <3>1 DEF OneAtATime, PointersMeet, InHand, PastEnd
  <2>7. CASE ResetRptr
    <3>1. /\ UNCHANGED <<slot, ready, buffer_wptr, temp>> /\ buffer_rptr' = 0
          /\ pc = "reset rptr" /\ pc' = "decode"
      BY <2>7 DEF ResetRptr, ring
    <3> QED BY <1>1, <1>2, <1>4, <3>1 DEF OneAtATime, PointersMeet, InHand, PastEnd
  <2> QED BY <2>1, <2>2, <2>3, <2>4, <2>5, <2>6, <2>7
<1> QED BY <1>3, <1>5

LEMMA DecodeKeepsCalm ==
  ASSUME RingInv, CalmInv, Decode
  PROVE  CalmInv'
<1> SUFFICES ASSUME calm PROVE RightSoFar' /\ OneAtATime' /\ PointersMeet'
  BY DEF CalmInv, Decode
<1>0. PICK char : char = [key |-> temp, upper |-> Upper(shift, caps)]
  OBVIOUS
<1>1. /\ RightSoFar /\ OneAtATime /\ PointersMeet /\ TypeOK /\ pc = "decode" /\ Waiting
      /\ Len(taken) \in Nat
  <2>1. Len(taken) \in Nat
    BY LenProperties DEF RingInv, TypeOK
  <2> QED BY <2>1 DEF Decode, CalmInv, RingInv, OneAtATime
<1>2. /\ taken' = Append(taken, char) /\ pc' = "test"
      /\ UNCHANGED <<pressed, slot, ready, buffer_wptr, buffer_rptr, temp>>
  BY <1>0 DEF Decode, ring
<1>3. /\ Len(taken') = Len(taken) + 1
      /\ taken'[Len(taken) + 1] = char
      /\ \A i \in 1 .. Len(taken) : taken'[i] = taken[i]
  <2>1. taken \in Seq([key : 0 .. MaxKeys, upper : BOOLEAN])
    BY <1>1 DEF TypeOK
  <2>2. char \in [key : 0 .. MaxKeys, upper : BOOLEAN]
    BY <1>0, <1>1, UpperType DEF TypeOK
  <2> QED BY <1>2, <2>1, <2>2, Appended
<1>4. Len(pressed) = Len(taken) + 1 /\ Len(taken') = Len(pressed')
  BY <1>1, <1>2, <1>3 DEF Waiting
<1>5. ~Waiting'
  BY <1>1, <1>3, <1>4 DEF Waiting
<1>6. /\ char.key = Len(taken) + 1
      /\ pressed[Len(taken) + 1].kind = "letter" => char.upper = pressed[Len(taken) + 1].upper
  BY <1>0, <1>1, <1>4 DEF OneAtATime, InHand
<1>7. RightSoFar'
  <2>1. \A i \in 1 .. Len(taken') : i \in 1 .. Len(taken) \/ i = Len(taken) + 1
    BY <1>1, <1>3
  <2> QED BY <1>1, <1>2, <1>3, <1>6, <2>1 DEF RightSoFar
<1>8. OneAtATime'
  BY <1>1, <1>2, <1>4, <1>5 DEF OneAtATime
<1>9. PointersMeet'
  BY <1>1, <1>2, <1>5 DEF PointersMeet, PastEnd
<1> QED BY <1>7, <1>8, <1>9

LEMMA CalmInvNext == RingInv /\ CalmInv /\ [Next]_vars => CalmInv'
<1> SUFFICES ASSUME RingInv, CalmInv, [Next]_vars PROVE CalmInv'
  OBVIOUS
<1>1. CASE \E kind \in Kinds : Press(kind)
  BY <1>1, PressKeepsCalm
<1>2. CASE ReleaseShift
  <2> SUFFICES ASSUME calm' PROVE RightSoFar' /\ OneAtATime' /\ PointersMeet'
    BY DEF CalmInv
  <2>1. /\ calm /\ Len(pressed) = Len(taken) /\ Len(taken) \in Nat
        /\ UNCHANGED <<pressed, taken, slot, ready, buffer_wptr, buffer_rptr, pc, temp>>
    BY <1>2, LenProperties DEF ReleaseShift, Typing, ring, RingInv, TypeOK
  <2>2. ~Waiting /\ ~Waiting'
    BY <2>1 DEF Waiting
  <2> QED BY <2>1, <2>2 DEF CalmInv, RightSoFar, OneAtATime, PointersMeet, PastEnd
<1>3. CASE Decode
  BY <1>3, DecodeKeepsCalm
<1>4. CASE Test \/ Load \/ Clear \/ Step \/ Wipe \/ ResetWptr \/ ResetRptr
  BY <1>4, ReaderKeepsCalm
<1>5. CASE UNCHANGED vars
  BY <1>5 DEF vars, ring, CalmInv, RightSoFar, OneAtATime, PointersMeet, PastEnd, Waiting,
              InHand, Upper
<1> QED BY <1>1, <1>2, <1>3, <1>4, <1>5 DEF Next

\* A typist who waits for each key to appear gets what was typed, in order, and
\* letters in the case they were typed in, for a ring of any size: AsTyped.
THEOREM TypingIsFaithful == Spec => []AsTyped
<1>1. Init => CalmInv
  <2> SUFFICES ASSUME Init PROVE CalmInv
    OBVIOUS
  <2>1. /\ Len(pressed) = 0 /\ Len(taken) = 0 /\ pc = "test" /\ buffer_wptr = buffer_rptr
        /\ \A i \in Slots : ~ready[i]
    BY DEF Init
  <2>2. ~Waiting
    BY <2>1 DEF Waiting
  <2> QED BY <2>1, <2>2 DEF CalmInv, RightSoFar, OneAtATime, PointersMeet, PastEnd
<1>2. RingInv /\ CalmInv => AsTyped
  <2> SUFFICES ASSUME RingInv, CalmInv, calm
               PROVE  /\ RightSoFar
                      /\ pc = "test" /\ ~ready[buffer_rptr] => Len(taken) = Len(pressed)
    BY DEF AsTyped, RightSoFar
  <2> QED BY DEF CalmInv, OneAtATime
<1> QED BY <1>1, <1>2, RingInvInit, RingInvNext, CalmInvNext, PTL DEF Spec

(***************************************************************************)
(* The editor                                                              *)
(***************************************************************************)

----------------------------------------------------------------------------
(* Least and greatest *)

Less == OpToRel(<, Nat)

LEMMA Smallest ==
  ASSUME NEW S, S \subseteq Nat, S # {}
  PROVE  \E m \in S : \A x \in S : m <= x
<1>1. IsWellFoundedOn(Less, Nat)
  BY NatLessThanWellFounded DEF OpToRel, Less
<1>2. PICK m \in S : \A x \in S : ~(<<x, m>> \in Less)
  BY <1>1, WFMin
<1>3. \A x, y \in Nat : x < y => <<x, y>> \in Less
  BY DEF OpToRel, Less
<1>4. ASSUME NEW x \in S PROVE m <= x
  <2>1. ~(x < m)
    BY <1>2, <1>3
  <2> QED BY <2>1
<1> QED BY <1>4

LEMMA MinFacts ==
  ASSUME NEW S, S \subseteq Nat, S # {}
  PROVE  Min(S) \in S /\ \A x \in S : Min(S) <= x
BY Smallest DEF Min

LEMMA MaxFacts ==
  ASSUME NEW n \in Int, NEW S, S \subseteq Int, S # {}, \A x \in S : x <= n
  PROVE  Max(S) \in S /\ \A x \in S : x <= Max(S)
<1>1. PICK T : T = {n - x : x \in S}
  OBVIOUS
<1>2. T \subseteq Nat /\ T # {}
  <2>1. \A x \in S : n - x \in Nat
    OBVIOUS
  <2> QED BY <1>1, <2>1
<1>3. PICK m \in T : \A x \in T : m <= x
  BY <1>2, Smallest
<1>4. PICK y \in S : m = n - y
  BY <1>1, <1>3
<1>5. \A x \in S : y >= x
  BY <1>1, <1>3, <1>4
<1> QED BY <1>5 DEF Max

\* The end of the line that a place is in.
LEMMA LineEndFacts ==
  ASSUME NEW b, NEW len \in Nat, NEW p \in 0 .. len
  PROVE  /\ LineEnd(b, len, p) \in Nat /\ p <= LineEnd(b, len, p) /\ LineEnd(b, len, p) <= len
         /\ LineEnd(b, len, p) = len \/ b[LineEnd(b, len, p)] = NL
         /\ \A q \in p .. LineEnd(b, len, p) - 1 : b[q] # NL
<1>1. PICK S : S = {q \in p .. len : q = len \/ b[q] = NL}
  OBVIOUS
<1>2. S \subseteq Nat /\ len \in S
  BY <1>1
<1>3. Min(S) \in S /\ \A x \in S : Min(S) <= x
  BY <1>2, MinFacts
<1>4. LineEnd(b, len, p) = Min(S)
  BY <1>1 DEF LineEnd
<1> QED BY <1>1, <1>2, <1>3, <1>4

\* Where the loops that go up stop.
LEMMA LineAboveFacts ==
  ASSUME NEW b, NEW loc \in Nat, NEW ends
  PROVE  /\ loc = 0 => LineAbove(b, loc, ends) = -1
         /\ loc > 0 => /\ LineAbove(b, loc, ends) \in Nat /\ LineAbove(b, loc, ends) < loc
                       /\ \/ LineAbove(b, loc, ends) = 0
                          \/ b[LineAbove(b, loc, ends) - 1] \in ends
                       /\ \A q \in 1 .. loc - 1 :
                            b[q - 1] \in ends => q <= LineAbove(b, loc, ends)
<1>1. PICK S : S = {p \in {-1} \cup 0 .. loc - 1 : p <= 0 \/ b[p - 1] \in ends}
  OBVIOUS
<1>2. S \subseteq Int /\ -1 \in S /\ S # {} /\ loc \in Int /\ \A x \in S : x <= loc
  BY <1>1
<1>3. Max(S) \in S /\ \A x \in S : x <= Max(S)
  BY <1>2, MaxFacts
<1>4. LineAbove(b, loc, ends) = Max(S)
  BY <1>1 DEF LineAbove
<1>5. loc > 0 => 0 \in S
  BY <1>1
<1> QED BY <1>1, <1>2, <1>3, <1>4, <1>5

----------------------------------------------------------------------------
(* Drawing *)

Places == [row : Nat, col : Int]
Home == [row |-> 0, col |-> 0]

LEMMA OnTheRow ==
  ASSUME NEW at \in Places, NEW wide
  PROVE  [at EXCEPT !.col = wide] = [row |-> at.row, col |-> wide]
BY DEF Places

LEMMA AfterFacts ==
  ASSUME NEW at \in Places, NEW c
  PROVE  /\ After(at, c) \in Places
         /\ After(at, c).row \in {at.row, at.row + 1}
         /\ c = NL => After(at, c) = [row |-> at.row + 1, col |-> 0]
<1>1. at.row \in Nat /\ at.col \in Int /\ at = [row |-> at.row, col |-> at.col]
  BY DEF Places
<1>2. (at.col \div TabWidth) * TabWidth + TabWidth \in Int
  <2>1. TabWidth \in Int /\ at.col \div TabWidth \in Int
    BY <1>1, SizeAssumption
  <2>2. PICK d \in Int : d = at.col \div TabWidth
    BY <2>1
  <2> QED BY <2>1, <2>2
<1>3. PICK tab \in Int : tab = (at.col \div TabWidth) * TabWidth + TabWidth
  BY <1>2
<1>4. PICK wide \in Int : wide = CASE c = CR  -> at.col [] c = TAB -> tab [] OTHER -> at.col + 1
  BY <1>1, <1>3
<1>5. After(at, c) = IF c = NL \/ wide = COLUMN_LEN
                     THEN [row |-> at.row + 1, col |-> 0]
                     ELSE [at EXCEPT !.col = wide]
  BY <1>3, <1>4 DEF After
<1>6. [at EXCEPT !.col = wide] = [row |-> at.row, col |-> wide]
  BY OnTheRow
<1> QED BY <1>1, <1>5, <1>6 DEF Places

\* Two places in the same column move alike.
LEMMA AfterShift ==
  ASSUME NEW at \in Places, NEW ta \in Places, NEW r \in Nat, NEW c,
         at.row = r + ta.row, at.col = ta.col
  PROVE  After(at, c).row = r + After(ta, c).row /\ After(at, c).col = After(ta, c).col
<1>1. PICK x \in Nat, y \in Nat : x = at.row /\ y = ta.row
  BY DEF Places
<1>2. PICK wide : wide = CASE c = CR  -> at.col
                           [] c = TAB -> (at.col \div TabWidth) * TabWidth + TabWidth
                           [] OTHER   -> at.col + 1
  OBVIOUS
<1>3. wide = CASE c = CR  -> ta.col
               [] c = TAB -> (ta.col \div TabWidth) * TabWidth + TabWidth
               [] OTHER   -> ta.col + 1
  BY <1>2
<1>4. /\ After(at, c) = IF c = NL \/ wide = COLUMN_LEN
                        THEN [row |-> x + 1, col |-> 0] ELSE [row |-> x, col |-> wide]
      /\ After(ta, c) = IF c = NL \/ wide = COLUMN_LEN
                        THEN [row |-> y + 1, col |-> 0] ELSE [row |-> y, col |-> wide]
  <2>1. /\ [at EXCEPT !.col = wide] = [row |-> x, col |-> wide]
        /\ [ta EXCEPT !.col = wide] = [row |-> y, col |-> wide]
    BY <1>1, OnTheRow
  <2> QED BY <1>1, <1>2, <1>3, <2>1 DEF After
<1>5. x + 1 = r + (y + 1) /\ x = r + y
  <2>1. at.row \in Nat /\ ta.row \in Nat
    BY DEF Places
  <2>2. x = r + y
    BY <1>1, <2>1
  <2> QED BY <2>2
<1>6. CASE c = NL \/ wide = COLUMN_LEN
  BY <1>4, <1>5, <1>6
<1>7. CASE ~(c = NL \/ wide = COLUMN_LEN)
  BY <1>4, <1>5, <1>7
<1> QED BY <1>6, <1>7

\* at draws the places from p up to n.
Draws(at, b, p, n) ==
  at = [loc \in p .. n |-> IF loc = p THEN Home ELSE After(at[loc - 1], b[loc - 1])]

LEMMA DrawingExists ==
  ASSUME NEW b, NEW p \in Nat, NEW n \in Nat
  PROVE  \E at : Draws(at, b, p, p + n)
<1>1. PICK Bad : Bad = {k \in Nat : ~\E at : Draws(at, b, p, p + k)}
  OBVIOUS
<1>2. SUFFICES ASSUME Bad # {} PROVE FALSE
  BY <1>1
<1>3. PICK k \in Bad : \A x \in Bad : k <= x
  BY <1>1, <1>2, Smallest
<1>4. k # 0
  <2>1. Draws([loc \in p .. p |-> Home], b, p, p)
    <3>1. \A loc \in p .. p : loc = p
      OBVIOUS
    <3> QED BY <3>1 DEF Draws
  <2>2. p + 0 = p
    OBVIOUS
  <2> QED BY <1>1, <2>1, <2>2
<1>5. k - 1 \in Nat /\ k \in Nat /\ p + (k - 1) = p + k - 1
  BY <1>1, <1>4
<1>6. k - 1 \notin Bad
  BY <1>3, <1>5
<1>7. PICK at : Draws(at, b, p, p + (k - 1))
  BY <1>1, <1>5, <1>6
<1>8. PICK on : on = [loc \in p .. p + k |->
                        IF loc = p + k THEN After(at[p + k - 1], b[p + k - 1]) ELSE at[loc]]
  OBVIOUS
<1>9. ASSUME NEW loc \in p .. p + k
      PROVE  on[loc] = IF loc = p THEN Home ELSE After(on[loc - 1], b[loc - 1])
  <2>1. CASE loc = p + k
    BY <1>5, <1>8, <1>4, <2>1
  <2>2. CASE loc # p + k
    <3>1. loc \in p .. p + (k - 1) /\ loc \in Nat
      BY <1>5, <2>2
    <3>2. at[loc] = IF loc = p THEN Home ELSE After(at[loc - 1], b[loc - 1])
      BY <1>7, <3>1 DEF Draws
    <3>3. loc # p => loc - 1 \in p .. p + k /\ loc - 1 # p + k
      BY <3>1, <1>5
    <3> QED BY <1>8, <2>2, <3>2, <3>3
  <2> QED BY <2>1, <2>2
<1>10. Draws(on, b, p, p + k)
  BY <1>8, <1>9 DEF Draws
<1> QED BY <1>1, <1>3, <1>10

LEMMA DrawnFacts ==
  ASSUME NEW b, NEW len \in Nat, NEW p \in 0 .. len
  PROVE  /\ Drawn(b, len, p)[p] = Home
         /\ \A loc \in p .. len :
              /\ Drawn(b, len, p)[loc] \in Places
              /\ loc # p =>
                   Drawn(b, len, p)[loc] = After(Drawn(b, len, p)[loc - 1], b[loc - 1])
<1>1. PICK at : Draws(at, b, p, len)
  <2>1. p \in Nat /\ len - p \in Nat /\ p + (len - p) = len
    OBVIOUS
  <2> QED BY <2>1, DrawingExists
<1>2. Draws(Drawn(b, len, p), b, p, len)
  BY <1>1 DEF Draws, Drawn, Home
<1>3. PICK on : on = Drawn(b, len, p)
  OBVIOUS
<1>4. /\ on[p] = Home
      /\ \A loc \in p .. len : loc # p => on[loc] = After(on[loc - 1], b[loc - 1])
  BY <1>2, <1>3 DEF Draws
<1>5. \A loc \in p .. len : on[loc] \in Places
  <2>1. PICK Bad : Bad = {loc \in p .. len : on[loc] \notin Places}
    OBVIOUS
  <2>2. SUFFICES ASSUME Bad # {} PROVE FALSE
    BY <2>1
  <2>3. PICK loc \in Bad : \A x \in Bad : loc <= x
    BY <2>1, <2>2, Smallest
  <2>4. loc # p
    BY <1>4, <2>1 DEF Home, Places
  <2>5. loc - 1 \in p .. len /\ loc - 1 < loc
    BY <2>1, <2>4
  <2>6. on[loc - 1] \in Places
    BY <2>1, <2>3, <2>5
  <2> QED BY <1>4, <2>1, <2>4, <2>6, AfterFacts
<1> QED BY <1>3, <1>4, <1>5

\* The row of each place on a page that begins at p.
Row(b, len, p, loc) == Drawn(b, len, p)[loc].row

LEMMA RowFacts ==
  ASSUME NEW b, NEW len \in Nat, NEW p \in 0 .. len
  PROVE  /\ Row(b, len, p, p) = 0
         /\ \A loc \in p .. len : Row(b, len, p, loc) \in Nat
         /\ \A loc \in p .. len - 1 :
              /\ Row(b, len, p, loc + 1) \in {Row(b, len, p, loc), Row(b, len, p, loc) + 1}
              /\ b[loc] = NL => Row(b, len, p, loc + 1) = Row(b, len, p, loc) + 1
<1>1. Row(b, len, p, p) = 0
  <2>1. Drawn(b, len, p)[p] = Home
    BY DrawnFacts
  <2> QED BY <2>1 DEF Row, Home
<1>2. \A loc \in p .. len : Row(b, len, p, loc) \in Nat
  BY DrawnFacts DEF Row, Places
<1>3. ASSUME NEW loc \in p .. len - 1
      PROVE  /\ Row(b, len, p, loc + 1) \in {Row(b, len, p, loc), Row(b, len, p, loc) + 1}
             /\ b[loc] = NL => Row(b, len, p, loc + 1) = Row(b, len, p, loc) + 1
  <2>1. loc \in p .. len /\ loc + 1 \in p .. len /\ loc + 1 # p /\ (loc + 1) - 1 = loc
    OBVIOUS
  <2>2. Drawn(b, len, p)[loc + 1] = After(Drawn(b, len, p)[loc], b[loc])
    BY <2>1, DrawnFacts
  <2>3. Drawn(b, len, p)[loc] \in Places
    BY <2>1, DrawnFacts
  <2> QED BY <2>2, <2>3, AfterFacts DEF Row
<1> QED BY <1>1, <1>2, <1>3

LEMMA RowsGrow ==
  ASSUME NEW b, NEW len \in Nat, NEW p \in 0 .. len, NEW from \in p .. len, NEW to \in from .. len
  PROVE  Row(b, len, p, from) <= Row(b, len, p, to)
<1>1. PICK Bad : Bad = {loc \in from .. len : ~(Row(b, len, p, from) <= Row(b, len, p, loc))}
  OBVIOUS
<1>2. SUFFICES ASSUME Bad # {} PROVE FALSE
  BY <1>1
<1>3. PICK loc \in Bad : \A x \in Bad : loc <= x
  BY <1>1, <1>2, Smallest
<1>4. Row(b, len, p, from) \in Nat /\ Row(b, len, p, loc) \in Nat
  <2>1. loc \in p .. len
    BY <1>1
  <2> QED BY <2>1, RowFacts
<1>5. loc # from
  BY <1>1, <1>4
<1>6. loc - 1 \in from .. len /\ loc - 1 < loc /\ loc - 1 \in p .. len - 1 /\ (loc - 1) + 1 = loc
  BY <1>1, <1>5
<1>7. Row(b, len, p, from) <= Row(b, len, p, loc - 1)
  BY <1>1, <1>3, <1>6
<1>8. Row(b, len, p, loc) \in {Row(b, len, p, loc - 1), Row(b, len, p, loc - 1) + 1}
  BY <1>6, RowFacts
<1>9. Row(b, len, p, loc - 1) \in Nat
  <2>1. loc - 1 \in p .. len
    BY <1>6
  <2> QED BY <2>1, RowFacts
<1> QED BY <1>1, <1>3, <1>4, <1>7, <1>8, <1>9

LEMMA PageEndFacts ==
  ASSUME NEW b, NEW len \in Nat, NEW p \in 0 .. len
  PROVE  /\ PageEnd(b, len, p) \in Nat /\ p <= PageEnd(b, len, p) /\ PageEnd(b, len, p) <= len
         /\ PageEnd(b, len, p) = len \/ Row(b, len, p, PageEnd(b, len, p)) >= ROW_LEN
         /\ \A loc \in p .. len : loc < PageEnd(b, len, p) => Row(b, len, p, loc) < ROW_LEN
<1>1. PICK S : S = {loc \in p .. len : loc = len \/ Row(b, len, p, loc) >= ROW_LEN}
  OBVIOUS
<1>2. S \subseteq Nat /\ len \in S
  BY <1>1
<1>3. Min(S) \in S /\ \A x \in S : Min(S) <= x
  BY <1>2, MinFacts
<1>4. PageEnd(b, len, p) = Min(S)
  BY <1>1 DEF PageEnd, Row
<1>5. ASSUME NEW loc \in p .. len, loc < Min(S) PROVE Row(b, len, p, loc) < ROW_LEN
  <2>1. loc \notin S /\ loc # len
    BY <1>1, <1>2, <1>3, <1>5
  <2>2. Row(b, len, p, loc) \in Nat /\ ROW_LEN \in Nat
    BY RowFacts, SizeAssumption
  <2> QED BY <1>1, <2>1, <2>2
<1> QED BY <1>1, <1>2, <1>3, <1>4, <1>5

----------------------------------------------------------------------------
(* Newlines *)

\* The newlines between p and c.
NewlinesIn(b, p, c) == {q \in p .. c - 1 : b[q] = NL}
Newlines(b, p, c) == Cardinality(NewlinesIn(b, p, c))

LEMMA NewlinesFinite ==
  ASSUME NEW b, NEW p \in Nat, NEW c \in Nat
  PROVE  IsFiniteSet(NewlinesIn(b, p, c)) /\ Newlines(b, p, c) \in Nat
<1>1. IsFiniteSet(p .. c - 1)
  BY FS_Interval
<1>2. NewlinesIn(b, p, c) \subseteq p .. c - 1
  BY DEF NewlinesIn
<1> QED BY <1>1, <1>2, FS_Subset, FS_CardinalityType DEF Newlines

LEMMA NoNewlines ==
  ASSUME NEW b, NEW p \in Nat, NEW c \in Nat, \A q \in p .. c - 1 : b[q] # NL
  PROVE  Newlines(b, p, c) = 0
<1>1. NewlinesIn(b, p, c) = {}
  BY DEF NewlinesIn
<1> QED BY <1>1, FS_EmptySet DEF Newlines

LEMMA OneMore ==
  ASSUME NEW b, NEW p \in Nat, NEW c \in Nat, p <= c
  PROVE  Newlines(b, p, c + 1) = IF b[c] = NL THEN Newlines(b, p, c) + 1 ELSE Newlines(b, p, c)
<1>1. \A q : q \in p .. (c + 1) - 1 <=> q \in p .. c - 1 \/ q = c
  OBVIOUS
<1>2. CASE b[c] = NL
  <2>1. NewlinesIn(b, p, c + 1) = NewlinesIn(b, p, c) \cup {c}
    BY <1>1, <1>2 DEF NewlinesIn
  <2>2. c \notin NewlinesIn(b, p, c)
    BY DEF NewlinesIn
  <2> QED BY <1>2, <2>1, <2>2, NewlinesFinite, FS_AddElement DEF Newlines
<1>3. CASE b[c] # NL
  <2>1. NewlinesIn(b, p, c + 1) = NewlinesIn(b, p, c)
    BY <1>1, <1>3 DEF NewlinesIn
  <2> QED BY <1>3, <2>1 DEF Newlines
<1> QED BY <1>2, <1>3

LEMMA FewerNewlines ==
  ASSUME NEW b, NEW p \in Nat, NEW c \in Nat, NEW f \in Nat, NEW d \in Nat, p <= f, d <= c
  PROVE  Newlines(b, f, d) <= Newlines(b, p, c)
<1>1. NewlinesIn(b, f, d) \subseteq NewlinesIn(b, p, c)
  BY DEF NewlinesIn
<1> QED BY <1>1, NewlinesFinite, FS_Subset DEF Newlines

LEMMA OneFewer ==
  ASSUME NEW b, NEW p \in Nat, NEW c \in Nat, NEW e \in p .. c - 1, b[e] = NL
  PROVE  Newlines(b, e + 1, c) + 1 <= Newlines(b, p, c)
<1>1. e \in Nat /\ e + 1 \in Nat
  OBVIOUS
<1>2. NewlinesIn(b, e + 1, c) \cup {e} \subseteq NewlinesIn(b, p, c)
  BY DEF NewlinesIn
<1>3. e \notin NewlinesIn(b, e + 1, c)
  BY DEF NewlinesIn
<1>4. Cardinality(NewlinesIn(b, e + 1, c) \cup {e}) = Newlines(b, e + 1, c) + 1
  BY <1>1, <1>3, NewlinesFinite, FS_AddElement DEF Newlines
<1>5. Cardinality(NewlinesIn(b, e + 1, c) \cup {e}) <= Newlines(b, p, c)
  BY <1>2, NewlinesFinite, FS_Subset DEF Newlines
<1> QED BY <1>4, <1>5

\* b and d have the same characters from p up to c.
Agree(b, d, p, c) == \A q \in p .. c - 1 : b[q] = d[q]

LEMMA SameNewlines ==
  ASSUME NEW b, NEW d, NEW p, NEW c, Agree(b, d, p, c)
  PROVE  Newlines(b, p, c) = Newlines(d, p, c)
<1>1. NewlinesIn(b, p, c) = NewlinesIn(d, p, c)
  BY DEF NewlinesIn, Agree
<1> QED BY <1>1 DEF Newlines

\* Each newline takes a row.
LEMMA NewlinesTakeRows ==
  ASSUME NEW b, NEW len \in Nat, NEW p \in 0 .. len, NEW c \in p .. len
  PROVE  Newlines(b, p, c) <= Row(b, len, p, c)
<1>1. PICK Bad : Bad = {loc \in p .. len : ~(Newlines(b, p, loc) <= Row(b, len, p, loc))}
  OBVIOUS
<1>2. SUFFICES ASSUME Bad # {} PROVE FALSE
  BY <1>1
<1>3. PICK loc \in Bad : \A x \in Bad : loc <= x
  BY <1>1, <1>2, Smallest
<1>4. loc # p
  <2>1. Newlines(b, p, p) = 0
    BY NoNewlines
  <2>2. Row(b, len, p, p) = 0
    BY RowFacts
  <2> QED BY <1>1, <2>1, <2>2
<1>5. PICK c1 \in p .. len - 1 : loc = c1 + 1 /\ c1 \in Nat /\ p \in Nat /\ p <= c1 /\ c1 < loc
  <2>1. loc - 1 \in p .. len - 1 /\ loc = (loc - 1) + 1 /\ loc - 1 < loc
    BY <1>1, <1>4
  <2> QED BY <2>1
<1>6. Newlines(b, p, c1) <= Row(b, len, p, c1)
  <2>1. c1 \in p .. len
    BY <1>5
  <2> QED BY <1>1, <1>3, <1>5, <2>1
<1>7. Row(b, len, p, c1) \in Nat /\ Newlines(b, p, c1) \in Nat
  <2>1. c1 \in p .. len
    BY <1>5
  <2> QED BY <1>5, <2>1, RowFacts, NewlinesFinite
<1>8. Newlines(b, p, loc) = IF b[c1] = NL THEN Newlines(b, p, c1) + 1 ELSE Newlines(b, p, c1)
  BY <1>5, OneMore
<1>9. /\ Row(b, len, p, loc) \in {Row(b, len, p, c1), Row(b, len, p, c1) + 1}
      /\ b[c1] = NL => Row(b, len, p, loc) = Row(b, len, p, c1) + 1
  BY <1>5, RowFacts
<1>10. ~(Newlines(b, p, loc) <= Row(b, len, p, loc))
  BY <1>1
<1> QED BY <1>6, <1>7, <1>8, <1>9, <1>10

----------------------------------------------------------------------------
(* Lines of one row *)

\* From the first column on, a page is drawn as one that begins there.
LEMMA SameDrawing ==
  ASSUME NEW b, NEW len \in Nat, NEW p \in 0 .. len, NEW q \in p .. len,
         Drawn(b, len, p)[q].col = 0, NEW c \in q .. len
  PROVE  Row(b, len, p, c) = Row(b, len, p, q) + Row(b, len, q, c)
<1>1. PICK at, ta : at = Drawn(b, len, p) /\ ta = Drawn(b, len, q)
  OBVIOUS
<1>2. /\ \A loc \in p .. len : at[loc] \in Places /\ (loc # p => at[loc] = After(at[loc - 1], b[loc - 1]))
      /\ \A loc \in q .. len : ta[loc] \in Places /\ (loc # q => ta[loc] = After(ta[loc - 1], b[loc - 1]))
      /\ ta[q] = Home /\ at[q].col = 0
  <2>1. q \in 0 .. len
    OBVIOUS
  <2> QED BY <1>1, <2>1, DrawnFacts
<1>3. PICK r \in Nat : r = at[q].row
  BY <1>2 DEF Places
<1>4. PICK Bad : Bad = {loc \in q .. len : ~(at[loc].row = r + ta[loc].row /\ at[loc].col = ta[loc].col)}
  OBVIOUS
<1>5. Bad = {}
  <2>1. SUFFICES ASSUME Bad # {} PROVE FALSE
    OBVIOUS
  <2>2. PICK loc \in Bad : \A x \in Bad : loc <= x
    BY <1>4, <2>1, Smallest
  <2>3. loc # q
    <3>1. ta[q].row = 0 /\ ta[q].col = 0
      BY <1>2 DEF Home
    <3>2. at[q].row = r + ta[q].row
      BY <1>3, <3>1
    <3> QED BY <1>2, <1>4, <3>1, <3>2
  <2>4. /\ loc - 1 \in q .. len /\ loc - 1 < loc /\ loc \in p .. len /\ loc # p /\ loc - 1 \in p .. len
        /\ loc \in q .. len
    BY <1>4, <2>3
  <2>5. at[loc - 1].row = r + ta[loc - 1].row /\ at[loc - 1].col = ta[loc - 1].col
    BY <1>4, <2>2, <2>4
  <2>6. at[loc] = After(at[loc - 1], b[loc - 1]) /\ ta[loc] = After(ta[loc - 1], b[loc - 1])
    BY <1>2, <2>3, <2>4
  <2>7. at[loc - 1] \in Places /\ ta[loc - 1] \in Places
    BY <1>2, <2>4
  <2> QED BY <1>4, <2>2, <2>5, <2>6, <2>7, AfterShift
<1> QED BY <1>1, <1>3, <1>4, <1>5 DEF Row

\* A line begins in the first column.
LEMMA FirstColumn ==
  ASSUME NEW b, NEW len \in Nat, NEW p \in 0 .. len, NEW c \in p .. len, c = p \/ b[c - 1] = NL
  PROVE  Drawn(b, len, p)[c].col = 0
<1>1. CASE c = p
  <2>1. Drawn(b, len, p)[p] = Home
    BY DrawnFacts
  <2> QED BY <1>1, <2>1 DEF Home
<1>2. CASE c # p /\ b[c - 1] = NL
  <2>1. c - 1 \in p .. len
    BY <1>2
  <2>2. /\ Drawn(b, len, p)[c] = After(Drawn(b, len, p)[c - 1], NL)
        /\ Drawn(b, len, p)[c - 1] \in Places
    BY <1>2, <2>1, DrawnFacts
  <2>3. Drawn(b, len, p)[c] = [row |-> Drawn(b, len, p)[c - 1].row + 1, col |-> 0]
    BY <2>2, AfterFacts
  <2> QED BY <2>3
<1> QED BY <1>1, <1>2

\* The line of a place.
LEMMA LineOf ==
  ASSUME NEW b, NEW len \in Nat, NEW p \in LineStarts(b, len), NEW c \in p .. len - 1
  PROVE  \E q \in LineStarts(b, len) : p <= q /\ q <= c /\ \A k \in q .. c - 1 : b[k] # NL
<1>1. PICK S : S = {q \in LineStarts(b, len) : q <= c}
  OBVIOUS
<1>2. c \in Int /\ S \subseteq Int /\ p \in S /\ S # {} /\ \A x \in S : x <= c
  BY <1>1 DEF LineStarts
<1>3. PICK q \in S : \A x \in S : x <= q
  BY <1>2, MaxFacts
<1>4. ASSUME NEW k \in q .. c - 1 PROVE b[k] # NL
  <2>1. k + 1 \in 0 .. len - 1 /\ k + 1 <= c /\ (k + 1) - 1 = k /\ ~(k + 1 <= q)
    BY <1>1, <1>2, <1>3 DEF LineStarts
  <2> QED BY <1>1, <1>3, <2>1 DEF LineStarts
<1> QED BY <1>1, <1>2, <1>3, <1>4

OneRowLines(b, len) ==
  \A q \in LineStarts(b, len) : Row(b, len, q, LineEnd(b, len, q)) = 0

LEMMA RowsAreNewlines ==
  ASSUME NEW b, NEW len \in Nat, NEW p \in LineStarts(b, len), OneRowLines(b, len),
         NEW c \in p .. len
  PROVE  Row(b, len, p, c) = Newlines(b, p, c)
<1>0. p \in 0 .. len /\ p \in Nat
  BY DEF LineStarts
<1>1. PICK Bad : Bad = {loc \in p .. len : Row(b, len, p, loc) # Newlines(b, p, loc)}
  OBVIOUS
<1>2. SUFFICES ASSUME Bad # {} PROVE FALSE
  BY <1>1
<1>3. PICK loc \in Bad : \A x \in Bad : loc <= x
  <2>1. Bad \subseteq Nat
    BY <1>0, <1>1
  <2> QED BY <1>2, <2>1, Smallest
<1>4. loc # p
  <2>1. Newlines(b, p, p) = 0
    BY <1>0, NoNewlines
  <2>2. Row(b, len, p, p) = 0
    BY <1>0, RowFacts
  <2> QED BY <1>1, <2>1, <2>2
<1>5. PICK d \in p .. len - 1 : loc = d + 1 /\ d \in Nat /\ p <= d /\ d < loc /\ d \in p .. len
  <2>1. loc - 1 \in p .. len - 1 /\ loc = (loc - 1) + 1 /\ loc - 1 < loc
    BY <1>0, <1>1, <1>4
  <2> QED BY <1>0, <2>1
<1>6. Row(b, len, p, d) = Newlines(b, p, d)
  BY <1>1, <1>3, <1>5
<1>7. Newlines(b, p, loc) = IF b[d] = NL THEN Newlines(b, p, d) + 1 ELSE Newlines(b, p, d)
  BY <1>0, <1>5, OneMore
<1>8. b[d] = NL => Row(b, len, p, loc) = Row(b, len, p, d) + 1
  BY <1>0, <1>5, RowFacts
<1>9. b[d] # NL => Row(b, len, p, loc) = Row(b, len, p, d)
  <2> SUFFICES ASSUME b[d] # NL PROVE Row(b, len, p, loc) = Row(b, len, p, d)
    OBVIOUS
  <2>1. PICK q \in LineStarts(b, len) : p <= q /\ q <= d /\ \A k \in q .. d - 1 : b[k] # NL
    BY <1>5, LineOf
  <2>2. q \in 0 .. len /\ q \in p .. len /\ d \in q .. len /\ loc \in q .. len /\ (q = p \/ b[q - 1] = NL)
    BY <1>0, <1>5, <2>1 DEF LineStarts
  <2>3. PICK e : e = LineEnd(b, len, q)
    OBVIOUS
  <2>4. e \in loc .. len /\ e \in q .. len
    <3>1. e \in Nat /\ q <= e /\ e <= len /\ (e = len \/ b[e] = NL)
      BY <2>2, <2>3, LineEndFacts
    <3>2. e \notin q .. d
      BY <1>5, <2>1, <2>2, <3>1
    <3> QED BY <1>5, <2>2, <3>1, <3>2
  <2>5. Row(b, len, q, e) = 0
    BY <2>1, <2>3 DEF OneRowLines
  <2>6. Row(b, len, q, loc) <= Row(b, len, q, e) /\ Row(b, len, q, loc) \in Nat
    BY <2>2, <2>4, RowsGrow, RowFacts
  <2>7. Row(b, len, q, d) <= Row(b, len, q, loc) /\ Row(b, len, q, d) \in Nat
    <3>1. loc \in d .. len
      BY <1>5
    <3> QED BY <2>2, <3>1, RowsGrow, RowFacts
  <2>8. Row(b, len, q, d) = 0 /\ Row(b, len, q, loc) = 0
    BY <2>5, <2>6, <2>7
  <2>9. Drawn(b, len, p)[q].col = 0
    BY <1>0, <2>2, FirstColumn
  <2>10. /\ Row(b, len, p, d) = Row(b, len, p, q) + Row(b, len, q, d)
         /\ Row(b, len, p, loc) = Row(b, len, p, q) + Row(b, len, q, loc)
    BY <1>0, <2>2, <2>9, SameDrawing
  <2> QED BY <2>8, <2>10
<1> QED BY <1>1, <1>3, <1>6, <1>7, <1>8, <1>9

\* With fewer newlines before it than the page has rows, a place is on the page.
LEMMA OnPage ==
  ASSUME NEW b, NEW len \in Nat, NEW p \in LineStarts(b, len), OneRowLines(b, len),
         NEW c \in p .. len - 1, Newlines(b, p, c) < ROW_LEN
  PROVE  c < PageEnd(b, len, p)
<1>0. p \in 0 .. len /\ p \in Nat /\ c \in Nat
  BY DEF LineStarts
<1>1. PICK e : e = PageEnd(b, len, p)
  OBVIOUS
<1>2. e \in Nat /\ p <= e /\ e <= len /\ (e = len \/ Row(b, len, p, e) >= ROW_LEN)
  BY <1>0, <1>1, PageEndFacts
<1>3. ASSUME e <= c PROVE FALSE
  <2>1. e \in p .. len /\ e # len
    BY <1>0, <1>2, <1>3
  <2>2. Row(b, len, p, e) = Newlines(b, p, e)
    BY <2>1, RowsAreNewlines
  <2>3. Newlines(b, p, e) <= Newlines(b, p, c)
    BY <1>0, <1>2, <1>3, FewerNewlines
  <2>4. Newlines(b, p, e) \in Nat /\ Newlines(b, p, c) \in Nat /\ ROW_LEN \in Nat
    BY <1>0, <1>2, NewlinesFinite, SizeAssumption
  <2> QED BY <1>2, <2>1, <2>2, <2>3, <2>4
<1> QED BY <1>0, <1>1, <1>2, <1>3

----------------------------------------------------------------------------
(* The page follows the cursor *)

\* The page from p on shows the line of c when every line takes one row.
OnScreen(b, len, p, c) ==
  /\ p \in LineStarts(b, len)
  /\ c \in p .. len - 1
  /\ Newlines(b, p, c) < ROW_LEN

\* e is the page_end that the cursor is compared with.
LEMMA ScrollDown ==
  ASSUME NEW b, NEW len \in Nat, NEW p \in LineStarts(b, len), NEW c \in p .. len - 1, NEW e \in Nat,
         Newlines(b, p, c) <= ROW_LEN,
         c >= e => LineEnd(b, len, p) < c,
         c < e => c < PageEnd(b, len, p) \/ Newlines(b, p, c) < ROW_LEN
  PROVE  OnScreen(b, len, IF c >= e THEN PageDown(b, len, p) ELSE p, c)
<1>0. /\ p \in 0 .. len /\ p \in Nat /\ c \in Nat /\ c \in p .. len /\ ROW_LEN \in Nat
      /\ Newlines(b, p, c) \in Nat
  BY SizeAssumption, NewlinesFinite DEF LineStarts
<1>1. CASE c >= e
  <2>1. PICK n : n = LineEnd(b, len, p)
    OBVIOUS
  <2>2. n \in Nat /\ p <= n /\ n < c /\ n # len /\ b[n] = NL
    <3>1. n < c
      BY <1>1, <2>1
    <3>2. n \in Nat /\ p <= n /\ (n = len \/ b[n] = NL)
      BY <1>0, <2>1, LineEndFacts
    <3> QED BY <1>0, <3>1, <3>2
  <2>3. n + 1 \in LineStarts(b, len) /\ n + 1 < len /\ c \in n + 1 .. len - 1 /\ n \in p .. c - 1
    BY <1>0, <2>2 DEF LineStarts
  <2>4. PageDown(b, len, p) = n + 1
    BY <2>1, <2>3 DEF PageDown
  <2>5. Newlines(b, n + 1, c) + 1 <= Newlines(b, p, c) /\ Newlines(b, n + 1, c) \in Nat
    BY <1>0, <2>2, <2>3, OneFewer, NewlinesFinite
  <2> QED BY <1>0, <1>1, <2>3, <2>4, <2>5 DEF OnScreen
<1>2. CASE c < e
  <2>1. CASE c < PageEnd(b, len, p)
    <3>1. Row(b, len, p, c) < ROW_LEN
      BY <1>0, <2>1, PageEndFacts
    <3>2. Newlines(b, p, c) <= Row(b, len, p, c)
      BY <1>0, NewlinesTakeRows
    <3>3. Row(b, len, p, c) \in Nat
      BY <1>0, RowFacts
    <3> QED BY <1>0, <1>2, <3>1, <3>2, <3>3 DEF OnScreen
  <2>2. CASE Newlines(b, p, c) < ROW_LEN
    BY <1>0, <1>2, <2>2 DEF OnScreen
  <2> QED BY <1>2, <2>1, <2>2
<1> QED BY <1>0, <1>1, <1>2

\* c comes above the page, but not above the line before it.
LEMMA ScrollUp ==
  ASSUME NEW b, NEW len \in Nat, NEW p \in 1 .. len, NEW c \in 0 .. p - 1,
         \A q \in 0 .. len - 1 : b[q] # CR,
         LineAbove(b, p, {NL, CR}) <= c
  PROVE  OnScreen(b, len, PageUp(b, p), c)
<1>1. PICK a : a = LineAbove(b, p, {NL, CR})
  OBVIOUS
<1>2. p \in Nat /\ c \in Nat /\ ROW_LEN \in Nat /\ ROW_LEN > 0
  BY SizeAssumption
<1>3. /\ a \in Nat /\ a < p
      /\ a = 0 \/ b[a - 1] \in {NL, CR}
      /\ \A q \in 1 .. p - 1 : b[q - 1] \in {NL, CR} => q <= a
  BY <1>1, <1>2, LineAboveFacts
<1>4. PageUp(b, p) = a
  BY <1>1, <1>3 DEF PageUp
<1>5. a \in LineStarts(b, len)
  BY <1>2, <1>3 DEF LineStarts
<1>6. ASSUME NEW q \in a .. c - 1 PROVE b[q] # NL
  <2>1. q + 1 \in 1 .. p - 1 /\ (q + 1) - 1 = q /\ ~(q + 1 <= a)
    BY <1>2, <1>3
  <2> QED BY <1>3, <2>1
<1>7. Newlines(b, a, c) = 0
  BY <1>2, <1>3, <1>6, NoNewlines
<1>8. c \in a .. len - 1
  BY <1>1, <1>2, <1>3
<1> QED BY <1>2, <1>4, <1>5, <1>7, <1>8 DEF OnScreen

LEMMA DeleteFacts ==
  ASSUME size \in Nat, buffer \in [0 .. size - 1 -> Chars], buffer[size - 1] = NL,
         NEW site \in 0 .. size - 2, delete_key(site)
  PROVE  /\ size' = size - 1 /\ size' \in Nat /\ size' > 0
         /\ buffer' \in [0 .. size' - 1 -> Chars]
         /\ buffer'[size' - 1] = NL
         /\ \A q \in 0 .. site - 1 : buffer'[q] = buffer[q]
         /\ \A q \in site .. size' - 1 : buffer'[q] = buffer[q + 1]
<1>1. size' = size - 1 /\ size' \in Nat /\ size' > 0 /\ size - 2 = size' - 1
  BY DEF delete_key
<1>2. buffer' = [i \in 0 .. size' - 1 |-> IF i >= site THEN buffer[i + 1] ELSE buffer[i]]
  BY <1>1 DEF delete_key
<1>3. \A i \in 0 .. size' - 1 : i \in 0 .. size - 1 /\ i + 1 \in 0 .. size - 1
  BY <1>1
<1>4. buffer' \in [0 .. size' - 1 -> Chars]
  BY <1>2, <1>3
<1>5. /\ \A q \in 0 .. site - 1 : q \in 0 .. size' - 1 /\ ~(q >= site)
      /\ \A q \in site .. size' - 1 : q \in 0 .. size' - 1 /\ q >= site
      /\ size' - 1 \in site .. size' - 1 /\ (size' - 1) + 1 = size - 1
  BY <1>1
<1>6. /\ \A q \in 0 .. site - 1 : buffer'[q] = buffer[q]
      /\ \A q \in site .. size' - 1 : buffer'[q] = buffer[q + 1]
  BY <1>2, <1>5
<1> QED BY <1>1, <1>4, <1>5, <1>6

LEMMA InsertFacts ==
  ASSUME size \in Nat, size < BUFFER_SIZE, buffer \in [0 .. size - 1 -> Chars], buffer[size - 1] = NL,
         NEW site \in 0 .. size - 1, NEW k \in Chars, insert_key(k, site)
  PROVE  /\ size' = size + 1 /\ size' \in Nat /\ size' > 0 /\ size' <= BUFFER_SIZE /\ err' = err
         /\ buffer' \in [0 .. size' - 1 -> Chars]
         /\ buffer'[size' - 1] = NL
         /\ buffer'[site] = k
         /\ \A q \in 0 .. site - 1 : buffer'[q] = buffer[q]
         /\ \A q \in site + 1 .. size' - 1 : buffer'[q] = buffer[q - 1]
<1>0. BUFFER_SIZE \in Nat /\ ~(size >= BUFFER_SIZE)
  BY SizeAssumption
<1>1. size' = size + 1 /\ size' \in Nat /\ size' > 0 /\ size' <= BUFFER_SIZE /\ size' - 1 = size /\ err' = err
  BY <1>0 DEF insert_key
<1>2. buffer' = [i \in 0 .. size |->
                   IF i > site THEN buffer[i - 1] ELSE IF i = site THEN k ELSE buffer[i]]
  BY <1>0 DEF insert_key
<1>3. \A i \in 0 .. size : /\ i > site => i - 1 \in 0 .. size - 1
                           /\ i < site => i \in 0 .. size - 1
                           /\ ~(i > site) /\ i # site => i < site
  OBVIOUS
<1>4. buffer' \in [0 .. size -> Chars]
  BY <1>2, <1>3
<1>5. /\ \A q \in 0 .. site - 1 : q \in 0 .. size /\ ~(q > site) /\ q # site
      /\ \A q \in site + 1 .. size : q \in 0 .. size /\ q > site
      /\ size \in site + 1 .. size /\ site \in 0 .. size /\ ~(site > site)
  OBVIOUS
<1>6. /\ \A q \in 0 .. site - 1 : buffer'[q] = buffer[q]
      /\ \A q \in site + 1 .. size : buffer'[q] = buffer[q - 1]
      /\ buffer'[site] = k
  BY <1>2, <1>5
<1>7. buffer'[size] = NL
  BY <1>5, <1>6
<1> QED BY <1>1, <1>4, <1>6, <1>7

----------------------------------------------------------------------------
(* The inductive invariant *)

\* What holds whatever the typist does, until an index leaves its array.
LineChars == {":", "w", "q", "!"}

SeqTypes == instruction \in Seq(LineChars) /\ disk \in Seq(Chars \cup {CR})

TextInv == InArrays /\ SeqTypes

\* What the careful typist keeps besides.
InSession ==
  /\ OnScreen(buffer, size, page_location, cursor_location)
  /\ page_end = PageEnd(buffer, size, page_location)
  /\ LinesFit(buffer, size)

Screen == err = 0 => InSession

SessionInv == TextInv /\ Screen

LEMMA TextFacts ==
  ASSUME TextInv
  PROVE  /\ size \in Nat /\ size > 0 /\ BUFFER_SIZE \in Nat /\ size <= BUFFER_SIZE
         /\ buffer \in [0 .. size - 1 -> Chars]
         /\ \A q \in 0 .. size - 1 : buffer[q] # CR
         /\ page_location \in 0 .. size - 1 /\ page_end \in Nat
         /\ cursor_location \in 0 .. size /\ cursor_location \in Nat
         /\ err = 0 => cursor_location \in 0 .. size - 1 /\ buffer[size - 1] = NL
BY SizeAssumption, FilesAssumption DEF TextInv, SeqTypes, InArrays, SessionTypeOK

LEMMA SessionText ==
  ASSUME SessionInv
  PROVE  /\ size \in Nat /\ size > 0 /\ BUFFER_SIZE \in Nat /\ size <= BUFFER_SIZE
         /\ buffer \in [0 .. size - 1 -> Chars]
         /\ \A q \in 0 .. size - 1 : buffer[q] # CR
         /\ page_location \in 0 .. size - 1 /\ page_end \in Nat
BY TextFacts DEF SessionInv

LEMMA SessionFacts ==
  ASSUME SessionInv, err = 0
  PROVE  /\ cursor_location \in page_location .. size - 1 /\ cursor_location \in Nat
         /\ buffer[size - 1] = NL
         /\ page_location \in LineStarts(buffer, size)
         /\ Newlines(buffer, page_location, cursor_location) < ROW_LEN
         /\ page_end = PageEnd(buffer, size, page_location)
         /\ LinesFit(buffer, size)
         /\ LineEnd(buffer, size, page_location) < page_end
BY TextFacts DEF SessionInv, Screen, InSession, OnScreen, LinesFit

\* A key leaves the page in order when it shows the cursor.
LEMMA KeepsSession ==
  ASSUME LinesFit(buffer', size'),
         OnScreen(buffer', size', page_location', cursor_location'),
         page_end' = PageEnd(buffer', size', page_location')
  PROVE  Screen'
BY DEF Screen, InSession

\* The command-mode keys that only move the cursor: down by a line at most, up by a
\* line at most.
LEMMA GotoSession ==
  ASSUME SessionInv, err = 0, Careful, NEW c \in 0 .. size - 1, Goto(c),
         c >= page_location => Newlines(buffer, page_location, c) <= ROW_LEN,
         c < page_location => LineAbove(buffer, page_location, {NL, CR}) <= c
  PROVE  Screen'
<1>1. /\ size' = size /\ buffer' = buffer /\ mode' = 0 /\ err' = err /\ disk' = disk
      /\ cursor_location' = c
  BY DEF Goto, text
<1>2. /\ size \in Nat /\ size > 0 /\ page_location \in 0 .. size - 1 /\ page_end \in Nat
      /\ page_location \in LineStarts(buffer, size) /\ page_end = PageEnd(buffer, size, page_location)
      /\ LineEnd(buffer, size, page_location) < page_end
      /\ LineEnd(buffer, size, page_location) \in Nat
      /\ \A q \in 0 .. size - 1 : buffer[q] # CR
  <2>1. page_location \in 0 .. size
    BY SessionText
  <2> QED BY <2>1, SessionText, SessionFacts, LineEndFacts
<1>3. /\ page_location' = (CASE c < page_location -> PageUp(buffer, page_location)
           [] c >= page_location /\ c >= page_end -> PageDown(buffer, size, page_location)
           [] OTHER -> page_location)
      /\ page_end' = PageEnd(buffer', size', page_location')
  BY <1>1 DEF Goto, Follow, Flush
<1>4. OnScreen(buffer, size, page_location', c)
  <2>1. CASE c < page_location
    <3>1. page_location' = PageUp(buffer, page_location)
      <4>1. ~(c >= page_location)
        BY <1>2, <2>1
      <4> QED BY <1>3, <2>1, <4>1
    <3>2. page_location \in 1 .. size /\ c \in 0 .. page_location - 1
      BY <1>2, <2>1
    <3> QED BY <1>2, <2>1, <3>1, <3>2, ScrollUp
  <2>2. CASE c >= page_location
    <3>1. page_location' = IF c >= page_end THEN PageDown(buffer, size, page_location)
                           ELSE page_location
      BY <1>2, <1>3, <2>2
    <3>2. c \in page_location .. size - 1
      BY <1>2, <2>2
    <3>3. c >= page_end => LineEnd(buffer, size, page_location) < c
      BY <1>2
    <3>4. c < page_end => c < PageEnd(buffer, size, page_location)
      BY <1>2
    <3> QED BY <1>2, <2>2, <3>1, <3>2, <3>3, <3>4, ScrollDown
  <2> QED BY <1>2, <2>1, <2>2
<1>5. LinesFit(buffer', size')
  BY DEF Careful
<1> QED BY <1>1, <1>3, <1>4, <1>5, KeepsSession

\* Without carriage returns in the text, the page and the cursor go up alike.
LEMMA LinesAbove ==
  ASSUME NEW b, NEW len \in Nat, \A q \in 0 .. len - 1 : b[q] # CR, NEW loc \in 0 .. len
  PROVE  LineAbove(b, loc, {NL, CR}) = LineAbove(b, loc, {NL})
<1>1. \A p \in {-1} \cup 0 .. loc - 1 : p <= 0 \/ p - 1 \in 0 .. len - 1
  OBVIOUS
<1>2. {p \in {-1} \cup 0 .. loc - 1 : p <= 0 \/ b[p - 1] \in {NL, CR}}
        = {p \in {-1} \cup 0 .. loc - 1 : p <= 0 \/ b[p - 1] \in {NL}}
  BY <1>1
<1> QED BY <1>2 DEF LineAbove

LEMMA NextLineSession == SessionInv /\ err = 0 /\ Careful /\ NextLine => Screen'
<1> SUFFICES ASSUME SessionInv, err = 0, Careful, NextLine PROVE Screen'
  OBVIOUS
<1>1. PICK p, c : p = page_location /\ c = cursor_location
  OBVIOUS
<1>2. /\ size \in Nat /\ p \in Nat /\ c \in p .. size - 1 /\ c \in Nat /\ c \in 0 .. size
      /\ Newlines(buffer, p, c) < ROW_LEN /\ Newlines(buffer, p, c) \in Nat /\ ROW_LEN \in Nat
  <2>1. /\ size \in Nat /\ p \in Nat /\ c \in p .. size - 1 /\ Newlines(buffer, p, c) < ROW_LEN
    BY <1>1, SessionText, SessionFacts
  <2> QED BY <2>1, NewlinesFinite, SizeAssumption
<1>3. PICK e : e = LineEnd(buffer, size, c)
  OBVIOUS
<1>4. e \in Nat /\ c <= e /\ e <= size /\ \A q \in c .. e - 1 : buffer[q] # NL
  BY <1>2, <1>3, LineEndFacts
<1>5. PICK to : to = cursor_next_line
  OBVIOUS
<1>6. to = IF e + 1 < size THEN e + 1 ELSE c
  BY <1>1, <1>3, <1>5 DEF cursor_next_line
<1>7. to \in 0 .. size - 1 /\ to \in Nat /\ to >= p
  BY <1>2, <1>4, <1>6
<1>8. Newlines(buffer, p, to) <= ROW_LEN
  <2>1. Newlines(buffer, p, e) = Newlines(buffer, p, c)
    <3>1. NewlinesIn(buffer, p, e) = NewlinesIn(buffer, p, c)
      <4>1. ASSUME NEW q \in p .. e - 1 PROVE q \in p .. c - 1 \/ q \in c .. e - 1
        BY <1>2, <1>4
      <4>2. \A q \in p .. c - 1 : q \in p .. e - 1
        BY <1>2, <1>4
      <4> QED BY <1>4, <4>1, <4>2 DEF NewlinesIn
    <3> QED BY <3>1 DEF Newlines
  <2>2. Newlines(buffer, p, e + 1) \in {Newlines(buffer, p, e), Newlines(buffer, p, e) + 1}
    <3>1. p <= e
      BY <1>2, <1>4
    <3> QED BY <1>2, <1>4, <3>1, OneMore
  <2> QED BY <1>2, <1>6, <2>1, <2>2
<1>9. ~(to < p)
  BY <1>2, <1>7
<1>10. Goto(to)
  BY <1>5 DEF NextLine
<1> QED BY <1>1, <1>7, <1>8, <1>9, <1>10, GotoSession

LEMMA PrevLineSession == SessionInv /\ err = 0 /\ Careful /\ PrevLine => Screen'
<1> SUFFICES ASSUME SessionInv, err = 0, Careful, PrevLine PROVE Screen'
  OBVIOUS
<1>1. PICK p, c : p = page_location /\ c = cursor_location
  OBVIOUS
<1>2. /\ size \in Nat /\ p \in 0 .. size - 1 /\ p \in Nat /\ c \in p .. size - 1 /\ c \in Nat
      /\ p = 0 \/ buffer[p - 1] = NL
      /\ \A q \in 0 .. size - 1 : buffer[q] # CR
      /\ Newlines(buffer, p, c) < ROW_LEN /\ Newlines(buffer, p, c) \in Nat /\ ROW_LEN \in Nat
  <2>1. /\ size \in Nat /\ p \in 0 .. size - 1 /\ c \in p .. size - 1
        /\ Newlines(buffer, p, c) < ROW_LEN
        /\ \A q \in 0 .. size - 1 : buffer[q] # CR
        /\ p = 0 \/ buffer[p - 1] = NL
    BY <1>1, SessionText, SessionFacts DEF LineStarts
  <2>2. p \in Nat /\ c \in Nat
    BY <2>1
  <2> QED BY <2>1, <2>2, NewlinesFinite, SizeAssumption
<1>3. PICK a : a = LineAbove(buffer, c, {NL})
  OBVIOUS
<1>4. PICK to : to = cursor_prev_line
  OBVIOUS
<1>5. to = IF a <= 0 THEN c ELSE a
  BY <1>1, <1>3, <1>4 DEF cursor_prev_line
<1>6. c = 0 => a = -1
  BY <1>2, <1>3, LineAboveFacts
<1>7. c > 0 => a \in Nat /\ a < c /\ \A q \in 1 .. c - 1 : buffer[q - 1] = NL => q <= a
  BY <1>2, <1>3, LineAboveFacts
<1>8. to \in 0 .. size - 1 /\ to \in Nat /\ to <= c
  <2>1. CASE c = 0
    BY <1>2, <1>5, <1>6, <2>1
  <2>2. CASE c > 0
    <3>1. a \in Nat /\ a < c
      BY <1>7, <2>2
    <3>2. c \in 0 .. size - 1 /\ a \in 0 .. size - 1
      BY <1>2, <3>1
    <3> QED BY <1>2, <1>5, <3>1, <3>2
  <2> QED BY <1>2, <2>1, <2>2
<1>9. Newlines(buffer, p, to) <= ROW_LEN
  BY <1>2, <1>8, FewerNewlines, NewlinesFinite
<1>10. to < p => LineAbove(buffer, p, {NL, CR}) <= to
  <2> SUFFICES ASSUME to < p PROVE LineAbove(buffer, p, {NL, CR}) <= to
    OBVIOUS
  <2>1. to = a /\ a < p /\ c > 0 /\ p > 0
    BY <1>2, <1>5, <1>6, <1>8
  <2>2. c = p
    <3>1. SUFFICES ASSUME c # p PROVE FALSE
      OBVIOUS
    <3>2. p \in 1 .. c - 1 /\ buffer[p - 1] = NL
      BY <1>2, <2>1, <3>1
    <3> QED BY <1>2, <1>7, <2>1, <3>2
  <2>3. LineAbove(buffer, p, {NL, CR}) = a
    <3>1. p \in 0 .. size
      BY <1>2
    <3> QED BY <1>2, <1>3, <2>2, <3>1, LinesAbove
  <2> QED BY <1>8, <2>1, <2>3
<1>11. Goto(to)
  BY <1>4 DEF PrevLine
<1> QED BY <1>1, <1>8, <1>9, <1>10, <1>11, GotoSession

LEMMA LeftSession == SessionInv /\ err = 0 /\ Careful /\ Left => Screen'
<1> SUFFICES ASSUME SessionInv, err = 0, Careful, Left PROVE Screen'
  OBVIOUS
<1>1. PICK p, c : p = page_location /\ c = cursor_location
  OBVIOUS
<1>2. /\ size \in Nat /\ p \in 0 .. size - 1 /\ p \in Nat /\ c \in p .. size - 1 /\ c \in Nat
      /\ p = 0 \/ buffer[p - 1] = NL
      /\ Newlines(buffer, p, c) < ROW_LEN /\ Newlines(buffer, p, c) \in Nat /\ ROW_LEN \in Nat
  <2>1. /\ size \in Nat /\ p \in 0 .. size - 1 /\ c \in p .. size - 1
        /\ Newlines(buffer, p, c) < ROW_LEN
        /\ p = 0 \/ buffer[p - 1] = NL
    BY <1>1, SessionText, SessionFacts DEF LineStarts
  <2>2. p \in Nat /\ c \in Nat
    BY <2>1
  <2> QED BY <2>1, <2>2, NewlinesFinite, SizeAssumption
<1>3. PICK to : to = IF c > 0 /\ buffer[c - 1] /= NL THEN c - 1 ELSE c
  OBVIOUS
<1>4. to \in 0 .. size - 1 /\ to \in Nat /\ to <= c
  BY <1>2, <1>3
<1>5. ~(to < p)
  <2>1. CASE c > 0 /\ buffer[c - 1] /= NL
    <3>1. c # p
      BY <1>2, <2>1
    <3> QED BY <1>2, <1>3, <2>1, <3>1
  <2>2. CASE ~(c > 0 /\ buffer[c - 1] /= NL)
    BY <1>2, <1>3, <2>2
  <2> QED BY <2>1, <2>2
<1>6. Newlines(buffer, p, to) <= ROW_LEN
  BY <1>2, <1>4, FewerNewlines, NewlinesFinite
<1>7. Goto(to)
  BY <1>1, <1>3 DEF Left
<1> QED BY <1>1, <1>4, <1>5, <1>6, <1>7, GotoSession

LEMMA RightSession == SessionInv /\ err = 0 /\ Careful /\ Right => Screen'
<1> SUFFICES ASSUME SessionInv, err = 0, Careful, Right PROVE Screen'
  OBVIOUS
<1>1. PICK p, c : p = page_location /\ c = cursor_location
  OBVIOUS
<1>2. /\ size \in Nat /\ p \in Nat /\ c \in p .. size - 1 /\ c \in Nat /\ p <= c
      /\ Newlines(buffer, p, c) < ROW_LEN /\ Newlines(buffer, p, c) \in Nat /\ ROW_LEN \in Nat
  <2>1. /\ size \in Nat /\ p \in Nat /\ c \in p .. size - 1 /\ Newlines(buffer, p, c) < ROW_LEN
    BY <1>1, SessionText, SessionFacts
  <2> QED BY <2>1, NewlinesFinite, SizeAssumption
<1>3. PICK to : to = IF c + 1 < size /\ buffer[c] /= NL THEN c + 1 ELSE c
  OBVIOUS
<1>4. to \in 0 .. size - 1 /\ ~(to < p)
  BY <1>2, <1>3
<1>5. Newlines(buffer, p, to) <= ROW_LEN
  <2>1. Newlines(buffer, p, c + 1) \in {Newlines(buffer, p, c), Newlines(buffer, p, c) + 1}
    BY <1>2, OneMore
  <2> QED BY <1>2, <1>3, <2>1
<1>6. Goto(to)
  BY <1>1, <1>3 DEF Right
<1> QED BY <1>1, <1>4, <1>5, <1>6, GotoSession

\* A key that changes neither the text nor the cursor finds them on the page.
LEMMA SameSession ==
  ASSUME SessionInv, err = 0, UNCHANGED text, cursor_location' = cursor_location,
         page_location' = page_location, page_end' = PageEnd(buffer', size', page_location')
  PROVE  Screen'
<1>1. size' = size /\ buffer' = buffer
  BY DEF text
<1>2. OnScreen(buffer', size', page_location', cursor_location')
  BY <1>1 DEF SessionInv, Screen, InSession
<1>3. LinesFit(buffer', size')
  BY <1>1 DEF SessionInv, Screen, InSession
<1> QED BY <1>2, <1>3, KeepsSession

\* The comparison after a command whose cursor stays leaves the page where it is, or
\* moves it a line down.
LEMMA FollowSession ==
  ASSUME SessionInv, err = 0, UNCHANGED text, cursor_location' = cursor_location, Follow
  PROVE  Screen'
<1>1. size' = size /\ buffer' = buffer
  BY DEF text
<1>2. PICK p, c : p = page_location /\ c = cursor_location
  OBVIOUS
<1>3. /\ size \in Nat /\ p \in LineStarts(buffer, size) /\ c \in p .. size - 1 /\ p \in Nat
      /\ c \in Nat /\ page_end \in Nat /\ page_end = PageEnd(buffer, size, p)
      /\ LineEnd(buffer, size, p) < page_end /\ LineEnd(buffer, size, p) \in Nat
      /\ Newlines(buffer, p, c) < ROW_LEN
  <2>1. p \in 0 .. size
    BY <1>2, SessionText
  <2> QED BY <1>2, <2>1, SessionText, SessionFacts, LineEndFacts
<1>4. /\ page_location' = IF c >= page_end THEN PageDown(buffer, size, p) ELSE p
      /\ page_end' = PageEnd(buffer', size', page_location')
  <2>1. ~(c < p) /\ c >= p
    BY <1>3
  <2> QED BY <1>1, <1>2, <2>1 DEF Follow, Flush
<1>5. OnScreen(buffer, size, IF c >= page_end THEN PageDown(buffer, size, p) ELSE p, c)
  <2>1. /\ c >= page_end => LineEnd(buffer, size, p) < c
        /\ c < page_end => Newlines(buffer, p, c) < ROW_LEN
        /\ Newlines(buffer, p, c) <= ROW_LEN
    BY <1>3, NewlinesFinite, SizeAssumption
  <2> QED BY <1>3, <2>1, ScrollDown
<1>6. LinesFit(buffer', size')
  BY <1>1 DEF SessionInv, Screen, InSession
<1> QED BY <1>1, <1>2, <1>4, <1>5, <1>6, KeepsSession

LEMMA ColonSession == SessionInv /\ err = 0 /\ Colon => Screen'
BY FollowSession DEF Colon

LEMMA DeleteHereSession == SessionInv /\ err = 0 /\ Careful /\ DeleteHere => Screen'
<1> SUFFICES ASSUME SessionInv, err = 0, Careful, DeleteHere PROVE Screen'
  OBVIOUS
<1>1. CASE cursor_location = size - 1
  <2>1. UNCHANGED text /\ cursor_location' = cursor_location /\ Follow
    BY <1>1 DEF DeleteHere
  <2> QED BY <2>1, FollowSession
<1>2. CASE cursor_location # size - 1
  <2>1. PICK p, c : p = page_location /\ c = cursor_location
    OBVIOUS
  <2>2. PICK e : e = LineEnd(buffer, size, p)
    OBVIOUS
  <2>3. /\ size \in Nat /\ p \in LineStarts(buffer, size) /\ c \in p .. size - 1 /\ c \in Nat
        /\ p \in 0 .. size - 1 /\ p \in Nat /\ (p = 0 \/ buffer[p - 1] = NL)
        /\ page_end \in Nat /\ page_end = PageEnd(buffer, size, p)
        /\ e < page_end /\ e \in Nat /\ p <= e /\ (e = size \/ buffer[e] = NL)
        /\ Newlines(buffer, p, c) < ROW_LEN /\ c # size - 1
    <3>1. p \in 0 .. size /\ p \in LineStarts(buffer, size)
      BY <2>1, SessionText, SessionFacts
    <3>2. e \in Nat /\ p <= e /\ (e = size \/ buffer[e] = NL)
      BY <2>2, <3>1, SessionText, LineEndFacts
    <3>3. p \in 0 .. size - 1 /\ p \in Nat /\ (p = 0 \/ buffer[p - 1] = NL)
      BY <3>1, SessionText DEF LineStarts
    <3> QED BY <1>2, <2>1, <2>2, <3>1, <3>2, <3>3, SessionText, SessionFacts
  <2>4. c \in 0 .. size - 2
    BY <2>3
  <2>5. delete_key(c)
    BY <1>2, <2>1 DEF DeleteHere
  <2>6. /\ size' = size - 1 /\ size' \in Nat /\ size' > 0
        /\ buffer' \in [0 .. size' - 1 -> Chars] /\ buffer'[size' - 1] = NL
        /\ \A q \in 0 .. c - 1 : buffer'[q] = buffer[q]
    BY <2>4, <2>5, SessionText, SessionFacts, DeleteFacts
  <2>7. p \in LineStarts(buffer', size') /\ c \in p .. size' - 1 /\ p \in 0 .. size'
    <3>1. p \in 0 .. size' - 1 /\ c \in p .. size' - 1 /\ p \in 0 .. size'
      BY <2>3, <2>4, <2>6
    <3>2. p # 0 => p - 1 \in 0 .. c - 1
      BY <2>3
    <3>3. p = 0 \/ buffer'[p - 1] = NL
      BY <2>3, <2>6, <3>2
    <3> QED BY <3>1, <3>3 DEF LineStarts
  <2>8. Newlines(buffer', p, c) = Newlines(buffer, p, c)
    <3>1. \A q \in p .. c - 1 : q \in 0 .. c - 1
      BY <2>3
    <3>2. Agree(buffer', buffer, p, c)
      BY <2>6, <3>1 DEF Agree
    <3> QED BY <3>2, SameNewlines
  <2>9. c >= page_end => LineEnd(buffer', size', p) < c
    <3> SUFFICES ASSUME c >= page_end PROVE LineEnd(buffer', size', p) < c
      OBVIOUS
    <3>1. e \in 0 .. c - 1 /\ e # size
      BY <2>3
    <3>2. buffer'[e] = NL
      BY <2>3, <2>6, <3>1
    <3>3. PICK f : f = LineEnd(buffer', size', p)
      OBVIOUS
    <3>4. f \in Nat /\ \A q \in p .. f - 1 : buffer'[q] # NL
      BY <2>6, <2>7, <3>3, LineEndFacts
    <3>5. e \notin p .. f - 1
      BY <3>2, <3>4
    <3> QED BY <2>3, <3>1, <3>3, <3>4, <3>5
  <2>10. /\ page_location' = IF c >= page_end THEN PageDown(buffer', size', p) ELSE p
         /\ page_end' = PageEnd(buffer', size', page_location')
         /\ cursor_location' = c
    <3>1. ~(c < p) /\ c >= p /\ cursor_location' = c
      BY <2>1, <2>3 DEF DeleteHere
    <3> QED BY <2>1, <3>1 DEF DeleteHere, Follow, Flush
  <2>11. OnScreen(buffer', size', IF c >= page_end THEN PageDown(buffer', size', p) ELSE p, c)
    <3>1. Newlines(buffer', p, c) < ROW_LEN /\ Newlines(buffer', p, c) <= ROW_LEN
      BY <2>3, <2>8, NewlinesFinite, SizeAssumption
    <3> QED BY <2>3, <2>6, <2>7, <2>9, <3>1, ScrollDown
  <2>12. LinesFit(buffer', size')
    BY DEF Careful
  <2> QED BY <2>10, <2>11, <2>12, KeepsSession
<1> QED BY <1>1, <1>2

LEMMA BackspaceSession == SessionInv /\ err = 0 /\ Careful /\ Backspace => Screen'
<1> SUFFICES ASSUME SessionInv, err = 0, Careful, Backspace PROVE Screen'
  OBVIOUS
<1>1. PICK p, c : p = page_location /\ c = cursor_location
  OBVIOUS
<1>2. /\ size \in Nat /\ p \in 0 .. size - 1 /\ p \in Nat /\ c \in p .. size - 1 /\ c \in Nat
      /\ p = 0 \/ buffer[p - 1] = NL
      /\ Newlines(buffer, p, c) < ROW_LEN /\ Newlines(buffer, p, c) \in Nat /\ ROW_LEN \in Nat
  <2>1. /\ size \in Nat /\ p \in 0 .. size - 1 /\ c \in p .. size - 1
        /\ Newlines(buffer, p, c) < ROW_LEN
        /\ p = 0 \/ buffer[p - 1] = NL
    BY <1>1, SessionText, SessionFacts DEF LineStarts
  <2>2. p \in Nat /\ c \in Nat
    BY <2>1
  <2> QED BY <2>1, <2>2, NewlinesFinite, SizeAssumption
<1>3. cursor_location' = c - 1 /\ c > 0
  BY <1>1, <1>2 DEF Backspace, Careful, Unbounded, RubsOutAtStart
<1>4. PICK d \in Nat : d = c - 1 /\ d \in 0 .. size - 2
  BY <1>2, <1>3
<1>5. delete_key(d)
  BY <1>1, <1>3, <1>4 DEF Backspace
<1>6. /\ size' = size - 1 /\ size' \in Nat /\ size' > 0
      /\ buffer' \in [0 .. size' - 1 -> Chars] /\ buffer'[size' - 1] = NL
      /\ \A q \in 0 .. d - 1 : buffer'[q] = buffer[q]
  BY <1>4, <1>5, SessionText, SessionFacts, DeleteFacts
<1>7. /\ page_location' = IF d < p THEN PageUp(buffer', p) ELSE p
      /\ page_end' = PageEnd(buffer', size', page_location')
      /\ cursor_location' = d
  BY <1>1, <1>3, <1>4 DEF Backspace, Flush
<1>8. ASSUME d < p PROVE OnScreen(buffer', size', page_location', cursor_location')
  <2>1. p \in 1 .. size' /\ d \in 0 .. p - 1 /\ d = p - 1
    BY <1>2, <1>4, <1>6, <1>8
  <2>2. \A q \in 0 .. size' - 1 : buffer'[q] # CR
    BY <1>6, FilesAssumption
  <2>3. LineAbove(buffer', p, {NL, CR}) <= d
    <3>1. LineAbove(buffer', p, {NL, CR}) \in Nat /\ LineAbove(buffer', p, {NL, CR}) < p
      <4>1. p > 0
        BY <1>2, <1>4, <1>8
      <4> QED BY <1>2, <4>1, LineAboveFacts
    <3> QED BY <1>2, <2>1, <3>1
  <2> QED BY <1>6, <1>7, <1>8, <2>1, <2>2, <2>3, ScrollUp
<1>9. ASSUME ~(d < p) PROVE OnScreen(buffer', size', page_location', cursor_location')
  <2>1. p \in LineStarts(buffer', size') /\ d \in p .. size' - 1
    <3>1. p \in 0 .. size' - 1 /\ d \in p .. size' - 1
      BY <1>2, <1>4, <1>6, <1>9
    <3>2. p # 0 => p - 1 \in 0 .. d - 1
      BY <1>2, <1>4, <1>9
    <3>3. p = 0 \/ buffer'[p - 1] = NL
      BY <1>2, <1>6, <3>2
    <3> QED BY <3>1, <3>3 DEF LineStarts
  <2>2. Newlines(buffer', p, d) = Newlines(buffer, p, d)
    <3>1. \A q \in p .. d - 1 : q \in 0 .. d - 1
      BY <1>2, <1>4
    <3>2. Agree(buffer', buffer, p, d)
      BY <1>6, <3>1 DEF Agree
    <3> QED BY <3>2, SameNewlines
  <2>3. Newlines(buffer, p, d) <= Newlines(buffer, p, c) /\ Newlines(buffer, p, d) \in Nat
    BY <1>2, <1>4, FewerNewlines, NewlinesFinite
  <2> QED BY <1>2, <1>7, <1>9, <2>1, <2>2, <2>3 DEF OnScreen
<1>10. OnScreen(buffer', size', page_location', cursor_location')
  BY <1>8, <1>9
<1>11. LinesFit(buffer', size')
  BY DEF Careful
<1> QED BY <1>7, <1>10, <1>11, KeepsSession

LEMMA InsertSession == ASSUME NEW k \in Chars PROVE SessionInv /\ err = 0 /\ Careful /\ Insert(k) => Screen'
<1> SUFFICES ASSUME SessionInv, err = 0, Careful, Insert(k) PROVE Screen'
  OBVIOUS
<1>1. PICK p, c : p = page_location /\ c = cursor_location
  OBVIOUS
<1>2. /\ size \in Nat /\ p \in 0 .. size - 1 /\ p \in Nat /\ c \in p .. size - 1 /\ c \in Nat
      /\ p = 0 \/ buffer[p - 1] = NL
      /\ Newlines(buffer, p, c) < ROW_LEN /\ Newlines(buffer, p, c) \in Nat /\ ROW_LEN \in Nat
      /\ BUFFER_SIZE \in Nat
  <2>1. /\ size \in Nat /\ p \in 0 .. size - 1 /\ c \in p .. size - 1
        /\ Newlines(buffer, p, c) < ROW_LEN
        /\ p = 0 \/ buffer[p - 1] = NL
    BY <1>1, SessionText, SessionFacts DEF LineStarts
  <2>2. p \in Nat /\ c \in Nat
    BY <2>1
  <2> QED BY <2>1, <2>2, NewlinesFinite, SizeAssumption
<1>3. insert_key(k, c)
  BY <1>1 DEF Insert
<1>4. PICK e : e = PageEnd(buffer', size', p)
  OBVIOUS
<1>5. /\ page_location' = IF c + 1 >= e THEN PageDown(buffer', size', p) ELSE p
      /\ page_end' = PageEnd(buffer', size', page_location')
      /\ cursor_location' = c + 1 /\ mode' = 1 /\ disk' = disk
  BY <1>1, <1>4 DEF Insert, Flush
<1>6. CASE size >= BUFFER_SIZE
  BY <1>3, <1>6 DEF insert_key, Screen
<1>7. CASE size < BUFFER_SIZE
  <2>0. c \in 0 .. size - 1
    BY <1>2
  <2>1. /\ size' = size + 1 /\ size' \in Nat /\ size' > 0 /\ size' <= BUFFER_SIZE /\ err' = err
        /\ buffer' \in [0 .. size' - 1 -> Chars] /\ buffer'[size' - 1] = NL
        /\ \A q \in 0 .. c - 1 : buffer'[q] = buffer[q]
    BY <1>3, <1>7, <2>0, SessionText, SessionFacts, InsertFacts
  <2>2. p \in LineStarts(buffer', size') /\ c + 1 \in p .. size' - 1 /\ p \in 0 .. size'
    <3>1. p \in 0 .. size' - 1 /\ c + 1 \in p .. size' - 1 /\ p \in 0 .. size'
      BY <1>2, <2>1
    <3>2. p # 0 => p - 1 \in 0 .. c - 1
      BY <1>2
    <3>3. p = 0 \/ buffer'[p - 1] = NL
      BY <1>2, <2>1, <3>2
    <3> QED BY <3>1, <3>3 DEF LineStarts
  <2>3. Newlines(buffer', p, c + 1) <= ROW_LEN
    <3>1. Newlines(buffer', p, c) = Newlines(buffer, p, c)
      <4>1. \A q \in p .. c - 1 : q \in 0 .. c - 1
        BY <1>2
      <4>2. Agree(buffer', buffer, p, c)
        BY <2>1, <4>1 DEF Agree
      <4> QED BY <4>2, SameNewlines
    <3>2. Newlines(buffer', p, c + 1) \in {Newlines(buffer', p, c), Newlines(buffer', p, c) + 1}
      <4>1. p <= c
        BY <1>2
      <4> QED BY <1>2, <4>1, OneMore
    <3> QED BY <1>2, <3>1, <3>2
  <2>4. LinesFit(buffer', size')
    BY DEF Careful
  <2>5. e \in Nat /\ LineEnd(buffer', size', p) < e /\ LineEnd(buffer', size', p) \in Nat
    BY <1>4, <2>1, <2>2, <2>4, PageEndFacts, LineEndFacts DEF LinesFit
  <2>6. OnScreen(buffer', size', IF c + 1 >= e THEN PageDown(buffer', size', p) ELSE p, c + 1)
    <3>1. PICK d \in Nat : d = c + 1
      BY <1>2
    <3>2. d >= e => LineEnd(buffer', size', p) < d
      BY <2>5, <3>1
    <3>3. d < e => d < PageEnd(buffer', size', p)
      BY <1>4
    <3>4. OnScreen(buffer', size', IF d >= e THEN PageDown(buffer', size', p) ELSE p, d)
      BY <2>1, <2>2, <2>3, <2>5, <3>1, <3>2, <3>3, ScrollDown
    <3> QED BY <3>1, <3>4
  <2> QED BY <1>5, <2>4, <2>6, KeepsSession
<1> QED BY <1>2, <1>6, <1>7

----------------------------------------------------------------------------
(* Opening a file *)

\* got is what the loop of load_file has after each of the first n characters of f,
\* and of what an unbounded text would have.
Reads(got, f, n) ==
  got = [i \in 0 .. n |->
           IF i = 0 THEN <<>>
           ELSE IF f[i] = CR \/ Len(got[i - 1]) = BUFFER_SIZE - 1 THEN got[i - 1]
           ELSE Append(got[i - 1], f[i])]

Keeps(of, f, n) ==
  of = [i \in 0 .. n |->
          IF i = 0 THEN <<>>
          ELSE IF f[i] \in {CR} THEN of[i - 1] ELSE Append(of[i - 1], f[i])]

LEMMA ReadingExists == ASSUME NEW f, NEW n \in Nat PROVE \E got : Reads(got, f, n)
<1>1. PICK Bad : Bad = {k \in Nat : ~\E got : Reads(got, f, k)}
  OBVIOUS
<1>2. SUFFICES ASSUME Bad # {} PROVE FALSE
  BY <1>1
<1>3. PICK k \in Bad : \A x \in Bad : k <= x
  BY <1>1, <1>2, Smallest
<1>4. k # 0
  <2>1. Reads([i \in 0 .. 0 |-> <<>>], f, 0)
    <3>1. \A i \in 0 .. 0 : i = 0
      OBVIOUS
    <3> QED BY <3>1 DEF Reads
  <2> QED BY <1>1, <2>1
<1>5. PICK j \in Nat : k = j + 1 /\ j < k /\ j \notin Bad
  <2>1. k - 1 \in Nat /\ k = (k - 1) + 1 /\ k - 1 < k /\ k \in Nat
    BY <1>1, <1>4
  <2> QED BY <1>3, <2>1
<1>6. PICK got : Reads(got, f, j)
  BY <1>1, <1>5
<1>7. PICK on : on = [i \in 0 .. k |->
                        IF i = k THEN IF f[k] = CR \/ Len(got[j]) = BUFFER_SIZE - 1 THEN got[j]
                                      ELSE Append(got[j], f[k])
                        ELSE got[i]]
  OBVIOUS
<1>8. on[j] = got[j]
  BY <1>5, <1>7
<1>9. ASSUME NEW i \in 0 .. k
      PROVE  on[i] = IF i = 0 THEN <<>>
                     ELSE IF f[i] = CR \/ Len(on[i - 1]) = BUFFER_SIZE - 1 THEN on[i - 1]
                     ELSE Append(on[i - 1], f[i])
  <2>1. CASE i = k
    <3>1. i - 1 = j /\ i # 0
      BY <1>5, <2>1
    <3> QED BY <1>7, <1>8, <2>1, <3>1
  <2>2. CASE i # k
    <3>1. i \in 0 .. j /\ (i # 0 => i - 1 \in 0 .. k /\ i - 1 # k)
      BY <1>5, <2>2
    <3>2. got[i] = IF i = 0 THEN <<>>
                   ELSE IF f[i] = CR \/ Len(got[i - 1]) = BUFFER_SIZE - 1 THEN got[i - 1]
                   ELSE Append(got[i - 1], f[i])
      BY <1>6, <3>1 DEF Reads
    <3> QED BY <1>7, <2>2, <3>1, <3>2
  <2> QED BY <2>1, <2>2
<1>10. Reads(on, f, k)
  BY <1>7, <1>9 DEF Reads
<1> QED BY <1>1, <1>3, <1>10

LEMMA KeepingExists == ASSUME NEW f, NEW n \in Nat PROVE \E of : Keeps(of, f, n)
<1>1. PICK Bad : Bad = {k \in Nat : ~\E of : Keeps(of, f, k)}
  OBVIOUS
<1>2. SUFFICES ASSUME Bad # {} PROVE FALSE
  BY <1>1
<1>3. PICK k \in Bad : \A x \in Bad : k <= x
  BY <1>1, <1>2, Smallest
<1>4. k # 0
  <2>1. Keeps([i \in 0 .. 0 |-> <<>>], f, 0)
    <3>1. \A i \in 0 .. 0 : i = 0
      OBVIOUS
    <3> QED BY <3>1 DEF Keeps
  <2> QED BY <1>1, <2>1
<1>5. PICK j \in Nat : k = j + 1 /\ j < k /\ j \notin Bad
  <2>1. k - 1 \in Nat /\ k = (k - 1) + 1 /\ k - 1 < k /\ k \in Nat
    BY <1>1, <1>4
  <2> QED BY <1>3, <2>1
<1>6. PICK of : Keeps(of, f, j)
  BY <1>1, <1>5
<1>7. PICK on : on = [i \in 0 .. k |->
                        IF i = k THEN IF f[k] \in {CR} THEN of[j] ELSE Append(of[j], f[k]) ELSE of[i]]
  OBVIOUS
<1>8. on[j] = of[j]
  BY <1>5, <1>7
<1>9. ASSUME NEW i \in 0 .. k
      PROVE  on[i] = IF i = 0 THEN <<>>
                     ELSE IF f[i] \in {CR} THEN on[i - 1] ELSE Append(on[i - 1], f[i])
  <2>1. CASE i = k
    <3>1. i - 1 = j /\ i # 0
      BY <1>5, <2>1
    <3> QED BY <1>7, <1>8, <2>1, <3>1
  <2>2. CASE i # k
    <3>1. i \in 0 .. j /\ (i # 0 => i - 1 \in 0 .. k /\ i - 1 # k)
      BY <1>5, <2>2
    <3>2. of[i] = IF i = 0 THEN <<>>
                  ELSE IF f[i] \in {CR} THEN of[i - 1] ELSE Append(of[i - 1], f[i])
      BY <1>6, <3>1 DEF Keeps
    <3> QED BY <1>7, <2>2, <3>1, <3>2
  <2> QED BY <2>1, <2>2
<1>10. Keeps(on, f, k)
  BY <1>7, <1>9 DEF Keeps
<1> QED BY <1>1, <1>3, <1>10

\* load_file gets the kept characters, as long as there is room.
LEMMA LoadedIsKept ==
  ASSUME NEW f \in Seq(Chars \cup {CR})
  PROVE  /\ Edited!Kept(f) \in Seq(Chars)
         /\ Loaded(f) = IF Len(Edited!Kept(f)) < BUFFER_SIZE - 1 THEN Edited!Kept(f)
                        ELSE SubSeq(Edited!Kept(f), 1, BUFFER_SIZE - 1)
<1>1. PICK n \in Nat : n = Len(f) /\ DOMAIN f = 1 .. n /\ \A i \in 1 .. n : f[i] \in Chars \cup {CR}
  BY LenProperties, ElementOfSeq
<1>2. PICK got : Reads(got, f, n)
  BY ReadingExists
<1>3. PICK of : Keeps(of, f, n)
  BY KeepingExists
<1>4. PICK g : Reads(g, f, n) /\ Loaded(f) = g[n]
  <2>1. Reads(CHOOSE g : Reads(g, f, n), f, n)
    BY <1>2
  <2>2. Loaded(f) = (CHOOSE g : Reads(g, f, n))[n]
    BY <1>1 DEF Loaded, Reads
  <2> QED BY <2>1, <2>2
<1>5. PICK h : Keeps(h, f, n) /\ Edited!Kept(f) = h[n]
  <2>1. Keeps(CHOOSE h : Keeps(h, f, n), f, n)
    BY <1>3
  <2>2. Edited!Kept(f) = (CHOOSE h : Keeps(h, f, n))[n]
    BY <1>1 DEF Edited!Kept, Keeps
  <2> QED BY <2>1, <2>2
<1>6. PICK room \in Nat : room = BUFFER_SIZE - 1 /\ room > 0
  BY SizeAssumption
<1>7. PICK Bad : Bad = {i \in 0 .. n :
                        ~ /\ h[i] \in Seq(Chars)
                          /\ g[i] = IF Len(h[i]) < room THEN h[i] ELSE SubSeq(h[i], 1, room)}
  OBVIOUS
<1>8. Bad = {}
  <2>1. SUFFICES ASSUME Bad # {} PROVE FALSE
    OBVIOUS
  <2>2. PICK k \in Bad : \A x \in Bad : k <= x
    <3>1. Bad \subseteq Nat
      BY <1>7
    <3> QED BY <2>1, <3>1, Smallest
  <2>3. k # 0
    <3>1. 0 \in 0 .. n /\ h[0] = <<>> /\ g[0] = <<>>
      BY <1>4, <1>5 DEF Reads, Keeps
    <3>2. <<>> \in Seq(Chars) /\ Len(<<>>) = 0
      OBVIOUS
    <3> QED BY <1>6, <1>7, <3>1, <3>2
  <2>4. PICK j \in 0 .. n : k = j + 1 /\ j < k /\ j = k - 1 /\ j \notin Bad
    <3>1. k - 1 \in 0 .. n /\ k = (k - 1) + 1 /\ k - 1 < k /\ k \in Nat
      BY <1>7, <2>3
    <3> QED BY <2>2, <3>1
  <2>5. PICK s, t, c : s = h[j] /\ t = g[j] /\ c = f[k]
    OBVIOUS
  <2>6. s \in Seq(Chars) /\ t = IF Len(s) < room THEN s ELSE SubSeq(s, 1, room)
    BY <1>7, <2>4, <2>5
  <2>7. k \in 0 .. n /\ k \in 1 .. n /\ c \in Chars \cup {CR}
    BY <1>1, <1>7, <2>3, <2>5
  <2>8. h[k] = IF c = CR THEN s ELSE Append(s, c)
    BY <1>5, <2>3, <2>4, <2>5, <2>7 DEF Keeps
  <2>9. g[k] = IF c = CR \/ Len(t) = room THEN t ELSE Append(t, c)
    BY <1>4, <1>6, <2>3, <2>4, <2>5, <2>7 DEF Reads
  <2>10. CASE c = CR
    BY <1>7, <2>2, <2>6, <2>8, <2>9, <2>10
  <2>11. CASE c # CR
    <3>1. PICK u : u = Append(s, c) /\ u = h[k] /\ c \in Chars
      BY <2>7, <2>8, <2>11
    <3>2. /\ u \in Seq(Chars) /\ Len(u) = Len(s) + 1 /\ Len(s) \in Nat
          /\ \A i \in 1 .. Len(s) : u[i] = s[i]
      <4>1. /\ Append(s, c) \in Seq(Chars) /\ Len(Append(s, c)) = Len(s) + 1
            /\ \A i \in 1 .. Len(s) : Append(s, c)[i] = s[i]
        <5>1. s \in Seq(Chars) /\ c \in Chars
          BY <2>6, <3>1
        <5> QED BY <5>1, AppendProperties
      <4> QED BY <2>6, <3>1, <4>1, LenProperties
    <3>3. CASE Len(s) < room
      <4>1. t = s /\ Len(t) # room
        BY <1>6, <2>6, <3>2, <3>3
      <4>2. g[k] = u
        BY <2>9, <2>11, <3>1, <4>1
      <4>3. ~(Len(u) < room) => SubSeq(u, 1, room) = u
        <5>1. ~(Len(u) < room) => room = Len(u)
          BY <1>6, <3>2, <3>3
        <5> QED BY <3>2, <5>1, SubSeqFull
      <4> QED BY <1>7, <2>2, <3>1, <3>2, <4>2, <4>3
    <3>4. CASE ~(Len(s) < room)
      <4>1. t = SubSeq(s, 1, room)
        BY <2>6, <3>4
      <4>2. Len(t) = room
        BY <1>6, <2>6, <3>2, <3>4, <4>1, SubSeqProperties
      <4>3. g[k] = t /\ ~(Len(u) < room)
        BY <1>6, <2>9, <3>2, <3>4, <4>2
      <4>4. SubSeq(u, 1, room) = SubSeq(s, 1, room)
        BY <1>6, <2>6, <3>2, <3>4
      <4> QED BY <1>7, <2>2, <3>1, <3>2, <4>1, <4>3, <4>4
    <3> QED BY <3>3, <3>4
  <2> QED BY <2>10, <2>11
<1> QED
  <2>1. n \in 0 .. n /\ n \notin Bad
    BY <1>8
  <2> QED BY <1>4, <1>5, <1>6, <1>7, <2>1

\* What is in the buffer after load_file.
LEMMA OpenedText ==
  ASSUME NEW f \in Files, NEW loaded, loaded = load_file(f)
  PROVE  /\ loaded.chars \in Seq(Chars)
         /\ Len(loaded.chars) \in 1 .. BUFFER_SIZE
         /\ loaded.err = IF Len(Edited!Kept(f)) < BUFFER_SIZE - 1 THEN 0 ELSE 2
         /\ loaded.err = 0 => loaded.chars[Len(loaded.chars)] = NL
         /\ loaded.chars = IF Len(Edited!Kept(f)) < BUFFER_SIZE - 1 THEN Edited!Ended(Edited!Kept(f))
                           ELSE SubSeq(Edited!Kept(f), 1, BUFFER_SIZE - 1)
<1>1. f \in Seq(Chars \cup {CR})
  BY FilesAssumption
<1>0. PICK k : k = Edited!Kept(f)
  OBVIOUS
<1>2. PICK room \in Nat : room = BUFFER_SIZE - 1 /\ room > 0 /\ room + 1 = BUFFER_SIZE
  BY SizeAssumption
<1>3. k \in Seq(Chars) /\ Loaded(f) = IF Len(k) < room THEN k ELSE SubSeq(k, 1, room)
  BY <1>0, <1>1, <1>2, LoadedIsKept
<1>4. Len(k) \in Nat /\ NL \in Chars
  BY <1>3, LenProperties DEF Chars
<1>5. CASE Len(k) < room
  <2>1. Loaded(f) = k /\ Len(k) # room
    BY <1>3, <1>4, <1>5
  <2>2. loaded.err = 0 /\ loaded.chars = IF k /= <<>> /\ Last(k) = NL THEN k ELSE Append(k, NL)
    BY <1>2, <2>1 DEF load_file
  <2>3. loaded.chars = Edited!Ended(k)
    BY <2>2 DEF Edited!Ended, Edited!Last, Last
  <2>4. CASE k /= <<>> /\ Last(k) = NL
    <3>1. loaded.chars = k
      BY <2>2, <2>4
    <3>2. Len(k) # 0
      BY <1>3, <2>4, EmptySeq, LenProperties
    <3>3. k[Len(k)] = NL
      BY <2>4 DEF Last
    <3>4. Len(k) \in 1 .. BUFFER_SIZE
      BY <1>2, <1>4, <1>5, <3>2
    <3> QED BY <1>0, <1>2, <1>3, <1>5, <2>2, <2>3, <3>1, <3>3, <3>4
  <2>5. CASE ~(k /= <<>> /\ Last(k) = NL)
    <3>1. loaded.chars = Append(k, NL)
      BY <2>2, <2>5
    <3>2. /\ Append(k, NL) \in Seq(Chars) /\ Len(Append(k, NL)) = Len(k) + 1
          /\ Append(k, NL)[Len(k) + 1] = NL
      BY <1>3, <1>4, AppendProperties
    <3>3. Len(k) + 1 \in 1 .. BUFFER_SIZE
      BY <1>2, <1>4, <1>5
    <3> QED BY <1>0, <1>2, <1>5, <2>2, <2>3, <3>1, <3>2, <3>3
  <2> QED BY <2>4, <2>5
<1>6. CASE ~(Len(k) < room)
  <2>1. Loaded(f) = SubSeq(k, 1, room)
    BY <1>3, <1>6
  <2>2. Len(SubSeq(k, 1, room)) = room /\ SubSeq(k, 1, room) \in Seq(Chars)
    <3>1. \A i \in 1 .. room : k[i] \in Chars
      BY <1>2, <1>3, <1>4, <1>6, ElementOfSeq
    <3> QED BY <1>2, <3>1, SubSeqProperties
  <2>3. loaded.err = 2 /\ loaded.chars = SubSeq(k, 1, room)
    BY <1>2, <2>1, <2>2 DEF load_file
  <2>4. room \in 1 .. BUFFER_SIZE
    BY <1>2
  <2> QED BY <1>0, <1>2, <1>6, <2>2, <2>3, <2>4
<1> QED BY <1>5, <1>6

LEMMA InitText == myvi_init => TextInv /\ page_end = PageEnd(buffer, size, page_location)
<1> SUFFICES ASSUME myvi_init PROVE TextInv /\ page_end = PageEnd(buffer, size, page_location)
  OBVIOUS
<1>1. PICK loaded : loaded = load_file(disk)
  OBVIOUS
<1>2. /\ disk \in Files
      /\ size = Len(loaded.chars) /\ buffer = [i \in 0 .. size - 1 |-> loaded.chars[i + 1]]
      /\ err = loaded.err
      /\ cursor_location = 0 /\ page_location = 0 /\ page_end = PageEnd(buffer, size, 0)
      /\ mode = 0
  BY <1>1 DEF myvi_init
<1>3. /\ loaded.chars \in Seq(Chars) /\ size \in 1 .. BUFFER_SIZE /\ err \in {0, 2}
      /\ err = 0 => loaded.chars[size] = NL
  BY <1>1, <1>2, OpenedText
<1>4. size \in Nat /\ size > 0 /\ BUFFER_SIZE \in Nat /\ ROW_LEN \in Nat /\ ROW_LEN > 0
  BY <1>3, SizeAssumption
<1>5. buffer \in [0 .. size - 1 -> Chars]
  <2>1. \A i \in 0 .. size - 1 : i + 1 \in 1 .. Len(loaded.chars)
    BY <1>2, <1>4
  <2>2. \A i \in 0 .. size - 1 : loaded.chars[i + 1] \in Chars
    BY <1>3, <2>1, ElementOfSeq
  <2> QED BY <1>2, <2>2
<1>6. err = 0 => buffer[size - 1] = NL
  <2>1. size - 1 \in 0 .. size - 1 /\ (size - 1) + 1 = size
    BY <1>4
  <2> QED BY <1>2, <1>3, <2>1
<1>7. page_end \in 0 .. size
  <2>1. 0 \in 0 .. size
    BY <1>4
  <2>2. PageEnd(buffer, size, 0) \in Nat /\ PageEnd(buffer, size, 0) <= size
    BY <1>4, <2>1, PageEndFacts
  <2> QED BY <1>2, <1>4, <2>2
<1>8. instruction \in Seq(LineChars) /\ Len(instruction) <= COLUMN_LEN
  BY SizeAssumption DEF myvi_init
<1>9. disk \in Seq(Chars \cup {CR})
  BY <1>2, FilesAssumption
<1>10. page_location \in 0 .. size - 1 /\ cursor_location \in 0 .. size /\ cursor_location < size
  BY <1>2, <1>4
<1> QED BY <1>2, <1>3, <1>5, <1>6, <1>7, <1>8, <1>9, <1>10 DEF TextInv, SeqTypes, InArrays, SessionTypeOK

LEMMA InitSession == myvi_init /\ (err = 0 => LinesFit(buffer, size)) => SessionInv
<1> SUFFICES ASSUME myvi_init, err = 0 => LinesFit(buffer, size) PROVE SessionInv
  OBVIOUS
<1>1. TextInv /\ page_end = PageEnd(buffer, size, page_location)
  BY InitText
<1>2. page_location = 0 /\ cursor_location = 0
  BY DEF myvi_init
<1>3. OnScreen(buffer, size, page_location, cursor_location)
  <2>1. Newlines(buffer, 0, 0) = 0
    BY NoNewlines
  <2>2. size \in Nat /\ size > 0 /\ ROW_LEN \in Nat /\ ROW_LEN > 0
    BY <1>1, TextFacts, SizeAssumption
  <2> QED BY <1>2, <2>1, <2>2 DEF OnScreen, LineStarts
<1> QED BY <1>1, <1>3 DEF SessionInv, Screen, InSession

----------------------------------------------------------------------------
(* The last line, and the keys that change the mode only *)

LEMMA SavedFile ==
  ASSUME TextInv, save_file
  PROVE  /\ disk' \in Seq(Chars \cup {CR})
         /\ Len(disk') = IF Len(disk) <= size THEN size ELSE Len(disk)
         /\ \A i \in 1 .. Len(disk') : disk'[i] = IF i <= size THEN buffer[i - 1] ELSE disk[i]
<1>1. PICK n : n = Len(disk)
  OBVIOUS
<1>2. n \in Nat /\ size \in Nat /\ \A i \in 1 .. n : disk[i] \in Chars \cup {CR}
  BY <1>1, TextFacts, LenProperties, ElementOfSeq DEF TextInv, SeqTypes
<1>3. PICK m : m = Max({size, n})
  OBVIOUS
<1>4. m = IF n <= size THEN size ELSE n
  <2>1. {size, n} \subseteq Int /\ {size, n} # {} /\ size + n \in Int /\ \A x \in {size, n} : x <= size + n
    BY <1>2
  <2>2. m \in {size, n} /\ \A x \in {size, n} : x <= m
    BY <1>3, <2>1, MaxFacts
  <2> QED BY <1>2, <2>2
<1>5. m \in Nat /\ disk' = [i \in 1 .. m |-> IF i <= size THEN buffer[i - 1] ELSE disk[i]]
  BY <1>1, <1>2, <1>3, <1>4 DEF save_file
<1>6. \A i \in 1 .. m : /\ i <= size => i - 1 \in 0 .. size - 1
                        /\ ~(i <= size) => i \in 1 .. n
  BY <1>2, <1>4
<1>7. \A i \in 1 .. m : disk'[i] \in Chars \cup {CR}
  BY <1>2, <1>5, <1>6, TextFacts
<1>8. disk' \in Seq(Chars \cup {CR}) /\ Len(disk') = m
  BY <1>5, <1>7, IsASeq, LenProperties
<1> QED BY <1>1, <1>4, <1>5, <1>8

LEMMA LastLineSession == SessionInv /\ err = 0 /\ do_last_line_mode => Screen'
BY SameSession DEF do_last_line_mode, LeaveLine, RubLine, Execute, AppendLine, LastLine, Flush

LEMMA ModeSession == SessionInv /\ err = 0 /\ (StartInsert \/ EndInsert) => Screen'
<1> SUFFICES ASSUME SessionInv, err = 0, StartInsert \/ EndInsert PROVE Screen'
  OBVIOUS
<1>1. UNCHANGED <<text, page, cursor_location>>
  BY DEF StartInsert, EndInsert
<1>2. page_end' = PageEnd(buffer', size', page_location')
  BY <1>1, SessionFacts DEF text, page
<1> QED BY <1>1, <1>2, SameSession DEF page

LEMMA NoCommandSession == SessionInv /\ err = 0 /\ NoCommand => Screen'
BY FollowSession DEF NoCommand, Goto, text

----------------------------------------------------------------------------
(* Every key but the two that look at no bound keeps the indices in their arrays *)

LEMMA KeepsText ==
  ASSUME size' \in 1 .. BUFFER_SIZE, buffer' \in [0 .. size' - 1 -> Chars],
         cursor_location' \in 0 .. size', page_location' \in 0 .. size' - 1,
         page_end' = PageEnd(buffer', size', page_location'),
         mode' \in 0 .. 2, err' \in 0 .. 2,
         instruction' \in Seq(LineChars), Len(instruction') <= COLUMN_LEN,
         disk' \in Seq(Chars \cup {CR}),
         err' = 0 => cursor_location' < size' /\ buffer'[size' - 1] = NL
  PROVE  TextInv'
<1>1. size' \in Nat /\ page_location' \in 0 .. size'
  <2>1. size' \in Nat
    BY SizeAssumption
  <2> QED BY <2>1
<1>2. page_end' \in 0 .. size'
  BY <1>1, PageEndFacts
<1> QED BY <1>2 DEF TextInv, SeqTypes, InArrays, SessionTypeOK

LEMMA PageBounds ==
  ASSUME NEW b, NEW len \in Nat, NEW p \in 0 .. len
  PROVE  /\ p < len => PageDown(b, len, p) \in 0 .. len - 1
         /\ p > 0 => PageUp(b, p) \in 0 .. p - 1
<1>1. p < len => PageDown(b, len, p) \in 0 .. len - 1
  <2>1. LineEnd(b, len, p) \in Nat
    BY LineEndFacts
  <2> QED BY <2>1 DEF PageDown
<1>2. p > 0 => PageUp(b, p) \in 0 .. p - 1
  <2>1. p > 0 => LineAbove(b, p, {NL, CR}) \in Nat /\ LineAbove(b, p, {NL, CR}) < p
    BY LineAboveFacts
  <2> QED BY <2>1 DEF PageUp
<1> QED BY <1>1, <1>2

LEMMA FollowBounds ==
  ASSUME size' \in Nat, page_location \in 0 .. size', cursor_location' \in 0 .. size' - 1, Follow
  PROVE  page_location' \in 0 .. size' - 1 /\ page_end' = PageEnd(buffer', size', page_location')
<1>1. CASE cursor_location' < page_location
  <2>1. page_location' = PageUp(buffer', page_location)
    <3>1. ~(cursor_location' >= page_location)
      BY <1>1
    <3> QED BY <1>1, <3>1 DEF Follow, Flush
  <2>2. page_location > 0 /\ PageUp(buffer', page_location) \in 0 .. page_location - 1
    BY <1>1, PageBounds
  <2> QED BY <2>1, <2>2 DEF Follow, Flush
<1>2. CASE ~(cursor_location' < page_location)
  <2>1. page_location' \in {PageDown(buffer', size', page_location), page_location}
    BY <1>2 DEF Follow, Flush
  <2>2. page_location < size'
    <3>1. PICK n, c, p : n = size' /\ c = cursor_location' /\ p = page_location
      OBVIOUS
    <3>2. n \in Nat /\ c \in 0 .. n - 1 /\ p \in 0 .. n /\ ~(c < p)
      BY <1>2, <3>1
    <3>3. p < n
      BY <3>2
    <3> QED BY <3>1, <3>3
  <2> QED BY <2>1, <2>2, PageBounds DEF Follow, Flush
<1> QED BY <1>1, <1>2

LEMMA GotoText ==
  ASSUME TextInv, err = 0, NEW c \in 0 .. size - 1, Goto(c)
  PROVE  TextInv'
<1>1. /\ size' = size /\ buffer' = buffer /\ cursor_location' = c
      /\ UNCHANGED <<mode, instruction, err, disk>> /\ Follow
  BY DEF Goto, text
<1>2. page_location' \in 0 .. size' - 1 /\ page_end' = PageEnd(buffer', size', page_location')
  <2>1. size' \in Nat /\ page_location \in 0 .. size' /\ cursor_location' \in 0 .. size' - 1
    BY <1>1, TextFacts
  <2> QED BY <1>1, <2>1, FollowBounds
<1> QED BY <1>1, <1>2, TextFacts, KeepsText DEF TextInv, SeqTypes, InArrays, SessionTypeOK

LEMMA LineKeysText ==
  TextInv /\ err = 0 /\ (NextLine \/ PrevLine) => TextInv'
<1> SUFFICES ASSUME TextInv, err = 0, NextLine \/ PrevLine PROVE TextInv'
  OBVIOUS
<1>1. /\ size \in Nat /\ cursor_location \in 0 .. size - 1 /\ cursor_location \in 0 .. size
      /\ cursor_location \in Nat
  BY TextFacts
<1>2. cursor_next_line \in 0 .. size - 1
  <2>1. LineEnd(buffer, size, cursor_location) \in Nat
    BY <1>1, LineEndFacts
  <2> QED BY <1>1, <2>1 DEF cursor_next_line
<1>3. cursor_prev_line \in 0 .. size - 1
  <2>1. PICK a : a = LineAbove(buffer, cursor_location, {NL})
    OBVIOUS
  <2>2. cursor_location = 0 => a = -1
    BY <1>1, <2>1, LineAboveFacts
  <2>3. cursor_location > 0 => a \in Nat /\ a < cursor_location
    BY <1>1, <2>1, LineAboveFacts
  <2> QED BY <1>1, <2>1, <2>2, <2>3 DEF cursor_prev_line
<1> QED BY <1>2, <1>3, GotoText DEF NextLine, PrevLine

LEMMA ColumnKeysText ==
  TextInv /\ err = 0 /\ (Left \/ Right \/ NoCommand) => TextInv'
<1> SUFFICES ASSUME TextInv, err = 0, Left \/ Right \/ NoCommand PROVE TextInv'
  OBVIOUS
<1>1. \E c \in 0 .. size - 1 : Goto(c)
  BY TextFacts DEF Left, Right, NoCommand
<1> QED BY <1>1, GotoText

LEMMA DeleteHereText == TextInv /\ err = 0 /\ DeleteHere => TextInv'
<1> SUFFICES ASSUME TextInv, err = 0, DeleteHere PROVE TextInv'
  OBVIOUS
<1>1. /\ UNCHANGED <<cursor_location, mode, instruction, err, disk>> /\ Follow
      /\ size \in Nat /\ cursor_location \in 0 .. size - 1 /\ page_location \in 0 .. size - 1
      /\ buffer \in [0 .. size - 1 -> Chars] /\ buffer[size - 1] = NL
  BY TextFacts DEF DeleteHere
<1>2. /\ size' \in 1 .. BUFFER_SIZE /\ buffer' \in [0 .. size' - 1 -> Chars] /\ buffer'[size' - 1] = NL
      /\ cursor_location \in 0 .. size' - 1 /\ page_location \in 0 .. size' /\ size' \in Nat
  <2>1. CASE cursor_location = size - 1
    BY <1>1, <2>1, TextFacts DEF DeleteHere, text
  <2>2. CASE cursor_location # size - 1
    <3>1. cursor_location \in 0 .. size - 2 /\ delete_key(cursor_location)
      BY <1>1, <2>2 DEF DeleteHere
    <3>2. /\ size' = size - 1 /\ size' \in Nat /\ size' > 0
          /\ buffer' \in [0 .. size' - 1 -> Chars] /\ buffer'[size' - 1] = NL
      BY <1>1, <3>1, DeleteFacts
    <3> QED BY <1>1, <3>1, <3>2, TextFacts
  <2> QED BY <2>1, <2>2
<1>3. page_location' \in 0 .. size' - 1 /\ page_end' = PageEnd(buffer', size', page_location')
  BY <1>1, <1>2, FollowBounds
<1>4. cursor_location' \in 0 .. size' /\ cursor_location' < size'
  <2>1. cursor_location' \in 0 .. size' - 1 /\ size' \in Nat
    BY <1>1, <1>2
  <2>2. \A n \in Nat : \A c \in 0 .. n - 1 : c \in 0 .. n /\ c < n
    OBVIOUS
  <2> QED BY <2>1, <2>2
<1> QED BY <1>1, <1>2, <1>3, <1>4, KeepsText DEF TextInv, SeqTypes, InArrays, SessionTypeOK

LEMMA ColonText == TextInv /\ err = 0 /\ Colon => TextInv'
<1> SUFFICES ASSUME TextInv, err = 0, Colon PROVE TextInv'
  OBVIOUS
<1>1. /\ size' = size /\ buffer' = buffer /\ cursor_location' = cursor_location /\ mode' = 2
      /\ instruction' = <<":">> /\ UNCHANGED <<err, disk>> /\ Follow
  BY DEF Colon, text
<1>2. page_location' \in 0 .. size' - 1 /\ page_end' = PageEnd(buffer', size', page_location')
  <2>1. size' \in Nat /\ page_location \in 0 .. size' /\ cursor_location' \in 0 .. size' - 1
    BY <1>1, TextFacts
  <2> QED BY <1>1, <2>1, FollowBounds
<1>3. instruction' \in Seq(LineChars) /\ Len(instruction') <= COLUMN_LEN
  <2>1. <<":">> \in Seq(LineChars) /\ Len(<<":">>) = 1
    BY DEF LineChars
  <2> QED BY <1>1, <2>1, SizeAssumption
<1> QED BY <1>1, <1>2, <1>3, TextFacts, KeepsText DEF TextInv, SeqTypes, InArrays, SessionTypeOK

LEMMA ModeText == TextInv /\ err = 0 /\ (StartInsert \/ EndInsert) => TextInv'
<1> SUFFICES ASSUME TextInv, err = 0, StartInsert \/ EndInsert PROVE TextInv'
  OBVIOUS
<1>1. UNCHANGED <<text, page, cursor_location, instruction, err, disk>> /\ mode' \in 0 .. 2
  BY DEF StartInsert, EndInsert
<1> QED BY <1>1 DEF TextInv, SeqTypes, InArrays, SessionTypeOK, text, page

LEMMA BackspaceText == TextInv /\ err = 0 /\ Backspace /\ ~RubsOutAtStart => TextInv'
<1> SUFFICES ASSUME TextInv, err = 0, Backspace, ~RubsOutAtStart PROVE TextInv'
  OBVIOUS
<1>1. PICK c, p : c = cursor_location /\ p = page_location
  OBVIOUS
<1>2. /\ size \in Nat /\ c \in 0 .. size - 1 /\ c # 0 /\ p \in 0 .. size - 1
      /\ buffer \in [0 .. size - 1 -> Chars] /\ buffer[size - 1] = NL
  BY <1>1, TextFacts DEF Backspace, RubsOutAtStart
<1>3. /\ UNCHANGED <<mode, instruction, err, disk>> /\ cursor_location' = c - 1 /\ delete_key(c - 1)
      /\ page_location' = IF c - 1 < p THEN PageUp(buffer', p) ELSE p
      /\ page_end' = PageEnd(buffer', size', page_location')
  BY <1>1, <1>2 DEF Backspace, Flush
<1>4. /\ size' = size - 1 /\ size' \in Nat /\ size' > 0
      /\ buffer' \in [0 .. size' - 1 -> Chars] /\ buffer'[size' - 1] = NL
  <2>1. c - 1 \in 0 .. size - 2
    BY <1>2
  <2> QED BY <1>2, <1>3, <2>1, DeleteFacts
<1>5. page_location' \in 0 .. size' - 1
  <2>1. CASE c - 1 < p
    <3>1. p \in 0 .. size' /\ p > 0
      BY <1>2, <1>4, <2>1
    <3>2. PageUp(buffer', p) \in 0 .. p - 1
      BY <1>4, <3>1, PageBounds
    <3> QED BY <1>3, <1>4, <2>1, <3>1, <3>2
  <2>2. CASE ~(c - 1 < p)
    BY <1>2, <1>3, <1>4, <2>2
  <2> QED BY <2>1, <2>2
<1>6. cursor_location' \in 0 .. size' - 1 /\ cursor_location' \in 0 .. size' /\ cursor_location' < size'
  BY <1>2, <1>3, <1>4
<1>7. size' \in 1 .. BUFFER_SIZE
  BY <1>2, <1>4, TextFacts
<1> QED BY <1>3, <1>4, <1>5, <1>6, <1>7, KeepsText DEF TextInv, SeqTypes, InArrays, SessionTypeOK

LEMMA InsertText == ASSUME NEW k \in Chars PROVE TextInv /\ err = 0 /\ Insert(k) => TextInv'
<1> SUFFICES ASSUME TextInv, err = 0, Insert(k) PROVE TextInv'
  OBVIOUS
<1>1. PICK c, p, e : c = cursor_location /\ p = page_location /\ e = PageEnd(buffer', size', p)
  OBVIOUS
<1>2. /\ size \in Nat /\ size <= BUFFER_SIZE /\ BUFFER_SIZE \in Nat /\ c \in 0 .. size - 1
      /\ p \in 0 .. size - 1 /\ buffer \in [0 .. size - 1 -> Chars] /\ buffer[size - 1] = NL
  BY <1>1, TextFacts
<1>3. /\ UNCHANGED <<mode, instruction, disk>> /\ cursor_location' = c + 1 /\ insert_key(k, c)
      /\ page_location' = IF c + 1 >= e THEN PageDown(buffer', size', p) ELSE p
      /\ page_end' = PageEnd(buffer', size', page_location')
  BY <1>1 DEF Insert, Flush
<1>4. /\ size' \in 1 .. BUFFER_SIZE /\ size' \in Nat /\ size <= size'
      /\ buffer' \in [0 .. size' - 1 -> Chars] /\ err' \in {0, 1}
      /\ err' = 0 => c + 1 < size' /\ buffer'[size' - 1] = NL
  <2>1. CASE size >= BUFFER_SIZE
    BY <1>2, <1>3, <2>1, TextFacts DEF insert_key, text
  <2>2. CASE size < BUFFER_SIZE
    <3>1. /\ size' = size + 1 /\ size' \in Nat /\ size' > 0 /\ size' <= BUFFER_SIZE /\ err' = err
          /\ buffer' \in [0 .. size' - 1 -> Chars] /\ buffer'[size' - 1] = NL
      BY <1>2, <1>3, <2>2, InsertFacts
    <3> QED BY <1>2, <3>1
  <2> QED BY <1>2, <2>1, <2>2
<1>5. page_location' \in 0 .. size' - 1
  <2>1. p \in 0 .. size' /\ p < size'
    BY <1>2, <1>4
  <2>2. PageDown(buffer', size', p) \in 0 .. size' - 1
    BY <1>4, <2>1, PageBounds
  <2> QED BY <1>3, <1>4, <2>1, <2>2
<1>6. cursor_location' \in 0 .. size'
  BY <1>2, <1>3, <1>4
<1>7. err' = 0 => cursor_location' < size' /\ buffer'[size' - 1] = NL
  BY <1>3, <1>4
<1>8. /\ mode' \in 0 .. 2 /\ err' \in 0 .. 2 /\ instruction' \in Seq(LineChars)
      /\ Len(instruction') <= COLUMN_LEN /\ disk' \in Seq(Chars \cup {CR})
  BY <1>3, <1>4 DEF TextInv, SeqTypes, InArrays, SessionTypeOK
<1> QED BY <1>3, <1>4, <1>5, <1>6, <1>7, <1>8, KeepsText

LEMMA LastLineFacts ==
  ASSUME TextInv, do_last_line_mode
  PROVE  /\ disk' \in Seq(Chars \cup {CR})
         /\ instruction' \in Seq(LineChars)
         /\ LineOverflows \/ Len(instruction') <= COLUMN_LEN
<1>1. mode = 2
  BY DEF do_last_line_mode, LeaveLine, RubLine, Execute, AppendLine, LastLine
<1>2. disk' \in Seq(Chars \cup {CR})
  <2>1. disk' = disk \/ save_file
    BY DEF do_last_line_mode, LeaveLine, RubLine, Execute, AppendLine
  <2> QED BY <2>1, SavedFile DEF TextInv, SeqTypes
<1>3. instruction' \in Seq(LineChars) /\ (LineOverflows \/ Len(instruction') <= COLUMN_LEN)
  <2>1. PICK s, t : s = instruction /\ t = instruction'
    OBVIOUS
  <2>2. s \in Seq(LineChars) /\ Len(s) \in Nat /\ Len(s) <= COLUMN_LEN /\ COLUMN_LEN \in Nat
    BY <2>1, LenProperties, SizeAssumption DEF TextInv, SeqTypes, InArrays
  <2>3. CASE LeaveLine
    <3>1. t = <<>> /\ <<>> \in Seq(LineChars) /\ Len(<<>>) = 0
      BY <2>1, <2>3 DEF LeaveLine
    <3> QED BY <2>1, <2>2, <3>1
  <2>4. CASE RubLine
    <3>1. t = IF s = <<>> THEN <<>> ELSE SubSeq(s, 1, Len(s) - 1)
      BY <2>1, <2>4 DEF RubLine, Front
    <3>2. CASE s = <<>>
      BY <2>1, <2>2, <3>1, <3>2
    <3>3. CASE s # <<>>
      <4>1. PICK m : m = Len(s) - 1
        OBVIOUS
      <4>2. m \in Nat
        BY <2>2, <3>3, <4>1, EmptySeq
      <4>3. \A i \in 1 .. m : s[i] \in LineChars
        <5>1. \A i \in 1 .. m : i \in 1 .. Len(s)
          BY <2>2, <4>1
        <5> QED BY <2>2, <5>1, ElementOfSeq
      <4>4. t = SubSeq(s, 1, m) /\ t \in Seq(LineChars) /\ Len(t) = IF 1 <= m THEN m - 1 + 1 ELSE 0
        BY <3>1, <3>3, <4>1, <4>2, <4>3, SubSeqProperties
      <4> QED BY <2>1, <2>2, <4>1, <4>2, <4>4
    <3> QED BY <3>2, <3>3
  <2>5. CASE Execute
    BY <2>1, <2>2, <2>5 DEF Execute
  <2>6. ASSUME NEW k \in {"w", "W", "q", "Q", "!"}, AppendLine(k)
        PROVE  t \in Seq(LineChars) /\ (LineOverflows \/ Len(t) <= COLUMN_LEN)
    <3>1. LineOverflows \/ Len(s) < COLUMN_LEN
      <4>1. key' = k /\ k \notin {ESC, BS, NL}
        BY <2>6 DEF AppendLine, ESC, BS, NL
      <4> QED BY <1>1, <2>1, <2>2, <4>1 DEF LineOverflows
    <3>2. PICK l \in LineChars : t = Append(s, l)
      <4>1. to_lower_case(k) \in LineChars
        BY <2>6 DEF to_lower_case, LineChars
      <4> QED BY <2>1, <2>6, <4>1 DEF AppendLine
    <3>3. t \in Seq(LineChars) /\ Len(t) = Len(s) + 1
      BY <2>2, <3>2, AppendProperties
    <3> QED BY <2>2, <3>1, <3>3
  <2> QED BY <2>1, <2>3, <2>4, <2>5, <2>6 DEF do_last_line_mode
<1> QED BY <1>2, <1>3

LEMMA LastLineText == TextInv /\ err = 0 /\ do_last_line_mode /\ ~LineOverflows => TextInv'
<1> SUFFICES ASSUME TextInv, err = 0, do_last_line_mode, ~LineOverflows PROVE TextInv'
  OBVIOUS
<1>1. /\ UNCHANGED <<text, cursor_location>> /\ page_location' = page_location
      /\ page_end' = PageEnd(buffer', size', page_location') /\ mode = 2 /\ mode' \in 0 .. 2
      /\ err' \in {0, 1}
  BY DEF do_last_line_mode, LeaveLine, RubLine, Execute, AppendLine, LastLine, Flush
<1>2. /\ disk' \in Seq(Chars \cup {CR}) /\ instruction' \in Seq(LineChars)
      /\ Len(instruction') <= COLUMN_LEN
  BY LastLineFacts
<1>3. page_location' \in 0 .. size' - 1 /\ size' = size /\ buffer' = buffer
  BY <1>1, TextFacts DEF text
<1> QED BY <1>1, <1>2, <1>3, TextFacts, KeepsText DEF TextInv, SeqTypes, InArrays, SessionTypeOK

LEMMA TextStep == TextInv /\ [myvi]_session /\ ~Unbounded => TextInv'
<1> SUFFICES ASSUME TextInv, [myvi]_session, ~RubsOutAtStart, ~LineOverflows PROVE TextInv'
  BY DEF Unbounded
<1>1. CASE UNCHANGED session
  BY <1>1 DEF session, TextInv, SeqTypes, InArrays, SessionTypeOK
<1>2. CASE myvi
  <2>1. err = 0
    BY <1>2 DEF myvi
  <2>2. CASE do_command_mode
    BY <2>1, <2>2, LineKeysText, ColumnKeysText, DeleteHereText, ColonText, ModeText
    DEF do_command_mode
  <2>3. CASE do_insert_mode
    BY <2>1, <2>3, ModeText, BackspaceText, InsertText DEF do_insert_mode
  <2>4. CASE do_last_line_mode
    BY <2>1, <2>4, LastLineText
  <2> QED BY <1>2, <2>2, <2>3, <2>4 DEF myvi
<1> QED BY <1>1, <1>2

LEMMA SeqTypesStep == SeqTypes /\ [InArrays /\ myvi]_session => SeqTypes'
<1> SUFFICES ASSUME SeqTypes, [InArrays /\ myvi]_session PROVE SeqTypes'
  OBVIOUS
<1>1. CASE UNCHANGED session
  BY <1>1 DEF session, SeqTypes
<1>2. CASE InArrays /\ do_last_line_mode
  BY <1>2, LastLineFacts DEF TextInv, SeqTypes
<1>3. CASE do_command_mode \/ do_insert_mode
  <2>1. disk' = disk /\ instruction' \in {instruction, <<":">>}
    BY <1>3 DEF do_command_mode, do_insert_mode, NextLine, PrevLine, Left, Right, NoCommand, Goto,
       DeleteHere, Colon, StartInsert, EndInsert, Backspace, Insert
  <2>2. <<":">> \in Seq(LineChars)
    BY DEF LineChars
  <2> QED BY <2>1, <2>2 DEF SeqTypes
<1> QED BY <1>1, <1>2, <1>3 DEF myvi

LEMMA SeqTypesInit == myvi_init => SeqTypes
BY InitText DEF TextInv

LEMMA SessionStep == SessionInv /\ [myvi /\ Careful]_session => SessionInv'
<1> SUFFICES ASSUME SessionInv, [myvi /\ Careful]_session PROVE SessionInv'
  OBVIOUS
<1>1. CASE UNCHANGED session
  BY <1>1 DEF session, SessionInv, TextInv, SeqTypes, InArrays, SessionTypeOK, Screen, InSession, OnScreen
<1>2. CASE myvi /\ Careful
  <2>1. err = 0
    BY <1>2 DEF myvi
  <2>2. ~Unbounded
    BY <1>2 DEF Careful
  <2>3. TextInv'
    BY <1>2, <2>2, TextStep DEF SessionInv
  <2>4. CASE do_command_mode
    BY <1>2, <2>1, <2>3, <2>4, NextLineSession, PrevLineSession, LeftSession, RightSession,
       NoCommandSession, DeleteHereSession, ColonSession, ModeSession
    DEF do_command_mode, SessionInv
  <2>5. CASE do_insert_mode
    BY <1>2, <2>1, <2>3, <2>5, ModeSession, BackspaceSession, InsertSession
    DEF do_insert_mode, SessionInv
  <2>6. CASE do_last_line_mode
    BY <2>1, <2>3, <2>6, LastLineSession DEF SessionInv
  <2> QED BY <1>2, <2>4, <2>5, <2>6 DEF myvi
<1> QED BY <1>1, <1>2

\* The history variable adds no step, and records the steps of a careful typist.
LEMMA HistorySteps ==
  ASSUME [MyviNext]_<<session, careful>>
  PROVE  /\ [InArrays /\ myvi]_session
         /\ careful' => careful /\ [myvi /\ Careful]_session
<1>1. CASE MyviNext
  BY <1>1 DEF MyviNext
<1>2. CASE UNCHANGED <<session, careful>>
  BY <1>2
<1> QED BY <1>1, <1>2

\* The invariant of any typist: the rest of it as long as he has been careful.
CarefulInv == SeqTypes /\ (careful => SessionInv)

LEMMA CarefulInvInit == MyviInit => CarefulInv
BY SeqTypesInit, InitSession DEF MyviInit, CarefulInv

LEMMA CarefulInvStep == CarefulInv /\ [MyviNext]_<<session, careful>> => CarefulInv'
BY HistorySteps, SeqTypesStep, SessionStep DEF CarefulInv

\* Whatever is typed, no key takes an index of the session out of its array but BS at the
\* beginning of the text and a character for which the last line has no room.
THEOREM SessionStaysInArrays == MyviSpec => LeavesOnlyUnbounded
<1>1. CarefulInv /\ [MyviNext]_<<session, careful>> => [InArrays' \/ Unbounded]_session
  BY HistorySteps, TextStep DEF TextInv, CarefulInv
<1> QED BY <1>1, CarefulInvInit, CarefulInvStep, PTL DEF MyviSpec, LeavesOnlyUnbounded

\* For a careful typist the page begins at a line's beginning, whatever was deleted above
\* it.
THEOREM PagesBeginLines == MyviSpec => []PageBeginsLine
<1>1. CarefulInv => PageBeginsLine
  BY DEF CarefulInv, SessionInv, Screen, InSession, OnScreen, PageBeginsLine
<1> QED BY <1>1, CarefulInvInit, CarefulInvStep, PTL DEF MyviSpec

\* For a careful typist the cursor is never above the page, page_end counts the text that
\* is shown, and in a text whose lines take one row each the cursor is on the page.
THEOREM CursorIsShown == MyviSpec => []CursorShown
<1>1. CarefulInv => CursorShown
  <2> SUFFICES ASSUME SessionInv, err = 0
               PROVE  /\ page_location <= cursor_location
                      /\ page_end = PageEnd(buffer, size, page_location)
                      /\ (\A p \in LineStarts(buffer, size) : Rows(p) = 1) => cursor_location < page_end
    BY DEF CarefulInv, CursorShown
  <2>1. /\ size \in Nat /\ page_location \in LineStarts(buffer, size)
        /\ cursor_location \in page_location .. size - 1
        /\ Newlines(buffer, page_location, cursor_location) < ROW_LEN
        /\ page_end = PageEnd(buffer, size, page_location)
        /\ page_location \in Nat
    BY SessionText, SessionFacts
  <2>2. (\A p \in LineStarts(buffer, size) : Rows(p) = 1) => OneRowLines(buffer, size)
    <3>1. ASSUME NEW p \in LineStarts(buffer, size), Rows(p) = 1
          PROVE  Row(buffer, size, p, LineEnd(buffer, size, p)) = 0
      <4>1. p \in 0 .. size
        BY <2>1 DEF LineStarts
      <4>2. LineEnd(buffer, size, p) \in p .. size
        BY <2>1, <4>1, LineEndFacts
      <4>3. Row(buffer, size, p, LineEnd(buffer, size, p)) \in Nat
        BY <2>1, <4>1, <4>2, RowFacts
      <4>4. Row(buffer, size, p, LineEnd(buffer, size, p)) + 1 = 1
        BY <3>1 DEF Rows, Row
      <4> QED BY <4>3, <4>4
    <3> QED BY <3>1 DEF OneRowLines
  <2>3. OneRowLines(buffer, size) => cursor_location < page_end
    BY <2>1, OnPage
  <2> QED BY <2>1, <2>2, <2>3
<1> QED BY <1>1, CarefulInvInit, CarefulInvStep, PTL DEF MyviSpec

----------------------------------------------------------------------------
(* The session is one of Text *)

Slice(b, from, to) == [i \in 1 .. to - from |-> b[from + i - 1]]

\* from and to are places of the text b of n characters.
Within(b, n, from, to) ==
  n \in Nat /\ b \in [0 .. n - 1 -> Chars] /\ from \in 0 .. n /\ to \in from .. n

\* s has the characters of b between from and to.
Reading(s, b, from, to) ==
  /\ s \in Seq(Chars)
  /\ Len(s) = to - from
  /\ \A i \in 1 .. to - from : s[i] = b[from + i - 1]

LEMMA SliceFacts ==
  ASSUME NEW b, NEW n, NEW from, NEW to, Within(b, n, from, to)
  PROVE  Reading(Slice(b, from, to), b, from, to)
<1>0. n \in Nat /\ b \in [0 .. n - 1 -> Chars] /\ from \in 0 .. n /\ to \in from .. n
  BY DEF Within
<1>1. \A i \in 1 .. to - from : from + i - 1 \in 0 .. n - 1
  BY <1>0
<1>2. to - from \in Nat
  BY <1>0
<1>3. \A i \in 1 .. to - from : b[from + i - 1] \in Chars
  BY <1>0, <1>1
<1>4. Slice(b, from, to) \in Seq(Chars) /\ Len(Slice(b, from, to)) = to - from
  BY <1>2, <1>3, IsASeq, LenProperties DEF Slice
<1>5. \A i \in 1 .. to - from : Slice(b, from, to)[i] = b[from + i - 1]
  BY DEF Slice
<1> QED BY <1>4, <1>5 DEF Reading

\* Slices with the same characters are the same.
LEMMA SameSlice ==
  ASSUME NEW b, NEW n, NEW from, NEW to, NEW s, Within(b, n, from, to), Reading(s, b, from, to)
  PROVE  Slice(b, from, to) = s
<1>1. PICK t : t = Slice(b, from, to)
  OBVIOUS
<1>2. Reading(t, b, from, to)
  BY <1>1, SliceFacts
<1>3. /\ s \in Seq(Chars) /\ t \in Seq(Chars) /\ Len(s) = Len(t)
      /\ \A i \in 1 .. Len(s) : s[i] = t[i]
  BY <1>2 DEF Reading
<1>4. s = t
  BY <1>3, SeqEqual
<1> QED BY <1>1, <1>4

LEMMA WholeText ==
  ASSUME NEW b, NEW n \in Nat, b \in [0 .. n - 1 -> Chars], NEW c \in 0 .. n
  PROVE  Slice(b, 0, c) \o Slice(b, c, n) = Slice(b, 0, n)
<1>0. 0 \in 0 .. n /\ c \in 0 .. n /\ n \in c .. n /\ n \in 0 .. n /\ c \in Nat
  OBVIOUS
<1>1. PICK l, r, w : l = Slice(b, 0, c) /\ r = Slice(b, c, n) /\ w = Slice(b, 0, n)
  OBVIOUS
<1>2. /\ l \in Seq(Chars) /\ Len(l) = c /\ \A i \in 1 .. c : l[i] = b[i - 1]
      /\ r \in Seq(Chars) /\ Len(r) = n - c /\ \A i \in 1 .. n - c : r[i] = b[c + i - 1]
      /\ w \in Seq(Chars) /\ Len(w) = n /\ \A i \in 1 .. n : w[i] = b[i - 1]
  <2>1. Within(b, n, 0, c) /\ Within(b, n, c, n) /\ Within(b, n, 0, n)
    BY <1>0 DEF Within
  <2>2. Reading(l, b, 0, c) /\ Reading(r, b, c, n) /\ Reading(w, b, 0, n)
    BY <1>1, <2>1, SliceFacts
  <2>3. c - 0 = c /\ n - 0 = n /\ \A i \in Int : 0 + i - 1 = i - 1
    BY <1>0
  <2>4. l \in Seq(Chars) /\ Len(l) = c /\ \A i \in 1 .. c : l[i] = b[i - 1]
    BY <1>0, <2>2, <2>3 DEF Reading
  <2>5. r \in Seq(Chars) /\ Len(r) = n - c /\ \A i \in 1 .. n - c : r[i] = b[c + i - 1]
    BY <2>2 DEF Reading
  <2>6. w \in Seq(Chars) /\ Len(w) = n /\ \A i \in 1 .. n : w[i] = b[i - 1]
    BY <1>0, <2>2, <2>3 DEF Reading
  <2> QED BY <2>4, <2>5, <2>6
<1>3. /\ l \o r \in Seq(Chars) /\ Len(l \o r) = c + (n - c)
      /\ \A i \in 1 .. Len(l) + Len(r) : (l \o r)[i] = IF i <= Len(l) THEN l[i] ELSE r[i - Len(l)]
  BY <1>2, ConcatProperties
<1>4. ASSUME NEW i \in 1 .. n PROVE (l \o r)[i] = w[i]
  <2>1. (l \o r)[i] = IF i <= c THEN l[i] ELSE r[i - c]
    <3>1. i \in 1 .. Len(l) + Len(r) /\ Len(l) = c
      BY <1>0, <1>2
    <3> QED BY <1>3, <3>1
  <2>2. w[i] = b[i - 1]
    BY <1>2
  <2>3. CASE i <= c
    <3>1. i \in 1 .. c
      BY <1>0, <2>3
    <3>2. l[i] = b[i - 1]
      BY <1>2, <3>1
    <3> QED BY <2>1, <2>2, <2>3, <3>2
  <2>4. CASE ~(i <= c)
    <3>1. i - c \in 1 .. n - c /\ c + (i - c) - 1 = i - 1
      BY <1>0, <2>4
    <3>2. r[i - c] = b[c + (i - c) - 1]
      BY <1>2, <3>1
    <3> QED BY <2>1, <2>2, <2>4, <3>1, <3>2
  <2> QED BY <2>3, <2>4
<1>5. PICK lr : lr = l \o r
  OBVIOUS
<1>6. /\ lr \in Seq(Chars) /\ w \in Seq(Chars) /\ Len(lr) = Len(w)
      /\ \A i \in 1 .. Len(lr) : lr[i] = w[i]
  <2>1. c + (n - c) = n
    BY <1>0
  <2>2. lr \in Seq(Chars) /\ Len(lr) = n /\ w \in Seq(Chars) /\ Len(w) = n
    BY <1>2, <1>3, <1>5, <2>1
  <2> QED BY <1>4, <1>5, <2>2
<1>7. lr = w
  BY <1>6, SeqEqual
<1> QED BY <1>1, <1>5, <1>7

\* The text before and behind the cursor, now and after a key.
LEMMA Parts ==
  ASSUME TextInv
  PROVE  /\ size \in Nat /\ cursor_location \in 0 .. size /\ buffer \in [0 .. size - 1 -> Chars]
         /\ err = 0 => cursor_location \in 0 .. size - 1
         /\ Part(0, cursor_location) = Slice(buffer, 0, cursor_location)
         /\ Part(cursor_location, size) = Slice(buffer, cursor_location, size)
BY TextFacts DEF TextInv, InSession, SessionTypeOK, Part, Slice

LEMMA PartsAfter ==
  ASSUME TextInv'
  PROVE  /\ size' \in Nat /\ cursor_location' \in 0 .. size' /\ buffer' \in [0 .. size' - 1 -> Chars]
         /\ err' = 0 => cursor_location' \in 0 .. size' - 1
         /\ Part(0, cursor_location)' = Slice(buffer', 0, cursor_location')
         /\ Part(cursor_location, size)' = Slice(buffer', cursor_location', size')
<1>1. size' \in Nat /\ cursor_location' \in 0 .. size' /\ buffer' \in [0 .. size' - 1 -> Chars]
  <2>1. size' \in 1 .. BUFFER_SIZE /\ BUFFER_SIZE \in Nat
    BY SizeAssumption DEF TextInv, InArrays, SessionTypeOK
  <2>2. cursor_location' \in 0 .. size' /\ buffer' \in [0 .. size' - 1 -> Chars]
    BY DEF TextInv, InArrays, SessionTypeOK
  <2>3. size' \in Nat
    BY <2>1
  <2> QED BY <2>2, <2>3
<1>2. err' = 0 => cursor_location' \in 0 .. size' - 1
  <2>1. err' = 0 => cursor_location' < size'
    BY DEF TextInv, InArrays
  <2>2. \A n \in Nat : \A c \in 0 .. n : c < n => c \in 0 .. n - 1
    OBVIOUS
  <2> QED BY <1>1, <2>1, <2>2
<1>3. Part(0, cursor_location)' = Slice(buffer', 0, cursor_location')
  BY DEF Part, Slice
<1>4. Part(cursor_location, size)' = Slice(buffer', cursor_location', size')
  BY DEF Part, Slice
<1> QED BY <1>1, <1>2, <1>3, <1>4

\* Keys that change no character.
LEMMA SameText ==
  ASSUME TextInv, TextInv', UNCHANGED text
  PROVE  Part(0, cursor_location)' \o Part(cursor_location, size)'
           = Part(0, cursor_location) \o Part(cursor_location, size)
<1>1. size' = size /\ buffer' = buffer
  BY DEF text
<1>2. Part(0, cursor_location) \o Part(cursor_location, size) = Slice(buffer, 0, size)
  BY Parts, WholeText
<1>3. Part(0, cursor_location)' \o Part(cursor_location, size)' = Slice(buffer, 0, size)
  BY <1>1, PartsAfter, WholeText
<1> QED BY <1>2, <1>3

LEMMA SameParts ==
  ASSUME UNCHANGED <<text, cursor_location>>
  PROVE  /\ Part(0, cursor_location)' = Part(0, cursor_location)
         /\ Part(cursor_location, size)' = Part(cursor_location, size)
BY DEF Part, text

LEMMA TextLength ==
  ASSUME TextInv
  PROVE  /\ Len(Part(0, cursor_location) \o Part(cursor_location, size)) = size
         /\ Len(Part(cursor_location, size)) = size - cursor_location
<1>1. PICK n, c : n = size /\ c = cursor_location
  OBVIOUS
<1>2. n \in Nat /\ c \in 0 .. n /\ n \in c .. n /\ n \in 0 .. n /\ 0 \in 0 .. n /\ n - 0 = n
      /\ buffer \in [0 .. n - 1 -> Chars]
  BY <1>1, Parts
<1>3. Len(Slice(buffer, 0, n)) = n - 0 /\ Len(Slice(buffer, c, n)) = n - c
  <2>1. Within(buffer, n, 0, n) /\ Within(buffer, n, c, n)
    BY <1>2 DEF Within
  <2>2. Reading(Slice(buffer, 0, n), buffer, 0, n) /\ Reading(Slice(buffer, c, n), buffer, c, n)
    BY <2>1, SliceFacts
  <2> QED BY <2>2 DEF Reading
<1>4. Part(0, cursor_location) \o Part(cursor_location, size) = Slice(buffer, 0, n)
  BY <1>1, Parts, WholeText
<1> QED BY <1>1, <1>2, <1>3, <1>4, Parts

\* The keys of command mode that leave the text as it is.
LEMMA MoveStep ==
  ASSUME TextInv, TextInv', err = 0, err' = 0, mode = 0, UNCHANGED <<text, disk, mode, instruction>>,
         key' \notin {"i", ":"},
         key' \notin {"h", "j", "k", "l"} => cursor_location' = cursor_location,
         key' = "x" => cursor_location = size - 1
  PROVE  Edited!Move
<1>1. size' = size /\ buffer' = buffer
  BY DEF text
<1>2. Part(0, cursor_location)' \o Part(cursor_location, size)'
        = Part(0, cursor_location) \o Part(cursor_location, size)
  BY SameText
<1>3. key' \notin {"h", "j", "k", "l"} => Part(0, cursor_location)' = Part(0, cursor_location)
  BY SameParts
<1>4. Part(cursor_location, size)' # <<>>
  <2>1. PICK c, n : c = cursor_location' /\ n = size'
    OBVIOUS
  <2>2. /\ n \in Nat /\ c \in 0 .. n - 1 /\ buffer' \in [0 .. n - 1 -> Chars]
        /\ c \in 0 .. n /\ n \in c .. n /\ n - c # 0
    <3>1. n \in Nat /\ c \in 0 .. n - 1 /\ buffer' \in [0 .. n - 1 -> Chars]
      BY <2>1, PartsAfter
    <3> QED BY <3>1
  <2>3. Len(Slice(buffer', c, n)) = n - c
    <3>1. Within(buffer', n, c, n)
      BY <2>2 DEF Within
    <3>2. Reading(Slice(buffer', c, n), buffer', c, n)
      BY <3>1, SliceFacts
    <3> QED BY <3>2 DEF Reading
  <2>4. Len(<<>>) = 0
    OBVIOUS
  <2> QED BY <2>1, <2>2, <2>3, <2>4, PartsAfter
<1>5. key' = "x" => Len(Part(cursor_location, size)) = 1
  <2>1. cursor_location = size - 1 => size - cursor_location = 1
    BY Parts
  <2> QED BY <2>1, TextLength
<1> QED BY <1>2, <1>3, <1>4, <1>5 DEF Edited!Move

\* Insert, with room in the buffer: the character comes before the cursor.
LEMMA TypeStep ==
  ASSUME TextInv, TextInv', err = 0, NEW k \in Chars, Insert(k), size < BUFFER_SIZE
  PROVE  Edited!Type
<1>1. PICK n, c : n = size /\ c = cursor_location
  OBVIOUS
<1>2. n \in Nat /\ c \in 0 .. n - 1 /\ c \in Nat /\ buffer \in [0 .. n - 1 -> Chars] /\ buffer[n - 1] = NL
  BY <1>1, Parts, TextFacts
<1>3. insert_key(k, c) /\ cursor_location' = c + 1 /\ disk' = disk
  BY <1>1 DEF Insert
<1>4. /\ size' = n + 1 /\ err' = 0
      /\ buffer' \in [0 .. n -> Chars] /\ buffer'[c] = k
      /\ \A q \in 0 .. c - 1 : buffer'[q] = buffer[q]
      /\ \A q \in c + 1 .. n : buffer'[q] = buffer[q - 1]
  <2>1. /\ size' = size + 1 /\ err' = err
        /\ buffer' \in [0 .. size' - 1 -> Chars] /\ buffer'[c] = k
        /\ \A q \in 0 .. c - 1 : buffer'[q] = buffer[q]
        /\ \A q \in c + 1 .. size' - 1 : buffer'[q] = buffer[q - 1]
    BY <1>1, <1>2, <1>3, InsertFacts
  <2>2. size' - 1 = n
    BY <1>1, <1>2, <2>1
  <2> QED BY <1>1, <2>1, <2>2
<1>5. PICK d, m : d = c + 1 /\ m = n + 1
  OBVIOUS
<1>6. /\ m \in Nat /\ d \in 0 .. m /\ m \in d .. m /\ d \in 0 .. d /\ 0 \in 0 .. m /\ m - 1 = n
      /\ c \in 0 .. n /\ n \in c .. n /\ m - d = n - c /\ 0 \in 0 .. n /\ d - 0 = d /\ c - 0 = c
      /\ d \in Nat /\ buffer' \in [0 .. m - 1 -> Chars]
  BY <1>2, <1>4, <1>5
<1>7. Slice(buffer', d, m) = Slice(buffer, c, n)
  <2>1. PICK s : s = Slice(buffer, c, n)
    OBVIOUS
  <2>2. s \in Seq(Chars) /\ Len(s) = n - c /\ \A i \in 1 .. n - c : s[i] = buffer[c + i - 1]
    <3>1. Within(buffer, n, c, n)
      BY <1>2, <1>6 DEF Within
    <3>2. Reading(s, buffer, c, n)
      BY <2>1, <3>1, SliceFacts
    <3> QED BY <3>2 DEF Reading
  <2>3. ASSUME NEW i \in 1 .. m - d PROVE s[i] = buffer'[d + i - 1]
    <3>1. d + i - 1 \in c + 1 .. n /\ (d + i - 1) - 1 = c + i - 1 /\ i \in 1 .. n - c
      BY <1>2, <1>5, <1>6
    <3> QED BY <1>4, <2>2, <3>1
  <2>4. Len(s) = m - d /\ \A i \in 1 .. m - d : s[i] = buffer'[d + i - 1]
    BY <1>6, <2>2, <2>3
  <2>5. Within(buffer', m, d, m)
    BY <1>6 DEF Within
  <2>6. Reading(s, buffer', d, m)
    BY <2>2, <2>4 DEF Reading
  <2> QED BY <2>1, <2>5, <2>6, SameSlice
<1>8. Slice(buffer', 0, d) = Append(Slice(buffer, 0, c), k)
  <2>1. PICK s : s = Slice(buffer, 0, c)
    OBVIOUS
  <2>2. s \in Seq(Chars) /\ Len(s) = c - 0 /\ \A i \in 1 .. c - 0 : s[i] = buffer[0 + i - 1]
    <3>1. Within(buffer, n, 0, c)
      BY <1>2 DEF Within
    <3>2. Reading(s, buffer, 0, c)
      BY <2>1, <3>1, SliceFacts
    <3> QED BY <3>2 DEF Reading
  <2>3. PICK t : t = Append(s, k)
    OBVIOUS
  <2>4. /\ t \in Seq(Chars) /\ Len(t) = Len(s) + 1
        /\ \A i \in 1 .. Len(s) : t[i] = s[i]
        /\ t[Len(s) + 1] = k
    BY <2>2, <2>3, AppendProperties
  <2>5. Len(s) = c /\ Len(t) = d - 0
    BY <1>5, <1>6, <2>2, <2>4
  <2>6. ASSUME NEW i \in 1 .. d - 0 PROVE t[i] = buffer'[0 + i - 1]
    <3>1. i \in 1 .. c \/ i = c + 1
      BY <1>2, <1>5
    <3>2. CASE i \in 1 .. c
      <4>1. 0 + i - 1 \in 0 .. c - 1 /\ i \in 1 .. c - 0
        BY <1>2, <3>2
      <4> QED BY <1>4, <2>2, <2>4, <2>5, <3>2, <4>1
    <3>3. CASE i = c + 1
      <4>1. 0 + i - 1 = c
        BY <1>2, <3>3
      <4> QED BY <1>4, <2>4, <2>5, <3>3, <4>1
    <3> QED BY <3>1, <3>2, <3>3
  <2>7. Within(buffer', m, 0, d)
    BY <1>6 DEF Within
  <2>8. Slice(buffer', 0, d) = t
    <3>1. Reading(t, buffer', 0, d)
      BY <2>4, <2>5, <2>6 DEF Reading
    <3> QED BY <2>7, <3>1, SameSlice
  <2> QED BY <2>1, <2>3, <2>8
<1>9. /\ Part(0, cursor_location)' = Append(Part(0, cursor_location), k)
      /\ Part(cursor_location, size)' = Part(cursor_location, size)
  BY <1>1, <1>3, <1>4, <1>5, <1>7, <1>8, Parts, PartsAfter
<1>10. Len(Part(0, cursor_location) \o Part(cursor_location, size)) <= BUFFER_SIZE - 1
  BY TextLength, TextFacts
<1>11. mode = 1 /\ key' = k /\ UNCHANGED <<mode, instruction>>
  BY DEF Insert
<1> QED BY <1>3, <1>4, <1>9, <1>10, <1>11 DEF Edited!Type

\* Insert, with a full buffer: the session ends.
LEMMA FullStep ==
  ASSUME TextInv, TextInv', err = 0, NEW k \in Chars, Insert(k), size >= BUFFER_SIZE
  PROVE  Edited!Full
<1>1. UNCHANGED <<text, disk, mode, instruction>> /\ mode = 1 /\ key' = k /\ err' = 1
  BY DEF Insert, insert_key
<1>2. Part(0, cursor_location)' \o Part(cursor_location, size)'
        = Part(0, cursor_location) \o Part(cursor_location, size)
  BY <1>1, SameText
<1>3. Len(Part(0, cursor_location) \o Part(cursor_location, size)) > BUFFER_SIZE - 1
  BY TextLength, TextFacts
<1> QED BY <1>1, <1>2, <1>3 DEF Edited!Full

\* Backspace takes the character before the cursor away.
LEMMA RubOutStep ==
  ASSUME TextInv, TextInv', err = 0, Backspace, ~RubsOutAtStart
  PROVE  Edited!RubOut
<1>1. PICK n, c : n = size /\ c = cursor_location
  OBVIOUS
<1>2. n \in Nat /\ c \in 0 .. n - 1 /\ c \in Nat /\ buffer \in [0 .. n - 1 -> Chars] /\ buffer[n - 1] = NL
  BY <1>1, Parts, TextFacts
<1>3. cursor_location' = c - 1 /\ c - 1 >= 0 /\ disk' = disk /\ err' = 0 /\ delete_key(c - 1)
  <2>1. c # 0
    BY <1>1 DEF Backspace, RubsOutAtStart
  <2>2. cursor_location' = c - 1 /\ c - 1 >= 0
    BY <1>1, <1>2, <2>1 DEF Backspace
  <2> QED BY <1>1, <2>1, <2>2 DEF Backspace
<1>4. PICK d, m : d = c - 1 /\ m = n - 1
  OBVIOUS
<1>5. /\ d \in 0 .. n - 2 /\ d \in Nat /\ m \in Nat /\ d \in 0 .. m /\ m \in d .. m /\ d \in 0 .. d /\ 0 \in 0 .. m
      /\ c \in 0 .. n /\ n \in c .. n /\ m - d = n - c /\ 0 \in 0 .. n /\ d - 0 = d /\ c - 0 = c /\ d + 1 = c
      /\ c # 0
  BY <1>2, <1>3, <1>4
<1>6. /\ size' = m /\ buffer' \in [0 .. m - 1 -> Chars]
      /\ \A q \in 0 .. d - 1 : buffer'[q] = buffer[q]
      /\ \A q \in d .. m - 1 : buffer'[q] = buffer[q + 1]
  <2>1. /\ size' = size - 1 /\ buffer' \in [0 .. size' - 1 -> Chars]
        /\ \A q \in 0 .. d - 1 : buffer'[q] = buffer[q]
        /\ \A q \in d .. size' - 1 : buffer'[q] = buffer[q + 1]
    BY <1>1, <1>2, <1>3, <1>4, <1>5, DeleteFacts
  <2> QED BY <1>1, <1>4, <2>1
<1>7. Slice(buffer', d, m) = Slice(buffer, c, n)
  <2>1. PICK s : s = Slice(buffer, c, n)
    OBVIOUS
  <2>2. s \in Seq(Chars) /\ Len(s) = n - c /\ \A i \in 1 .. n - c : s[i] = buffer[c + i - 1]
    <3>1. Within(buffer, n, c, n)
      BY <1>2, <1>5 DEF Within
    <3>2. Reading(s, buffer, c, n)
      BY <2>1, <3>1, SliceFacts
    <3> QED BY <3>2 DEF Reading
  <2>3. ASSUME NEW i \in 1 .. m - d PROVE s[i] = buffer'[d + i - 1]
    <3>1. d + i - 1 \in d .. m - 1 /\ (d + i - 1) + 1 = c + i - 1 /\ i \in 1 .. n - c
      BY <1>2, <1>5
    <3> QED BY <1>6, <2>2, <3>1
  <2>4. Len(s) = m - d /\ \A i \in 1 .. m - d : s[i] = buffer'[d + i - 1]
    BY <1>5, <2>2, <2>3
  <2>5. Within(buffer', m, d, m)
    BY <1>5, <1>6 DEF Within
  <2>6. Reading(s, buffer', d, m)
    BY <2>2, <2>4 DEF Reading
  <2> QED BY <2>1, <2>5, <2>6, SameSlice
<1>8. Slice(buffer, 0, c) # <<>> /\ Slice(buffer', 0, d) = SubSeq(Slice(buffer, 0, c), 1, Len(Slice(buffer, 0, c)) - 1)
  <2>1. PICK s : s = Slice(buffer, 0, c)
    OBVIOUS
  <2>2. s \in Seq(Chars) /\ Len(s) = c - 0 /\ \A i \in 1 .. c - 0 : s[i] = buffer[0 + i - 1]
    <3>1. Within(buffer, n, 0, c)
      BY <1>2 DEF Within
    <3>2. Reading(s, buffer, 0, c)
      BY <2>1, <3>1, SliceFacts
    <3> QED BY <3>2 DEF Reading
  <2>3. Len(s) = c /\ Len(s) - 1 = d /\ \A i \in 1 .. d : s[i] \in Chars
    <3>1. Len(s) = c /\ Len(s) - 1 = d
      BY <1>4, <1>5, <2>2
    <3>2. \A i \in 1 .. d : i \in 1 .. Len(s)
      BY <1>5, <3>1
    <3> QED BY <2>2, <3>1, <3>2, ElementOfSeq
  <2>4. PICK t : t = SubSeq(s, 1, d)
    OBVIOUS
  <2>5. /\ t \in Seq(Chars) /\ Len(t) = IF 1 <= d THEN d - 1 + 1 ELSE 0
        /\ \A i \in 1 .. d - 1 + 1 : t[i] = s[1 + i - 1]
    BY <1>5, <2>3, <2>4, SubSeqProperties
  <2>6. Len(t) = d - 0
    BY <1>5, <2>5
  <2>7. ASSUME NEW i \in 1 .. d - 0 PROVE t[i] = buffer'[0 + i - 1]
    <3>1. 1 + i - 1 = i /\ i \in 1 .. d - 1 + 1 /\ i \in 1 .. c - 0 /\ 0 + i - 1 \in 0 .. d - 1
      BY <1>5
    <3> QED BY <1>6, <2>2, <2>5, <3>1
  <2>8. Slice(buffer', 0, d) = t
    <3>1. Within(buffer', m, 0, d)
      BY <1>5, <1>6 DEF Within
    <3>2. Reading(t, buffer', 0, d)
      BY <2>5, <2>6, <2>7 DEF Reading
    <3> QED BY <3>1, <3>2, SameSlice
  <2>9. s # <<>>
    BY <1>5, <2>3, EmptySeq
  <2> QED BY <2>1, <2>3, <2>4, <2>8, <2>9
<1>9. /\ Part(0, cursor_location) # <<>>
      /\ Part(0, cursor_location)' = Edited!Front(Part(0, cursor_location))
      /\ Part(cursor_location, size)' = Part(cursor_location, size)
  BY <1>1, <1>3, <1>4, <1>6, <1>7, <1>8, Parts, PartsAfter DEF Edited!Front
<1>10. mode = 1 /\ key' = BS /\ UNCHANGED <<mode, instruction>>
  BY DEF Backspace
<1> QED BY <1>3, <1>9, <1>10 DEF Edited!RubOut

\* x on any character but the last takes that one away; on the last it moves nothing.
LEMMA CutStep ==
  ASSUME TextInv, TextInv', err = 0, DeleteHere
  PROVE  Edited!Cut \/ Edited!Move
<1>1. PICK n, c : n = size /\ c = cursor_location
  OBVIOUS
<1>2. n \in Nat /\ c \in 0 .. n - 1 /\ c \in Nat /\ buffer \in [0 .. n - 1 -> Chars] /\ buffer[n - 1] = NL
  BY <1>1, Parts, TextFacts
<1>3. /\ cursor_location' = c /\ err' = 0 /\ mode = 0 /\ key' = "x"
      /\ UNCHANGED <<disk, mode, instruction>>
  BY <1>1 DEF DeleteHere
<1>4. CASE c = n - 1
  <2>1. UNCHANGED <<text, cursor_location>>
    BY <1>1, <1>4 DEF DeleteHere
  <2> QED BY <1>1, <1>3, <1>4, <2>1, MoveStep
<1>5. CASE c # n - 1
  <2>1. delete_key(c)
    BY <1>1, <1>5 DEF DeleteHere
  <2>2. PICK m : m = n - 1
    OBVIOUS
  <2>3. /\ c \in 0 .. n - 2 /\ m \in Nat /\ c \in 0 .. m /\ m \in c .. m /\ 0 \in 0 .. m /\ c \in 0 .. c
        /\ c \in 0 .. n /\ n \in c .. n /\ 0 \in 0 .. n /\ m - c = (n - c) - 1 /\ n - c > 1 /\ c - 0 = c
    BY <1>2, <1>5, <2>2
  <2>4. /\ size' = m /\ buffer' \in [0 .. m - 1 -> Chars]
        /\ \A q \in 0 .. c - 1 : buffer'[q] = buffer[q]
        /\ \A q \in c .. m - 1 : buffer'[q] = buffer[q + 1]
    <3>1. /\ size' = size - 1 /\ buffer' \in [0 .. size' - 1 -> Chars]
          /\ \A q \in 0 .. c - 1 : buffer'[q] = buffer[q]
          /\ \A q \in c .. size' - 1 : buffer'[q] = buffer[q + 1]
      BY <1>1, <1>2, <2>1, <2>3, DeleteFacts
    <3> QED BY <1>1, <2>2, <3>1
  <2>5. Slice(buffer', 0, c) = Slice(buffer, 0, c)
    <3>1. PICK s : s = Slice(buffer, 0, c)
      OBVIOUS
    <3>2. s \in Seq(Chars) /\ Len(s) = c - 0 /\ \A i \in 1 .. c - 0 : s[i] = buffer[0 + i - 1]
      <4>1. Within(buffer, n, 0, c)
        BY <1>2, <2>3 DEF Within
      <4>2. Reading(s, buffer, 0, c)
        BY <3>1, <4>1, SliceFacts
      <4> QED BY <4>2 DEF Reading
    <3>3. ASSUME NEW i \in 1 .. c - 0 PROVE s[i] = buffer'[0 + i - 1]
      <4>1. 0 + i - 1 \in 0 .. c - 1
        BY <1>2
      <4> QED BY <2>4, <3>2, <4>1
    <3>4. Within(buffer', m, 0, c)
      BY <2>3, <2>4 DEF Within
    <3>5. Reading(s, buffer', 0, c)
      BY <3>2, <3>3 DEF Reading
    <3> QED BY <3>1, <3>4, <3>5, SameSlice
  <2>6. Len(Slice(buffer, c, n)) > 1 /\ Slice(buffer', c, m) = Tail(Slice(buffer, c, n))
    <3>1. PICK s : s = Slice(buffer, c, n)
      OBVIOUS
    <3>2. s \in Seq(Chars) /\ Len(s) = n - c /\ \A i \in 1 .. n - c : s[i] = buffer[c + i - 1]
      <4>1. Within(buffer, n, c, n)
        BY <1>2, <2>3 DEF Within
      <4>2. Reading(s, buffer, c, n)
        BY <3>1, <4>1, SliceFacts
      <4> QED BY <4>2 DEF Reading
    <3>3. s # <<>>
      BY <2>3, <3>2, EmptySeq
    <3>4. PICK t : t = Tail(s)
      OBVIOUS
    <3>5. t \in Seq(Chars) /\ Len(t) = m - c /\ \A i \in 1 .. Len(t) : t[i] = s[i + 1]
      BY <2>3, <3>2, <3>3, <3>4, HeadTailProperties
    <3>6. ASSUME NEW i \in 1 .. m - c PROVE t[i] = buffer'[c + i - 1]
      <4>1. /\ c + i - 1 \in c .. m - 1 /\ i + 1 \in 1 .. n - c
            /\ (c + i - 1) + 1 = c + (i + 1) - 1
        BY <1>2, <2>2, <2>3
      <4> QED BY <2>4, <3>2, <3>5, <4>1
    <3>7. Slice(buffer', c, m) = t
      <4>1. Within(buffer', m, c, m)
        BY <2>3, <2>4 DEF Within
      <4>2. Reading(t, buffer', c, m)
        BY <3>5, <3>6 DEF Reading
      <4> QED BY <4>1, <4>2, SameSlice
    <3> QED BY <2>3, <3>1, <3>2, <3>4, <3>7
  <2>7. /\ Part(0, cursor_location)' = Part(0, cursor_location)
        /\ Len(Part(cursor_location, size)) > 1
        /\ Part(cursor_location, size)' = Tail(Part(cursor_location, size))
    BY <1>1, <1>3, <2>4, <2>5, <2>6, Parts, PartsAfter
  <2> QED BY <1>3, <2>7 DEF Edited!Cut
<1> QED BY <1>4, <1>5

\* :wq writes the text over the beginning of the file.
LEMMA SavedText ==
  ASSUME TextInv, save_file
  PROVE  disk' = Edited!Over(disk, Part(0, cursor_location) \o Part(cursor_location, size))
<1>1. PICK n, old, new : n = size /\ old = disk /\ new = Slice(buffer, 0, n)
  OBVIOUS
<1>2. PICK k : k = Len(old)
  OBVIOUS
<1>3. n \in Nat /\ 0 \in 0 .. n /\ n \in 0 .. n /\ n - 0 = n /\ buffer \in [0 .. n - 1 -> Chars]
  BY <1>1, Parts
<1>4. old \in Seq(Chars \cup {CR}) /\ k \in Nat
  <2>1. old \in Seq(Chars \cup {CR})
    BY <1>1 DEF TextInv, SeqTypes
  <2> QED BY <1>2, <2>1, LenProperties
<1>5. new \in Seq(Chars \cup {CR}) /\ Len(new) = n /\ \A i \in 1 .. n : new[i] = buffer[i - 1]
  <2>1. /\ new \in Seq(Chars) /\ Len(new) = n - 0
        /\ \A i \in 1 .. n - 0 : new[i] = buffer[0 + i - 1]
    <3>1. new = Slice(buffer, 0, n)
      BY <1>1
    <3>2. Within(buffer, n, 0, n)
      BY <1>3 DEF Within
    <3>3. Reading(new, buffer, 0, n)
      BY <3>1, <3>2, SliceFacts
    <3> QED BY <3>3 DEF Reading
  <2>2. \A i \in 1 .. n : 0 + i - 1 = i - 1
    BY <1>3
  <2>3. new \in Seq(Chars \cup {CR})
    BY <2>1, SeqMonotonic
  <2> QED BY <1>3, <2>1, <2>2, <2>3
<1>6. /\ disk' \in Seq(Chars \cup {CR}) /\ Len(disk') = IF k <= n THEN n ELSE k
      /\ \A i \in 1 .. Len(disk') : disk'[i] = IF i <= n THEN buffer[i - 1] ELSE old[i]
  BY <1>1, <1>2, SavedFile
<1>7. PICK rest : rest = SubSeq(old, n + 1, k)
  OBVIOUS
<1>8. /\ rest \in Seq(Chars \cup {CR}) /\ Len(rest) = IF n + 1 <= k THEN k - n ELSE 0
      /\ \A i \in 1 .. k - n : rest[i] = old[n + i]
  <2>1. \A i \in n + 1 .. k : old[i] \in Chars \cup {CR}
    <3>1. \A i \in n + 1 .. k : i \in 1 .. k
      BY <1>3, <1>4
    <3> QED BY <1>2, <1>4, <3>1, ElementOfSeq
  <2>2. /\ rest \in Seq(Chars \cup {CR}) /\ Len(rest) = IF n + 1 <= k THEN k - (n + 1) + 1 ELSE 0
        /\ \A i \in 1 .. k - (n + 1) + 1 : rest[i] = old[n + 1 + i - 1]
    BY <1>3, <1>4, <1>7, <2>1, SubSeqProperties
  <2>3. k - (n + 1) + 1 = k - n /\ \A i \in Nat : n + 1 + i - 1 = n + i
    BY <1>3, <1>4
  <2> QED BY <1>3, <1>4, <2>2, <2>3
<1>9. PICK all : all = new \o rest
  OBVIOUS
<1>10. /\ all \in Seq(Chars \cup {CR}) /\ Len(all) = n + Len(rest)
       /\ \A i \in 1 .. n + Len(rest) : all[i] = IF i <= n THEN new[i] ELSE rest[i - n]
  <2>1. new \in Seq(Chars \cup {CR}) /\ rest \in Seq(Chars \cup {CR}) /\ Len(new) = n
    BY <1>5, <1>8
  <2>2. /\ all \in Seq(Chars \cup {CR}) /\ Len(all) = Len(new) + Len(rest)
        /\ \A i \in 1 .. Len(new) + Len(rest) : all[i] = IF i <= Len(new) THEN new[i] ELSE rest[i - Len(new)]
    BY <1>9, <2>1, ConcatProperties
  <2> QED BY <2>1, <2>2
<1>11. Len(all) = Len(disk')
  BY <1>3, <1>4, <1>6, <1>8, <1>10
<1>12. ASSUME NEW i \in 1 .. Len(disk') PROVE disk'[i] = all[i]
  <2>1. i \in 1 .. n + Len(rest)
    BY <1>10, <1>11, <1>12
  <2>2. CASE i <= n
    <3>1. i \in 1 .. n
      BY <1>3, <2>1, <2>2
    <3>2. disk'[i] = buffer[i - 1]
      BY <1>6, <1>12, <2>2
    <3>3. all[i] = new[i]
      BY <1>10, <2>1, <2>2
    <3> QED BY <1>5, <3>1, <3>2, <3>3
  <2>3. CASE ~(i <= n)
    <3>1. i - n \in 1 .. k - n /\ n + (i - n) = i
      BY <1>3, <1>4, <1>8, <2>1, <2>3
    <3> QED BY <1>6, <1>8, <1>10, <1>12, <2>1, <2>3, <3>1
  <2> QED BY <2>2, <2>3
<1>13. disk' = all
  BY <1>6, <1>10, <1>11, <1>12, SeqEqual
<1>14. disk' = Edited!Over(disk, new)
  BY <1>1, <1>2, <1>5, <1>7, <1>9, <1>13 DEF Edited!Over
<1>15. Part(0, cursor_location) \o Part(cursor_location, size) = new
  BY <1>1, Parts, WholeText
<1> QED BY <1>14, <1>15

LEMMA RunStep ==
  ASSUME TextInv, err = 0, Execute
  PROVE  Edited!Run
<1>1. UNCHANGED <<text, cursor_location, mode, instruction>> /\ mode = 2 /\ key' = NL
  BY DEF Execute, LastLine
<1>2. disk' = IF instruction = <<":", "w", "q">>
              THEN Edited!Over(disk, Part(0, cursor_location) \o Part(cursor_location, size))
              ELSE disk
  BY SavedText DEF Execute
<1>3. (err' = 0) = (instruction \notin {<<":", "w", "q">>, <<":", "q", "!">>})
  BY DEF Execute
<1>4. /\ Part(0, cursor_location)' = Part(0, cursor_location)
      /\ Part(cursor_location, size)' = Part(cursor_location, size)
  BY <1>1, SameParts
<1> QED BY <1>1, <1>2, <1>3, <1>4 DEF Edited!Run

\* The other keys of the last line, and those that change the mode.
LEMMA LineStep ==
  ASSUME err = 0, RubLine \/ \E k \in {"w", "W", "q", "Q", "!"} : AppendLine(k)
  PROVE  Edited!EditLine
<1>1. UNCHANGED <<text, cursor_location, mode, err, disk>> /\ mode = 2
  BY DEF RubLine, AppendLine, LastLine
<1>2. /\ Part(0, cursor_location)' = Part(0, cursor_location)
      /\ Part(cursor_location, size)' = Part(cursor_location, size)
  BY <1>1, SameParts
<1>3. \/ /\ key' = BS
         /\ instruction' = IF instruction = <<>> THEN <<>> ELSE Edited!Front(instruction)
      \/ /\ key' \notin {BS, ESC, NL}
         /\ instruction' = Append(instruction, Edited!Lower(key'))
  <2>1. CASE RubLine
    BY <2>1 DEF RubLine, Front, Edited!Front
  <2>2. ASSUME NEW k \in {"w", "W", "q", "Q", "!"}, AppendLine(k)
        PROVE  key' \notin {BS, ESC, NL} /\ instruction' = Append(instruction, Edited!Lower(key'))
    BY <2>2 DEF AppendLine, BS, ESC, NL, to_lower_case, Edited!Lower
  <2> QED BY <2>1, <2>2
<1> QED BY <1>1, <1>2, <1>3 DEF Edited!EditLine

LEMMA SwitchStep ==
  ASSUME err = 0, StartInsert \/ Colon \/ EndInsert \/ LeaveLine
  PROVE  Edited!Switch
<1>1. UNCHANGED <<text, cursor_location, err, disk>>
  BY DEF StartInsert, Colon, EndInsert, LeaveLine, LastLine
<1>2. /\ Part(0, cursor_location)' = Part(0, cursor_location)
      /\ Part(cursor_location, size)' = Part(cursor_location, size)
  BY <1>1, SameParts
<1>3. \/ mode = 0 /\ key' = "i" /\ mode' = 1 /\ instruction' = instruction
      \/ mode = 0 /\ key' = ":" /\ mode' = 2 /\ instruction' = <<":">>
      \/ mode = 1 /\ key' = ESC /\ mode' = 0 /\ instruction' = instruction
      \/ mode = 2 /\ key' = ESC /\ mode' = 0 /\ instruction' = <<>>
  BY DEF StartInsert, Colon, EndInsert, LeaveLine, LastLine
<1> QED BY <1>1, <1>2, <1>3 DEF Edited!Switch

LEMMA OpenedIsText == myvi_init => Edited!Init
<1> SUFFICES ASSUME myvi_init PROVE Edited!Init
  OBVIOUS
<1>1. TextInv
  BY InitText
<1>2. PICK loaded : loaded = load_file(disk)
  OBVIOUS
<1>3. /\ disk \in Files /\ cursor_location = 0
      /\ size = Len(loaded.chars) /\ buffer = [i \in 0 .. size - 1 |-> loaded.chars[i + 1]]
      /\ err = loaded.err
  BY <1>2 DEF myvi_init
<1>4. PICK k : k = Edited!Kept(disk)
  OBVIOUS
<1>5. /\ loaded.chars \in Seq(Chars)
      /\ err = IF Len(k) < BUFFER_SIZE - 1 THEN 0 ELSE 2
      /\ loaded.chars = IF Len(k) < BUFFER_SIZE - 1 THEN Edited!Ended(k)
                        ELSE SubSeq(k, 1, BUFFER_SIZE - 1)
  BY <1>2, <1>3, <1>4, OpenedText
<1>6. size \in Nat /\ buffer \in [0 .. size - 1 -> Chars] /\ 0 \in 0 .. size /\ size \in 0 .. size /\ 0 \in 0 .. 0
  BY <1>1, Parts
<1>7. Part(0, cursor_location) = <<>>
  <2>1. 0 \in Nat /\ 0 \in 0 .. 0 /\ 0 - 0 = 0
    OBVIOUS
  <2>2. Slice(buffer, 0, 0) \in Seq(Chars) /\ Len(Slice(buffer, 0, 0)) = 0 - 0
    <3>1. Within(buffer, size, 0, 0)
      BY <1>6 DEF Within
    <3>2. Reading(Slice(buffer, 0, 0), buffer, 0, 0)
      BY <3>1, SliceFacts
    <3> QED BY <3>2 DEF Reading
  <2>3. Slice(buffer, 0, 0) = <<>>
    BY <2>1, <2>2, EmptySeq
  <2> QED BY <1>1, <1>3, <2>3, Parts
<1>8. Part(cursor_location, size) = loaded.chars
  <2>1. PICK s : s = loaded.chars
    OBVIOUS
  <2>2. ASSUME NEW i \in 1 .. size - 0 PROVE s[i] = buffer[0 + i - 1]
    <3>1. 0 + i - 1 \in 0 .. size - 1 /\ (0 + i - 1) + 1 = i
      BY <1>6
    <3> QED BY <1>3, <2>1, <3>1
  <2>3. s \in Seq(Chars) /\ Len(s) = size - 0
    BY <1>3, <1>5, <1>6, <2>1
  <2>4. Slice(buffer, 0, size) = s
    <3>1. Within(buffer, size, 0, size)
      BY <1>6 DEF Within
    <3>2. Reading(s, buffer, 0, size)
      BY <2>2, <2>3 DEF Reading
    <3> QED BY <3>1, <3>2, SameSlice
  <2> QED BY <1>1, <1>3, <2>1, <2>4, Parts
<1>9. (err = 0) = (Len(k) < BUFFER_SIZE - 1)
  BY <1>5
<1>10. mode = 0 /\ instruction = <<>>
  BY DEF myvi_init
<1> QED BY <1>3, <1>4, <1>5, <1>7, <1>8, <1>9, <1>10 DEF Edited!Init

LEMMA SessionSteps ==
  ASSUME SeqTypes, [InArrays /\ myvi]_session
  PROVE  [Unbounded \/ Edited!Next]_(Edited!vars)
<1>1. CASE UNCHANGED session
  BY <1>1 DEF session, Edited!vars, Part
<1>2. CASE InArrays /\ myvi /\ ~Unbounded
  <2>1. err = 0 /\ TextInv /\ ~RubsOutAtStart
    BY <1>2 DEF myvi, TextInv, Unbounded
  <2>2. TextInv'
    BY <1>2, <2>1, TextStep
  <2>3. CASE do_command_mode
    <3>1. CASE NextLine \/ PrevLine \/ Left \/ Right \/ NoCommand
      <4>1. /\ UNCHANGED <<text, disk, mode, instruction>> /\ mode = 0 /\ err' = 0
            /\ key' \notin {"i", ":", "x"}
            /\ key' \notin {"h", "j", "k", "l"} => cursor_location' = cursor_location
        BY <2>1, <3>1 DEF NextLine, PrevLine, Left, Right, NoCommand, Goto
      <4>2. Edited!Move
        BY <2>1, <2>2, <4>1, MoveStep
      <4> QED BY <4>2 DEF Edited!Next
    <3>2. CASE DeleteHere
      BY <2>1, <2>2, <3>2, CutStep DEF Edited!Next
    <3>3. CASE Colon \/ StartInsert
      BY <2>1, <3>3, SwitchStep DEF Edited!Next
    <3> QED BY <2>3, <3>1, <3>2, <3>3 DEF do_command_mode
  <2>4. CASE do_insert_mode
    <3>1. CASE EndInsert
      BY <2>1, <3>1, SwitchStep DEF Edited!Next
    <3>2. CASE Backspace
      BY <2>1, <2>2, <3>2, RubOutStep DEF Edited!Next
    <3>3. ASSUME NEW k \in Chars, Insert(k) PROVE Edited!Next
      <4>1. CASE size < BUFFER_SIZE
        BY <2>1, <2>2, <3>3, <4>1, TypeStep DEF Edited!Next
      <4>2. CASE size >= BUFFER_SIZE
        BY <2>1, <2>2, <3>3, <4>2, FullStep DEF Edited!Next
      <4> QED BY <2>1, <4>1, <4>2, TextFacts
    <3> QED BY <2>4, <3>1, <3>2, <3>3 DEF do_insert_mode
  <2>5. CASE do_last_line_mode
    <3>1. CASE LeaveLine
      BY <2>1, <3>1, SwitchStep DEF Edited!Next
    <3>2. CASE Execute
      BY <2>1, <3>2, RunStep DEF Edited!Next
    <3>3. CASE RubLine \/ \E k \in {"w", "W", "q", "Q", "!"} : AppendLine(k)
      BY <2>1, <3>3, LineStep DEF Edited!Next
    <3> QED BY <2>5, <3>1, <3>2, <3>3 DEF do_last_line_mode
  <2> QED BY <1>2, <2>3, <2>4, <2>5 DEF myvi
<1>3. CASE Unbounded
  BY <1>3
<1> QED BY <1>1, <1>2, <1>3

\* The session is one of Text, key for key, until BS at the beginning of the text or a
\* last line that is too long: a character is typed where the cursor is or, with a full
\* buffer, ends the session; BS and x take one character away; no other key changes the
\* text; and the file is written by the line :wq and by nothing else, with the text.
THEOREM SessionEditsText == MyviSpec => TextSpec
<1>1. CarefulInv /\ [MyviNext]_<<session, careful>> => [Unbounded \/ Edited!Next]_(Edited!vars)
  BY HistorySteps, SessionSteps DEF CarefulInv
<1>2. MyviInit => Edited!Init
  BY OpenedIsText DEF MyviInit
<1> QED BY <1>1, <1>2, CarefulInvInit, CarefulInvStep, PTL DEF MyviSpec, TextSpec
=============================================================================
