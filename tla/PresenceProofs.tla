---------------------------- MODULE PresenceProofs ----------------------------
(***************************************************************************)
(* The promise of Presence holds for any number of clients.                *)
(***************************************************************************)
EXTENDS Presence, TLAPS

Inv == PresenceTyped /\ Agreement

LEMMA InvInit == PresenceInit => Inv
  BY DEF PresenceInit, Inv, PresenceTyped, Agreement, Present

(* One step of one client, or of the network.                              *)
LEMMA InvStep == Inv /\ [PresenceNext]_presenceVars => Inv'
<1> SUFFICES ASSUME Inv, [PresenceNext]_presenceVars PROVE Inv'
  OBVIOUS
<1> USE DEF Inv, PresenceTyped, Agreement, Present
<1>1. ASSUME NEW c \in Clients, TurnAway(c) PROVE Inv'
  BY <1>1 DEF TurnAway, Move
<1>2. ASSUME NEW c \in Clients, Enter(c) PROVE Inv'
  <2>1. PresenceTyped'
    BY <1>2 DEF Enter, Move
  <2>2. Agreement'
    BY <1>2 DEF Enter, Move
  <2> QED BY <2>1, <2>2
<1>3. ASSUME NEW c \in Clients, Deafen(c) PROVE Inv'
  BY <1>3 DEF Deafen
<1>4. ASSUME NEW d \in Clients, Appear(d) PROVE Inv'
  <2>1. PICK slow \in SUBSET Audience(d) :
          /\ view' = [c \in Clients |-> IF c \in Audience(d) \ slow THEN view[c] \cup {d} ELSE view[c]]
          /\ missed' = missed \cup slow
    BY <1>4 DEF Appear, Tell
  <2>2. PresenceTyped'
    BY <1>4, <2>1 DEF Appear, Move, Audience
  <2>3. Agreement'
    BY <1>4, <2>1 DEF Appear, Move, Audience
  <2> QED BY <2>2, <2>3
<1>5. ASSUME NEW d \in Clients, Exit(d) PROVE Inv'
  BY <1>5 DEF Exit, Move
<1>6. ASSUME NEW d \in Clients, Vanish(d) PROVE Inv'
  <2>1. PICK slow \in SUBSET Audience(d) :
          /\ view' = [c \in Clients |-> IF c \in Audience(d) \ slow THEN view[c] \ {d} ELSE view[c]]
          /\ missed' = missed \cup slow
    BY <1>6 DEF Vanish, Tell
  <2>2. PresenceTyped'
    BY <1>6, <2>1 DEF Vanish, Move, Audience
  <2>3. Agreement'
    BY <1>6, <2>1 DEF Vanish, Move, Audience
  <2> QED BY <2>2, <2>3
<1>7. CASE Overflow
  BY <1>7 DEF Overflow
<1>8. CASE UNCHANGED presenceVars
  BY <1>8 DEF presenceVars
<1> QED
  BY <1>1, <1>2, <1>3, <1>4, <1>5, <1>6, <1>7, <1>8 DEF PresenceNext

(* Once a client has read what is under way to it, it lists exactly those   *)
(* who have been announced and not reported gone, up to those who are on    *)
(* their way in or out: the promise the connection tasks implement.         *)
THEOREM AgreementCorrect == PresenceSpec => []Agreement
<1>1. PresenceInit => Inv
  BY InvInit
<1>2. Inv /\ [PresenceNext]_presenceVars => Inv'
  BY InvStep
<1>3. Inv => Agreement
  BY DEF Inv
<1> QED
  BY <1>1, <1>2, <1>3, PTL DEF PresenceSpec

==============================================================================
