-------------------------- MODULE ControlPlaneProofs --------------------------
(***************************************************************************)
(* OperatorsObeyed is kept by every step of the control plane and by a     *)
(* restart of the gateway, for any operators, announcements and rates.     *)
(* GatewayProofs draws the conclusion for the specification.               *)
(***************************************************************************)
EXTENDS ControlPlane, TLAPS

ControlStep == ControlNext \/ Reboot

\* Nobody is half way through an announcement.
Settled == \A o \in Operator : unsent[o] = None

\* One announcement is under way at most, and it is the last one begun.
OneAtATime ==
    /\ \A o, p \in Operator : unsent[o] # None /\ unsent[p] # None => o = p
    /\ \A o \in Operator : unsent[o] # None => unsent[o] = latest

\* The keys hold the last announcement, the rate once it is written.
KeysHold ==
    latest # None =>
        /\ control.mode = latest.mode
        /\ Settled => control.rate = latest.rate

\* What a poll under way has read is still what the key holds.
ReadHolds == seen # "no" /\ polling = "rate" => gotMode = control.mode

HalfIsPolling == seen = "half" => polling = "rate"

ControlInv ==
    /\ ControlTypeOK
    /\ HalfIsPolling
    /\ ReadHolds
    /\ ~torn => OneAtATime /\ KeysHold
    /\ OperatorsObeyed

----------------------------------------------------------------------------

\* A gateway starts with nothing seen and nobody announcing.
LEMMA ControlInitInv ==
    ASSUME NEW m \in Nat, NEW e \in Nat, ControlInit(m, e)
    PROVE  ControlInv
BY ControlAssumption
DEF ControlInit, ControlInv, ControlTypeOK, FreshState, Setting, Mode, HalfIsPolling,
    ReadHolds, OneAtATime, KeysHold, OperatorsObeyed

\* Values that are missing in Redis are never taken over.
LEMMA ControlTypeStep == ControlTypeOK /\ [ControlStep]_controlVars => ControlTypeOK'
<1> SUFFICES ASSUME ControlTypeOK, [ControlStep]_controlVars PROVE ControlTypeOK'
  OBVIOUS
<1> USE ControlAssumption DEF ControlTypeOK, sync
<1>1. ASSUME NEW o \in Operator, SetMode(o) PROVE ControlTypeOK'
  <2>1. PICK a \in Announcement :
            /\ control' = [control EXCEPT !.mode = a.mode]
            /\ unsent' = [unsent EXCEPT ![o] = a]
            /\ latest' = a
    BY <1>1 DEF SetMode
  <2>2. a \in Setting /\ a.mode \in Mode
    BY DEF Setting
  <2> QED BY <1>1, <2>1, <2>2 DEF SetMode
<1>2. ASSUME NEW o \in Operator, SetRate(o) PROVE ControlTypeOK'
  <2>1. unsent[o].rate \in Rate
    BY <1>2 DEF SetRate, Setting
  <2> QED BY <1>2, <2>1 DEF SetRate
<1>3. ASSUME NEW o \in Operator, SetRateFails(o) PROVE ControlTypeOK'
  BY <1>3 DEF SetRateFails
<1>4. CASE PollMode
  BY <1>4 DEF PollMode
<1>5. CASE PollRate
  <2>1. recovery' \in Setting
    BY <1>5 DEF PollRate, Or, Setting
  <2> QED BY <1>5, <2>1 DEF PollRate
<1>6. CASE PollFails
  BY <1>6 DEF PollFails
<1>7. CASE Reboot
  BY <1>7 DEF Reboot, FreshState, Setting, Mode
<1>8. CASE UNCHANGED controlVars
  BY <1>8 DEF controlVars
<1> QED BY <1>1, <1>2, <1>3, <1>4, <1>5, <1>6, <1>7, <1>8 DEF ControlStep, ControlNext, Poll

\* An announcement that nobody has cut off: the writers' side of the invariant.
LEMMA WritersStep ==
    ControlInv /\ [ControlStep]_controlVars => (~torn => OneAtATime /\ KeysHold)'
<1> SUFFICES ASSUME ControlInv, [ControlStep]_controlVars, ~torn'
             PROVE  OneAtATime' /\ KeysHold'
  OBVIOUS
<1> USE ControlAssumption DEF ControlInv, ControlTypeOK, OneAtATime, KeysHold, Settled
<1>1. ASSUME NEW o \in Operator, SetMode(o) PROVE OneAtATime' /\ KeysHold'
  <2>1. PICK a \in Announcement :
            /\ control' = [control EXCEPT !.mode = a.mode]
            /\ unsent' = [unsent EXCEPT ![o] = a]
            /\ latest' = a
    BY <1>1 DEF SetMode
  <2>2. \A p \in Operator : unsent[p] = None
    BY <1>1 DEF SetMode
  <2>3. a # None /\ control'.mode = a.mode
    BY <2>1
  <2>4. unsent'[o] = a /\ \A p \in Operator : p # o => unsent'[p] = None
    BY <2>1, <2>2
  <2> QED BY <2>1, <2>3, <2>4
<1>2. ASSUME NEW o \in Operator, SetRate(o) PROVE OneAtATime' /\ KeysHold'
  <2>1. ~torn /\ latest' = latest /\ unsent[o] = latest /\ unsent[o] # None
    BY <1>2 DEF SetRate
  <2>2. control'.mode = control.mode /\ control'.rate = latest.rate
    BY <1>2, <2>1 DEF SetRate
  <2>3. \A p \in Operator : unsent'[p] # None => unsent'[p] = unsent[p]
    BY <1>2 DEF SetRate
  <2> QED BY <2>1, <2>2, <2>3
<1>3. ASSUME NEW o \in Operator, SetRateFails(o) PROVE FALSE
  BY <1>3 DEF SetRateFails
<1>4. CASE UNCHANGED <<control, unsent, latest, torn>>
  BY <1>4
<1> QED
  BY <1>1, <1>2, <1>3, <1>4
  DEF ControlStep, ControlNext, Poll, PollMode, PollRate, PollFails, Reboot, controlVars

\* The gateway's side: what has been read, and what is applied.
LEMMA ReaderStep ==
    ControlInv /\ [ControlStep]_controlVars
        => HalfIsPolling' /\ ReadHolds' /\ OperatorsObeyed'
<1> SUFFICES ASSUME ControlInv, [ControlStep]_controlVars
             PROVE  HalfIsPolling' /\ ReadHolds' /\ OperatorsObeyed'
  OBVIOUS
<1> USE ControlAssumption DEF ControlInv, HalfIsPolling, ReadHolds, OperatorsObeyed
<1>1. CASE seen' = "no"
  BY <1>1
<1>2. CASE PollMode
  BY <1>2 DEF PollMode, ControlTypeOK
<1>3. CASE PollRate
  <2>1. ASSUME seen' = "yes", ~torn', latest' # None, \A o \in Operator : unsent'[o] = None
        PROVE  recovery' = latest'
    <3>1. /\ ~torn /\ latest # None /\ Settled /\ latest' = latest
          /\ seen # "no" /\ polling = "rate"
      BY <1>3, <2>1 DEF PollRate, Settled, ControlTypeOK
    <3>2. gotMode = latest.mode /\ control.rate = latest.rate
      BY <3>1 DEF KeysHold
    <3>3. latest \in Setting /\ latest.mode # None /\ latest.rate # None
      BY <3>1 DEF ControlTypeOK, Setting
    <3>4. recovery' = [mode |-> latest.mode, rate |-> latest.rate]
      BY <1>3, <3>2, <3>3 DEF PollRate, Or
    <3> QED BY <3>1, <3>3, <3>4 DEF Setting
  <2>2. polling' = "mode" /\ (seen' = "half" => FALSE)
    BY <1>3 DEF PollRate
  <2> QED BY <2>1, <2>2
<1>4. CASE PollFails
  BY <1>4 DEF PollFails
<1>5. ASSUME NEW o \in Operator, SetRateFails(o)
      PROVE HalfIsPolling' /\ ReadHolds' /\ OperatorsObeyed'
  BY <1>5 DEF SetRateFails, sync
<1>6. CASE UNCHANGED controlVars
  BY <1>6 DEF controlVars, sync
<1> QED
  BY <1>1, <1>2, <1>3, <1>4, <1>5, <1>6
  DEF ControlStep, ControlNext, Poll, SetMode, SetRate, Reboot

\* A poll that is whole sees one announcement, mode and rate, when operators
\* announce one after the other (admin_panel.py:12-20, gateway.py:50-75).
THEOREM ControlInvStep == ControlInv /\ [ControlStep]_controlVars => ControlInv'
BY ControlTypeStep, WritersStep, ReaderStep DEF ControlInv
=============================================================================
