---------------------------- MODULE ControlPlane ----------------------------
(***************************************************************************)
(* The operators' kill switch: set_mode (admin_panel.py) writes two Redis  *)
(* keys one after the other, and every gateway polls them, one after the   *)
(* other, once a second (sync_with_redis, core/gateway.py).  Nothing makes *)
(* the two writes or the two reads one; operators may work at the same     *)
(* time, and their tool or Redis may fail half way.  The message that      *)
(* set_mode publishes has no subscriber.                                   *)
(***************************************************************************)
EXTENDS Integers

CONSTANTS
    Operator,      \* runs of admin_panel.py
    Announcement,  \* what operators announce: pairs of a mode and a rate
    Rate,          \* shares of traffic let through, ordered as integers
    FullRate,      \* 1.0
    None           \* no value

Mode == {"NORMAL", "FROZEN", "READ_ONLY", "RAMP_UP"}

Setting == [mode : Mode, rate : Rate]

ASSUME ControlAssumption ==
    /\ Rate \subseteq Int
    /\ FullRate \in Rate
    /\ Announcement \subseteq Setting
    /\ None \notin Mode
    /\ None \notin Rate
    /\ None \notin Setting

VARIABLES
    control,   \* sentinel:mode and sentinel:rate_limit
    unsent,    \* per operator, the announcement whose second SET is missing
    recovery,  \* RecoveryState of the gateway
    gotMode,   \* sync_with_redis: mode_val between its two GETs
    polling,   \* sync_with_redis: the GET that comes next
    seen,      \* history: has a whole poll seen what the keys hold now?
    latest,    \* history: the last announcement begun
    torn,      \* history: announcements overlapped or one was cut off
    changes,   \* bound: calls of set_mode that are left
    redisErrors \* bound: Redis commands of this part that may still raise

sync         == <<recovery, gotMode, polling>>
controlVars  == <<control, unsent, sync, seen, latest, torn, changes, redisErrors>>

ControlTypeOK ==
    /\ control \in [mode : Mode \cup {None}, rate : Rate \cup {None}]
    /\ unsent \in [Operator -> Setting \cup {None}]
    /\ recovery \in Setting
    /\ gotMode \in Mode \cup {None}
    /\ polling \in {"mode", "rate"}
    /\ seen \in {"no", "half", "yes"}
    /\ latest \in Setting \cup {None}
    /\ torn \in BOOLEAN
    /\ changes \in Nat
    /\ redisErrors \in Nat

\* RecoveryState().
FreshState == [mode |-> "NORMAL", rate |-> FullRate]

\* maxChanges, maxRedisErrors: the bounds.
ControlInit(maxChanges, maxRedisErrors) ==
    /\ control = [mode |-> None, rate |-> None]
    /\ unsent = [o \in Operator |-> None]
    /\ recovery = FreshState
    /\ gotMode = None /\ polling = "mode"
    /\ seen = "no" /\ latest = None /\ torn = FALSE
    /\ changes = maxChanges /\ redisErrors = maxRedisErrors

----------------------------------------------------------------------------
(* set_mode.                                                               *)

\* r.set("sentinel:mode", mode).
SetMode(o) ==
    /\ unsent[o] = None
    /\ changes > 0
    /\ \E a \in Announcement :
          /\ control' = [control EXCEPT !.mode = a.mode]
          /\ unsent' = [unsent EXCEPT ![o] = a]
          /\ latest' = a
    /\ torn' = (torn \/ \E p \in Operator : unsent[p] # None)
    /\ seen' = "no"
    /\ changes' = changes - 1
    /\ UNCHANGED <<sync, redisErrors>>

\* r.set("sentinel:rate_limit", str(rate)).
SetRate(o) ==
    /\ unsent[o] # None
    /\ control' = [control EXCEPT !.rate = unsent[o].rate]
    /\ unsent' = [unsent EXCEPT ![o] = None]
    /\ seen' = "no"
    /\ UNCHANGED <<sync, latest, torn, changes, redisErrors>>

\* The second SET raises: the tool ends with the mode written alone.
SetRateFails(o) ==
    /\ unsent[o] # None
    /\ redisErrors > 0
    /\ redisErrors' = redisErrors - 1
    /\ unsent' = [unsent EXCEPT ![o] = None]
    /\ torn' = TRUE
    /\ UNCHANGED <<control, sync, seen, latest, changes>>

----------------------------------------------------------------------------
(* sync_with_redis.                                                        *)

PollMode ==
    /\ polling = "mode"
    /\ polling' = "rate"
    /\ gotMode' = control.mode
    /\ seen' = IF seen = "no" THEN "half" ELSE seen
    /\ UNCHANGED <<control, unsent, recovery, latest, torn, changes, redisErrors>>

Or(value, otherwise) == IF value # None THEN value ELSE otherwise

\* (mutant) the rate is looked at only while ramping up
PollRate_RampUpOnly ==
    /\ polling = "rate"
    /\ polling' = "mode"
    /\ gotMode' = None
    /\ recovery' = [mode |-> Or(gotMode, recovery.mode),
                    rate |-> IF recovery.mode = "RAMP_UP"
                             THEN Or(control.rate, recovery.rate) ELSE recovery.rate]
    /\ seen' = IF seen = "half" THEN "yes" ELSE seen
    /\ UNCHANGED <<control, unsent, latest, torn, changes, redisErrors>>

\* The second GET returns, and both values are applied.
PollRate ==
    /\ polling = "rate"
    /\ polling' = "mode"
    /\ gotMode' = None
    /\ recovery' = [mode |-> Or(gotMode, recovery.mode),
                    rate |-> Or(control.rate, recovery.rate)]
    /\ seen' = IF seen = "half" THEN "yes" ELSE seen
    /\ UNCHANGED <<control, unsent, latest, torn, changes, redisErrors>>

\* (mutant) the exception ends the task
PollFails_Ends ==
    /\ redisErrors > 0
    /\ redisErrors' = 0
    /\ polling' = "ended"
    /\ gotMode' = None
    /\ seen' = "no"
    /\ UNCHANGED <<control, unsent, recovery, latest, torn, changes>>

\* A GET raises: nothing is applied, and the loop goes on.
PollFails ==
    /\ redisErrors > 0
    /\ redisErrors' = redisErrors - 1
    /\ polling' = "mode"
    /\ gotMode' = None
    /\ seen' = IF seen = "half" THEN "no" ELSE seen
    /\ UNCHANGED <<control, unsent, recovery, latest, torn, changes>>

\* A gateway that starts knows nothing of what was announced before.
Reboot ==
    /\ recovery' = FreshState
    /\ polling' = "mode" /\ gotMode' = None
    /\ seen' = "no"
    /\ UNCHANGED <<control, unsent, latest, torn, changes, redisErrors>>

Poll == PollMode \/ PollRate

ControlNext ==
    \/ \E o \in Operator : SetMode(o) \/ SetRate(o) \/ SetRateFails(o)
    \/ Poll \/ PollFails

----------------------------------------------------------------------------
(* Properties.                                                             *)

\* What operators announce one after the other is what the gateway runs
\* with, mode and rate together, once one whole poll lies after it.
OperatorsObeyed ==
    seen = "yes" /\ ~torn /\ latest # None /\ (\A o \in Operator : unsent[o] = None)
        => recovery = latest

\* A setting that stays in Redis arrives at the gateway and stays, through
\* failing polls and restarts.
SettingArrives ==
    \A a \in Announcement :
        <>[](control = a) => <>[](recovery = a)
=============================================================================
