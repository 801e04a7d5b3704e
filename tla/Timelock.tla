------------------------------ MODULE Timelock ------------------------------
(***************************************************************************)
(* What a timelock promises: a change of the configuration is announced    *)
(* under a new number, takes effect at most once, as announced and not     *)
(* before its delay has passed, and not after it was withdrawn.  Nothing   *)
(* else changes the configuration.                                         *)
(***************************************************************************)
EXTENDS Integers

CONSTANT Delay      \* time between announcement and effect

VARIABLES
    time,           \* the clock
    setting,        \* the configuration, a function
    announced,      \* open announcements: [id, key, value, at]
    lastId          \* number of the latest announcement

tlVars == <<time, setting, announced, lastId>>

TLInit == announced = {} /\ lastId = 0

Announce ==
    /\ lastId' = lastId + 1
    /\ \E a \in announced' :
          /\ announced' = announced \cup {a}
          /\ a.id = lastId'
          /\ a.at = time
    /\ UNCHANGED <<time, setting>>

WithdrawAnnouncement ==
    /\ \E a \in announced : announced' = announced \ {a}
    /\ UNCHANGED <<time, setting, lastId>>

TakeEffect ==
    /\ \E a \in announced :
          /\ time >= a.at + Delay
          /\ announced' = announced \ {a}
          /\ setting' = [k \in DOMAIN setting |->
                            IF k = a.key THEN a.value ELSE setting[k]]
    /\ UNCHANGED <<time, lastId>>

Elapse ==
    /\ time' > time
    /\ UNCHANGED <<setting, announced, lastId>>

TLNext == Announce \/ WithdrawAnnouncement \/ TakeEffect \/ Elapse

TLSpec == TLInit /\ [][TLNext]_tlVars

=============================================================================
