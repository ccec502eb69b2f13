----------------------------- MODULE LegacyFleet ----------------------------
(***************************************************************************)
(* DeadAgentDetector of logorrhythm/legacy/heartbeat.py, over the          *)
(* monotonic clock it reads.  Agents send a heartbeat in every window of   *)
(* Interval ticks; it may be lost, or come at any tick of the window.      *)
(* Agents fall silent and come back.                                       *)
(***************************************************************************)
EXTENDS Integers

CONSTANTS Members,
          Interval, GraceMisses,  \* HeartbeatConfig
          MaxTime                 \* bound: ticks

ASSUME FleetAssumption == Interval \in Nat \ {0} /\ GraceMisses \in Nat

VARIABLES clock,
          lastSeen,  \* DeadAgentDetector._last_seen
          beaten,    \* history: the agents heard in this window
          missed     \* history: how many whole windows each was not heard

fleetVars == <<clock, lastSeen, beaten, missed>>

FleetInit == clock = 0 /\ lastSeen = <<>> /\ beaten = {} /\ missed = [a \in Members |-> 0]

Tick ==
  /\ clock < MaxTime /\ clock' = clock + 1
  /\ IF clock' % Interval = 0
     THEN /\ missed' = [a \in Members |-> IF a \in beaten THEN 0 ELSE missed[a] + 1]
          /\ beaten' = {}
     ELSE UNCHANGED <<missed, beaten>>
  /\ UNCHANGED lastSeen

Put(f, k, v) == [x \in DOMAIN f \cup {k} |-> IF x = k THEN v ELSE f[x]]

Heartbeat(a) ==
  /\ a \notin beaten
  /\ beaten' = beaten \cup {a}
  /\ missed' = [missed EXCEPT ![a] = 0]
  /\ lastSeen' = Put(lastSeen, a, clock)
  /\ UNCHANGED clock

FleetNext == Tick \/ \E a \in Members : Heartbeat(a)

FleetSpec == FleetInit /\ [][FleetNext]_fleetVars
-----------------------------------------------------------------------------
\* Mutant: one window fewer.
SuspectedEarly(a) == a \notin DOMAIN lastSeen \/ clock - lastSeen[a] > Interval * GraceMisses

IsSuspectedDead(a) ==
  a \notin DOMAIN lastSeen \/ clock - lastSeen[a] > Interval * (GraceMisses + 1)

\* heartbeat.py:16, "only after N consecutive missed heartbeat windows", of an
\* agent that was heard once; and it is suspected when it missed one more.
DeadAfterMisses ==
  \A a \in DOMAIN lastSeen :
    /\ IsSuspectedDead(a) => missed[a] >= GraceMisses
    /\ missed[a] > GraceMisses => IsSuspectedDead(a)
=============================================================================
