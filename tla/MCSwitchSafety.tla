---------------------------- MODULE MCSwitchSafety ----------------------------
(***************************************************************************)
(* SwitchMonitoring with two operators, the scanner and two threads of one *)
(* host, bounded to the states that bear on the pool of monitors and those *)
(* that bear on the records of the registry.                               *)
(***************************************************************************)
EXTENDS MCSwitchMonitoring

CONSTANTS o1, o2

\* bound: saves succeed, the host answers every poll, and no switch is muted or unmanaged.
Pool ==
  /\ ~dirty
  /\ \A h \in Hosts : reach[h] = "snmp"
  /\ \A n \in Names : switches[n] # NoSwitch =>
       switches[n].mute = "off" /\ ~switches[n].unmanaged /\ ~switches[n].isDown
       /\ switches[n].snmpOk /\ switches[n].failures = 0
  /\ \A t \in Threads : hot[t] = {} /\ newFailures[t] = 0 /\ kind[t] = "down"
       /\ orphan[t] \in {NoSwitch, Fresh(HostOf(t))}
  /\ \A n \in Names : told[n] = "none" /\ streak[n] = 0

\* bound: nothing is discovered, there is one operator and one thread for a host, and a
\* switch is not muted and unmanaged at the same time.
Records ==
  /\ ipList = {}
  /\ deleting[o2] = NoName /\ stopping[o2] = NoMonitor
  /\ \A h \in Hosts : pc[<<h, 2>>] = "none"
  /\ \A n \in Names : switches[n] # NoSwitch =>
       switches[n].mute = "off" \/ ~switches[n].unmanaged

PoolOrRecords == Pool \/ Records
===============================================================================
