------------------------ MODULE SwitchMonitoringProofs ------------------------
(***************************************************************************)
(* What TLAPS proves of SwitchMonitoring, for every set of hosts, names,   *)
(* threads and operators and every threshold; what a theorem needs besides *)
(* is among its hypotheses.                                                *)
(***************************************************************************)
EXTENDS SwitchMonitoring, TLAPS

USE ConstantsAssumption, NullAssumption

LEMMA FreshType == \A h \in Hosts : Fresh(h) \in SwitchState
  BY DEF Fresh, SwitchState, MuteStates

LEMMA BumpType == \A f \in 0 .. MaxFailures : Bump(f) \in 0 .. MaxFailures
  BY DEF Bump

LEMMA EntryUpdate ==
  ASSUME NEW s \in SwitchState
  PROVE  /\ s # NoSwitch
         /\ \A m \in MuteStates : [s EXCEPT !.mute = m] \in SwitchState
         /\ \A b \in BOOLEAN : [s EXCEPT !.unmanaged = b] \in SwitchState
         /\ \A b \in BOOLEAN : [s EXCEPT !.isDown = b] \in SwitchState
         /\ \A b \in BOOLEAN : [s EXCEPT !.snmpOk = b] \in SwitchState
         /\ \A f \in 0 .. MaxFailures : [s EXCEPT !.failures = f] \in SwitchState
<1>1. s # NoSwitch
  OBVIOUS
<1>2. \A m \in MuteStates : [s EXCEPT !.mute = m] \in SwitchState
  BY DEF SwitchState
<1>3. \A b \in BOOLEAN : [s EXCEPT !.unmanaged = b] \in SwitchState
  BY DEF SwitchState
<1>4. \A b \in BOOLEAN : [s EXCEPT !.isDown = b] \in SwitchState
  BY DEF SwitchState
<1>5. \A b \in BOOLEAN : [s EXCEPT !.snmpOk = b] \in SwitchState
  BY DEF SwitchState
<1>6. \A f \in 0 .. MaxFailures : [s EXCEPT !.failures = f] \in SwitchState
  BY DEF SwitchState
<1>7. QED
  BY <1>1, <1>2, <1>3, <1>4, <1>5, <1>6

LEMMA ThreadHost == \A t \in Threads : HostOf(t) \in Hosts
  BY DEF Threads, HostOf

LEMMA TypeInit == Init => TypeOK
<1> SUFFICES ASSUME Init PROVE TypeOK
  OBVIOUS
<1>1. monName \in [Threads -> Names]
  BY ThreadHost DEF Init
<1>a. /\ deleting \in [Operators -> Names \union {NoName}]
      /\ stopping \in [Operators -> Threads \union {NoMonitor}]
      /\ hostIp \in [Operators -> Hosts \union {NoHost}]
      /\ beside \subseteq Threads
  BY DEF Init
<1>2. /\ newFailures \in [Threads -> 0 .. MaxFailures]
      /\ streak \in [Names -> 0 .. MaxFailures]
  BY DEF Init
<1>3. kind \in [Threads -> Kinds] /\ hot \in [Threads -> SUBSET Kinds]
  BY DEF Init, Kinds
<1>4. /\ pc \in [Threads -> {"none", "idle", "probe", "okCheck", "fail", "alert",
                             "mail"}]
      /\ stopped \in [Threads -> BOOLEAN]
      /\ orphan \in [Threads -> SwitchState \union {NoSwitch}]
  BY DEF Init
<1>5. QED
  BY <1>1, <1>a, <1>2, <1>3, <1>4 DEF Init, TypeOK

LEMMA ManagerAddType ==
  ASSUME TypeOK, NEW h \in Hosts, NEW n \in Names, ManagerAdd(h, n)
  PROVE  /\ switches' \in [Names -> SwitchState \union {NoSwitch}]
         /\ disk' \in [Names -> SwitchState \union {NoSwitch}]
         /\ dirty' \in BOOLEAN
         /\ monitors' \in [Hosts -> Threads \union {NoMonitor}]
         /\ pc' \in [Threads -> {"none", "idle", "probe", "okCheck", "fail",
                                "alert", "mail"}]
         /\ monName' \in [Threads -> Names]
         /\ stopped' \in [Threads -> BOOLEAN]
         /\ hot' \in [Threads -> SUBSET Kinds]
         /\ streak' \in [Names -> 0 .. MaxFailures]
         /\ told' \in [Names -> Kinds \union {"none"}]
         /\ beside' \subseteq Threads
         /\ UNCHANGED <<newFailures, orphan, kind>>
<1>1. CASE monitors[h] # NoMonitor
  BY <1>1 DEF ManagerAdd, StartMonitor, TypeOK, threadVars, ghostVars
<1>2. CASE monitors[h] = NoMonitor
  <2>1. PICK i \in 1 .. MaxSlots :
          /\ RegisterSwitch(n, h)
          /\ monitors' = [monitors EXCEPT ![h] = <<h, i>>]
          /\ pc' = [pc EXCEPT ![<<h, i>>] = "idle"]
          /\ monName' = [monName EXCEPT ![<<h, i>>] = n]
          /\ stopped' = [stopped EXCEPT ![<<h, i>>] = FALSE]
          /\ hot' = [hot EXCEPT ![<<h, i>>] = {}]
          /\ beside' \subseteq beside \union {<<h, i>>}
          /\ UNCHANGED <<newFailures, orphan, kind>>
    BY <1>2 DEF ManagerAdd, StartMonitor
  <2>2. <<h, i>> \in Threads
    BY DEF Threads
  <2>3. /\ switches' \in [Names -> SwitchState \union {NoSwitch}]
        /\ streak' \in [Names -> 0 .. MaxFailures]
        /\ told' \in [Names -> Kinds \union {"none"}]
    <3>1. CASE switches[n] = NoSwitch
      <4>1. /\ switches' = [switches EXCEPT ![n] = Fresh(h)]
            /\ streak' = [streak EXCEPT ![n] = 0]
            /\ told' = [told EXCEPT ![n] = "none"]
        BY <2>1, <3>1 DEF RegisterSwitch
      <4>2. 0 \in 0 .. MaxFailures /\ Fresh(h) \in SwitchState
        BY FreshType, ConstantsAssumption
      <4>3. QED
        BY <4>1, <4>2 DEF TypeOK
    <3>2. CASE switches[n] # NoSwitch
      BY <2>1, <3>2 DEF RegisterSwitch, TypeOK, ghostVars
    <3>3. QED
      BY <3>1, <3>2
  <2>4. disk' \in [Names -> SwitchState \union {NoSwitch}] /\ dirty' \in BOOLEAN
    BY <2>1, <2>3 DEF RegisterSwitch, MaySave, Save, NoSave, TypeOK
  <2>5. QED
    BY <2>1, <2>2, <2>3, <2>4 DEF TypeOK
<1>3. QED
  BY <1>1, <1>2

LEMMA UpdateType ==
  ASSUME TypeOK, NEW n \in Names, NEW r, UpdateSwitch(n, r),
         switches[n] # NoSwitch => r \in SwitchState
  PROVE  /\ switches' \in [Names -> SwitchState \union {NoSwitch}]
         /\ disk' \in [Names -> SwitchState \union {NoSwitch}]
         /\ dirty' \in BOOLEAN
<1>1. switches' \in [Names -> SwitchState \union {NoSwitch}]
  BY DEF UpdateSwitch, TypeOK
<1>2. QED
  BY <1>1 DEF UpdateSwitch, Save, NoSave, TypeOK

LEMMA TypeRestart == TypeOK /\ Restart => TypeOK'
<1> SUFFICES ASSUME TypeOK, Restart PROVE TypeOK'
  OBVIOUS
<1>1. PICK seed \in [Hosts -> Names \union {NoName}] : Boot(seed)
  BY DEF Restart
<1> USE DEF TypeOK
<1>2. switches' \in [Names -> SwitchState \union {NoSwitch}]
  BY <1>1, FreshType DEF Boot
<1>3. /\ disk' = disk \/ disk' = switches'
      /\ dirty' \in {TRUE, FALSE}
  BY <1>1 DEF Boot, Save
<1>4. disk' \in [Names -> SwitchState \union {NoSwitch}] /\ dirty' \in BOOLEAN
  BY <1>2, <1>3
<1>5. monitors' \in [Hosts -> Threads \union {NoMonitor}]
  BY <1>1 DEF Boot, Threads
<1>6. monName' \in [Threads -> Names]
  BY <1>1, ThreadHost DEF Boot, Seeded
<1>7. /\ pc' \in [Threads -> {"none", "idle", "probe", "okCheck", "fail",
                              "alert", "mail"}]
      /\ stopped' \in [Threads -> BOOLEAN]
      /\ newFailures' \in [Threads -> 0 .. MaxFailures]
      /\ orphan' \in [Threads -> SwitchState \union {NoSwitch}]
      /\ kind' \in [Threads -> Kinds]
      /\ hot' \in [Threads -> SUBSET Kinds]
  BY <1>1 DEF Boot, Kinds
<1>8. /\ deleting' \in [Operators -> Names \union {NoName}]
      /\ stopping' \in [Operators -> Threads \union {NoMonitor}]
      /\ hostIp' \in [Operators -> Hosts \union {NoHost}]
      /\ beside' \subseteq Threads
      /\ streak' \in [Names -> 0 .. MaxFailures]
      /\ told' \in [Names -> Kinds \union {"none"}]
      /\ UNCHANGED <<manual, ipList, reach>>
  BY <1>1 DEF Boot
<1>9. QED
  BY <1>2, <1>4, <1>5, <1>6, <1>7, <1>8

LEMMA ManagerPopType ==
  ASSUME TypeOK, NEW o \in Operators, NEW h \in Hosts, ManagerPop(o, h)
  PROVE  /\ monitors' \in [Hosts -> Threads \union {NoMonitor}]
         /\ stopping' \in [Operators -> Threads \union {NoMonitor}]
  BY DEF ManagerPop, TypeOK

LEMMA TypeStep == TypeOK /\ [Next]_vars => TypeOK'
<1> SUFFICES ASSUME TypeOK, [Next]_vars PROVE TypeOK'
  OBVIOUS
<1> USE DEF TypeOK, threadVars, requestVars, ghostVars
<1>1. ASSUME NEW t \in Threads, Exit(t) PROVE TypeOK'
  BY <1>1, ThreadHost DEF Exit, Goto
<1>2. ASSUME NEW t \in Threads, Dispatch(t) PROVE TypeOK'
  BY <1>2 DEF Dispatch, Goto
<1>3. ASSUME NEW t \in Threads, ProbeGone(t) PROVE TypeOK'
  BY <1>3 DEF ProbeGone, Goto
<1>4. ASSUME NEW t \in Threads, ProbeOk(t) PROVE TypeOK'
  <2> DEFINE n == monName[t]
  <2>1. n \in Names /\ switches[n] \in SwitchState
    BY <1>4 DEF ProbeOk, Answered
  <2>2. switches' \in [Names -> SwitchState \union {NoSwitch}]
    <3> DEFINE b == (reach[HostOf(t)] = "snmp")
               r == [switches[n] EXCEPT !.failures = 0, !.snmpOk = b]
    <3>1. r \in SwitchState
      <4>1. [switches[n] EXCEPT !.failures = 0] \in SwitchState
        BY <2>1, EntryUpdate
      <4>2. QED
        BY <4>1, EntryUpdate
    <3>2. switches' = [switches EXCEPT ![n] = r]
      BY <1>4 DEF ProbeOk, Answered
    <3>3. QED
      BY <3>1, <3>2
  <2>3. disk' \in [Names -> SwitchState \union {NoSwitch}] /\ dirty' \in BOOLEAN
    BY <1>4, <2>2 DEF ProbeOk, Answered, MaySave, Save, NoSave
  <2>4. QED
    BY <1>4, <2>2, <2>3 DEF ProbeOk, Goto
<1>5. ASSUME NEW t \in Threads, OkCheck(t) PROVE TypeOK'
  <2> DEFINE n == monName[t]
             r == [switches[n] EXCEPT !.isDown = FALSE]
  <2>1. UpdateSwitch(n, r) \/ UNCHANGED <<switches, disk, dirty>>
    BY <1>5 DEF OkCheck
  <2>2. ASSUME switches[n] # NoSwitch PROVE r \in SwitchState
    <3>1. switches[n] \in SwitchState
      BY <2>2
    <3>2. QED
      BY <3>1, EntryUpdate
  <2>3. /\ switches' \in [Names -> SwitchState \union {NoSwitch}]
        /\ disk' \in [Names -> SwitchState \union {NoSwitch}]
        /\ dirty' \in BOOLEAN
    BY <2>1, <2>2, UpdateType
  <2>4. QED
    BY <1>5, <2>3 DEF OkCheck, Goto, Kinds
<1>6. ASSUME NEW t \in Threads, ProbeFail(t) PROVE TypeOK'
  BY <1>6, BumpType DEF ProbeFail, Goto, SwitchState
<1>7. ASSUME NEW t \in Threads, FailWrite(t) PROVE TypeOK'
  <2> DEFINE n == monName[t]
             goesDown == GoesDown(t)
             r == [switches[n] EXCEPT !.failures = newFailures[t],
                                      !.isDown = @ \/ goesDown]
  <2>1. UpdateSwitch(n, r)
    BY <1>7 DEF FailWrite
  <2>2. ASSUME switches[n] # NoSwitch PROVE r \in SwitchState
    <3> DEFINE q == [switches[n] EXCEPT !.failures = newFailures[t]]
    <3>1. switches[n] \in SwitchState
      BY <2>2
    <3>2. q \in SwitchState
      BY <3>1, EntryUpdate
    <3>3. (q.isDown \/ goesDown) \in BOOLEAN
      OBVIOUS
    <3>4. r = [q EXCEPT !.isDown = q.isDown \/ goesDown]
      OBVIOUS
    <3>5. QED
      BY <3>2, <3>3, <3>4, EntryUpdate
  <2>3. /\ switches' \in [Names -> SwitchState \union {NoSwitch}]
        /\ disk' \in [Names -> SwitchState \union {NoSwitch}]
        /\ dirty' \in BOOLEAN
    BY <2>1, <2>2, UpdateType
  <2>4. QED
    BY <1>7, <2>3 DEF FailWrite, Goto, Kinds
<1>8. ASSUME NEW t \in Threads, DecideAlert(t) PROVE TypeOK'
  <2>1. switches' \in [Names -> SwitchState \union {NoSwitch}]
    <3> DEFINE n == monName[t]
    <3>1. CASE switches[n] # NoSwitch /\ switches[n].mute = "lapsed"
      <4>1. [switches[n] EXCEPT !.mute = "off"] \in SwitchState
        BY <3>1, EntryUpdate DEF MuteStates
      <4>2. switches' = [switches EXCEPT ![n] = [switches[n] EXCEPT !.mute = "off"]]
        BY <1>8, <3>1 DEF DecideAlert, ClearLapsedMute
      <4>3. QED
        BY <4>1, <4>2
    <3>2. CASE ~(switches[n] # NoSwitch /\ switches[n].mute = "lapsed")
      BY <1>8, <3>2 DEF DecideAlert, ClearLapsedMute
    <3>3. QED
      BY <3>1, <3>2
  <2>2. disk' \in [Names -> SwitchState \union {NoSwitch}] /\ dirty' \in BOOLEAN
    BY <1>8, <2>1 DEF DecideAlert, ClearLapsedMute, Save
  <2>3. pc' \in [Threads -> {"none", "idle", "probe", "okCheck", "fail", "alert",
                           "mail"}]
    BY <1>8 DEF DecideAlert, Goto
  <2>4. hot' \in [Threads -> SUBSET Kinds]
    BY <1>8 DEF DecideAlert
  <2>5. QED
    BY <1>8, <2>1, <2>2, <2>3, <2>4 DEF DecideAlert
<1>9. ASSUME NEW t \in Threads, HandOver(t) PROVE TypeOK'
  BY <1>9 DEF HandOver, Goto
<1>10. ASSUME NEW t \in Threads, NEW k \in Kinds, DedupExpires(t, k) PROVE TypeOK'
  BY <1>10 DEF DedupExpires
<1>11. ASSUME NEW h \in Hosts, Discover(h) PROVE TypeOK'
  BY <1>11, ManagerAddType DEF Discover
<1>12. ASSUME NEW h \in Hosts, ScanLoses(h) PROVE TypeOK'
  BY <1>12 DEF ScanLoses
<1>13. ASSUME NEW o \in Operators, NEW n \in Names, NEW h \in Hosts, ManualAdd(o, n, h)
       PROVE  TypeOK'
  <2>1. ManagerAdd(h, n) /\ manual' \in [Names -> Hosts \union {NoHost}]
    BY <1>13 DEF ManualAdd
  <2>2. UNCHANGED <<ipList, reach, deleting, stopping, hostIp>>
    BY <1>13 DEF ManualAdd
  <2>3. QED
    BY <2>1, <2>2, ManagerAddType
<1>14. ASSUME NEW o \in Operators, NEW n \in Names, ManualRemove(o, n) PROVE TypeOK'
  <2>1. manual[n] \in Hosts /\ ManagerPop(o, manual[n])
    BY <1>14 DEF ManualRemove
  <2>2. QED
    BY <1>14, <2>1, ManagerPopType DEF ManualRemove
<1>15. ASSUME NEW o \in Operators, NEW n \in Names, DeleteBegin(o, n) PROVE TypeOK'
  <2>1. switches[n] \in SwitchState
    BY <1>15 DEF DeleteBegin
  <2>2. switches[n].host \in Hosts
    BY <2>1 DEF SwitchState
  <2>3. QED
    BY <1>15, <2>2, ManagerPopType DEF DeleteBegin
<1>a. ASSUME NEW o \in Operators, Stop(o) PROVE TypeOK'
  BY <1>a DEF Stop, StopMonitor
<1>b. ASSUME NEW o \in Operators, DeleteManual(o) PROVE TypeOK'
  <2>1. manual' \in [Names -> Hosts \union {NoHost}]
    BY <1>b DEF DeleteManual
  <2>2. hostIp' \in [Operators -> Hosts \union {NoHost}]
    BY <1>b DEF DeleteManual
  <2>3. QED
    BY <1>b, <2>1, <2>2 DEF DeleteManual
<1>16. ASSUME NEW o \in Operators, DeleteEnd(o) PROVE TypeOK'
  <2>1. deleting[o] \in Names
    BY <1>16 DEF DeleteEnd
  <2>2. CASE switches[deleting[o]] = NoSwitch
    BY <1>16, <2>2 DEF DeleteEnd
  <2>3. CASE switches[deleting[o]] # NoSwitch
    <3>1. /\ switches' \in [Names -> SwitchState \union {NoSwitch}]
          /\ orphan' \in [Threads -> SwitchState \union {NoSwitch}]
          /\ streak' \in [Names -> 0 .. MaxFailures]
          /\ told' \in [Names -> Kinds \union {"none"}]
      BY <1>16, <2>1, <2>3 DEF DeleteEnd, RemoveSwitch
    <3>2. QED
      BY <1>16, <2>3, <3>1 DEF DeleteEnd, RemoveSwitch, Save
  <2>4. QED
    BY <2>2, <2>3
<1>17. ASSUME NEW o \in Operators, NEW n \in Names, NEW m \in MuteStates, SetMute(o, n, m)
       PROVE  TypeOK'
  <2>1. switches' \in [Names -> SwitchState \union {NoSwitch}]
    <3>1. switches[n] \in SwitchState
      BY <1>17 DEF SetMute
    <3>2. [switches[n] EXCEPT !.mute = m] \in SwitchState
      BY <3>1, EntryUpdate
    <3>3. QED
      BY <1>17, <3>2 DEF SetMute
  <2>2. QED
    BY <1>17, <2>1 DEF SetMute, Save
<1>18. ASSUME NEW n \in Names, MuteLapses(n) PROVE TypeOK'
  <2> DEFINE L(s) == [s EXCEPT ![n] = [s[n] EXCEPT !.mute = "lapsed"]]
  <2>a. ASSUME NEW s \in [Names -> SwitchState \union {NoSwitch}], s[n] # NoSwitch
        PROVE  L(s) \in [Names -> SwitchState \union {NoSwitch}]
    <3>1. s[n] \in SwitchState /\ "lapsed" \in MuteStates
      BY <2>a DEF MuteStates
    <3>2. [s[n] EXCEPT !.mute = "lapsed"] \in SwitchState
      BY <3>1, EntryUpdate
    <3>3. QED
      BY <3>2
  <2>b. switches' = L(switches) /\ switches[n] # NoSwitch
    BY <1>18 DEF MuteLapses
  <2>c. disk' = disk \/ (disk' = L(disk) /\ disk[n] # NoSwitch)
    BY <1>18 DEF MuteLapses
  <2> HIDE DEF L
  <2>1. switches' \in [Names -> SwitchState \union {NoSwitch}]
    BY <2>a, <2>b
  <2>2. disk' \in [Names -> SwitchState \union {NoSwitch}]
    BY <2>a, <2>c
  <2>3. QED
    BY <1>18, <2>1, <2>2 DEF MuteLapses
<1>19. ASSUME NEW o \in Operators, NEW n \in Names, NEW b \in BOOLEAN, SetUnmanaged(o, n, b)
       PROVE  TypeOK'
  <2>1. switches' \in [Names -> SwitchState \union {NoSwitch}]
    <3>1. switches[n] \in SwitchState
      BY <1>19 DEF SetUnmanaged
    <3>2. [switches[n] EXCEPT !.unmanaged = b] \in SwitchState
      BY <3>1, EntryUpdate
    <3>3. QED
      BY <1>19, <3>2 DEF SetUnmanaged
  <2>2. QED
    BY <1>19, <2>1 DEF SetUnmanaged, Save
<1>20. ASSUME NEW h \in Hosts, NEW r \in {"snmp", "ssh", "none"}, ReachChanges(h, r)
       PROVE  TypeOK'
  BY <1>20 DEF ReachChanges
<1>21. ASSUME Restart PROVE TypeOK'
  BY <1>21, TypeRestart
<1>22. CASE UNCHANGED vars
  BY <1>22 DEF vars
<1>23. QED
  BY <1>1, <1>2, <1>3, <1>4, <1>5, <1>6, <1>7, <1>8, <1>9, <1>10, <1>11, <1>12,
     <1>13, <1>14, <1>15, <1>a, <1>b, <1>16, <1>17, <1>18, <1>19, <1>20, <1>21, <1>22
     DEF Next, PollStep

\* Every variable keeps its type in every reachable state of every instance.
THEOREM TypeCorrect == Spec => []TypeOK
<1>1. Init => TypeOK
  BY TypeInit
<1>2. TypeOK /\ [Next]_vars => TypeOK'
  BY TypeStep
<1>3. QED
  BY <1>1, <1>2, PTL DEF Spec

-------------------------------------------------------------------------------
(***************************************************************************)
(* Who polls: the manager's pool against the threads that are running.     *)
(***************************************************************************)
\* A step that neither starts nor ends a thread, nor stops one, nor touches
\* the pool, preserves ManagerOwnsPollers.
LEMMA PoolUntouched ==
  ASSUME ManagerOwnsPollers, UNCHANGED <<monitors, stopped, stopping>>,
         \A t \in Threads : pc'[t] = "none" <=> pc[t] = "none"
  PROVE  ManagerOwnsPollers'
  BY DEF ManagerOwnsPollers, Alive, Stopping, HostOf

LEMMA AddKeepsOwners ==
  ASSUME TypeOK, ManagerOwnsPollers, UNCHANGED stopping,
         NEW h \in Hosts, NEW n \in Names, ManagerAdd(h, n)
  PROVE  ManagerOwnsPollers'
<1>1. CASE monitors[h] # NoMonitor
  BY <1>1, PoolUntouched DEF ManagerAdd, StartMonitor, threadVars
<1>2. CASE monitors[h] = NoMonitor
  <2>1. PICK i \in 1 .. MaxSlots :
          /\ pc[<<h, i>>] = "none"
          /\ monitors' = [monitors EXCEPT ![h] = <<h, i>>]
          /\ pc' = [pc EXCEPT ![<<h, i>>] = "idle"]
          /\ stopped' = [stopped EXCEPT ![<<h, i>>] = FALSE]
    BY <1>2 DEF ManagerAdd, StartMonitor
  <2>2. PICK u \in Threads : u = <<h, i>>
    BY DEF Threads
  <2>3. HostOf(u) = h /\ ~Alive(u) /\ u # NoMonitor
    BY <2>1, <2>2 DEF HostOf, Alive
  <2>4. \A o \in Operators : stopping[o] # u
    BY <2>3 DEF ManagerOwnsPollers, Stopping
  <2>5. \A g \in Hosts : monitors'[g] = IF g = h THEN u ELSE monitors[g]
    BY <2>1, <2>2 DEF TypeOK
  <2>6. \A g \in Hosts : monitors'[g] # NoMonitor => HostOf(monitors'[g]) = g
    BY <2>3, <2>5 DEF ManagerOwnsPollers
  <2>7. \A t \in Threads : Alive(t)' <=> t = u \/ Alive(t)
    BY <2>1, <2>2 DEF Alive, TypeOK
  <2>8. ASSUME NEW t \in Threads
        PROVE  Alive(t)' <=> monitors'[HostOf(t)] = t \/ \E o \in Operators : stopping[o] = t
    <3>1. HostOf(t) \in Hosts
      BY ThreadHost
    <3>2. CASE t = u
      BY <2>3, <2>5, <2>7, <3>1, <3>2
    <3>3. CASE t # u
      <4>1. monitors'[HostOf(t)] = t <=> monitors[HostOf(t)] = t
        BY <1>2, <2>5, <3>1, <3>3, NullAssumption
      <4>2. QED
        BY <2>7, <3>3, <4>1 DEF ManagerOwnsPollers, Stopping
    <3>4. QED
      BY <3>2, <3>3
  <2>9. ASSUME NEW o \in Operators, stopping[o] # NoMonitor
        PROVE  /\ monitors'[HostOf(stopping[o])] # stopping[o]
               /\ \A p \in Operators \ {o} : stopping[p] # stopping[o]
    <3>1. PICK t \in Threads : t = stopping[o]
      BY <2>9 DEF TypeOK
    <3>2. HostOf(t) \in Hosts /\ t # u
      BY <2>4, <3>1, ThreadHost
    <3>3. QED
      BY <2>5, <2>9, <3>1, <3>2 DEF ManagerOwnsPollers
  <2>10. QED
    BY <2>6, <2>8, <2>9 DEF ManagerOwnsPollers, Stopping, HostOf
<1>3. QED
  BY <1>1, <1>2

\* What leaves the pool is in the hands of the request that took it out.
LEMMA PopKeepsOwners ==
  ASSUME TypeOK, ManagerOwnsPollers, NEW o \in Operators, NEW h \in Hosts,
         stopping[o] = NoMonitor, ManagerPop(o, h), UNCHANGED <<pc, stopped>>
  PROVE  ManagerOwnsPollers'
<1> DEFINE m == monitors[h]
<1>1. /\ \A g \in Hosts : monitors'[g] = IF g = h THEN NoMonitor ELSE monitors[g]
      /\ \A p \in Operators : stopping'[p] = IF p = o THEN m ELSE stopping[p]
      /\ \A t \in Threads : Alive(t)' <=> Alive(t)
  BY DEF ManagerPop, TypeOK, Alive
<1>2. \A g \in Hosts : monitors'[g] # NoMonitor => HostOf(monitors'[g]) = g
  BY <1>1 DEF ManagerOwnsPollers
<1>3. ASSUME NEW t \in Threads
      PROVE  Alive(t)' <=> monitors'[HostOf(t)] = t \/ \E p \in Operators : stopping'[p] = t
  <2>1. HostOf(t) \in Hosts /\ t # NoMonitor
    BY ThreadHost, NullAssumption
  <2>2. Alive(t) <=> monitors[HostOf(t)] = t \/ \E p \in Operators : stopping[p] = t
    BY DEF ManagerOwnsPollers, Stopping
  <2>3. CASE t = m
    <3>1. HostOf(t) = h
      BY <2>1, <2>3 DEF ManagerOwnsPollers
    <3>2. QED
      BY <1>1, <2>2, <2>3, <3>1
  <2>4. CASE t # m
    <3>1. monitors'[HostOf(t)] = t <=> monitors[HostOf(t)] = t
      BY <1>1, <2>1, <2>4
    <3>2. \A p \in Operators : stopping'[p] = t <=> stopping[p] = t
      BY <1>1, <2>1, <2>4
    <3>3. QED
      BY <1>1, <2>2, <3>1, <3>2
  <2>5. QED
    BY <2>3, <2>4
<1>4. ASSUME NEW p \in Operators, stopping'[p] # NoMonitor
      PROVE  /\ monitors'[HostOf(stopping'[p])] # stopping'[p]
             /\ \A q \in Operators \ {p} : stopping'[q] # stopping'[p]
  <2>1. m # NoMonitor => m \in Threads /\ HostOf(m) = h /\ \A q \in Operators : stopping[q] # m
    BY DEF ManagerOwnsPollers, TypeOK
  <2>2. CASE p = o
    <3>1. stopping'[p] = m /\ m # NoMonitor /\ monitors'[h] = NoMonitor
      BY <1>1, <1>4, <2>2
    <3>2. QED
      BY <1>1, <2>1, <2>2, <3>1
  <2>3. CASE p # o
    <3>1. PICK t \in Threads : t = stopping[p] /\ t = stopping'[p]
      BY <1>1, <1>4, <2>3 DEF TypeOK
    <3>2. HostOf(t) \in Hosts /\ t # NoMonitor /\ monitors[HostOf(t)] # t
      BY <3>1, ThreadHost, NullAssumption DEF ManagerOwnsPollers
    <3>3. monitors'[HostOf(t)] # t
      BY <1>1, <3>2
    <3>4. \A q \in Operators \ {p} : stopping[q] # t
      BY <3>1, <3>2 DEF ManagerOwnsPollers
    <3>5. t # m
      BY <2>1, <3>1, <3>2
    <3>6. QED
      BY <1>1, <3>1, <3>3, <3>4, <3>5
  <2>4. QED
    BY <2>2, <2>3
<1>5. QED
  BY <1>2, <1>3, <1>4 DEF ManagerOwnsPollers, Stopping, HostOf

LEMMA StopKeepsOwners ==
  ASSUME TypeOK, ManagerOwnsPollers, NEW o \in Operators, Stop(o)
  PROVE  ManagerOwnsPollers'
<1>1. PICK u \in Threads : u = stopping[o]
  BY DEF Stop, TypeOK
<1>2. /\ \A p \in Operators : stopping'[p] = IF p = o THEN NoMonitor ELSE stopping[p]
      /\ \A t \in Threads : stopped'[t] = (t = u \/ stopped[t])
      /\ UNCHANGED <<monitors, pc>>
  BY <1>1 DEF Stop, StopMonitor, TypeOK
<1>3. u # NoMonitor /\ monitors[HostOf(u)] # u /\ \A p \in Operators \ {o} : stopping[p] # u
  BY <1>1, NullAssumption DEF ManagerOwnsPollers
<1>4. ASSUME NEW t \in Threads
      PROVE  Alive(t)' <=> monitors'[HostOf(t)] = t \/ \E p \in Operators : stopping'[p] = t
  <2>1. Alive(t) <=> monitors[HostOf(t)] = t \/ \E p \in Operators : stopping[p] = t
    BY DEF ManagerOwnsPollers, Stopping
  <2>2. CASE t = u
    BY <1>2, <1>3, <2>2 DEF Alive
  <2>3. CASE t # u
    <3>1. Alive(t)' <=> Alive(t)
      BY <1>2, <2>3 DEF Alive
    <3>2. \A p \in Operators : stopping'[p] = t <=> stopping[p] = t
      BY <1>1, <1>2, <2>3, NullAssumption
    <3>3. QED
      BY <1>2, <2>1, <3>1, <3>2
  <2>4. QED
    BY <2>2, <2>3
<1>5. QED
  BY <1>2, <1>4 DEF ManagerOwnsPollers, Stopping, HostOf

LEMMA OwnersStep == TypeOK /\ ManagerOwnsPollers /\ [Next]_vars => ManagerOwnsPollers'
<1> SUFFICES ASSUME TypeOK, ManagerOwnsPollers, [Next]_vars
             PROVE  ManagerOwnsPollers'
  OBVIOUS
<1>1. ASSUME NEW t \in Threads, Exit(t) PROVE ManagerOwnsPollers'
  <2>1. \A u \in Threads : Alive(u)' <=> Alive(u)
    BY <1>1 DEF Exit, Goto, Alive, TypeOK
  <2>2. QED
    BY <1>1, <2>1 DEF Exit, ManagerOwnsPollers, Stopping, HostOf
<1>2. ASSUME NEW t \in Threads,
             \/ Dispatch(t) \/ ProbeGone(t) \/ ProbeOk(t) \/ OkCheck(t) \/ ProbeFail(t)
             \/ FailWrite(t) \/ DecideAlert(t) \/ HandOver(t)
      PROVE  ManagerOwnsPollers'
  <2>1. UNCHANGED <<monitors, stopped, stopping>>
    BY <1>2 DEF Dispatch, ProbeGone, ProbeOk, OkCheck, ProbeFail, FailWrite,
                DecideAlert, HandOver, requestVars
  <2>2. /\ pc[t] # "none"
        /\ \E l \in {"idle", "probe", "okCheck", "fail", "alert", "mail"} :
             pc' = [pc EXCEPT ![t] = l]
    BY <1>2 DEF Dispatch, ProbeGone, ProbeOk, OkCheck, ProbeFail, FailWrite,
                DecideAlert, HandOver, Goto
  <2>3. \A u \in Threads : pc'[u] = "none" <=> pc[u] = "none"
    BY <2>2 DEF TypeOK
  <2>4. QED
    BY <2>1, <2>3, PoolUntouched
<1>3. ASSUME UNCHANGED <<monitors, stopped, stopping, pc>> PROVE ManagerOwnsPollers'
  BY <1>3, PoolUntouched
<1>4. ASSUME NEW h \in Hosts, Discover(h) PROVE ManagerOwnsPollers'
  BY <1>4, AddKeepsOwners DEF Discover, ConstantsAssumption
<1>5. ASSUME NEW o \in Operators, NEW n \in Names, NEW h \in Hosts, ManualAdd(o, n, h)
      PROVE  ManagerOwnsPollers'
  BY <1>5, AddKeepsOwners DEF ManualAdd
<1>6. ASSUME NEW o \in Operators, NEW n \in Names, ManualRemove(o, n)
      PROVE  ManagerOwnsPollers'
  <2>1. manual[n] \in Hosts
    BY <1>6 DEF ManualRemove, TypeOK
  <2>2. QED
    BY <1>6, <2>1, PopKeepsOwners DEF ManualRemove, Free, threadVars
<1>7. ASSUME NEW o \in Operators, NEW n \in Names, DeleteBegin(o, n)
      PROVE  ManagerOwnsPollers'
  <2>1. switches[n] \in SwitchState
    BY <1>7 DEF DeleteBegin, TypeOK
  <2>2. switches[n].host \in Hosts
    BY <2>1 DEF SwitchState
  <2>3. QED
    BY <1>7, <2>2, PopKeepsOwners DEF DeleteBegin, Free, threadVars
<1>8. ASSUME Restart PROVE ManagerOwnsPollers'
  <2>1. PICK seeded \in SUBSET Hosts :
          /\ monitors' = [h \in Hosts |-> IF h \in seeded THEN <<h, 1>> ELSE NoMonitor]
          /\ pc' = [t \in Threads |->
               IF t[2] = 1 /\ HostOf(t) \in seeded THEN "idle" ELSE "none"]
          /\ stopped' = [t \in Threads |-> FALSE]
          /\ stopping' = [o \in Operators |-> NoMonitor]
    BY <1>8 DEF Restart, Boot, Seeded
  <2>2. \A h \in Hosts : <<h, 1>> \in Threads /\ HostOf(<<h, 1>>) = h
    BY DEF Threads, HostOf
  <2>3. \A t \in Threads : t = <<HostOf(t), t[2]>>
    BY DEF Threads, HostOf
  <2>4. \A h \in Hosts : monitors'[h] # NoMonitor => HostOf(monitors'[h]) = h
    BY <2>1, <2>2
  <2>5. ASSUME NEW t \in Threads PROVE Alive(t)' <=> monitors'[HostOf(t)] = t
    <3>1. Alive(t)' <=> t[2] = 1 /\ HostOf(t) \in seeded
      BY <2>1 DEF Alive
    <3>2. monitors'[HostOf(t)] = t <=> t[2] = 1 /\ HostOf(t) \in seeded
      BY <2>1, <2>2, <2>3, ThreadHost
    <3>3. QED
      BY <3>1, <3>2
  <2>6. \A o \in Operators : stopping'[o] = NoMonitor
    BY <2>1
  <2>7. \A t \in Threads : ~Stopping(t)'
    BY <2>6, NullAssumption DEF Stopping
  <2>8. QED
    BY <2>4, <2>5, <2>6, <2>7 DEF ManagerOwnsPollers, HostOf
<1>9. CASE UNCHANGED vars
  BY <1>3, <1>9 DEF vars, threadVars, requestVars
<1>10. QED
  BY <1>1, <1>2, <1>3, <1>4, <1>5, <1>6, <1>7, <1>8, <1>9, StopKeepsOwners
     DEF Next, PollStep, DedupExpires, ScanLoses, DeleteManual, DeleteEnd, SetMute, MuteLapses,
         SetUnmanaged, ReachChanges, threadVars, requestVars

\* A host has no poller that nobody can stop: each that has not been told to is the one the
\* manager holds, or one that exactly one request has taken out of the pool to stop it.
THEOREM PollersAreOwned == Spec => []ManagerOwnsPollers
<1>1. Init => ManagerOwnsPollers
  BY ThreadHost, NullAssumption DEF Init, ManagerOwnsPollers, Alive, Stopping
<1>2. TypeOK /\ ManagerOwnsPollers /\ [Next]_vars => ManagerOwnsPollers'
  BY OwnersStep
<1>3. QED
  BY <1>1, <1>2, TypeCorrect, PTL DEF Spec

-------------------------------------------------------------------------------
(***************************************************************************)
(* What a restart brings back: the snapshot against the registry.          *)
(***************************************************************************)
\* A step that saves what it wrote re-establishes the invariant ...
LEMMA SavedIsCurrent ==
  ASSUME Save(switches') PROVE SnapshotIsCurrent'
  BY DEF Save, SnapshotIsCurrent

\* ... and one that does not save keeps it if it changed nothing durable.
LEMMA UnsavedIsCurrent ==
  ASSUME SnapshotIsCurrent, NoSave,
         \A n \in Names : Durable(switches'[n]) = Durable(switches[n])
  PROVE  SnapshotIsCurrent'
  BY DEF NoSave, SnapshotIsCurrent

\* update_switch saves every change it makes to a durable field, since the
\* only one its callers pass is is_down.
LEMMA UpdateIsCurrent ==
  ASSUME TypeOK, SnapshotIsCurrent, NEW n \in Names,
         NEW f \in 0 .. MaxFailures, NEW b \in BOOLEAN,
         UpdateSwitch(n, [switches[n] EXCEPT !.failures = f, !.isDown = b])
  PROVE  SnapshotIsCurrent'
<1> DEFINE r == [switches[n] EXCEPT !.failures = f, !.isDown = b]
<1>1. CASE switches[n] = NoSwitch
  BY <1>1, UnsavedIsCurrent DEF UpdateSwitch
<1>2. CASE switches[n] # NoSwitch
  <2>1. switches[n] \in SwitchState
    BY <1>2 DEF TypeOK
  <2>2. switches' = [switches EXCEPT ![n] = r]
    BY <1>2 DEF UpdateSwitch
  <2>3. CASE Save(switches')
    BY <2>3, SavedIsCurrent
  <2>4. CASE NoSave /\ r.isDown = switches[n].isDown
    <3>1. r \in SwitchState /\ Durable(r) = Durable(switches[n])
      BY <2>1, <2>4 DEF Durable, SwitchState
    <3>2. QED
      BY <2>2, <2>4, <3>1, UnsavedIsCurrent DEF TypeOK
  <2>5. QED
    BY <1>2, <2>3, <2>4 DEF UpdateSwitch
<1>3. QED
  BY <1>1, <1>2

LEMMA AddIsCurrent ==
  ASSUME TypeOK, SnapshotIsCurrent,
         NEW h \in Hosts, NEW n \in Names, ManagerAdd(h, n)
  PROVE  SnapshotIsCurrent'
<1>1. UNCHANGED <<switches, disk, dirty>> \/ RegisterSwitch(n, h)
  BY DEF ManagerAdd, StartMonitor
<1>2. CASE RegisterSwitch(n, h) /\ switches[n] = NoSwitch
  BY <1>2, SavedIsCurrent DEF RegisterSwitch
<1>3. CASE RegisterSwitch(n, h) /\ switches[n] # NoSwitch
  BY <1>3 DEF RegisterSwitch, MaySave, NoSave, Save, SnapshotIsCurrent
<1>4. CASE UNCHANGED <<switches, disk, dirty>>
  BY <1>4, UnsavedIsCurrent DEF NoSave
<1>5. QED
  BY <1>1, <1>2, <1>3, <1>4

LEMMA SnapshotStep == TypeOK /\ SnapshotIsCurrent /\ [Next]_vars => SnapshotIsCurrent'
<1> SUFFICES ASSUME TypeOK, SnapshotIsCurrent, [Next]_vars
             PROVE  SnapshotIsCurrent'
  OBVIOUS
<1>1. ASSUME UNCHANGED <<switches, disk, dirty>> PROVE SnapshotIsCurrent'
  BY <1>1, UnsavedIsCurrent DEF NoSave
<1>2. ASSUME NEW t \in Threads, ProbeOk(t) PROVE SnapshotIsCurrent'
  <2> DEFINE n == monName[t]
             r == [switches[n] EXCEPT !.failures = 0,
                                      !.snmpOk = (reach[HostOf(t)] = "snmp")]
  <2>1. switches[n] \in SwitchState /\ n \in Names
    BY <1>2 DEF ProbeOk, TypeOK
  <2>2. switches' = [switches EXCEPT ![n] = r]
    BY <1>2 DEF ProbeOk, Answered
  <2>3. CASE Save(switches')
    BY <2>3, SavedIsCurrent
  <2>4. CASE NoSave /\ r.snmpOk = switches[n].snmpOk
    <3>1. r # NoSwitch
      <4>1. [switches[n] EXCEPT !.failures = 0] \in SwitchState
        BY <2>1, EntryUpdate
      <4>2. QED
        BY <4>1, EntryUpdate
    <3>2. Durable(r) = Durable(switches[n])
      BY <2>1, <2>4, <3>1 DEF Durable, SwitchState
    <3>3. QED
      BY <2>1, <2>2, <2>4, <3>2, UnsavedIsCurrent DEF TypeOK
  <2>5. switches'[n] = r
    BY <2>1, <2>2 DEF TypeOK
  <2>6. QED
    BY <1>2, <2>3, <2>4, <2>5 DEF ProbeOk, MaySave
<1>3. ASSUME NEW t \in Threads, OkCheck(t) PROVE SnapshotIsCurrent'
  <2> DEFINE n == monName[t]
             r == [switches[n] EXCEPT !.isDown = FALSE]
  <2>1. n \in Names
    BY DEF TypeOK
  <2>2. CASE UNCHANGED <<switches, disk, dirty>>
    BY <1>1, <2>2
  <2>3. CASE UpdateSwitch(n, r) /\ switches[n] = NoSwitch
    BY <1>1, <2>3 DEF UpdateSwitch, NoSave
  <2>4. CASE UpdateSwitch(n, r) /\ switches[n] # NoSwitch
    <3>1. switches[n] \in SwitchState
      BY <2>1, <2>4 DEF TypeOK
    <3>2. switches[n].failures \in 0 .. MaxFailures
          /\ r = [switches[n] EXCEPT !.failures = switches[n].failures, !.isDown = FALSE]
      BY <3>1 DEF SwitchState
    <3>3. QED
      BY <2>1, <2>4, <3>2, UpdateIsCurrent
  <2>5. QED
    BY <1>3, <2>2, <2>3, <2>4 DEF OkCheck
<1>4. ASSUME NEW t \in Threads, FailWrite(t) PROVE SnapshotIsCurrent'
  <2> DEFINE n == monName[t]
             goesDown == GoesDown(t)
             r == [switches[n] EXCEPT !.failures = newFailures[t],
                                      !.isDown = @ \/ goesDown]
  <2>1. n \in Names /\ newFailures[t] \in 0 .. MaxFailures /\ UpdateSwitch(n, r)
    BY <1>4 DEF FailWrite, TypeOK
  <2>2. CASE switches[n] = NoSwitch
    BY <1>1, <2>1, <2>2 DEF UpdateSwitch, NoSave
  <2>3. CASE switches[n] # NoSwitch
    <3> DEFINE b == switches[n].isDown \/ goesDown
    <3>1. switches[n] \in SwitchState
      BY <2>1, <2>3 DEF TypeOK
    <3>2. b \in BOOLEAN
      OBVIOUS
    <3>3. r = [switches[n] EXCEPT !.failures = newFailures[t], !.isDown = b]
      BY <3>1 DEF SwitchState
    <3>4. QED
      BY <2>1, <3>2, <3>3, UpdateIsCurrent
  <2>4. QED
    BY <2>2, <2>3
<1>5. ASSUME NEW t \in Threads, DecideAlert(t) PROVE SnapshotIsCurrent'
  BY <1>1, <1>5, SavedIsCurrent DEF DecideAlert, ClearLapsedMute
<1>6. ASSUME NEW h \in Hosts, Discover(h) PROVE SnapshotIsCurrent'
  BY <1>6, AddIsCurrent DEF Discover, ConstantsAssumption
<1>7. ASSUME NEW o \in Operators, NEW n \in Names, NEW h \in Hosts, ManualAdd(o, n, h)
      PROVE  SnapshotIsCurrent'
  BY <1>7, AddIsCurrent DEF ManualAdd
<1>8. ASSUME NEW o \in Operators, DeleteEnd(o) PROVE SnapshotIsCurrent'
  BY <1>1, <1>8, SavedIsCurrent DEF DeleteEnd, RemoveSwitch
<1>9. ASSUME NEW o \in Operators, NEW n \in Names, NEW m \in MuteStates, SetMute(o, n, m)
      PROVE  SnapshotIsCurrent'
  BY <1>9, SavedIsCurrent DEF SetMute
<1>10. ASSUME NEW n \in Names, MuteLapses(n) PROVE SnapshotIsCurrent'
  <2> DEFINE Lapse(s) == IF s[n] # NoSwitch /\ s[n].mute = "timed"
                         THEN [s EXCEPT ![n] = [@ EXCEPT !.mute = "lapsed"]] ELSE s
  <2>1. switches' = Lapse(switches) /\ disk' = Lapse(disk) /\ UNCHANGED dirty
    BY <1>10 DEF MuteLapses
  <2>2. SUFFICES ASSUME NEW m \in Names, ~dirty
                 PROVE  Durable(disk'[m]) = Durable(switches'[m])
    BY <2>1 DEF SnapshotIsCurrent
  <2>3. Durable(disk[m]) = Durable(switches[m])
    BY <2>2 DEF SnapshotIsCurrent
  <2>4. CASE m # n
    BY <2>1, <2>3, <2>4 DEF TypeOK
  <2>5. CASE m = n
    <3>1. switches[n] \in SwitchState /\ switches[n].mute = "timed"
      BY <1>10 DEF MuteLapses, TypeOK
    <3>2. disk[n] \in SwitchState
      BY <2>3, <2>5, <3>1, EntryUpdate DEF Durable, TypeOK
    <3>3. [disk[n] EXCEPT !.failures = 0] = [switches[n] EXCEPT !.failures = 0]
      BY <2>3, <2>5, <3>1, <3>2, NullAssumption DEF Durable
    <3>4. disk[n].mute = "timed"
      BY <3>1, <3>2, <3>3 DEF SwitchState
    <3>5. /\ switches'[n] = [switches[n] EXCEPT !.mute = "lapsed"]
          /\ disk'[n] = [disk[n] EXCEPT !.mute = "lapsed"]
      BY <2>1, <3>1, <3>2, <3>4, NullAssumption DEF TypeOK
    <3>6. "lapsed" \in MuteStates
      BY DEF MuteStates
    <3>7. switches'[n] \in SwitchState
      BY <3>1, <3>5, <3>6, EntryUpdate
    <3>8. disk'[n] \in SwitchState
      BY <3>2, <3>5, <3>6, EntryUpdate
    <3>9. [disk'[n] EXCEPT !.failures = 0]
           = [[disk[n] EXCEPT !.failures = 0] EXCEPT !.mute = "lapsed"]
      BY <3>2, <3>5 DEF SwitchState
    <3>10. [switches'[n] EXCEPT !.failures = 0]
            = [[switches[n] EXCEPT !.failures = 0] EXCEPT !.mute = "lapsed"]
      BY <3>1, <3>5 DEF SwitchState
    <3>11. QED
      BY <2>5, <3>3, <3>7, <3>8, <3>9, <3>10, NullAssumption DEF Durable
  <2>6. QED
    BY <2>4, <2>5
<1>11. ASSUME NEW o \in Operators, NEW n \in Names, NEW b \in BOOLEAN, SetUnmanaged(o, n, b)
       PROVE  SnapshotIsCurrent'
  BY <1>11, SavedIsCurrent DEF SetUnmanaged
<1>12. ASSUME Restart PROVE SnapshotIsCurrent'
  <2>1. PICK seed \in [Hosts -> Names \union {NoName}] : Boot(seed)
    BY <1>12 DEF Restart
  <2>2. CASE NewNames(seed) = {}
    <3>1. \A n \in Names : switches'[n] = disk[n]
      BY <2>1, <2>2 DEF Boot
    <3>2. disk' = disk
      BY <2>1, <2>2 DEF Boot
    <3>3. QED
      BY <3>1, <3>2 DEF SnapshotIsCurrent
  <2>3. CASE NewNames(seed) # {}
    BY <2>1, <2>3, SavedIsCurrent DEF Boot
  <2>4. QED
    BY <2>2, <2>3
<1>13. CASE UNCHANGED vars
  BY <1>1, <1>13 DEF vars
<1>14. QED
  BY <1>1, <1>2, <1>3, <1>4, <1>5, <1>6, <1>7, <1>8, <1>9, <1>10, <1>11, <1>12, <1>13
     DEF Next, PollStep, Exit, Dispatch, ProbeGone, ProbeFail, HandOver, DedupExpires,
         ScanLoses, ManualRemove, DeleteBegin, Stop, DeleteManual, ReachChanges

\* In every instance, whatever the order of polls, operator actions, crashes
\* and failed writes, a snapshot whose last write succeeded is up to date.
THEOREM SnapshotStaysCurrent == Spec => []SnapshotIsCurrent
<1>1. Init => SnapshotIsCurrent
  BY DEF Init, SnapshotIsCurrent
<1>2. TypeOK /\ SnapshotIsCurrent /\ [Next]_vars => SnapshotIsCurrent'
  BY SnapshotStep
<1>3. QED
  BY <1>1, <1>2, TypeCorrect, PTL DEF Spec

\* A restart brings every registered switch back as the operator left it, with its status,
\* mute, unmanage flag and SNMP health, whatever polls and handlers it interrupts, unless
\* the disk refused the last write.
RestartBringsBack ==
  [][Restart /\ ~dirty => \A n \in Names : switches[n] # NoSwitch
       => switches'[n] # NoSwitch /\ Durable(switches'[n]) = Durable(switches[n])]_vars

LEMMA BootBringsBack ==
  ASSUME TypeOK, SnapshotIsCurrent, Restart, ~dirty, NEW n \in Names, switches[n] # NoSwitch
  PROVE  switches'[n] # NoSwitch /\ Durable(switches'[n]) = Durable(switches[n])
<1>1. PICK seed \in [Hosts -> Names \union {NoName}] : Boot(seed)
  BY DEF Restart
<1>2. PICK home \in [NewNames(seed) -> Hosts] :
        switches' = [m \in Names |->
             IF m \in NewNames(seed) THEN Fresh(home[m]) ELSE disk[m]]
  BY <1>1 DEF Boot
<1>3. Durable(disk[n]) = Durable(switches[n])
  BY DEF SnapshotIsCurrent
<1>4. disk[n] # NoSwitch
  <2>1. [switches[n] EXCEPT !.failures = 0] \in SwitchState
    BY ConstantsAssumption DEF TypeOK, SwitchState
  <2>2. Durable(switches[n]) # NoSwitch
    BY <2>1, NullAssumption DEF Durable
  <2>3. QED
    BY <1>3, <2>2 DEF Durable
<1>5. switches'[n] = disk[n]
  BY <1>2, <1>4 DEF NewNames
<1>6. QED
  BY <1>3, <1>4, <1>5 DEF Durable

\* That holds of every restart, for any number of hosts, names, threads and operators.
THEOREM RestartsBringBack == Spec => RestartBringsBack
<1>1. TypeOK /\ SnapshotIsCurrent /\ [Next]_vars
        => [Restart /\ ~dirty => \A n \in Names : switches[n] # NoSwitch
              => switches'[n] # NoSwitch /\ Durable(switches'[n]) = Durable(switches[n])]_vars
  BY BootBringsBack
<1>2. QED
  BY <1>1, TypeCorrect, SnapshotStaysCurrent, PTL DEF Spec, RestartBringsBack

-------------------------------------------------------------------------------
(***************************************************************************)
(* Which names stand for which hosts, and the pollers of deleted switches. *)
(***************************************************************************)
\* The names a host may go by: the ones entered by hand, and its address.
Named == ManualPairs \union {<<IpName[h], h>> : h \in Hosts}

NamesAreKept ==
  /\ \A t \in Threads : <<monName[t], HostOf(t)>> \in Named
  /\ \A n \in Names : switches[n] # NoSwitch => <<n, switches[n].host>> \in Named
  /\ \A n \in Names : disk[n] # NoSwitch => <<n, disk[n].host>> \in Named
  /\ \A n \in Names : manual[n] # NoHost => <<n, manual[n]>> \in Named

LEMMA OwnName == \A t \in Threads : <<IpName[HostOf(t)], HostOf(t)>> \in Named
  BY ThreadHost DEF Named

\* What an update of an entry leaves as it was.
LEMMA EntryFields ==
  ASSUME NEW s \in SwitchState, NEW x
  PROVE  /\ LET r == [s EXCEPT !.mute = x] IN
              /\ r.host = s.host /\ r.isDown = s.isDown /\ r.failures = s.failures
              /\ r.mute = x
         /\ LET r == [s EXCEPT !.unmanaged = x] IN
              /\ r.host = s.host /\ r.isDown = s.isDown /\ r.failures = s.failures
              /\ r.mute = s.mute
         /\ LET r == [s EXCEPT !.isDown = x] IN
              /\ r.host = s.host /\ r.isDown = x /\ r.failures = s.failures
              /\ r.mute = s.mute
         /\ LET r == [s EXCEPT !.failures = x] IN
              /\ r.host = s.host /\ r.isDown = s.isDown /\ r.failures = x
              /\ r.mute = s.mute
         /\ LET r == [s EXCEPT !.snmpOk = x] IN
              /\ r.host = s.host /\ r.isDown = s.isDown /\ r.failures = s.failures
              /\ r.mute = s.mute
  BY DEF SwitchState

\* One entry of the registry is updated in place.
Updates(n, r) ==
  /\ switches[n] # NoSwitch /\ r \in SwitchState
  /\ r.host = switches[n].host
  /\ switches' = [switches EXCEPT ![n] = r]

LEMMA AnsweredUpdates ==
  ASSUME TypeOK, NEW t \in Threads, ProbeOk(t)
  PROVE  \E r \in SwitchState :
           /\ Updates(monName[t], r)
           /\ r.isDown = switches[monName[t]].isDown
           /\ r.mute = switches[monName[t]].mute
           /\ r.failures = 0
<1> DEFINE n == monName[t]
           b == (reach[HostOf(t)] = "snmp")
           q == [switches[n] EXCEPT !.failures = 0]
           r == [q EXCEPT !.snmpOk = b]
<1>1. n \in Names /\ switches[n] \in SwitchState /\ switches[n] # NoSwitch
  BY DEF ProbeOk, TypeOK
<1>2. q \in SwitchState
  BY <1>1, EntryUpdate
<1>3. r \in SwitchState
  BY <1>2, EntryUpdate
<1>4. r = [switches[n] EXCEPT !.failures = 0, !.snmpOk = b]
  BY <1>1 DEF SwitchState
<1>5. switches' = [switches EXCEPT ![n] = r]
  BY <1>4 DEF ProbeOk, Answered
<1>6. /\ q.host = switches[n].host /\ q.isDown = switches[n].isDown
      /\ q.mute = switches[n].mute /\ q.failures = 0
  BY <1>1, EntryFields
<1>7. r.host = q.host /\ r.isDown = q.isDown /\ r.mute = q.mute /\ r.failures = q.failures
  BY <1>2, EntryFields
<1> HIDE DEF q, r
<1>8. Updates(n, r)
  BY <1>1, <1>3, <1>5, <1>6, <1>7 DEF Updates
<1>9. QED
  BY <1>3, <1>6, <1>7, <1>8

LEMMA RestoredUpdates ==
  ASSUME TypeOK, NEW t \in Threads, OkCheck(t)
  PROVE  \/ UNCHANGED switches
         \/ \E r \in SwitchState :
              /\ Updates(monName[t], r)
              /\ ~r.isDown
              /\ r.mute = switches[monName[t]].mute
              /\ r.failures = switches[monName[t]].failures
              /\ HeldSwitch(t).isDown
<1> DEFINE n == monName[t]
           r == [switches[n] EXCEPT !.isDown = FALSE]
<1> SUFFICES ASSUME switches[n] # NoSwitch, HeldSwitch(t).isDown
             PROVE  \E q \in SwitchState :
                      /\ Updates(monName[t], q)
                      /\ ~q.isDown
                      /\ q.mute = switches[monName[t]].mute
                      /\ q.failures = switches[monName[t]].failures
                      /\ HeldSwitch(t).isDown
  BY DEF OkCheck, UpdateSwitch
<1>1. n \in Names /\ switches[n] \in SwitchState
  BY DEF TypeOK
<1>2. r \in SwitchState
  BY <1>1, EntryUpdate
<1>3. /\ r.host = switches[n].host /\ r.isDown = FALSE
      /\ r.mute = switches[n].mute /\ r.failures = switches[n].failures
  BY <1>1, EntryFields
<1>4. switches' = [switches EXCEPT ![n] = r]
  BY DEF OkCheck, UpdateSwitch
<1> HIDE DEF r
<1>5. QED
  BY <1>2, <1>3, <1>4 DEF Updates

LEMMA FailedUpdates ==
  ASSUME TypeOK, NEW t \in Threads, FailWrite(t)
  PROVE  \/ switches[monName[t]] = NoSwitch /\ UNCHANGED switches
         \/ \E r \in SwitchState :
              /\ Updates(monName[t], r)
              /\ r.isDown <=> switches[monName[t]].isDown \/ GoesDown(t)
              /\ r.mute = switches[monName[t]].mute
              /\ r.failures = newFailures[t]
<1> DEFINE n == monName[t]
           goesDown == GoesDown(t)
           q == [switches[n] EXCEPT !.failures = newFailures[t]]
           d == q.isDown \/ goesDown
           r == [q EXCEPT !.isDown = d]
<1> SUFFICES ASSUME switches[n] # NoSwitch
             PROVE  \E p \in SwitchState :
                      /\ Updates(monName[t], p)
                      /\ p.isDown <=> switches[monName[t]].isDown \/ GoesDown(t)
                      /\ p.mute = switches[monName[t]].mute
                      /\ p.failures = newFailures[t]
  BY DEF FailWrite, UpdateSwitch
<1>1. n \in Names /\ switches[n] \in SwitchState /\ newFailures[t] \in 0 .. MaxFailures
  BY DEF TypeOK
<1>2. q \in SwitchState
  BY <1>1, EntryUpdate
<1>3. d \in BOOLEAN
  OBVIOUS
<1>4. r \in SwitchState
  BY <1>2, <1>3, EntryUpdate
<1>5. r = [switches[n] EXCEPT !.failures = newFailures[t], !.isDown = @ \/ goesDown]
  OBVIOUS
<1>6. switches' = [switches EXCEPT ![n] = r]
  BY <1>5 DEF FailWrite, UpdateSwitch
<1>7. /\ q.host = switches[n].host /\ q.isDown = switches[n].isDown
      /\ q.mute = switches[n].mute /\ q.failures = newFailures[t]
  BY <1>1, EntryFields
<1>8. r.host = q.host /\ r.isDown = d /\ r.mute = q.mute /\ r.failures = q.failures
  BY <1>2, EntryFields
<1>9. r.isDown <=> switches[n].isDown \/ GoesDown(t)
  BY <1>7, <1>8
<1> HIDE DEF q, r
<1>10. Updates(n, r)
  BY <1>4, <1>6, <1>7, <1>8 DEF Updates
<1>11. QED
  BY <1>4, <1>7, <1>8, <1>9, <1>10

LEMMA MuteUpdates ==
  ASSUME TypeOK, NEW n \in Names, switches[n] # NoSwitch, NEW m \in MuteStates,
         switches' = [switches EXCEPT ![n] = [@ EXCEPT !.mute = m]]
  PROVE  \E r \in SwitchState :
           /\ Updates(n, r)
           /\ r.isDown = switches[n].isDown
           /\ r.failures = switches[n].failures
           /\ r.mute = m
<1> DEFINE r == [switches[n] EXCEPT !.mute = m]
<1>1. switches[n] \in SwitchState
  BY DEF TypeOK
<1>2. r \in SwitchState
  BY <1>1, EntryUpdate
<1>3. /\ r.host = switches[n].host /\ r.isDown = switches[n].isDown
      /\ r.failures = switches[n].failures /\ r.mute = m
  BY <1>1, EntryFields
<1>4. switches' = [switches EXCEPT ![n] = r]
  OBVIOUS
<1> HIDE DEF r
<1>5. QED
  BY <1>2, <1>3, <1>4 DEF Updates

LEMMA UnmanagedUpdates ==
  ASSUME TypeOK, NEW n \in Names, switches[n] # NoSwitch, NEW b \in BOOLEAN,
         switches' = [switches EXCEPT ![n] = [@ EXCEPT !.unmanaged = b]]
  PROVE  \E r \in SwitchState :
           /\ Updates(n, r)
           /\ r.isDown = switches[n].isDown
           /\ r.failures = switches[n].failures
           /\ r.mute = switches[n].mute
<1> DEFINE r == [switches[n] EXCEPT !.unmanaged = b]
<1>1. switches[n] \in SwitchState
  BY DEF TypeOK
<1>2. r \in SwitchState
  BY <1>1, EntryUpdate
<1>3. /\ r.host = switches[n].host /\ r.isDown = switches[n].isDown
      /\ r.failures = switches[n].failures /\ r.mute = switches[n].mute
  BY <1>1, EntryFields
<1>4. switches' = [switches EXCEPT ![n] = r]
  OBVIOUS
<1> HIDE DEF r
<1>5. QED
  BY <1>2, <1>3, <1>4 DEF Updates

\* What every step leaves of the registry: one entry updated, registered or
\* removed, and the snapshot either as it was or as the registry is.
OneUpdated == UNCHANGED switches \/ \E n \in Names, r \in SwitchState : Updates(n, r)
OneAdded(n, h) ==
  \/ UNCHANGED switches
  \/ switches[n] = NoSwitch /\ switches' = [switches EXCEPT ![n] = Fresh(h)]
OneRemoved(n) == UNCHANGED switches \/ switches' = [switches EXCEPT ![n] = NoSwitch]

DiskFollows == disk' = disk \/ disk' = switches'

LEMMA SaveFollows ==
  ASSUME Save(switches') \/ NoSave \/ MaySave(switches') PROVE DiskFollows
  BY DEF Save, NoSave, MaySave, DiskFollows

\* A step of a poll moves its own thread only, and updates one entry at most.
LEMMA PollFrame ==
  ASSUME TypeOK, NEW t \in Threads, PollStep(t), ~Exit(t)
  PROVE  /\ UNCHANGED <<monitors, stopped, monName, manual, ipList, requestVars>>
         /\ pc[t] # "none"
         /\ \E l \in {"idle", "probe", "okCheck", "fail", "alert", "mail"} :
              pc' = [pc EXCEPT ![t] = l]
         /\ OneUpdated
         /\ DiskFollows
<1>n. monName[t] \in Names
  BY DEF TypeOK
<1>1. CASE Dispatch(t) \/ ProbeGone(t) \/ ProbeFail(t) \/ HandOver(t)
  BY <1>1 DEF Dispatch, ProbeGone, ProbeFail, HandOver, Goto, OneUpdated, DiskFollows
<1>2. CASE ProbeOk(t)
  <2>1. OneUpdated
    BY <1>n, <1>2, AnsweredUpdates DEF OneUpdated
  <2>2. DiskFollows
    BY <1>2, SaveFollows DEF ProbeOk
  <2>3. QED
    BY <1>2, <2>1, <2>2 DEF ProbeOk, Goto
<1>3. CASE OkCheck(t)
  <2>1. OneUpdated
    BY <1>n, <1>3, RestoredUpdates DEF OneUpdated
  <2>2. DiskFollows
    BY <1>3, SaveFollows DEF OkCheck, UpdateSwitch, DiskFollows
  <2>3. QED
    BY <1>3, <2>1, <2>2 DEF OkCheck, Goto
<1>4. CASE FailWrite(t)
  <2>1. OneUpdated
    BY <1>n, <1>4, FailedUpdates DEF OneUpdated
  <2>2. DiskFollows
    BY <1>4, SaveFollows DEF FailWrite, UpdateSwitch
  <2>3. QED
    BY <1>4, <2>1, <2>2 DEF FailWrite, Goto
<1>5. CASE DecideAlert(t)
  <2>0. ClearLapsedMute(monName[t])
    BY <1>5 DEF DecideAlert
  <2>1. OneUpdated
    <3>1. "off" \in MuteStates
      BY DEF MuteStates
    <3>2. QED
      BY <1>n, <2>0, <3>1, MuteUpdates DEF OneUpdated, ClearLapsedMute
  <2>2. DiskFollows
    BY <2>0, SaveFollows DEF ClearLapsedMute, DiskFollows
  <2>3. QED
    BY <1>5, <2>1, <2>2 DEF DecideAlert, Goto
<1>6. QED
  BY <1>1, <1>2, <1>3, <1>4, <1>5 DEF PollStep

\* Starting a monitor: its name is registered if it is new.
LEMMA AddFrame ==
  ASSUME TypeOK, NEW h \in Hosts, NEW n \in Names, ManagerAdd(h, n)
  PROVE  \/ UNCHANGED <<switches, disk, monitors, pc, monName, stopped, beside>>
         \/ \E i \in 1 .. MaxSlots :
              /\ pc[<<h, i>>] = "none"
              /\ pc' = [pc EXCEPT ![<<h, i>>] = "idle"]
              /\ monName' = [monName EXCEPT ![<<h, i>>] = n]
              /\ stopped' = [stopped EXCEPT ![<<h, i>>] = FALSE]
              /\ OneAdded(n, h) /\ switches'[n] # NoSwitch
              /\ beside' = IF \E o \in Operators : deleting[o] = n
                           THEN beside \union {<<h, i>>} ELSE beside \ {<<h, i>>}
              /\ DiskFollows
<1>1. CASE monitors[h] # NoMonitor
  BY <1>1 DEF ManagerAdd, threadVars
<1>2. CASE monitors[h] = NoMonitor
  <2>1. PICK i \in 1 .. MaxSlots :
          /\ pc[<<h, i>>] = "none"
          /\ RegisterSwitch(n, h)
          /\ pc' = [pc EXCEPT ![<<h, i>>] = "idle"]
          /\ monName' = [monName EXCEPT ![<<h, i>>] = n]
          /\ stopped' = [stopped EXCEPT ![<<h, i>>] = FALSE]
          /\ beside' = IF \E o \in Operators : deleting[o] = n
                       THEN beside \union {<<h, i>>} ELSE beside \ {<<h, i>>}
    BY <1>2 DEF ManagerAdd, StartMonitor
  <2>2. OneAdded(n, h) /\ switches'[n] # NoSwitch
    BY <2>1, FreshType, EntryUpdate DEF RegisterSwitch, OneAdded, TypeOK
  <2>3. DiskFollows
    BY <2>1, SaveFollows DEF RegisterSwitch, MaySave, Save, NoSave, DiskFollows
  <2>4. QED
    BY <2>1, <2>2, <2>3
<1>3. QED
  BY <1>1, <1>2

LEMMA UpdateKeepsNames ==
  ASSUME TypeOK, NamesAreKept, UNCHANGED <<monName, manual>>, OneUpdated, DiskFollows
  PROVE  NamesAreKept'
<1>1. \A n \in Names : switches'[n] # NoSwitch => <<n, switches'[n].host>> \in Named
  <2>1. CASE UNCHANGED switches
    BY <2>1 DEF NamesAreKept
  <2>2. ASSUME NEW m \in Names, NEW r \in SwitchState, Updates(m, r)
        PROVE  \A n \in Names : switches'[n] # NoSwitch => <<n, switches'[n].host>> \in Named
    BY <2>2 DEF NamesAreKept, Updates, TypeOK
  <2>3. QED
    BY <2>1, <2>2 DEF OneUpdated
<1>2. QED
  BY <1>1 DEF NamesAreKept, DiskFollows, Named

LEMMA AddKeepsNames ==
  ASSUME TypeOK, NamesAreKept, NEW h \in Hosts, NEW n \in Names, <<n, h>> \in Named,
         ManagerAdd(h, n), manual' = manual \/ manual' = [manual EXCEPT ![n] = h]
  PROVE  NamesAreKept'
<1>0. \A m \in Names : manual'[m] # NoHost => <<m, manual'[m]>> \in Named
  BY DEF NamesAreKept, TypeOK
<1>1. CASE UNCHANGED <<switches, disk, monitors, pc, monName, stopped, beside>>
  BY <1>0, <1>1 DEF NamesAreKept, Named
<1>2. CASE \E i \in 1 .. MaxSlots :
             /\ monName' = [monName EXCEPT ![<<h, i>>] = n]
             /\ OneAdded(n, h)
             /\ DiskFollows
  <2>1. PICK i \in 1 .. MaxSlots :
             /\ monName' = [monName EXCEPT ![<<h, i>>] = n]
             /\ OneAdded(n, h)
             /\ DiskFollows
    BY <1>2
  <2>2. Fresh(h).host = h
    BY DEF Fresh
  <2>3. \A m \in Names : switches'[m] # NoSwitch => <<m, switches'[m].host>> \in Named
    BY <2>1, <2>2 DEF OneAdded, NamesAreKept, TypeOK
  <2>4. \A t \in Threads : <<monName'[t], HostOf(t)>> \in Named
    BY <2>1 DEF NamesAreKept, TypeOK, HostOf
  <2>5. QED
    BY <1>0, <2>1, <2>3, <2>4 DEF NamesAreKept, DiskFollows, Named
<1>3. QED
  BY <1>1, <1>2, AddFrame

LEMMA BootKeepsNames ==
  ASSUME TypeOK, NamesAreKept, Restart
  PROVE  NamesAreKept'
<1>1. PICK seed \in [Hosts -> Names \union {NoName}] : Boot(seed)
  BY DEF Restart
<1>2. \A h \in Hosts : seed[h] # NoName => <<seed[h], h>> \in Named
  BY <1>1 DEF Boot, SeedsBoot, NamesAreKept, Named
<1>3. PICK home \in [NewNames(seed) -> Hosts] :
        /\ \A n \in NewNames(seed) : seed[home[n]] = n
        /\ switches' = [n \in Names |->
             IF n \in NewNames(seed) THEN Fresh(home[n]) ELSE disk[n]]
  BY <1>1 DEF Boot
<1>4. ASSUME NEW n \in Names, switches'[n] # NoSwitch
      PROVE  <<n, switches'[n].host>> \in Named
  <2>1. CASE n \in NewNames(seed)
    <3>1. home[n] \in Hosts /\ seed[home[n]] = n /\ switches'[n].host = home[n]
      BY <1>3, <2>1 DEF Fresh
    <3>2. QED
      BY <1>2, <3>1
  <2>2. CASE n \notin NewNames(seed)
    BY <1>3, <1>4, <2>2 DEF NamesAreKept
  <2>3. QED
    BY <2>1, <2>2
<1>5. DiskFollows
  BY <1>1, SaveFollows DEF Boot, DiskFollows
<1>6. ASSUME NEW t \in Threads PROVE <<monName'[t], HostOf(t)>> \in Named
  <2>1. monName'[t] = IpName[HostOf(t)] \/ (seed[HostOf(t)] # NoName /\ monName'[t] = seed[HostOf(t)])
    BY <1>1 DEF Boot, Seeded
  <2>2. QED
    BY <1>2, <2>1, ThreadHost, OwnName
<1>7. UNCHANGED manual
  BY <1>1 DEF Boot
<1>8. QED
  BY <1>4, <1>5, <1>6, <1>7 DEF NamesAreKept, DiskFollows, Named

LEMMA NamesStep == TypeOK /\ NamesAreKept /\ [Next]_vars => NamesAreKept'
<1> SUFFICES ASSUME TypeOK, NamesAreKept, [Next]_vars PROVE NamesAreKept'
  OBVIOUS
<1>1. ASSUME NEW t \in Threads, PollStep(t) PROVE NamesAreKept'
  <2>1. CASE Exit(t)
    <3>1. \A u \in Threads : <<monName'[u], HostOf(u)>> \in Named
      BY <2>1, OwnName DEF Exit, NamesAreKept, TypeOK
    <3>2. QED
      BY <2>1, <3>1 DEF Exit, NamesAreKept, Named
  <2>2. CASE ~Exit(t)
    <3>1. UNCHANGED <<monName, manual>> /\ OneUpdated /\ DiskFollows
      BY <1>1, <2>2, PollFrame
    <3>2. QED
      BY <3>1, UpdateKeepsNames
  <2>3. QED
    BY <2>1, <2>2
<1>2. ASSUME NEW h \in Hosts, Discover(h) PROVE NamesAreKept'
  BY <1>2, AddKeepsNames DEF Discover, Named
<1>3. ASSUME NEW o \in Operators, NEW n \in Names, NEW h \in Hosts, ManualAdd(o, n, h)
      PROVE  NamesAreKept'
  <2>1. <<n, h>> \in Named /\ ManagerAdd(h, n) /\ manual' = [manual EXCEPT ![n] = h]
    BY <1>3 DEF ManualAdd, Named
  <2>2. QED
    BY <2>1, AddKeepsNames
<1>4. ASSUME UNCHANGED <<monName, switches, disk>>,
             manual' = manual \/ \E m \in Names : manual' = [manual EXCEPT ![m] = NoHost]
      PROVE  NamesAreKept'
  BY <1>4 DEF NamesAreKept, Named, TypeOK
<1>5. ASSUME NEW o \in Operators, NEW n \in Names, ManualRemove(o, n) \/ DeleteBegin(o, n)
      PROVE  NamesAreKept'
  BY <1>4, <1>5 DEF ManualRemove, DeleteBegin, threadVars
<1>6. ASSUME NEW o \in Operators, DeleteEnd(o) PROVE NamesAreKept'
  <2>1. UNCHANGED <<monName, manual>> /\ (UNCHANGED <<switches, disk>> \/ RemoveSwitch(deleting[o]))
    BY <1>6 DEF DeleteEnd
  <2>2. CASE RemoveSwitch(deleting[o])
    <3> DEFINE n == deleting[o]
    <3>1. switches' = [switches EXCEPT ![n] = NoSwitch] /\ DiskFollows
      BY <2>2, SaveFollows DEF RemoveSwitch
    <3>2. \A m \in Names : switches'[m] # NoSwitch => <<m, switches'[m].host>> \in Named
      BY <3>1 DEF NamesAreKept, TypeOK
    <3>3. QED
      BY <2>1, <3>1, <3>2 DEF NamesAreKept, DiskFollows, Named
  <2>3. QED
    BY <1>4, <2>1, <2>2
<1>7. ASSUME NEW o \in Operators, NEW n \in Names, NEW m \in MuteStates, SetMute(o, n, m)
      PROVE  NamesAreKept'
  <2>1. UNCHANGED <<monName, manual>> /\ DiskFollows
    BY <1>7, SaveFollows DEF SetMute, threadVars
  <2>2. OneUpdated
    BY <1>7, MuteUpdates DEF SetMute, OneUpdated
  <2>3. QED
    BY <2>1, <2>2, UpdateKeepsNames
<1>8. ASSUME NEW n \in Names, MuteLapses(n) PROVE NamesAreKept'
  <2> DEFINE Lapse(s) == IF s[n] # NoSwitch /\ s[n].mute = "timed"
                         THEN [s EXCEPT ![n] = [@ EXCEPT !.mute = "lapsed"]] ELSE s
  <2>1. /\ switches' = Lapse(switches) /\ disk' = Lapse(disk)
        /\ UNCHANGED <<monName, manual>>
    BY <1>8 DEF MuteLapses, threadVars
  <2>2. ASSUME NEW s \in [Names -> SwitchState \union {NoSwitch}],
               \A m \in Names : s[m] # NoSwitch => <<m, s[m].host>> \in Named
        PROVE  \A m \in Names : Lapse(s)[m] # NoSwitch => <<m, Lapse(s)[m].host>> \in Named
    <3>1. CASE s[n] # NoSwitch /\ s[n].mute = "timed"
      <4> DEFINE r == [s[n] EXCEPT !.mute = "lapsed"]
      <4>1. s[n] \in SwitchState
        BY <3>1
      <4>2. r.host = s[n].host
        BY <4>1, EntryFields
      <4>3. Lapse(s) = [s EXCEPT ![n] = r]
        BY <3>1
      <4> HIDE DEF r, Lapse
      <4>4. QED
        BY <2>2, <3>1, <4>2, <4>3
    <3>2. CASE ~(s[n] # NoSwitch /\ s[n].mute = "timed")
      <4>1. Lapse(s) = s
        BY <3>2
      <4>2. QED
        BY <2>2, <4>1
    <3>3. QED
      BY <3>1, <3>2
  <2>3. /\ \A m \in Names : Lapse(switches)[m] # NoSwitch => <<m, Lapse(switches)[m].host>> \in Named
        /\ \A m \in Names : Lapse(disk)[m] # NoSwitch => <<m, Lapse(disk)[m].host>> \in Named
    BY <2>2 DEF NamesAreKept, TypeOK
  <2> HIDE DEF Lapse
  <2>4. QED
    BY <2>1, <2>3 DEF NamesAreKept, Named
<1>9. ASSUME NEW o \in Operators, NEW n \in Names, NEW b \in BOOLEAN, SetUnmanaged(o, n, b)
      PROVE  NamesAreKept'
  <2>1. UNCHANGED <<monName, manual>> /\ DiskFollows
    BY <1>9, SaveFollows DEF SetUnmanaged, threadVars
  <2>2. OneUpdated
    BY <1>9, UnmanagedUpdates DEF SetUnmanaged, OneUpdated
  <2>3. QED
    BY <2>1, <2>2, UpdateKeepsNames
<1>10. ASSUME UNCHANGED <<monName, switches, disk, manual>> PROVE NamesAreKept'
  BY <1>4, <1>10
<1>11. ASSUME NEW o \in Operators, Stop(o) \/ DeleteManual(o) PROVE NamesAreKept'
  BY <1>4, <1>11 DEF Stop, DeleteManual, threadVars
<1>12. QED
  BY <1>1, <1>2, <1>3, <1>5, <1>6, <1>7, <1>8, <1>9, <1>10, <1>11, BootKeepsNames
     DEF Next, DedupExpires, ScanLoses, ReachChanges, vars, threadVars

\* Names belong to hosts as the operator and the scanner gave them, in the
\* threads, in the registry, on disk and in the list of manual hosts.
LEMMA NamesStayKept == Spec => []NamesAreKept
<1>1. Init => NamesAreKept
  BY OwnName DEF Init, NamesAreKept
<1>2. QED
  BY <1>1, NamesStep, TypeCorrect, PTL DEF Spec

-------------------------------------------------------------------------------
(***************************************************************************)
(* Nothing polls in the name of a deleted switch.  A delete stops the      *)
(* monitor of the host that the registry has for the name, so a name must  *)
(* always stand for one host.                                              *)
(***************************************************************************)
NamesAreStable ==
  \A n \in Names, g, h \in Hosts : <<n, g>> \in Named /\ <<n, h>> \in Named => g = h

\* The two ways a thread may outlive its switch.
Outlives(t) == Stopping(t) \/ t \in beside

\* A name that is being deleted is polled for only by a thread another request is about to
\* stop, and by one that was started meanwhile.
DeletedIsUnpolled ==
  \A o \in Operators, t \in Threads :
    deleting[o] # NoName /\ Alive(t) /\ monName[t] = deleting[o] => Outlives(t)

PollersInv == PollersHaveAState /\ DeletedIsUnpolled

LEMMA PollersFrame ==
  ASSUME PollersInv, UNCHANGED deleting,
         \A t \in Threads : Alive(t)' => /\ Alive(t) /\ monName'[t] = monName[t]
                                         /\ Outlives(t) => Outlives(t)',
         \A n \in Names : switches[n] # NoSwitch => switches'[n] # NoSwitch,
         TypeOK
  PROVE  PollersInv'
<1>1. \A t \in Threads : monName[t] \in Names
  BY DEF TypeOK
<1>2. \A t \in Threads : Alive(t)' => Outlives(t)' \/ switches'[monName'[t]] # NoSwitch
  BY <1>1 DEF PollersInv, PollersHaveAState, Outlives
<1>3. PollersHaveAState'
  BY <1>2 DEF PollersHaveAState, Outlives
<1>4. \A o \in Operators, t \in Threads :
        deleting'[o] # NoName /\ Alive(t)' /\ monName'[t] = deleting'[o] => Outlives(t)'
  BY DEF PollersInv, DeletedIsUnpolled
<1>5. DeletedIsUnpolled'
  BY <1>4 DEF DeletedIsUnpolled
<1>6. QED
  BY <1>3, <1>5 DEF PollersInv

LEMMA UpdateKeepsEntries ==
  ASSUME TypeOK, OneUpdated
  PROVE  \A n \in Names : switches[n] # NoSwitch => switches'[n] # NoSwitch
  BY EntryUpdate DEF OneUpdated, Updates, TypeOK

LEMMA AddKeepsPollers ==
  ASSUME TypeOK, PollersInv, NEW h \in Hosts, NEW n \in Names, ManagerAdd(h, n),
         UNCHANGED <<deleting, stopping>>
  PROVE  PollersInv'
<1>1. CASE UNCHANGED <<switches, disk, monitors, pc, monName, stopped, beside>>
  BY <1>1, PollersFrame DEF Alive, Outlives, Stopping
<1>2. CASE \E i \in 1 .. MaxSlots :
              /\ pc[<<h, i>>] = "none"
              /\ pc' = [pc EXCEPT ![<<h, i>>] = "idle"]
              /\ monName' = [monName EXCEPT ![<<h, i>>] = n]
              /\ stopped' = [stopped EXCEPT ![<<h, i>>] = FALSE]
              /\ OneAdded(n, h) /\ switches'[n] # NoSwitch
              /\ beside' = IF \E o \in Operators : deleting[o] = n
                           THEN beside \union {<<h, i>>} ELSE beside \ {<<h, i>>}
  <2>1. PICK i \in 1 .. MaxSlots :
              /\ pc[<<h, i>>] = "none"
              /\ pc' = [pc EXCEPT ![<<h, i>>] = "idle"]
              /\ monName' = [monName EXCEPT ![<<h, i>>] = n]
              /\ stopped' = [stopped EXCEPT ![<<h, i>>] = FALSE]
              /\ OneAdded(n, h) /\ switches'[n] # NoSwitch
              /\ beside' = IF \E o \in Operators : deleting[o] = n
                           THEN beside \union {<<h, i>>} ELSE beside \ {<<h, i>>}
    BY <1>2
  <2>2. \A m \in Names : switches[m] # NoSwitch => switches'[m] # NoSwitch
    BY <2>1, FreshType, EntryUpdate DEF OneAdded, TypeOK
  <2>3. PICK u \in Threads : u = <<h, i>>
    BY DEF Threads
  <2>4. monName'[u] = n
    BY <2>1, <2>3 DEF TypeOK
  <2>5. ASSUME NEW t \in Threads, Alive(t)', t # u
        PROVE  /\ Alive(t) /\ monName'[t] = monName[t] /\ monName[t] \in Names
               /\ Outlives(t) => Outlives(t)'
    <3>1. Alive(t) /\ monName'[t] = monName[t] /\ monName[t] \in Names
      BY <2>1, <2>3, <2>5 DEF Alive, TypeOK
    <3>2. t \in beside => t \in beside'
      BY <2>1, <2>3, <2>5
    <3>3. QED
      BY <3>1, <3>2 DEF Outlives, Stopping
  <2>6. ASSUME NEW t \in Threads, Alive(t)'
        PROVE  Outlives(t)' \/ switches'[monName'[t]] # NoSwitch
    <3>1. CASE t = u
      BY <2>1, <2>4, <3>1
    <3>2. CASE t # u
      BY <2>2, <2>5, <2>6, <3>2 DEF PollersInv, PollersHaveAState, Outlives
    <3>3. QED
      BY <3>1, <3>2
  <2>7. PollersHaveAState'
    BY <2>6 DEF PollersHaveAState, Outlives
  <2>8. ASSUME NEW o \in Operators, NEW t \in Threads, deleting[o] # NoName, Alive(t)',
               monName'[t] = deleting[o]
        PROVE  Outlives(t)'
    <3>1. CASE t = u
      <4>1. deleting[o] = n
        BY <2>4, <2>8, <3>1
      <4>2. QED
        BY <2>1, <2>3, <3>1, <4>1 DEF Outlives
    <3>2. CASE t # u
      BY <2>5, <2>8, <3>2 DEF PollersInv, DeletedIsUnpolled
    <3>3. QED
      BY <3>1, <3>2
  <2>9. DeletedIsUnpolled'
    BY <2>8 DEF DeletedIsUnpolled
  <2>10. QED
    BY <2>7, <2>9 DEF PollersInv
<1>3. QED
  BY <1>1, <1>2, AddFrame

\* What was in the pool for the host is about to be stopped.
LEMMA PopKeepsOutlivers ==
  ASSUME TypeOK, NEW o \in Operators, NEW h \in Hosts, stopping[o] = NoMonitor,
         ManagerPop(o, h), beside' = beside, NEW t \in Threads
  PROVE  /\ Outlives(t) => Outlives(t)'
         /\ monitors[h] = t => Outlives(t)'
<1>1. \A p \in Operators : stopping'[p] = IF p = o THEN monitors[h] ELSE stopping[p]
  BY DEF ManagerPop, TypeOK
<1>2. QED
  BY <1>1, NullAssumption DEF Outlives, Stopping

\* The monitor a delete takes out of the pool is the one that polls in that name.
LEMMA DeleteStopsPoller ==
  ASSUME NamesAreStable, TypeOK, ManagerOwnsPollers, NamesAreKept, PollersInv,
         NEW o \in Operators, NEW n \in Names, DeleteBegin(o, n)
  PROVE  PollersInv'
<1>1. /\ switches[n] # NoSwitch /\ deleting' = [deleting EXCEPT ![o] = n]
      /\ stopping[o] = NoMonitor
      /\ ManagerPop(o, switches[n].host)
      /\ UNCHANGED <<switches, pc, monName, stopped, beside>>
  BY DEF DeleteBegin, Free, threadVars
<1>2. PICK h \in Hosts : h = switches[n].host
  BY <1>1 DEF TypeOK, SwitchState
<1>3. ASSUME NEW t \in Threads
      PROVE  /\ Alive(t)' <=> Alive(t)
             /\ Outlives(t) => Outlives(t)'
             /\ monitors[h] = t => Outlives(t)'
  BY <1>1, <1>2, PopKeepsOutlivers DEF Alive
<1>4. ASSUME NEW t \in Threads, Alive(t), monName[t] = n PROVE Outlives(t)'
  <2>1. HostOf(t) = h
    <3>1. HostOf(t) \in Hosts /\ <<n, HostOf(t)>> \in Named /\ <<n, h>> \in Named
      BY <1>1, <1>2, <1>4, ThreadHost DEF NamesAreKept, Alive
    <3>2. QED
      BY <3>1 DEF NamesAreStable
  <2>2. monitors[h] = t \/ Stopping(t)
    BY <1>4, <2>1 DEF ManagerOwnsPollers
  <2>3. QED
    BY <1>3, <2>2 DEF Outlives
<1>5. PollersHaveAState'
  <2>1. \A t \in Threads : Alive(t) => Outlives(t) \/ switches[monName[t]] # NoSwitch
    BY DEF PollersInv, PollersHaveAState, Outlives
  <2>2. \A t \in Threads : Alive(t)' => Outlives(t)' \/ switches'[monName'[t]] # NoSwitch
    BY <1>1, <1>3, <2>1
  <2>3. QED
    BY <2>2 DEF PollersHaveAState, Outlives
<1>6. \A p \in Operators : deleting'[p] = IF p = o THEN n ELSE deleting[p]
  BY <1>1 DEF TypeOK
<1>7. \A p \in Operators, t \in Threads :
        deleting'[p] # NoName /\ Alive(t)' /\ monName'[t] = deleting'[p] => Outlives(t)'
  BY <1>1, <1>3, <1>4, <1>6 DEF PollersInv, DeletedIsUnpolled
<1>8. DeletedIsUnpolled'
  BY <1>7 DEF DeletedIsUnpolled
<1>9. QED
  BY <1>5, <1>8 DEF PollersInv

LEMMA StopKeepsPollers ==
  ASSUME TypeOK, PollersInv, NEW o \in Operators, Stop(o)
  PROVE  PollersInv'
<1>1. PICK u \in Threads : u = stopping[o]
  BY DEF Stop, TypeOK
<1>2. /\ \A p \in Operators : stopping'[p] = IF p = o THEN NoMonitor ELSE stopping[p]
      /\ \A t \in Threads : stopped'[t] = (t = u \/ stopped[t])
      /\ UNCHANGED <<switches, monName, pc, deleting, beside>>
  BY <1>1 DEF Stop, StopMonitor, TypeOK
<1>3. ASSUME NEW t \in Threads, Alive(t)'
      PROVE  Alive(t) /\ (Outlives(t) => Outlives(t)')
  <2>1. t # u /\ Alive(t)
    BY <1>2, <1>3 DEF Alive
  <2>2. \A p \in Operators : stopping[p] = t => stopping'[p] = t
    BY <1>1, <1>2, <2>1
  <2>3. QED
    BY <1>2, <2>1, <2>2 DEF Outlives, Stopping
<1>4. QED
  BY <1>2, <1>3, PollersFrame

LEMMA DeleteKeepsPollers ==
  ASSUME TypeOK, PollersInv, NEW o \in Operators, DeleteEnd(o)
  PROVE  PollersInv'
<1>1. PICK n \in Names : n = deleting[o]
  BY DEF DeleteEnd, TypeOK
<1>2. /\ deleting' = [deleting EXCEPT ![o] = NoName]
      /\ UNCHANGED <<pc, monName, stopped, stopping, beside>>
      /\ UNCHANGED switches \/ switches' = [switches EXCEPT ![n] = NoSwitch]
  BY <1>1 DEF DeleteEnd, RemoveSwitch
<1>3. \A t \in Threads : /\ Alive(t)' <=> Alive(t)
                         /\ Outlives(t)' <=> Outlives(t)
                         /\ monName'[t] = monName[t] /\ monName[t] \in Names
  BY <1>2 DEF Alive, Outlives, Stopping, TypeOK
<1>4. ASSUME NEW t \in Threads, Alive(t)
      PROVE  Outlives(t) \/ switches'[monName[t]] # NoSwitch
  <2>1. n # NoName /\ deleting[o] # NoName
    BY <1>1
  <2>2. CASE monName[t] = n
    BY <1>1, <1>4, <2>1, <2>2 DEF PollersInv, DeletedIsUnpolled
  <2>3. CASE monName[t] # n
    BY <1>2, <1>3, <1>4, <2>3 DEF PollersInv, PollersHaveAState, Outlives, TypeOK
  <2>4. QED
    BY <2>2, <2>3
<1>5. PollersHaveAState'
  BY <1>3, <1>4 DEF PollersHaveAState, Outlives
<1>6. \A p \in Operators : deleting'[p] = IF p = o THEN NoName ELSE deleting[p]
  BY <1>2 DEF TypeOK
<1>7. DeletedIsUnpolled'
  BY <1>3, <1>6 DEF PollersInv, DeletedIsUnpolled
<1>8. QED
  BY <1>5, <1>7 DEF PollersInv

LEMMA BootKeepsPollers ==
  ASSUME TypeOK, PollersInv, Restart
  PROVE  PollersInv'
<1>1. PICK seed \in [Hosts -> Names \union {NoName}] : Boot(seed)
  BY DEF Restart
<1>2. PICK home \in [NewNames(seed) -> Hosts] :
        switches' = [n \in Names |->
             IF n \in NewNames(seed) THEN Fresh(home[n]) ELSE disk[n]]
  BY <1>1 DEF Boot
<1>3. /\ pc' = [t \in Threads |->
           IF t[2] = 1 /\ HostOf(t) \in Seeded(seed) THEN "idle" ELSE "none"]
      /\ monName' = [t \in Threads |->
           IF t[2] = 1 /\ HostOf(t) \in Seeded(seed) THEN seed[HostOf(t)]
           ELSE IpName[HostOf(t)]]
      /\ deleting' = [o \in Operators |-> NoName]
  BY <1>1 DEF Boot
<1>4. ASSUME NEW t \in Threads, Alive(t)' PROVE switches'[monName'[t]] # NoSwitch
  <2>1. t[2] = 1 /\ HostOf(t) \in Seeded(seed)
    BY <1>3, <1>4 DEF Alive
  <2>2. PICK n \in Names : n = seed[HostOf(t)] /\ n = monName'[t]
    BY <1>3, <2>1 DEF Seeded
  <2>3. CASE n \in NewNames(seed)
    <3>1. switches'[n] = Fresh(home[n]) /\ home[n] \in Hosts
      BY <1>2, <2>3
    <3>2. QED
      BY <2>2, <3>1, FreshType, EntryUpdate
  <2>4. CASE n \notin NewNames(seed)
    <3>1. disk[n] # NoSwitch
      BY <2>1, <2>2, <2>4 DEF NewNames
    <3>2. QED
      BY <1>2, <2>2, <2>4, <3>1
  <2>5. QED
    BY <2>3, <2>4
<1>5. PollersHaveAState'
  BY <1>4 DEF PollersHaveAState
<1>6. DeletedIsUnpolled'
  BY <1>3 DEF DeletedIsUnpolled
<1>7. QED
  BY <1>5, <1>6 DEF PollersInv

LEMMA PollersStep ==
  ASSUME NamesAreStable, TypeOK, ManagerOwnsPollers, NamesAreKept, PollersInv,
         [Next]_vars
  PROVE  PollersInv'
<1>1. ASSUME NEW t \in Threads, PollStep(t) PROVE PollersInv'
  <2>1. CASE Exit(t)
    <3>1. \A u \in Threads : Alive(u)' => Alive(u) /\ monName'[u] = monName[u] /\ u # t
      BY <2>1 DEF Exit, Goto, Alive, TypeOK
    <3>2. UNCHANGED <<deleting, stopping, switches>> /\ beside' = beside \ {t}
      BY <2>1 DEF Exit
    <3>3. \A u \in Threads : u # t /\ Outlives(u) => Outlives(u)'
      BY <3>2 DEF Outlives, Stopping
    <3>4. QED
      BY <3>1, <3>2, <3>3, PollersFrame
  <2>2. CASE ~Exit(t)
    <3>1. /\ UNCHANGED <<stopped, monName, deleting, stopping, beside>> /\ OneUpdated
          /\ pc[t] # "none"
          /\ \E l \in {"idle", "probe", "okCheck", "fail", "alert", "mail"} :
              pc' = [pc EXCEPT ![t] = l]
      BY <1>1, <2>2, PollFrame DEF requestVars
    <3>2. \A u \in Threads : (Alive(u)' => Alive(u)) /\ (Outlives(u) => Outlives(u)')
      BY <3>1 DEF Alive, Outlives, Stopping, TypeOK
    <3>3. QED
      BY <3>1, <3>2, PollersFrame, UpdateKeepsEntries
  <2>3. QED
    BY <2>1, <2>2
<1>2. ASSUME NEW o \in Operators, NEW n \in Names, NEW h \in Hosts, ManualAdd(o, n, h)
      PROVE  PollersInv'
  BY <1>2, AddKeepsPollers DEF ManualAdd
<1>3. ASSUME NEW o \in Operators, NEW n \in Names, ManualRemove(o, n)
      PROVE  PollersInv'
  <2>1. /\ UNCHANGED <<deleting, switches, pc, monName, stopped, beside>>
        /\ ManagerPop(o, manual[n]) /\ stopping[o] = NoMonitor /\ manual[n] \in Hosts
    BY <1>3 DEF ManualRemove, Free, threadVars, TypeOK
  <2>2. \A u \in Threads : (Alive(u)' => Alive(u)) /\ (Outlives(u) => Outlives(u)')
    BY <2>1, PopKeepsOutlivers DEF Alive
  <2>3. QED
    BY <2>1, <2>2, PollersFrame
<1>4. ASSUME UNCHANGED <<deleting, stopping, beside, pc, stopped, monName>>, OneUpdated
      PROVE  PollersInv'
  BY <1>4, PollersFrame, UpdateKeepsEntries DEF Alive, Outlives, Stopping
<1>5. ASSUME NEW o \in Operators, NEW n \in Names, NEW m \in MuteStates, SetMute(o, n, m)
      PROVE  PollersInv'
  <2>1. OneUpdated
    BY <1>5, MuteUpdates DEF SetMute, OneUpdated
  <2>2. QED
    BY <1>4, <1>5, <2>1 DEF SetMute, threadVars, requestVars
<1>6. ASSUME NEW n \in Names, MuteLapses(n) PROVE PollersInv'
  <2>1. "lapsed" \in MuteStates
    BY DEF MuteStates
  <2>2. OneUpdated
    BY <1>6, <2>1, MuteUpdates DEF MuteLapses, OneUpdated
  <2>3. QED
    BY <1>4, <1>6, <2>2 DEF MuteLapses, threadVars, requestVars
<1>7. ASSUME NEW o \in Operators, NEW n \in Names, NEW b \in BOOLEAN, SetUnmanaged(o, n, b)
      PROVE  PollersInv'
  <2>1. OneUpdated
    BY <1>7, UnmanagedUpdates DEF SetUnmanaged, OneUpdated
  <2>2. QED
    BY <1>4, <1>7, <2>1 DEF SetUnmanaged, threadVars, requestVars
<1>8. ASSUME UNCHANGED <<deleting, stopping, beside, pc, stopped, monName, switches>> PROVE PollersInv'
  BY <1>4, <1>8 DEF OneUpdated
<1>9. ASSUME NEW h \in Hosts, Discover(h) PROVE PollersInv'
  <2>1. ManagerAdd(h, IpName[h]) /\ IpName[h] \in Names /\ UNCHANGED <<deleting, stopping>>
    BY <1>9 DEF Discover
  <2>2. QED
    BY <1>9, <2>1, AddKeepsPollers
<1>10. CASE UNCHANGED vars
  BY <1>8, <1>10 DEF vars, threadVars, requestVars
<1>11. CASE Next
  BY <1>1, <1>2, <1>3, <1>5, <1>6, <1>7, <1>8, <1>9, <1>11, BootKeepsPollers,
     DeleteKeepsPollers, DeleteStopsPoller, StopKeepsPollers
     DEF Next, DedupExpires, ScanLoses, DeleteManual, ReachChanges, threadVars, requestVars
<1>12. QED
  BY <1>10, <1>11

\* Once a switch is deleted, no monitor goes on polling in its name, but one that another
\* request is about to stop and one that was started meanwhile: for any number of hosts,
\* names, threads and operators, with scans, crashes, failed writes, mutes and polls at any
\* moment, if names stand for one host each.
THEOREM DeletedStaysUnpolled ==
  ASSUME NamesAreStable
  PROVE  Spec => []PollersHaveAState
<1>1. Init => PollersInv
  BY DEF Init, PollersInv, PollersHaveAState, DeletedIsUnpolled, Alive
<1>2. TypeOK /\ ManagerOwnsPollers /\ NamesAreKept /\ PollersInv /\ [Next]_vars => PollersInv'
  BY PollersStep
<1>3. PollersInv => PollersHaveAState
  BY DEF PollersInv
<1>4. QED
  BY <1>1, <1>2, <1>3, TypeCorrect, PollersAreOwned, NamesStayKept, PTL DEF Spec

-------------------------------------------------------------------------------
(***************************************************************************)
(* A switch is marked down by counting, and a count is read before the     *)
(* lock is taken that stores it.  What keeps the counts honest is that no  *)
(* two threads poll in one name: the manager promises less than that, for  *)
(* a monitor that was removed finishes the poll it is in.                  *)
(***************************************************************************)
OneThreadPerName ==
  \A t, u \in Threads :
    t # u /\ pc[t] # "none" /\ pc[u] # "none" => monName[t] # monName[u]

LEMMA AloneInName ==
  ASSUME MaxSlots = 1, NamesAreStable, TypeOK, NamesAreKept
  PROVE  OneThreadPerName
<1> SUFFICES ASSUME NEW t \in Threads, NEW u \in Threads, monName[t] = monName[u]
             PROVE  t = u
  BY DEF OneThreadPerName
<1>1. /\ monName[t] \in Names /\ HostOf(t) \in Hosts /\ HostOf(u) \in Hosts
      /\ <<monName[t], HostOf(t)>> \in Named /\ <<monName[t], HostOf(u)>> \in Named
  BY ThreadHost DEF NamesAreKept, TypeOK
<1>2. HostOf(t) = HostOf(u)
  BY <1>1 DEF NamesAreStable
<1>3. t = <<HostOf(t), 1>> /\ u = <<HostOf(u), 1>>
  BY DEF Threads, HostOf
<1>4. QED
  BY <1>2, <1>3

\* Where a monitor waits for the poll of its predecessor and names stand for one host each,
\* no two threads poll in one name.
LEMMA NamesArePolledAlone ==
  ASSUME MaxSlots = 1, NamesAreStable
  PROVE  Spec => []OneThreadPerName
<1>1. TypeOK /\ NamesAreKept => OneThreadPerName
  BY AloneInName
<1>2. QED
  BY <1>1, TypeCorrect, NamesStayKept, PTL

\* Nothing counts that was not observed, neither in the registry nor in a thread that is
\* about to store what it counted.
FailureIsSeen(t, n) ==
  pc[t] = "fail" /\ switches[n] # NoSwitch => newFailures[t] <= streak[n]
CountIsSeen(n) == switches[n] # NoSwitch => switches[n].failures <= streak[n]

CountInv ==
  /\ \A t \in Threads, n \in Names : monName[t] = n => FailureIsSeen(t, n)
  /\ \A n \in Names : CountIsSeen(n)

\* A step that counts nothing, and adds no entry.
LEMMA NothingCounted ==
  ASSUME CountInv,
         \A t \in Threads : pc'[t] = "fail" =>
            pc[t] = "fail" /\ monName'[t] = monName[t] /\ newFailures'[t] = newFailures[t],
         \A n \in Names : switches'[n] # NoSwitch =>
            /\ switches[n] # NoSwitch
            /\ switches'[n].failures = switches[n].failures /\ streak'[n] = streak[n]
  PROVE  CountInv'
<1>1. ASSUME NEW t \in Threads, NEW n \in Names, monName'[t] = n PROVE FailureIsSeen(t, n)'
  <2> SUFFICES ASSUME pc'[t] = "fail", switches'[n] # NoSwitch
               PROVE  newFailures'[t] <= streak'[n]
    BY DEF FailureIsSeen
  <2>1. monName[t] = n /\ pc[t] = "fail" /\ switches[n] # NoSwitch
    BY <1>1
  <2>2. newFailures[t] <= streak[n]
    BY <2>1 DEF CountInv, FailureIsSeen
  <2>3. QED
    BY <2>2
<1>2. \A n \in Names : CountIsSeen(n)'
  BY DEF CountInv, CountIsSeen
<1>3. QED
  BY <1>1, <1>2 DEF CountInv

LEMMA UpdateCountsNothing ==
  ASSUME TypeOK, CountInv, NEW n \in Names, NEW r \in SwitchState, Updates(n, r),
         r.failures = switches[n].failures, UNCHANGED <<monName, newFailures, streak>>,
         \A t \in Threads : pc'[t] = "fail" => pc[t] = "fail"
  PROVE  CountInv'
<1>1. \A m \in Names : switches'[m] # NoSwitch =>
        switches[m] # NoSwitch /\ switches'[m].failures = switches[m].failures
  BY DEF Updates, TypeOK
<1>2. QED
  BY <1>1, NothingCounted

\* A step of the only thread that polls in a name concerns its count and that of the entry.
LEMMA OneCounts ==
  ASSUME TypeOK, CountInv, OneThreadPerName,
         NEW t \in Threads, NEW n \in Names, monName[t] = n, pc[t] # "none",
         UNCHANGED monName, NEW l, pc' = [pc EXCEPT ![t] = l],
         \A u \in Threads : u # t => newFailures'[u] = newFailures[u],
         \A m \in Names : m # n => switches'[m] = switches[m] /\ streak'[m] = streak[m],
         FailureIsSeen(t, n)', CountIsSeen(n)'
  PROVE  CountInv'
<1>1. ASSUME NEW u \in Threads, NEW m \in Names, monName'[u] = m PROVE FailureIsSeen(u, m)'
  <2>1. CASE u = t
    <3>1. m = n
      BY <1>1, <2>1
    <3>2. QED
      BY <2>1, <3>1
  <2>2. CASE u # t
    <3>1. pc'[u] = pc[u] /\ monName[u] = m
      BY <1>1, <2>2 DEF TypeOK
    <3>2. pc'[u] = "fail" => m # n
      BY <2>2, <3>1 DEF OneThreadPerName
    <3>3. FailureIsSeen(u, m)
      BY <3>1 DEF CountInv
    <3>4. QED
      BY <2>2, <3>1, <3>2, <3>3 DEF FailureIsSeen
  <2>3. QED
    BY <2>1, <2>2
<1>2. ASSUME NEW m \in Names PROVE CountIsSeen(m)'
  <2>1. CASE m = n
    BY <2>1
  <2>2. CASE m # n
    BY <2>2 DEF CountInv, CountIsSeen
  <2>3. QED
    BY <2>1, <2>2
<1>3. QED
  BY <1>1, <1>2 DEF CountInv

LEMMA PollCounts ==
  ASSUME TypeOK, CountInv, OneThreadPerName, NEW t \in Threads, PollStep(t)
  PROVE  CountInv'
<1>1. PICK n \in Names : monName[t] = n
  BY DEF TypeOK
<1>2. FailureIsSeen(t, n) /\ CountIsSeen(n)
  BY <1>1 DEF CountInv
<1>3. /\ switches[n] \in SwitchState \union {NoSwitch}
      /\ streak[n] \in 0 .. MaxFailures /\ newFailures[t] \in 0 .. MaxFailures
      /\ switches[n] # NoSwitch => switches[n].failures \in 0 .. MaxFailures
  BY <1>1 DEF TypeOK, SwitchState
<1>4. CASE Exit(t)
  <2>1. \A u \in Threads : pc'[u] = "fail" => pc[u] = "fail" /\ monName'[u] = monName[u]
    BY <1>4 DEF Exit, Goto, TypeOK
  <2>2. UNCHANGED <<switches, newFailures, streak>>
    BY <1>4 DEF Exit, ghostVars
  <2>3. QED
    BY <2>1, <2>2, NothingCounted
<1>5. ASSUME UNCHANGED <<switches, newFailures, streak, monName>>,
             NEW l \in {"idle", "probe", "alert", "mail"}, pc' = [pc EXCEPT ![t] = l]
      PROVE  CountInv'
  <2>1. \A u \in Threads : pc'[u] = "fail" => pc[u] = "fail"
    BY <1>5 DEF TypeOK
  <2>2. QED
    BY <1>5, <2>1, NothingCounted
<1>6. CASE Dispatch(t)
  BY <1>5, <1>6 DEF Dispatch, Goto, ghostVars
<1>7. CASE ProbeGone(t)
  BY <1>5, <1>7 DEF ProbeGone, Goto, ghostVars
<1>8. CASE HandOver(t)
  BY <1>5, <1>8 DEF HandOver, Goto
<1>9. CASE ProbeOk(t)
  <2>1. PICK r \in SwitchState : Updates(n, r) /\ r.failures = 0
    BY <1>1, <1>9, AnsweredUpdates
  <2>2. /\ pc[t] = "probe" /\ pc' = [pc EXCEPT ![t] = "okCheck"]
        /\ streak' = [streak EXCEPT ![n] = 0]
        /\ UNCHANGED <<monName, newFailures>>
    BY <1>1, <1>9 DEF ProbeOk, Goto
  <2>3. /\ switches'[n] = r /\ streak'[n] = 0 /\ pc'[t] = "okCheck"
        /\ \A m \in Names : m # n => switches'[m] = switches[m] /\ streak'[m] = streak[m]
    BY <2>1, <2>2 DEF Updates, TypeOK
  <2>4. FailureIsSeen(t, n)' /\ CountIsSeen(n)'
    BY <2>1, <2>3 DEF FailureIsSeen, CountIsSeen
  <2>5. QED
    BY <1>1, <2>2, <2>3, <2>4, OneCounts
<1>10. CASE OkCheck(t)
  <2>1. /\ UNCHANGED <<monName, newFailures, streak>>
        /\ \E l \in {"idle", "alert"} : pc' = [pc EXCEPT ![t] = l]
    BY <1>10 DEF OkCheck, Goto, ghostVars
  <2>2. CASE UNCHANGED switches
    BY <1>5, <2>1, <2>2
  <2>3. CASE ~UNCHANGED switches
    <3>1. PICK r \in SwitchState : Updates(n, r) /\ r.failures = switches[n].failures
      BY <1>1, <1>10, <2>3, RestoredUpdates
    <3>2. \A u \in Threads : pc'[u] = "fail" => pc[u] = "fail"
      BY <2>1 DEF TypeOK
    <3>3. QED
      BY <2>1, <3>1, <3>2, UpdateCountsNothing
  <2>4. QED
    BY <2>2, <2>3
<1>11. CASE ProbeFail(t)
  <2>1. /\ pc[t] = "probe" /\ switches[n] # NoSwitch
        /\ newFailures' = [newFailures EXCEPT ![t] = Bump(switches[n].failures)]
        /\ streak' = [streak EXCEPT ![n] = Bump(streak[n])]
        /\ pc' = [pc EXCEPT ![t] = "fail"]
        /\ UNCHANGED <<switches, monName>>
    BY <1>1, <1>11 DEF ProbeFail, Goto
  <2>2. /\ newFailures'[t] = Bump(switches[n].failures) /\ streak'[n] = Bump(streak[n])
        /\ \A u \in Threads : u # t => newFailures'[u] = newFailures[u]
        /\ \A m \in Names : m # n => streak'[m] = streak[m]
    BY <2>1 DEF TypeOK
  <2>3. /\ Bump(switches[n].failures) <= Bump(streak[n])
        /\ switches[n].failures <= Bump(streak[n])
    BY <1>2, <1>3, <2>1 DEF Bump, CountIsSeen
  <2>4. FailureIsSeen(t, n)' /\ CountIsSeen(n)'
    BY <2>1, <2>2, <2>3 DEF FailureIsSeen, CountIsSeen
  <2>5. /\ \A m \in Names : m # n => switches'[m] = switches[m] /\ streak'[m] = streak[m]
        /\ \A u \in Threads : u # t => newFailures'[u] = newFailures[u]
        /\ pc[t] # "none" /\ UNCHANGED monName
    BY <2>1, <2>2
  <2>6. PICK l : pc' = [pc EXCEPT ![t] = l]
    BY <2>1
  <2>7. QED
    BY <1>1, <2>4, <2>5, <2>6, OneCounts
<1>12. CASE FailWrite(t)
  <2>1. /\ pc[t] = "fail"
        /\ newFailures' = [newFailures EXCEPT ![t] = 0]
        /\ UNCHANGED <<monName, streak>>
    BY <1>12 DEF FailWrite, ghostVars
  <2>2. PICK l \in {"idle", "alert"} : pc' = [pc EXCEPT ![t] = l]
    BY <1>12 DEF FailWrite, Goto
  <2>3. /\ pc'[t] # "fail"
        /\ \A u \in Threads : u # t => newFailures'[u] = newFailures[u]
    BY <2>1, <2>2 DEF TypeOK
  <2>4. /\ \A m \in Names : m # n => switches'[m] = switches[m]
        /\ CountIsSeen(n)'
    <3>1. CASE switches[n] = NoSwitch
      <4>1. UNCHANGED switches
        BY <1>1, <1>12, <3>1 DEF FailWrite, UpdateSwitch
      <4>2. QED
        BY <3>1, <4>1 DEF CountIsSeen
    <3>2. CASE switches[n] # NoSwitch
      <4>1. PICK r \in SwitchState : Updates(n, r) /\ r.failures = newFailures[t]
        BY <1>1, <1>12, <3>2, FailedUpdates
      <4>2. switches'[n] = r /\ \A m \in Names : m # n => switches'[m] = switches[m]
        BY <4>1 DEF Updates, TypeOK
      <4>3. newFailures[t] <= streak[n]
        BY <1>2, <2>1, <3>2 DEF FailureIsSeen
      <4>4. QED
        BY <2>1, <4>1, <4>2, <4>3 DEF CountIsSeen
    <3>3. QED
      BY <3>1, <3>2
  <2>5. FailureIsSeen(t, n)'
    BY <2>3 DEF FailureIsSeen
  <2>6. QED
    BY <1>1, <2>1, <2>2, <2>3, <2>4, <2>5, OneCounts
<1>13. CASE DecideAlert(t)
  <2>1. /\ UNCHANGED <<monName, newFailures, streak>>
        /\ \E l \in {"idle", "mail"} : pc' = [pc EXCEPT ![t] = l]
    BY <1>13 DEF DecideAlert, Goto, ghostVars
  <2>2. CASE UNCHANGED switches
    BY <1>5, <2>1, <2>2
  <2>3. CASE ~UNCHANGED switches
    <3>1. /\ switches[n] # NoSwitch
          /\ switches' = [switches EXCEPT ![n] = [@ EXCEPT !.mute = "off"]]
      BY <1>1, <1>13, <2>3 DEF DecideAlert, ClearLapsedMute
    <3>2. PICK r \in SwitchState : Updates(n, r) /\ r.failures = switches[n].failures
      <4>1. "off" \in MuteStates
        BY DEF MuteStates
      <4>2. QED
        BY <3>1, <4>1, MuteUpdates
    <3>3. \A u \in Threads : pc'[u] = "fail" => pc[u] = "fail"
      BY <2>1 DEF TypeOK
    <3>4. QED
      BY <2>1, <3>2, <3>3, UpdateCountsNothing
  <2>4. QED
    BY <2>2, <2>3
<1>14. QED
  BY <1>4, <1>6, <1>7, <1>8, <1>9, <1>10, <1>11, <1>12, <1>13 DEF PollStep

\* Whoever registers a name anew is the only one to poll in it, and has counted nothing.
LEMMA AddCounts ==
  ASSUME TypeOK, CountInv, OneThreadPerName', NEW h \in Hosts, NEW n \in Names,
         ManagerAdd(h, n)
  PROVE  CountInv'
<1>1. CASE monitors[h] # NoMonitor
  BY <1>1, NothingCounted DEF ManagerAdd, threadVars, ghostVars
<1>2. CASE monitors[h] = NoMonitor
  <2>1. PICK i \in 1 .. MaxSlots :
          /\ pc[<<h, i>>] = "none"
          /\ RegisterSwitch(n, h)
          /\ pc' = [pc EXCEPT ![<<h, i>>] = "idle"]
          /\ monName' = [monName EXCEPT ![<<h, i>>] = n]
          /\ UNCHANGED newFailures
    BY <1>2 DEF ManagerAdd, StartMonitor
  <2>2. PICK t \in Threads : t = <<h, i>>
    BY DEF Threads
  <2>3. /\ pc'[t] = "idle" /\ monName'[t] = n
        /\ \A u \in Threads : u # t => pc'[u] = pc[u] /\ monName'[u] = monName[u]
    BY <2>1, <2>2 DEF TypeOK
  <2>4. \A u \in Threads : pc'[u] = "fail" => monName'[u] # n
    BY <2>3 DEF OneThreadPerName
  <2>5. /\ \A m \in Names : m # n => switches'[m] = switches[m] /\ streak'[m] = streak[m]
        /\ switches[n] # NoSwitch => UNCHANGED <<switches, streak>>
        /\ switches[n] = NoSwitch => switches'[n] = Fresh(h) /\ streak'[n] = 0
    BY <2>1 DEF RegisterSwitch, TypeOK, ghostVars
  <2>6. ASSUME NEW u \in Threads, NEW m \in Names, monName'[u] = m
        PROVE  FailureIsSeen(u, m)'
    <3> SUFFICES ASSUME pc'[u] = "fail" PROVE FailureIsSeen(u, m)'
      BY DEF FailureIsSeen
    <3>1. u # t /\ m # n
      BY <2>3, <2>4, <2>6
    <3>2. monName[u] = m /\ pc[u] = "fail"
      BY <2>3, <2>6, <3>1
    <3>3. FailureIsSeen(u, m)
      BY <3>2 DEF CountInv
    <3>4. QED
      BY <2>1, <2>5, <3>1, <3>2, <3>3 DEF FailureIsSeen
  <2>7. ASSUME NEW m \in Names PROVE CountIsSeen(m)'
    <3>1. CountIsSeen(m)
      BY DEF CountInv
    <3>2. Fresh(h).failures = 0
      BY DEF Fresh
    <3>3. QED
      BY <2>5, <3>1, <3>2 DEF CountIsSeen
  <2>8. QED
    BY <2>6, <2>7 DEF CountInv
<1>3. QED
  BY <1>1, <1>2

LEMMA CountStep ==
  ASSUME "crash" \notin Events, TypeOK, CountInv, OneThreadPerName, OneThreadPerName',
         [Next]_vars
  PROVE  CountInv'
<1>1. ASSUME NEW t \in Threads, PollStep(t) PROVE CountInv'
  BY <1>1, PollCounts
<1>2. ASSUME UNCHANGED <<switches, pc, monName, newFailures, streak>> PROVE CountInv'
  BY <1>2, NothingCounted
<1>3. ASSUME NEW h \in Hosts, Discover(h) PROVE CountInv'
  <2>1. ManagerAdd(h, IpName[h]) /\ IpName[h] \in Names
    BY <1>3 DEF Discover
  <2>2. QED
    BY <2>1, AddCounts
<1>4. ASSUME NEW o \in Operators, NEW n \in Names, NEW h \in Hosts, ManualAdd(o, n, h)
      PROVE  CountInv'
  BY <1>4, AddCounts DEF ManualAdd
<1>5. ASSUME NEW o \in Operators, DeleteEnd(o) PROVE CountInv'
  <2>1. PICK n \in Names : n = deleting[o]
    BY <1>5 DEF DeleteEnd, TypeOK
  <2>2. /\ UNCHANGED <<pc, monName, newFailures>>
        /\ RemoveSwitch(n) \/ UNCHANGED <<switches, streak>>
    BY <1>5, <2>1 DEF DeleteEnd, ghostVars
  <2>3. CASE RemoveSwitch(n)
    <3>1. \A m \in Names : switches'[m] # NoSwitch =>
            switches'[m] = switches[m] /\ streak'[m] = streak[m]
      BY <2>3 DEF RemoveSwitch, TypeOK
    <3>2. QED
      BY <2>2, <3>1, NothingCounted
  <2>4. QED
    BY <1>2, <2>2, <2>3
<1>6. ASSUME NEW n \in Names, NEW r \in SwitchState, Updates(n, r),
             r.failures = switches[n].failures, UNCHANGED <<pc, monName, newFailures, streak>>
      PROVE  CountInv'
  BY <1>6, UpdateCountsNothing
<1>7. ASSUME NEW o \in Operators, NEW n \in Names, NEW m \in MuteStates, SetMute(o, n, m)
      PROVE  CountInv'
  BY <1>6, <1>7, MuteUpdates DEF SetMute, threadVars, ghostVars
<1>8. ASSUME NEW n \in Names, MuteLapses(n) PROVE CountInv'
  <2>1. "lapsed" \in MuteStates
    BY DEF MuteStates
  <2>2. PICK r \in SwitchState : Updates(n, r) /\ r.failures = switches[n].failures
    BY <1>8, <2>1, MuteUpdates DEF MuteLapses
  <2>3. QED
    BY <1>6, <1>8, <2>2 DEF MuteLapses, threadVars, ghostVars
<1>9. ASSUME NEW o \in Operators, NEW n \in Names, NEW b \in BOOLEAN, SetUnmanaged(o, n, b)
      PROVE  CountInv'
  BY <1>6, <1>9, UnmanagedUpdates DEF SetUnmanaged, threadVars, ghostVars
<1>10. QED
  BY <1>1, <1>2, <1>3, <1>4, <1>5, <1>7, <1>8, <1>9
     DEF Next, DedupExpires, ScanLoses, ManualRemove, DeleteBegin, Stop, DeleteManual, ReachChanges,
         Restart, vars, threadVars, ghostVars

LEMMA DownStep ==
  ASSUME "crash" \notin Events, TypeOK, CountInv, [Next]_vars, NEW n \in Names,
         switches[n] # NoSwitch, ~switches[n].isDown,
         switches'[n] # NoSwitch, switches'[n].isDown
  PROVE  streak[n] >= Threshold
<1>0. switches' # switches
  OBVIOUS
<1>1. ASSUME NEW t \in Threads, FailWrite(t) PROVE streak[n] >= Threshold
  <2>1. PICK r \in SwitchState :
          /\ Updates(monName[t], r)
          /\ r.isDown <=> switches[monName[t]].isDown \/ GoesDown(t)
    BY <1>0, <1>1, FailedUpdates
  <2>2. monName[t] = n /\ GoesDown(t)
    BY <2>1 DEF Updates, TypeOK
  <2>3. FailureIsSeen(t, n) /\ pc[t] = "fail"
    BY <1>1, <2>2 DEF CountInv, FailWrite
  <2>4. newFailures[t] <= streak[n] /\ newFailures[t] >= Threshold
    BY <2>2, <2>3 DEF FailureIsSeen, GoesDown
  <2>5. newFailures[t] \in Nat /\ streak[n] \in Nat
    BY DEF TypeOK
  <2>6. QED
    BY <2>4, <2>5, ConstantsAssumption
<1>2. ASSUME NEW m \in Names, NEW r \in SwitchState, Updates(m, r),
             r.isDown => switches[m].isDown
      PROVE  FALSE
  BY <1>2 DEF Updates, TypeOK
<1>3. ASSUME NEW t \in Threads, PollStep(t), ~FailWrite(t) PROVE FALSE
  <2>n. monName[t] \in Names
    BY DEF TypeOK
  <2>1. CASE Exit(t) \/ Dispatch(t) \/ ProbeGone(t) \/ ProbeFail(t) \/ HandOver(t)
    BY <1>0, <2>1 DEF Exit, Dispatch, ProbeGone, ProbeFail, HandOver
  <2>2. CASE ProbeOk(t)
    BY <1>2, <2>n, <2>2, AnsweredUpdates
  <2>3. CASE OkCheck(t)
    BY <1>0, <1>2, <2>n, <2>3, RestoredUpdates
  <2>4. CASE DecideAlert(t)
    <3>1. "off" \in MuteStates /\ ClearLapsedMute(monName[t])
      BY <2>4 DEF MuteStates, DecideAlert
    <3>2. QED
      BY <1>0, <1>2, <2>n, <3>1, MuteUpdates DEF ClearLapsedMute
  <2>5. QED
    BY <1>3, <2>1, <2>2, <2>3, <2>4 DEF PollStep
<1>4. ASSUME NEW h \in Hosts, NEW m \in Names, ManagerAdd(h, m) PROVE FALSE
  <2>1. UNCHANGED switches \/ OneAdded(m, h)
    BY <1>4, AddFrame
  <2>2. QED
    BY <1>0, <2>1 DEF OneAdded, TypeOK
<1>5. ASSUME NEW o \in Operators, DeleteEnd(o) PROVE FALSE
  BY <1>0, <1>5 DEF DeleteEnd, RemoveSwitch, TypeOK
<1>6. ASSUME NEW o \in Operators, NEW m \in Names, NEW b \in BOOLEAN, SetUnmanaged(o, m, b)
      PROVE  FALSE
  BY <1>2, <1>6, UnmanagedUpdates DEF SetUnmanaged
<1>7. ASSUME NEW m \in Names, MuteLapses(m) PROVE FALSE
  <2>1. "lapsed" \in MuteStates
    BY DEF MuteStates
  <2>2. QED
    BY <1>2, <1>7, <2>1, MuteUpdates DEF MuteLapses
<1>8. ASSUME NEW o \in Operators, NEW m \in Names, NEW x \in MuteStates, SetMute(o, m, x)
      PROVE  FALSE
  BY <1>2, <1>8, MuteUpdates DEF SetMute
<1>9. ~Restart
  BY DEF Restart
<1>10. ASSUME UNCHANGED switches PROVE FALSE
  BY <1>0, <1>10
<1>11. ASSUME NEW h \in Hosts, Discover(h) PROVE FALSE
  <2>1. ManagerAdd(h, IpName[h]) /\ IpName[h] \in Names
    BY <1>11 DEF Discover
  <2>2. QED
    BY <1>4, <2>1
<1>12. ASSUME NEW o \in Operators, NEW m \in Names, NEW h \in Hosts, ManualAdd(o, m, h)
       PROVE  FALSE
  BY <1>4, <1>12 DEF ManualAdd
<1>13. QED
  BY <1>1, <1>3, <1>5, <1>6, <1>7, <1>8, <1>9, <1>10, <1>11, <1>12
     DEF Next, DedupExpires, ScanLoses, ManualRemove, DeleteBegin, Stop, DeleteManual, ReachChanges, vars,
         threadVars

\* A switch is marked down only after as many polls in a row failed as the threshold says,
\* whatever is deleted, added, muted and unmanaged while a poll is under way, as long as no
\* two threads poll in one name and the agent is not restarted (a restart brings back the
\* count that was saved last, which may be an old one).
THEOREM DownIsEarned ==
  ASSUME "crash" \notin Events
  PROVE  Spec /\ []OneThreadPerName => DownNeedsConsecutiveFailures
<1>1. Init => CountInv
  BY DEF Init, CountInv, FailureIsSeen, CountIsSeen
<1>2. TypeOK /\ CountInv /\ OneThreadPerName /\ OneThreadPerName' /\ [Next]_vars => CountInv'
  BY CountStep
<1>3. TypeOK /\ CountInv /\ [Next]_vars
        => [\A n \in Names :
              /\ switches[n] # NoSwitch /\ ~switches[n].isDown
              /\ switches'[n] # NoSwitch /\ switches'[n].isDown
              => streak[n] >= Threshold]_vars
  BY DownStep
<1>4. QED
  BY <1>1, <1>2, <1>3, TypeCorrect, PTL DEF Spec, DownNeedsConsecutiveFailures

\* So it is where a new monitor waits for the poll of its predecessor and every name stands
\* for one host.
COROLLARY DownIsEarnedInOneSlot ==
  ASSUME "crash" \notin Events, MaxSlots = 1, NamesAreStable
  PROVE  Spec => DownNeedsConsecutiveFailures
  BY DownIsEarned, NamesArePolledAlone, PTL

-------------------------------------------------------------------------------
(***************************************************************************)
(* What operators are told of a switch, where nothing holds an alert back: *)
(* no dedup window, no mute and no restart.  As long as one thread at a    *)
(* time polls in a name, a thread that left the registry's entry behind is *)
(* gone before the name is registered anew, so nothing of the old entry    *)
(* gets into a new one.                                                    *)
(***************************************************************************)
NothingHoldsBack == ~Dedup /\ {"mute", "crash"} \cap Events = {}

Telling(n) == \E t \in Threads : monName[t] = n /\ pc[t] \in {"alert", "mail"}

\* What a thread holds of a switch agrees with the switch.
ThreadAgrees(t, n) ==
  /\ orphan[t] # NoSwitch => pc[t] \in {"okCheck", "fail"} /\ switches[n] = NoSwitch
  /\ pc[t] \in {"okCheck", "fail", "alert", "mail"} /\ switches[n] = NoSwitch
       => told[n] = "none"
  /\ pc[t] \in {"alert", "mail"} /\ switches[n] # NoSwitch
       => IF kind[t] = "down" THEN switches[n].isDown /\ told[n] # "down"
          ELSE ~switches[n].isDown

\* What nobody is about to tell was told.
EntryAgrees(n) ==
  switches[n] # NoSwitch =>
    /\ switches[n].mute = "off"
    /\ ~Telling(n) => (switches[n].isDown <=> told[n] = "down")

StoryInv ==
  /\ \A t \in Threads, n \in Names : monName[t] = n => ThreadAgrees(t, n)
  /\ \A n \in Names : EntryAgrees(n)

\* A step of a thread concerns what it holds, and the entry of its own name.
LEMMA OneMoves ==
  ASSUME TypeOK, StoryInv, OneThreadPerName,
         NEW t \in Threads, NEW n \in Names, monName[t] = n, pc[t] # "none",
         UNCHANGED monName,
         \A u \in Threads : u # t =>
            pc'[u] = pc[u] /\ orphan'[u] = orphan[u] /\ kind'[u] = kind[u],
         \A m \in Names : m # n => switches'[m] = switches[m] /\ told'[m] = told[m],
         ThreadAgrees(t, n)', EntryAgrees(n)'
  PROVE  StoryInv'
<1>1. ASSUME NEW u \in Threads, NEW m \in Names, monName'[u] = m PROVE ThreadAgrees(u, m)'
  <2>1. CASE u = t
    <3>1. m = n
      BY <1>1, <2>1
    <3>2. QED
      BY <2>1, <3>1
  <2>2. CASE u # t
    <3>1. monName[u] = m /\ ThreadAgrees(u, m)
      BY <1>1 DEF StoryInv
    <3>2. m = n => pc[u] = "none"
      BY <2>2, <3>1 DEF OneThreadPerName
    <3>3. CASE m = n
      BY <2>2, <3>1, <3>2, <3>3 DEF ThreadAgrees
    <3>4. CASE m # n
      BY <2>2, <3>1, <3>4 DEF ThreadAgrees
    <3>5. QED
      BY <3>3, <3>4
  <2>3. QED
    BY <2>1, <2>2
<1>2. ASSUME NEW m \in Names PROVE EntryAgrees(m)'
  <2>1. CASE m = n
    BY <2>1
  <2>2. CASE m # n
    <3>1. EntryAgrees(m)
      BY DEF StoryInv
    <3>2. Telling(m)' <=> Telling(m)
      BY <2>2 DEF Telling
    <3>3. QED
      BY <2>2, <3>1, <3>2 DEF EntryAgrees
  <2>3. QED
    BY <2>1, <2>2
<1>3. QED
  BY <1>1, <1>2 DEF StoryInv

LEMMA StoryUntouched ==
  ASSUME StoryInv,
         UNCHANGED <<switches, pc, monName, orphan, kind, told>>
  PROVE  StoryInv'
<1>1. \A t \in Threads, n \in Names : ThreadAgrees(t, n)' <=> ThreadAgrees(t, n)
  BY DEF ThreadAgrees
<1>2. \A n \in Names : EntryAgrees(n)' <=> EntryAgrees(n)
  <2>1. \A n \in Names : Telling(n)' <=> Telling(n)
    BY DEF Telling
  <2>2. QED
    BY <2>1 DEF EntryAgrees
<1>3. QED
  BY <1>1, <1>2 DEF StoryInv

LEMMA ThreadMoves ==
  ASSUME TypeOK, StoryInv, OneThreadPerName,
         NEW t \in Threads, NEW n \in Names, monName[t] = n, pc[t] # "none",
         UNCHANGED monName, NEW l, pc' = [pc EXCEPT ![t] = l],
         \A u \in Threads : u # t => orphan'[u] = orphan[u] /\ kind'[u] = kind[u],
         \A m \in Names : m # n => switches'[m] = switches[m] /\ told'[m] = told[m],
         ThreadAgrees(t, n)',
         switches'[n] # NoSwitch =>
            /\ switches'[n].mute = "off"
            /\ l \notin {"alert", "mail"} => (switches'[n].isDown <=> told'[n] = "down")
  PROVE  StoryInv'
<1>1. pc'[t] = l /\ \A u \in Threads : u # t => pc'[u] = pc[u]
  BY DEF TypeOK
<1>2. Telling(n)' <=> l \in {"alert", "mail"}
  <2>1. \A u \in Threads : u # t /\ monName'[u] = n => pc'[u] = "none"
    BY <1>1 DEF OneThreadPerName
  <2>2. QED
    BY <1>1, <2>1 DEF Telling
<1>3. EntryAgrees(n)'
  BY <1>2 DEF EntryAgrees
<1>4. QED
  BY <1>1, <1>3, OneMoves

LEMMA PollTells ==
  ASSUME NothingHoldsBack, TypeOK, StoryInv, OneThreadPerName,
         NEW t \in Threads, PollStep(t), ~Exit(t)
  PROVE  StoryInv'
<1>1. PICK n \in Names : monName[t] = n
  BY DEF TypeOK
<1>2. ThreadAgrees(t, n) /\ EntryAgrees(n)
  BY <1>1 DEF StoryInv
<1>a. pc[t] # "none"
  BY PollFrame
<1>3. Telling(n) <=> pc[t] \in {"alert", "mail"}
  BY <1>1, <1>a DEF Telling, OneThreadPerName
<1>4. /\ switches[n] \in SwitchState \union {NoSwitch}
      /\ switches[n] # NoSwitch => switches[n].isDown \in BOOLEAN
      /\ kind[t] \in Kinds
  BY <1>1 DEF TypeOK, SwitchState
<1>5. ASSUME UNCHANGED <<switches, told, orphan, kind, monName>>,
             NEW l \in {"idle", "probe"}, pc' = [pc EXCEPT ![t] = l],
             pc[t] \in {"idle", "probe"}
      PROVE  StoryInv'
  <2>1. ThreadAgrees(t, n)'
    BY <1>2, <1>5 DEF ThreadAgrees, TypeOK
  <2>2. QED
    BY <1>1, <1>a, <1>2, <1>3, <1>5, <2>1, ThreadMoves DEF EntryAgrees
<1>6. CASE Dispatch(t)
  BY <1>5, <1>6 DEF Dispatch, Goto, ghostVars
<1>7. CASE ProbeGone(t)
  BY <1>5, <1>7 DEF ProbeGone, Goto, ghostVars
<1>8. CASE ProbeOk(t)
  <2>1. PICK r \in SwitchState :
           Updates(n, r) /\ r.isDown = switches[n].isDown /\ r.mute = switches[n].mute
    BY <1>1, <1>8, AnsweredUpdates
  <2>2. /\ pc[t] = "probe" /\ pc' = [pc EXCEPT ![t] = "okCheck"]
        /\ UNCHANGED <<monName, orphan, kind, told>>
    BY <1>1, <1>8 DEF ProbeOk, Goto
  <2>3. /\ switches[n] # NoSwitch /\ switches' = [switches EXCEPT ![n] = r]
        /\ switches'[n] = r /\ r # NoSwitch
        /\ \A m \in Names : m # n => switches'[m] = switches[m]
    BY <2>1, <2>2, EntryUpdate DEF Updates, TypeOK
  <2>4. ThreadAgrees(t, n)'
    BY <1>2, <2>2, <2>3 DEF ThreadAgrees, TypeOK
  <2>5. /\ switches'[n].mute = "off"
        /\ switches'[n].isDown <=> told'[n] = "down"
    BY <1>2, <1>3, <2>1, <2>2, <2>3 DEF EntryAgrees
  <2>6. QED
    BY <1>1, <1>a, <2>2, <2>3, <2>4, <2>5, ThreadMoves
<1>9. CASE OkCheck(t)
  <2>1. /\ pc[t] = "okCheck"
        /\ orphan' = [orphan EXCEPT ![t] = NoSwitch]
        /\ UNCHANGED <<monName, told>>
    BY <1>9 DEF OkCheck, ghostVars
  <2>2. CASE switches[n] = NoSwitch
    <3>1. UNCHANGED switches
      BY <1>1, <1>9, <2>2 DEF OkCheck, UpdateSwitch
    <3>2. PICK l : pc' = [pc EXCEPT ![t] = l]
      BY <1>9 DEF OkCheck, Goto
    <3>3. \A u \in Threads : u # t => kind'[u] = kind[u] /\ orphan'[u] = orphan[u]
      BY <1>9, <2>1 DEF OkCheck, TypeOK
    <3>4. told[n] = "none"
      BY <1>2, <2>1, <2>2 DEF ThreadAgrees
    <3>5. ThreadAgrees(t, n)'
      BY <2>1, <2>2, <3>1, <3>4 DEF ThreadAgrees, TypeOK
    <3>6. QED
      BY <1>1, <1>a, <2>1, <2>2, <3>1, <3>2, <3>3, <3>5, ThreadMoves
  <2>3. CASE switches[n] # NoSwitch
    <3>1. orphan[t] = NoSwitch /\ HeldSwitch(t) = switches[n]
      BY <1>1, <1>2, <2>3 DEF ThreadAgrees, HeldSwitch
    <3>2. CASE switches[n].isDown
      <4>1. /\ kind' = [kind EXCEPT ![t] = "restored"] /\ pc' = [pc EXCEPT ![t] = "alert"]
        BY <1>9, <3>1, <3>2 DEF OkCheck, Goto
      <4>2. switches' # switches
        <5>1. switches' = [switches EXCEPT ![n] = [switches[n] EXCEPT !.isDown = FALSE]]
          BY <1>1, <1>9, <2>3, <3>1, <3>2 DEF OkCheck, UpdateSwitch
        <5>2. switches[n] \in SwitchState
          BY <1>4, <2>3
        <5>3. [switches[n] EXCEPT !.isDown = FALSE].isDown = FALSE
          BY <5>2, EntryFields
        <5>4. switches'[n].isDown = FALSE
          BY <5>1, <5>3 DEF TypeOK
        <5>5. QED
          BY <3>2, <5>4
      <4>3. PICK r \in SwitchState :
              Updates(n, r) /\ ~r.isDown /\ r.mute = switches[n].mute
        BY <1>1, <1>9, <4>2, RestoredUpdates
      <4>4. /\ switches'[n] = r /\ r # NoSwitch
            /\ \A m \in Names : m # n => switches'[m] = switches[m]
        BY <4>3, EntryUpdate DEF Updates, TypeOK
      <4>5. ThreadAgrees(t, n)'
        <5>1. pc'[t] = "alert" /\ kind'[t] = "restored" /\ orphan'[t] = NoSwitch
          BY <2>1, <4>1 DEF TypeOK
        <5>2. QED
          BY <4>3, <4>4, <5>1 DEF ThreadAgrees
      <4>6. switches'[n].mute = "off"
        BY <1>2, <2>1, <2>3, <4>3, <4>4 DEF EntryAgrees
      <4>7. \A u \in Threads : u # t => kind'[u] = kind[u] /\ orphan'[u] = orphan[u]
        BY <2>1, <4>1 DEF TypeOK
      <4>8. QED
        BY <1>1, <1>a, <2>1, <4>1, <4>4, <4>5, <4>6, <4>7, ThreadMoves
    <3>3. CASE ~switches[n].isDown
      <4>1. UNCHANGED <<switches, kind>> /\ pc' = [pc EXCEPT ![t] = "idle"]
        BY <1>9, <3>1, <3>3 DEF OkCheck, Goto
      <4>2. pc'[t] = "idle" /\ orphan'[t] = NoSwitch
            /\ \A u \in Threads : u # t => orphan'[u] = orphan[u]
        BY <2>1, <4>1 DEF TypeOK
      <4>3. ThreadAgrees(t, n)'
        BY <4>2 DEF ThreadAgrees
      <4>4. QED
        BY <1>1, <1>a, <1>2, <1>3, <2>1, <4>1, <4>2, <4>3, ThreadMoves DEF EntryAgrees
    <3>4. QED
      BY <3>2, <3>3
  <2>4. QED
    BY <2>2, <2>3
<1>10. CASE ProbeFail(t)
  <2>1. /\ pc[t] = "probe" /\ pc' = [pc EXCEPT ![t] = "fail"] /\ switches[n] # NoSwitch
        /\ UNCHANGED <<switches, monName, orphan, kind, told>>
    BY <1>1, <1>10 DEF ProbeFail, Goto
  <2>2. ThreadAgrees(t, n)'
    BY <1>2, <2>1 DEF ThreadAgrees, TypeOK
  <2>3. QED
    BY <1>1, <1>a, <1>2, <1>3, <2>1, <2>2, ThreadMoves DEF EntryAgrees
<1>11. CASE FailWrite(t)
  <2>1. /\ pc[t] = "fail"
        /\ kind' = IF GoesDown(t) THEN [kind EXCEPT ![t] = "down"] ELSE kind
        /\ pc' = [pc EXCEPT ![t] = IF GoesDown(t) THEN "alert" ELSE "idle"]
        /\ orphan' = [orphan EXCEPT ![t] = NoSwitch]
        /\ UNCHANGED <<monName, told>>
    BY <1>11 DEF FailWrite, Goto, ghostVars
  <2>2. /\ orphan'[t] = NoSwitch
        /\ GoesDown(t) => kind'[t] = "down"
        /\ pc'[t] = IF GoesDown(t) THEN "alert" ELSE "idle"
        /\ \A u \in Threads : u # t =>
             kind'[u] = kind[u] /\ orphan'[u] = orphan[u]
    BY <2>1 DEF TypeOK
  <2>3. PICK l : l = (IF GoesDown(t) THEN "alert" ELSE "idle") /\ pc' = [pc EXCEPT ![t] = l]
    BY <2>1
  <2>a. /\ UNCHANGED monName
        /\ pc' = [pc EXCEPT ![t] = l]
        /\ \A u \in Threads : u # t => orphan'[u] = orphan[u] /\ kind'[u] = kind[u]
    BY <2>1, <2>2, <2>3
  <2>4. CASE switches[n] = NoSwitch
    <3>1. UNCHANGED switches
      BY <1>1, <1>11, <2>4 DEF FailWrite, UpdateSwitch
    <3>2. told[n] = "none"
      BY <1>2, <2>1, <2>4 DEF ThreadAgrees
    <3>3. ThreadAgrees(t, n)'
      BY <2>1, <2>2, <2>4, <3>1, <3>2 DEF ThreadAgrees
    <3>4. switches'[n] = NoSwitch /\ \A m \in Names : m # n =>
            switches'[m] = switches[m] /\ told'[m] = told[m]
      BY <2>1, <2>4, <3>1
    <3>5. QED
      BY <1>1, <1>a, <2>a, <3>3, <3>4, ThreadMoves
  <2>5. CASE switches[n] # NoSwitch
    <3>1. orphan[t] = NoSwitch /\ HeldSwitch(t) = switches[n]
      BY <1>1, <1>2, <2>5 DEF ThreadAgrees, HeldSwitch
    <3>2. GoesDown(t) => ~switches[n].isDown
      BY <3>1 DEF GoesDown
    <3>3. PICK r \in SwitchState :
            /\ Updates(n, r)
            /\ r.isDown <=> switches[n].isDown \/ GoesDown(t)
            /\ r.mute = switches[n].mute
      BY <1>1, <1>11, <2>5, FailedUpdates
    <3>4. /\ switches'[n] = r /\ r # NoSwitch
          /\ \A m \in Names : m # n => switches'[m] = switches[m]
      BY <3>3, EntryUpdate DEF Updates, TypeOK
    <3>5. switches[n].isDown <=> told[n] = "down"
      BY <1>2, <1>3, <2>1, <2>5 DEF EntryAgrees
    <3>6. switches[n].mute = "off"
      BY <1>2, <2>5 DEF EntryAgrees
    <3>7. ThreadAgrees(t, n)'
      BY <2>1, <2>2, <3>2, <3>3, <3>4, <3>5 DEF ThreadAgrees
    <3>8. /\ switches'[n].mute = "off"
          /\ l \notin {"alert", "mail"} => (switches'[n].isDown <=> told'[n] = "down")
      BY <2>1, <2>3, <3>3, <3>4, <3>5, <3>6
    <3>9. \A m \in Names : m # n =>
            switches'[m] = switches[m] /\ told'[m] = told[m]
      BY <2>1, <3>4
    <3>10. QED
      BY <1>1, <1>a, <2>a, <3>7, <3>8, <3>9, ThreadMoves
  <2>6. QED
    BY <2>4, <2>5
<1>12. CASE DecideAlert(t)
  <2>1. switches[n] # NoSwitch => switches[n].mute = "off"
    BY <1>2 DEF EntryAgrees
  <2>2. /\ pc[t] = "alert" /\ pc' = [pc EXCEPT ![t] = "mail"]
        /\ UNCHANGED <<switches, monName, orphan, kind, told>>
    BY <1>1, <1>12, <2>1 DEF DecideAlert, ClearLapsedMute, Suppressed, NothingHoldsBack,
       Goto, ghostVars
  <2>3. ThreadAgrees(t, n)'
    BY <1>2, <2>2 DEF ThreadAgrees, TypeOK
  <2>4. QED
    BY <1>1, <1>a, <1>2, <2>2, <2>3, ThreadMoves DEF EntryAgrees
<1>13. CASE HandOver(t)
  <2>1. /\ pc[t] = "mail" /\ told' = [told EXCEPT ![n] = kind[t]]
        /\ pc' = [pc EXCEPT ![t] = "idle"]
        /\ UNCHANGED <<switches, monName, orphan, kind>>
    BY <1>1, <1>13 DEF HandOver, Goto
  <2>2. /\ pc'[t] = "idle" /\ told'[n] = kind[t]
        /\ \A m \in Names : m # n => told'[m] = told[m]
    BY <2>1 DEF TypeOK
  <2>3. ThreadAgrees(t, n)'
    BY <1>2, <2>1, <2>2 DEF ThreadAgrees
  <2>4. switches[n] # NoSwitch => (switches[n].isDown <=> kind[t] = "down")
    BY <1>2, <2>1 DEF ThreadAgrees
  <2>5. QED
    BY <1>1, <1>a, <1>2, <2>1, <2>2, <2>3, <2>4, ThreadMoves DEF EntryAgrees
<1>14. QED
  BY <1>6, <1>7, <1>8, <1>9, <1>10, <1>11, <1>12, <1>13 DEF PollStep

LEMMA ExitTells ==
  ASSUME TypeOK, StoryInv, NEW t \in Threads, Exit(t) PROVE StoryInv'
<1>1. /\ pc[t] = "idle" /\ pc' = [pc EXCEPT ![t] = "none"]
      /\ monName' = [monName EXCEPT ![t] = IpName[HostOf(t)]]
      /\ UNCHANGED <<switches, orphan, kind, told>>
  BY DEF Exit, Goto, ghostVars
<1>2. /\ pc'[t] = "none"
      /\ \A u \in Threads : u # t => pc'[u] = pc[u] /\ monName'[u] = monName[u]
  BY <1>1 DEF TypeOK
<1>3. ASSUME NEW u \in Threads, NEW m \in Names, monName'[u] = m PROVE ThreadAgrees(u, m)'
  <2>1. CASE u = t
    <3>1. orphan[t] = NoSwitch
      BY <1>1 DEF StoryInv, ThreadAgrees, TypeOK
    <3>2. QED
      BY <1>1, <1>2, <2>1, <3>1 DEF ThreadAgrees
  <2>2. CASE u # t
    <3>1. ThreadAgrees(u, m)
      BY <1>2, <1>3, <2>2 DEF StoryInv
    <3>2. QED
      BY <1>1, <1>2, <2>2, <3>1 DEF ThreadAgrees
  <2>3. QED
    BY <2>1, <2>2
<1>4. ASSUME NEW m \in Names PROVE EntryAgrees(m)'
  <2>1. Telling(m)' <=> Telling(m)
    <3>1. \A u \in Threads :
            (monName'[u] = m /\ pc'[u] \in {"alert", "mail"}) <=> (monName[u] = m /\ pc[u] \in {"alert", "mail"})
      BY <1>1, <1>2
    <3>2. QED
      BY <3>1 DEF Telling
  <2>2. EntryAgrees(m)
    BY DEF StoryInv
  <2>3. QED
    BY <1>1, <2>1, <2>2 DEF EntryAgrees
<1>5. QED
  BY <1>3, <1>4 DEF StoryInv

\* Whoever registers a name anew is the only one to poll in it, and holds nothing.
LEMMA AddTells ==
  ASSUME TypeOK, StoryInv, OneThreadPerName', NEW h \in Hosts, NEW n \in Names,
         ManagerAdd(h, n)
  PROVE  StoryInv'
<1>1. CASE monitors[h] # NoMonitor
  BY <1>1, StoryUntouched DEF ManagerAdd, threadVars, ghostVars
<1>2. CASE monitors[h] = NoMonitor
  <2>1. PICK t \in Threads :
          /\ pc[t] = "none"
          /\ RegisterSwitch(n, h)
          /\ pc' = [pc EXCEPT ![t] = "idle"]
          /\ monName' = [monName EXCEPT ![t] = n]
          /\ UNCHANGED <<orphan, kind>>
    <3>1. PICK i \in 1 .. MaxSlots :
          /\ pc[<<h, i>>] = "none"
          /\ RegisterSwitch(n, h)
          /\ pc' = [pc EXCEPT ![<<h, i>>] = "idle"]
          /\ monName' = [monName EXCEPT ![<<h, i>>] = n]
          /\ UNCHANGED <<orphan, kind>>
      BY <1>2 DEF ManagerAdd, StartMonitor
    <3>2. <<h, i>> \in Threads
      BY DEF Threads
    <3>3. QED
      BY <3>1, <3>2
  <2>2. /\ pc'[t] = "idle" /\ monName'[t] = n
        /\ \A u \in Threads : u # t => pc'[u] = pc[u] /\ monName'[u] = monName[u]
    BY <2>1 DEF TypeOK
  <2>3. \A u \in Threads : u # t /\ monName[u] = n => pc[u] = "none"
    BY <2>2 DEF OneThreadPerName
  <2>4. /\ \A m \in Names : m # n =>
             switches'[m] = switches[m] /\ told'[m] = told[m]
        /\ switches[n] # NoSwitch => UNCHANGED <<switches, told>>
        /\ switches[n] = NoSwitch =>
             switches'[n] = Fresh(h) /\ told'[n] = "none"
    BY <2>1 DEF RegisterSwitch, TypeOK, ghostVars
  <2>5. ASSUME NEW u \in Threads, NEW m \in Names, monName'[u] = m PROVE ThreadAgrees(u, m)'
    <3>1. CASE u = t
      <4>1. orphan[t] = NoSwitch
        BY <2>1 DEF StoryInv, ThreadAgrees, TypeOK
      <4>2. QED
        BY <2>1, <2>2, <3>1, <4>1 DEF ThreadAgrees
    <3>2. CASE u # t
      <4>1. (m = n => pc[u] = "none") /\ ThreadAgrees(u, m)
        BY <2>3, <2>2, <2>5, <3>2 DEF StoryInv
      <4>2. pc'[u] = pc[u] /\ orphan'[u] = orphan[u] /\ kind'[u] = kind[u]
        BY <2>1, <2>2, <3>2
      <4>3. CASE m = n
        BY <4>1, <4>2, <4>3 DEF ThreadAgrees
      <4>4. CASE m # n
        BY <2>4, <4>1, <4>2, <4>4 DEF ThreadAgrees
      <4>5. QED
        BY <4>3, <4>4
    <3>3. QED
      BY <3>1, <3>2
  <2>6. ASSUME NEW m \in Names PROVE EntryAgrees(m)'
    <3>0. EntryAgrees(m)
      BY DEF StoryInv
    <3>1. Telling(m)' <=> Telling(m)
      <4>1. \A u \in Threads :
              (monName'[u] = m /\ pc'[u] \in {"alert", "mail"}) <=> (monName[u] = m /\ pc[u] \in {"alert", "mail"})
        BY <2>1, <2>2
      <4>2. QED
        BY <4>1 DEF Telling
    <3>2. CASE m # n
      BY <2>4, <3>0, <3>1, <3>2 DEF EntryAgrees
    <3>3. CASE m = n /\ switches[n] # NoSwitch
      BY <2>4, <3>0, <3>1, <3>3 DEF EntryAgrees
    <3>4. CASE m = n /\ switches[n] = NoSwitch
      <4>1. switches'[n].mute = "off" /\ ~switches'[n].isDown
        BY <2>4, <3>4 DEF Fresh
      <4>2. QED
        BY <2>4, <3>4, <4>1 DEF EntryAgrees
    <3>5. QED
      BY <3>2, <3>3, <3>4
  <2>7. QED
    BY <2>5, <2>6 DEF StoryInv
<1>3. QED
  BY <1>1, <1>2

LEMMA RemoveTells ==
  ASSUME TypeOK, StoryInv, NEW n \in Names, RemoveSwitch(n),
         UNCHANGED <<pc, monName, kind>>
  PROVE  StoryInv'
<1>1. /\ switches'[n] = NoSwitch /\ told'[n] = "none"
      /\ \A m \in Names : m # n =>
           switches'[m] = switches[m] /\ told'[m] = told[m]
  BY DEF RemoveSwitch, TypeOK
<1>2. \A u \in Threads :
        /\ monName[u] # n => orphan'[u] = orphan[u]
        /\ orphan'[u] # NoSwitch => orphan[u] # NoSwitch \/ pc[u] \in {"okCheck", "fail"}
  BY DEF RemoveSwitch
<1>3. ASSUME NEW u \in Threads, NEW m \in Names, monName'[u] = m PROVE ThreadAgrees(u, m)'
  <2>1. ThreadAgrees(u, m) /\ monName[u] = m
    BY <1>3 DEF StoryInv
  <2>2. CASE m = n
    <3>1. orphan'[u] # NoSwitch => pc'[u] \in {"okCheck", "fail"}
      BY <1>2, <2>1 DEF ThreadAgrees
    <3>2. QED
      BY <1>1, <2>2, <3>1 DEF ThreadAgrees
  <2>3. CASE m # n
    <3>1. orphan'[u] = orphan[u]
      BY <1>2, <2>1, <2>3
    <3>2. QED
      BY <1>1, <2>1, <2>3, <3>1 DEF ThreadAgrees
  <2>4. QED
    BY <2>2, <2>3
<1>4. ASSUME NEW m \in Names PROVE EntryAgrees(m)'
  <2>1. EntryAgrees(m)
    BY DEF StoryInv
  <2>2. Telling(m)' <=> Telling(m)
    BY DEF Telling
  <2>3. QED
    BY <1>1, <2>1, <2>2 DEF EntryAgrees
<1>5. QED
  BY <1>3, <1>4 DEF StoryInv

LEMMA UnmanagedTells ==
  ASSUME TypeOK, StoryInv, NEW n \in Names, NEW r \in SwitchState, Updates(n, r),
         r.isDown = switches[n].isDown,
         r.mute = switches[n].mute,
         UNCHANGED <<pc, monName, orphan, kind, told>>
  PROVE  StoryInv'
<1>1. \A m \in Names :
        /\ switches'[m] = NoSwitch <=> switches[m] = NoSwitch
        /\ switches[m] # NoSwitch =>
             /\ switches'[m].isDown = switches[m].isDown
             /\ switches'[m].mute = switches[m].mute
  BY EntryUpdate DEF Updates, TypeOK
<1>2. \A t \in Threads, m \in Names : ThreadAgrees(t, m) => ThreadAgrees(t, m)'
  BY <1>1 DEF ThreadAgrees
<1>3. \A m \in Names : Telling(m)' <=> Telling(m)
  BY DEF Telling
<1>4. \A m \in Names : EntryAgrees(m) => EntryAgrees(m)'
  BY <1>1, <1>3 DEF EntryAgrees
<1>5. QED
  BY <1>2, <1>4 DEF StoryInv

LEMMA StoryStep ==
  ASSUME NothingHoldsBack, TypeOK, StoryInv, OneThreadPerName, OneThreadPerName',
         [Next]_vars
  PROVE  StoryInv'
<1>1. ASSUME NEW t \in Threads, PollStep(t) PROVE StoryInv'
  BY <1>1, PollTells, ExitTells
<1>2. ASSUME UNCHANGED <<switches, pc, monName, orphan, kind, told>>
      PROVE  StoryInv'
  BY <1>2, StoryUntouched
<1>3. ASSUME NEW h \in Hosts, Discover(h) PROVE StoryInv'
  <2>1. ManagerAdd(h, IpName[h]) /\ IpName[h] \in Names
    BY <1>3 DEF Discover
  <2>2. QED
    BY <2>1, AddTells
<1>4. ASSUME NEW o \in Operators, NEW n \in Names, NEW h \in Hosts, ManualAdd(o, n, h)
      PROVE  StoryInv'
  BY <1>4, AddTells DEF ManualAdd
<1>5. ASSUME NEW o \in Operators, DeleteEnd(o) PROVE StoryInv'
  <2>1. PICK n \in Names : n = deleting[o]
    BY <1>5 DEF DeleteEnd, TypeOK
  <2>2. /\ UNCHANGED <<pc, monName, kind>>
        /\ RemoveSwitch(n) \/ UNCHANGED <<switches, orphan, told>>
    BY <1>5, <2>1 DEF DeleteEnd, ghostVars
  <2>3. QED
    BY <1>2, <2>2, RemoveTells
<1>6. ASSUME NEW n \in Names, MuteLapses(n) PROVE FALSE
  <2>1. switches[n] # NoSwitch /\ switches[n].mute = "timed"
    BY <1>6 DEF MuteLapses
  <2>2. QED
    BY <2>1 DEF StoryInv, EntryAgrees
<1>7. ASSUME NEW o \in Operators, NEW n \in Names, NEW b \in BOOLEAN, SetUnmanaged(o, n, b)
      PROVE  StoryInv'
  <2>1. /\ switches[n] # NoSwitch
        /\ switches' = [switches EXCEPT ![n] = [@ EXCEPT !.unmanaged = b]]
        /\ UNCHANGED <<pc, monName, orphan, kind, told>>
    BY <1>7 DEF SetUnmanaged, threadVars, ghostVars
  <2>2. PICK r \in SwitchState :
           /\ Updates(n, r)
           /\ r.isDown = switches[n].isDown
           /\ r.mute = switches[n].mute
    BY <2>1, UnmanagedUpdates
  <2>3. QED
    BY <2>1, <2>2, UnmanagedTells
<1>8. ASSUME NEW o \in Operators, NEW n \in Names,
             (\E m \in MuteStates : SetMute(o, n, m)) \/ Restart
      PROVE  FALSE
  BY <1>8 DEF SetMute, Restart, NothingHoldsBack
<1>9. ~Restart
  BY DEF Restart, NothingHoldsBack
<1>10. QED
  BY <1>1, <1>2, <1>3, <1>4, <1>5, <1>6, <1>7, <1>8, <1>9
     DEF Next, DedupExpires, ScanLoses, ManualRemove, DeleteBegin, Stop, DeleteManual, ReachChanges,
         vars, threadVars, ghostVars

LEMMA StoryHolds ==
  ASSUME NothingHoldsBack
  PROVE  Spec /\ []OneThreadPerName => []StoryInv
<1>1. Init => StoryInv
  BY DEF Init, StoryInv, ThreadAgrees, EntryAgrees
<1>2. TypeOK /\ StoryInv /\ OneThreadPerName /\ OneThreadPerName' /\ [Next]_vars
        => StoryInv'
  BY StoryStep
<1>3. QED
  BY <1>1, <1>2, TypeCorrect, PTL DEF Spec

\* What operators hear about a switch is its story: DOWN and RESTORED take turns, and the
\* last of them is how things are, for any number of hosts, names, threads and operators and
\* any threshold, though polls overlap with deletes, additions and scans, as long as no two
\* threads poll in one name at the same time.
THEOREM AlertsStayTrue ==
  ASSUME NothingHoldsBack
  PROVE  Spec /\ []OneThreadPerName => []AlertsTellStatus
<1>1. TypeOK /\ StoryInv => AlertsTellStatus
  <2> SUFFICES ASSUME TypeOK, StoryInv PROVE AlertsTellStatus
    OBVIOUS
  <2>1. ASSUME NEW t \in Threads, pc[t] = "mail", kind[t] = "down"
        PROVE  told[monName[t]] # "down"
    <3>1. PICK n \in Names : n = monName[t]
      BY DEF TypeOK
    <3>2. ThreadAgrees(t, n)
      BY <3>1 DEF StoryInv
    <3>3. QED
      BY <2>1, <3>1, <3>2 DEF ThreadAgrees
  <2>2. ASSUME NEW n \in Names, switches[n] # NoSwitch, Quiet(n)
        PROVE  switches[n].isDown <=> told[n] = "down"
    <3>1. ~Telling(n)
      BY <2>2 DEF Quiet, Telling
    <3>2. QED
      BY <2>2, <3>1 DEF StoryInv, EntryAgrees
  <2>3. QED
    BY <2>1, <2>2 DEF AlertsTellStatus, AlertsAlternate, LastAlertTellsStatus
<1>2. QED
  BY <1>1, StoryHolds, TypeCorrect, PTL

\* So it is where a new monitor waits for the poll of its predecessor and every name stands
\* for one host.
COROLLARY AlertsStayTrueInOneSlot ==
  ASSUME NothingHoldsBack, MaxSlots = 1, NamesAreStable
  PROVE  Spec => []AlertsTellStatus
  BY AlertsStayTrue, NamesArePolledAlone, PTL

-------------------------------------------------------------------------------
(***************************************************************************)
(* Nothing is told about an unmanaged switch.  A poll looks at the flag    *)
(* before it probes and never again, so the promise is kept just when the  *)
(* operator finds the switch at rest; nothing makes him.                   *)
(***************************************************************************)
\* A switch is only unmanaged while no poll of it is under way.
UnmanagedAtRest ==
  [][\A o \in Operators, n \in Names : SetUnmanaged(o, n, TRUE) => Quiet(n)]_vars

Managed(n) == switches[n] = NoSwitch \/ ~switches[n].unmanaged

\* Whatever a poll is under way for may be polled.
PolledAreManaged ==
  \A t \in Threads : pc[t] \notin {"none", "idle"} => Managed(monName[t])

\* No poll touches the flag.
LEMMA PollKeepsManaged ==
  ASSUME TypeOK, NEW t \in Threads, PollStep(t), NEW n \in Names, Managed(n)
  PROVE  Managed(n)'
<1>1. monName[t] \in Names /\ switches[monName[t]] \in SwitchState \union {NoSwitch}
      /\ switches[n] \in SwitchState \union {NoSwitch}
  BY DEF TypeOK
<1>2. ASSUME UNCHANGED switches PROVE Managed(n)'
  BY <1>2 DEF Managed
<1>3. ASSUME NEW r, switches' = [switches EXCEPT ![monName[t]] = r],
             switches[monName[t]] # NoSwitch,
             r.unmanaged = switches[monName[t]].unmanaged
      PROVE  Managed(n)'
  BY <1>1, <1>3 DEF Managed, TypeOK
<1>4. CASE ProbeOk(t)
  <2> DEFINE s == switches[monName[t]]
  <2>1. s \in SwitchState
    BY <1>1, <1>4 DEF ProbeOk
  <2>2. Answered(monName[t], HostOf(t)).unmanaged = s.unmanaged
    BY <2>1 DEF Answered, SwitchState
  <2>3. QED
    BY <1>3, <1>4, <2>2 DEF ProbeOk
<1>5. CASE OkCheck(t)
  <2> DEFINE s == switches[monName[t]]
             r == [s EXCEPT !.isDown = FALSE]
  <2>1. CASE UNCHANGED switches
    BY <1>2, <2>1
  <2>2. CASE ~UNCHANGED switches
    <3>1. s # NoSwitch /\ switches' = [switches EXCEPT ![monName[t]] = r]
      BY <1>5, <2>2 DEF OkCheck, UpdateSwitch
    <3>2. r.unmanaged = s.unmanaged
      BY <1>1, <3>1 DEF SwitchState
    <3> HIDE DEF r
    <3>3. QED
      BY <1>3, <3>1, <3>2
  <2>3. QED
    BY <2>1, <2>2
<1>6. CASE FailWrite(t)
  <2> DEFINE s == switches[monName[t]]
             r == [s EXCEPT !.failures = newFailures[t], !.isDown = @ \/ GoesDown(t)]
  <2>1. CASE s = NoSwitch
    BY <1>2, <1>6, <2>1 DEF FailWrite, UpdateSwitch
  <2>2. CASE s # NoSwitch
    <3>1. switches' = [switches EXCEPT ![monName[t]] = r]
      BY <1>6, <2>2 DEF FailWrite, UpdateSwitch
    <3>2. r.unmanaged = s.unmanaged
      BY <1>1, <2>2 DEF SwitchState
    <3> HIDE DEF r
    <3>3. QED
      BY <1>3, <2>2, <3>1, <3>2
  <2>3. QED
    BY <2>1, <2>2
<1>7. CASE DecideAlert(t)
  <2> DEFINE s == switches[monName[t]]
             r == [s EXCEPT !.mute = "off"]
  <2>0. ClearLapsedMute(monName[t])
    BY <1>7 DEF DecideAlert
  <2>1. CASE UNCHANGED switches
    BY <1>2, <2>1
  <2>2. CASE ~UNCHANGED switches
    <3>1. s # NoSwitch /\ switches' = [switches EXCEPT ![monName[t]] = r]
      BY <2>0, <2>2 DEF ClearLapsedMute
    <3>2. r.unmanaged = s.unmanaged
      BY <1>1, <3>1 DEF SwitchState
    <3> HIDE DEF r
    <3>3. QED
      BY <1>3, <3>1, <3>2
  <2>3. QED
    BY <2>1, <2>2
<1>8. QED
  BY <1>2, <1>4, <1>5, <1>6, <1>7
     DEF PollStep, Exit, Dispatch, ProbeGone, ProbeFail, HandOver

LEMMA PolledStep ==
  ASSUME TypeOK, PolledAreManaged, [Next]_vars,
         [\A o \in Operators, n \in Names : SetUnmanaged(o, n, TRUE) => Quiet(n)]_vars
  PROVE  PolledAreManaged'
<1>n. \A t \in Threads : monName[t] \in Names
  BY DEF TypeOK
<1>1. ASSUME NEW t \in Threads, PollStep(t) PROVE PolledAreManaged'
  <2>1. CASE Exit(t)
    BY <1>n, <1>1, <2>1, PollKeepsManaged
       DEF Exit, Goto, PolledAreManaged, TypeOK
  <2>2. CASE ~Exit(t)
    <3>1. UNCHANGED monName
          /\ \E l \in {"idle", "probe", "okCheck", "fail", "alert", "mail"} :
              pc' = [pc EXCEPT ![t] = l]
      BY <1>1, <2>2, PollFrame
    <3>2. ASSUME NEW u \in Threads, pc'[u] \notin {"none", "idle"}
          PROVE  Managed(monName[u])
      <4>1. CASE pc[u] \notin {"none", "idle"}
        BY <4>1 DEF PolledAreManaged
      <4>2. CASE pc[u] \in {"none", "idle"}
        <5>1. u = t /\ Dispatch(t)
          BY <1>1, <2>2, <3>1, <3>2, <4>2
             DEF PollStep, ProbeGone, ProbeOk, OkCheck, ProbeFail, FailWrite,
                 DecideAlert, HandOver, TypeOK
        <5>2. QED
          BY <5>1 DEF Dispatch, Managed
      <4>3. QED
        BY <4>1, <4>2
    <3>3. ASSUME NEW u \in Threads, pc'[u] \notin {"none", "idle"}
          PROVE  Managed(monName[u])'
      <4>1. PICK n \in Names : n = monName[u]
        BY <1>n
      <4>2. Managed(n)'
        BY <1>1, <3>2, <3>3, <4>1, PollKeepsManaged
      <4>3. QED
        BY <3>1, <4>1, <4>2 DEF Managed
    <3>4. QED
      BY <3>3 DEF PolledAreManaged
  <2>3. QED
    BY <2>1, <2>2
<1>2. ASSUME NEW h \in Hosts, NEW n \in Names, ManagerAdd(h, n) PROVE PolledAreManaged'
  <2>1. CASE UNCHANGED <<switches, disk, monitors, pc, monName, stopped, beside>>
    BY <2>1 DEF PolledAreManaged, Managed
  <2>2. ASSUME NEW i \in 1 .. MaxSlots,
               pc' = [pc EXCEPT ![<<h, i>>] = "idle"],
               monName' = [monName EXCEPT ![<<h, i>>] = n],
               OneAdded(n, h)
        PROVE  PolledAreManaged'
    <3>1. ~Fresh(h).unmanaged
      BY DEF Fresh
    <3>2. ASSUME NEW m \in Names, Managed(m) PROVE Managed(m)'
      BY <2>2, <3>1, <3>2 DEF OneAdded, Managed, TypeOK
    <3>3. ASSUME NEW u \in Threads, pc'[u] \notin {"none", "idle"}
          PROVE  Managed(monName[u])'
      <4>1. pc'[u] = pc[u] /\ monName'[u] = monName[u]
        BY <2>2, <3>3 DEF TypeOK
      <4>2. PICK m \in Names : m = monName[u]
        BY <1>n
      <4>3. Managed(m)'
        BY <3>2, <3>3, <4>1, <4>2 DEF PolledAreManaged
      <4>4. QED
        BY <4>1, <4>2, <4>3 DEF Managed
    <3>4. QED
      BY <3>3 DEF PolledAreManaged
  <2>3. CASE \E i \in 1 .. MaxSlots :
               /\ pc' = [pc EXCEPT ![<<h, i>>] = "idle"]
               /\ monName' = [monName EXCEPT ![<<h, i>>] = n]
               /\ OneAdded(n, h)
    BY <2>2, <2>3
  <2>4. QED
    BY <1>2, <2>1, <2>3, AddFrame
<1>3. ASSUME UNCHANGED <<pc, monName>>, NEW n \in Names,
             NEW r, r = NoSwitch \/ ~r.unmanaged \/ Quiet(n)
                    \/ (switches[n] # NoSwitch /\ r.unmanaged = switches[n].unmanaged),
             switches' = [switches EXCEPT ![n] = r]
      PROVE  PolledAreManaged'
  <2>1. ASSUME NEW u \in Threads, pc'[u] \notin {"none", "idle"}
        PROVE  Managed(monName[u])'
    BY <1>n, <1>3, <2>1 DEF PolledAreManaged, Managed, Quiet, TypeOK
  <2>2. QED
    BY <2>1 DEF PolledAreManaged
<1>4. ASSUME UNCHANGED <<pc, monName, switches>> PROVE PolledAreManaged'
  BY <1>4 DEF PolledAreManaged, Managed
<1>5. ASSUME NEW h \in Hosts, Discover(h) PROVE PolledAreManaged'
  BY <1>2, <1>5, ConstantsAssumption DEF Discover
<1>6. ASSUME NEW o \in Operators, NEW n \in Names, NEW h \in Hosts, ManualAdd(o, n, h)
      PROVE  PolledAreManaged'
  BY <1>2, <1>6 DEF ManualAdd
<1>7. ASSUME NEW o \in Operators,
             \/ \E n \in Names : ManualRemove(o, n) \/ DeleteBegin(o, n)
             \/ Stop(o) \/ DeleteManual(o)
      PROVE  PolledAreManaged'
  BY <1>4, <1>7 DEF ManualRemove, DeleteBegin, Stop, DeleteManual, threadVars
<1>8. ASSUME NEW o \in Operators, DeleteEnd(o) PROVE PolledAreManaged'
  <2>1. deleting[o] \in Names
    BY <1>8 DEF DeleteEnd, TypeOK
  <2>2. QED
    BY <1>3, <1>4, <1>8, <2>1 DEF DeleteEnd, RemoveSwitch
<1>9. ASSUME NEW n \in Names, NEW m \in MuteStates, UNCHANGED threadVars,
             switches[n] # NoSwitch,
             switches' = [switches EXCEPT ![n] = [@ EXCEPT !.mute = m]]
      PROVE  PolledAreManaged'
  <2> DEFINE r == [switches[n] EXCEPT !.mute = m]
  <2>1. r.unmanaged = switches[n].unmanaged
    BY <1>9 DEF TypeOK, SwitchState
  <2>2. switches' = [switches EXCEPT ![n] = r] /\ UNCHANGED <<pc, monName>>
    BY <1>9 DEF threadVars
  <2> HIDE DEF r
  <2>3. QED
    BY <1>3, <1>9, <2>1, <2>2
<1>10. ASSUME NEW o \in Operators, NEW n \in Names, NEW m \in MuteStates, SetMute(o, n, m)
       PROVE  PolledAreManaged'
  BY <1>9, <1>10 DEF SetMute
<1>11. ASSUME NEW n \in Names, MuteLapses(n) PROVE PolledAreManaged'
  BY <1>9, <1>11 DEF MuteLapses, MuteStates
<1>12. ASSUME NEW o \in Operators, NEW n \in Names, NEW b \in BOOLEAN, SetUnmanaged(o, n, b)
       PROVE  PolledAreManaged'
  <2> DEFINE r == [switches[n] EXCEPT !.unmanaged = b]
  <2>1. switches[n] # NoSwitch /\ switches' = [switches EXCEPT ![n] = r]
        /\ UNCHANGED <<pc, monName>>
    BY <1>12 DEF SetUnmanaged, threadVars
  <2>2. r.unmanaged = b
    BY <2>1 DEF TypeOK, SwitchState
  <2>3. CASE UNCHANGED vars
    BY <1>4, <2>3 DEF vars, threadVars
  <2>4. CASE ~UNCHANGED vars
    <3>1. b => Quiet(n)
      BY <1>12, <2>4
    <3> HIDE DEF r
    <3>2. QED
      BY <1>3, <2>1, <2>2, <3>1
  <2>5. QED
    BY <2>3, <2>4
<1>13. ASSUME Restart PROVE PolledAreManaged'
  <2>1. PICK seed : Boot(seed)
    BY <1>13 DEF Restart
  <2>2. \A t \in Threads : pc'[t] \in {"none", "idle"}
    BY <2>1 DEF Boot
  <2>3. QED
    BY <2>2 DEF PolledAreManaged
<1>14. QED
  BY <1>1, <1>4, <1>5, <1>6, <1>7, <1>8, <1>10, <1>11, <1>12, <1>13
     DEF Next, DedupExpires, ScanLoses, ReachChanges, vars, threadVars

\* For any number of hosts, names, threads and operators, with restarts, failed writes and
\* polls at any moment: no alert is decided for an unmanaged switch, if switches are
\* unmanaged at rest. So a poll that was in flight is all that breaks the promise.
THEOREM UnmanagedStaysSilent ==
  Spec /\ UnmanagedAtRest => UnmanagedIsSilent
<1>1. Init => PolledAreManaged
  BY DEF Init, PolledAreManaged
<1>2. TypeOK /\ PolledAreManaged /\ [Next]_vars
        /\ [\A o \in Operators, n \in Names : SetUnmanaged(o, n, TRUE) => Quiet(n)]_vars
          => PolledAreManaged'
  BY PolledStep
<1>3. PolledAreManaged /\ [Next]_vars
        => [\A t \in Threads :
              pc[t] = "alert" /\ pc'[t] = "mail" /\ switches[monName[t]] # NoSwitch
                => ~switches[monName[t]].unmanaged]_vars
  BY DEF PolledAreManaged, Managed
<1>4. QED
  BY <1>1, <1>2, <1>3, TypeCorrect, PTL DEF Spec, UnmanagedAtRest, UnmanagedIsSilent
================================================================================
