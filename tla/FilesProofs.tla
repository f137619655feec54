------------------------------ MODULE FilesProofs ------------------------------
(***************************************************************************)
(* What the agent keeps in files: the snapshot, the backups, the list of   *)
(* devices that the scanner keeps, and the hosts entered by hand.          *)
(***************************************************************************)
EXTENDS JsonStore, Backup, Scanner, ManualHosts, FiniteSetTheorems, Integers, TLAPS

(***************************************************************************)
(* JsonStore implements the contract SnapshotStore, for any payloads.      *)
(***************************************************************************)
Whole(f) == f # NoFile => f.synced /\ f.data \in Payloads

\* Nothing the directory may ever name is unsynced or torn, and what is about
\* to be renamed is the complete, synced payload of the save under way.
Inv ==
  /\ TypeOK
  /\ file \in entries
  /\ \A f \in entries : Whole(f)
  /\ pc = "idle" <=> payload = NoPayload
  /\ pc \in {"dump", "fsync", "replace"} => tmp # NoFile
  /\ pc \in {"fsync", "replace"} => tmp.data = payload
  /\ pc = "replace" => tmp.synced

Loads == {Load(f) : f \in entries}

LEMMA InvInit == Init => Inv
  BY StoreAssumption, NoFileAssumption DEF Init, Inv, TypeOK, Whole

LEMMA InvStep == Inv /\ [Next]_vars => Inv'
<1> SUFFICES ASSUME Inv, [Next]_vars PROVE Inv'
  OBVIOUS
<1> USE StoreAssumption, NoFileAssumption DEF Inv, TypeOK, Whole, Files
<1>1. ASSUME NEW p \in Payloads, Save(p) PROVE Inv'
  BY <1>1 DEF Save
<1>2. CASE MkTemp
  <2>1. tmp' \in Files
    BY <1>2 DEF MkTemp
  <2>2. tmp' # NoFile
    BY <2>1
  <2>3. QED
    BY <1>2, <2>1, <2>2 DEF MkTemp
<1>3. CASE Dump
  BY <1>3 DEF Dump
<1>4. CASE Fsync
  BY <1>4 DEF Fsync
<1>5. CASE Replace
  BY <1>5 DEF Replace
<1>6. CASE Fail
  BY <1>6 DEF Fail
<1>7. CASE Kill
  BY <1>7 DEF Kill
<1>8. CASE WriteBack
  BY <1>8 DEF WriteBack
<1>9. CASE PowerFailure
  <2>1. PICK f \in entries : file' = AfterPowerFailure(f)
    BY <1>9 DEF PowerFailure
  <2>2. file' = f
    BY <2>1 DEF AfterPowerFailure
  <2>3. QED
    BY <1>9, <2>2 DEF PowerFailure
<1>10. CASE UNCHANGED vars
  BY <1>10 DEF vars
<1>11. QED
  BY <1>1, <1>2, <1>3, <1>4, <1>5, <1>6, <1>7, <1>8, <1>9, <1>10 DEF Next

\* Every step is a step of the contract, or invisible to it: making, filling
\* and syncing the temporary file are invisible, the rename is the commit.
LEMMA ContractStep == Inv /\ [Next]_vars => [Contract!Next]_(Contract!snapshot)
<1> SUFFICES ASSUME Inv, [Next]_vars
             PROVE  Contract!Next \/ UNCHANGED Contract!snapshot
  OBVIOUS
<1> USE StoreAssumption, NoFileAssumption DEF Inv, TypeOK, Whole, Files
<1>1. ASSUME NEW p \in Payloads, Save(p) PROVE Contract!Next
  <2>1. Contract!Begin(p)
    BY <1>1 DEF Save, Contract!Begin
  <2>2. QED
    BY <2>1 DEF Contract!Next
<1>2. CASE MkTemp \/ Dump \/ Fsync
  BY <1>2 DEF MkTemp, Dump, Fsync, Contract!snapshot
<1>3. CASE Replace
  <2>1. Load(tmp) = payload /\ payload # NoPayload
    BY <1>3 DEF Replace, Load
  <2>2. {Load(f) : f \in entries \union {tmp}} = Loads \union {Load(tmp)}
    BY DEF Loads
  <2>3. Contract!Commit
    BY <1>3, <2>1, <2>2 DEF Replace, Contract!Commit, Loads
  <2>4. QED
    BY <2>3 DEF Contract!Next
<1>4. CASE Fail \/ Kill
  <2>1. Contract!Abort
    BY <1>4 DEF Fail, Kill, Contract!Abort
  <2>2. QED
    BY <2>1 DEF Contract!Next
<1>5. CASE WriteBack
  <2>1. Contract!Settle
    BY <1>5 DEF WriteBack, Contract!Settle
  <2>2. QED
    BY <2>1 DEF Contract!Next
<1>6. CASE PowerFailure
  <2>1. PICK f \in entries : file' = AfterPowerFailure(f)
    BY <1>6 DEF PowerFailure
  <2>2. file' = f
    BY <2>1 DEF AfterPowerFailure
  <2>3. Contract!PowerFailure
    BY <1>6, <2>2 DEF PowerFailure, Contract!PowerFailure
  <2>4. QED
    BY <2>3 DEF Contract!Next
<1>7. CASE UNCHANGED vars
  BY <1>7 DEF vars, Contract!snapshot
<1>8. QED
  BY <1>1, <1>2, <1>3, <1>4, <1>5, <1>6, <1>7 DEF Next

\* A JSON snapshot is replaced as a whole or not at all, whatever fails, and a
\* power failure never leaves a torn one.
THEOREM JsonStoreImplementsStore == Spec => ImplementsStore
<1>1. Init => Contract!Init
  BY DEF Init, Contract!Init, Load
<1>2. Spec => []Inv
  BY InvInit, InvStep, PTL DEF Spec
<1>3. QED
  BY <1>1, <1>2, ContractStep, PTL DEF Spec, ImplementsStore, Contract!Spec

(***************************************************************************)
(* Scanner                                                                 *)
(***************************************************************************)
Steps == {"out", "sweep", "empty csv", "fill csv", "select", "read back",
          "empty list", "fill list", "register"}

ScannerTypeOK ==
  /\ scan \in [Scans -> [step : Steps, existing : SUBSET Ips, current : SUBSET Ips,
                         hits : SUBSET Ips]]
  /\ csv \subseteq Ips /\ list \subseteq Ips /\ inventory \subseteq Ips
  /\ registered \subseteq Ips /\ kept \subseteq Ips
  /\ alone \in BOOLEAN

\* What a scan carries has been told of before it reaches a file or the monitor.
CarriedIsTold ==
  \A t \in Scans :
    scan[t].existing \subseteq told /\ scan[t].current \subseteq told /\ scan[t].hits \subseteq told

\* Before Select nothing but the file is counted, and after it the file is replaced
\* by what was held against it; nobody comes between while a scan is alone.
OneScanHoldsTheList ==
  alone =>
    /\ \A t, u \in Scans : t # u => scan[t].step = "out" \/ scan[u].step = "out"
    /\ (\A t \in Scans : scan[t].step # "fill list") => kept = list
    /\ \A t \in Scans : scan[t].step = "fill list" => list = {}
    /\ \A t \in Scans : scan[t].step \in {"empty list", "fill list"} =>
         ~Drops(Cardinality(kept), Cardinality(scan[t].hits))

ScannerInv == ScannerTypeOK /\ NewDevicesAreTold /\ CarriedIsTold /\ OneScanHoldsTheList

LEMMA ScannerInvInit == ScannerInit => ScannerInv
<1> SUFFICES ASSUME ScannerInit PROVE ScannerInv
  OBVIOUS
<1>1. ScannerTypeOK
  BY DEF ScannerInit, ScannerTypeOK, Out, Steps
<1>2. NewDevicesAreTold /\ CarriedIsTold
  BY DEF ScannerInit, NewDevicesAreTold, CarriedIsTold, Out
<1>3. OneScanHoldsTheList
  BY DEF ScannerInit, OneScanHoldsTheList, Out
<1>4. QED
  BY <1>1, <1>2, <1>3 DEF ScannerInv

LEMMA ScannerTypeStep == ScannerTypeOK /\ [ScannerNext]_scannerVars => ScannerTypeOK'
<1> SUFFICES ASSUME ScannerTypeOK, [ScannerNext]_scannerVars PROVE ScannerTypeOK'
  OBVIOUS
<1> USE DEF ScannerTypeOK, Out, Steps, Proceed
<1>1. ASSUME NEW t \in Scans, BeginScan(t) PROVE ScannerTypeOK'
  BY <1>1 DEF BeginScan
<1>2. ASSUME NEW t \in Scans, SweepSubnets(t) PROVE ScannerTypeOK'
  <2>1. PICK current \in SUBSET Ips :
          scan' = [scan EXCEPT ![t].step = "empty csv", ![t].current = current]
    BY <1>2 DEF SweepSubnets
  <2>2. UNCHANGED <<csv, list, inventory, registered, kept, alone>>
    BY <1>2 DEF SweepSubnets
  <2>3. current \subseteq Ips
    OBVIOUS
  <2>4. QED
    BY <2>1, <2>2, <2>3
<1>3. ASSUME NEW t \in Scans, EmptyCsv(t) PROVE ScannerTypeOK'
  BY <1>3 DEF EmptyCsv
<1>4. ASSUME NEW t \in Scans, FillCsv(t) PROVE ScannerTypeOK'
  BY <1>4 DEF FillCsv, Written
<1>5. ASSUME NEW t \in Scans, Select(t) PROVE ScannerTypeOK'
  <2>1. PICK hits \in SUBSET scan[t].current :
          \/ scan' = [scan EXCEPT ![t].step = "read back"]
          \/ scan' = [scan EXCEPT ![t].step = "empty list", ![t].hits = hits]
    BY <1>5 DEF Select
  <2>2. UNCHANGED <<csv, list, inventory, registered, told, kept, alone>>
    BY <1>5 DEF Select
  <2>3. scan[t].current \subseteq Ips
    OBVIOUS
  <2>4. hits \subseteq Ips
    BY <2>3
  <2>5. CASE scan' = [scan EXCEPT ![t].step = "read back"]
    BY <2>2, <2>5
  <2>6. CASE scan' = [scan EXCEPT ![t].step = "empty list", ![t].hits = hits]
    BY <2>2, <2>4, <2>6
  <2>7. QED
    BY <2>1, <2>5, <2>6
<1>6. ASSUME NEW t \in Scans, ReadBack(t) PROVE ScannerTypeOK'
  BY <1>6 DEF ReadBack
<1>7. ASSUME NEW t \in Scans, EmptyList(t) PROVE ScannerTypeOK'
  BY <1>7 DEF EmptyList
<1>8. ASSUME NEW t \in Scans, FillList(t) PROVE ScannerTypeOK'
  BY <1>8 DEF FillList, Written
<1>9. ASSUME NEW t \in Scans, RegisterAll(t) PROVE ScannerTypeOK'
  BY <1>9 DEF RegisterAll
<1>10. ASSUME NEW ip \in Ips, DeleteHost(ip) PROVE ScannerTypeOK'
  BY <1>10 DEF DeleteHost
<1>11. CASE ScannerRestart
  BY <1>11 DEF ScannerRestart
<1>12. CASE UNCHANGED scannerVars
  BY <1>12 DEF scannerVars
<1>13. QED
  BY <1>1, <1>2, <1>3, <1>4, <1>5, <1>6, <1>7, <1>8, <1>9, <1>10, <1>11, <1>12
     DEF ScannerNext

LEMMA ToldStep ==
  ScannerInv /\ [ScannerNext]_scannerVars => NewDevicesAreTold' /\ CarriedIsTold'
<1> SUFFICES ASSUME ScannerInv, [ScannerNext]_scannerVars
             PROVE  NewDevicesAreTold' /\ CarriedIsTold'
  OBVIOUS
<1> USE DEF ScannerInv, ScannerTypeOK, NewDevicesAreTold, CarriedIsTold, Out, Proceed
<1>1. ASSUME NEW t \in Scans, BeginScan(t) PROVE NewDevicesAreTold' /\ CarriedIsTold'
  BY <1>1 DEF BeginScan
<1>2. ASSUME NEW t \in Scans, SweepSubnets(t) PROVE NewDevicesAreTold' /\ CarriedIsTold'
  <2>1. PICK current \in SUBSET Ips :
          /\ scan' = [scan EXCEPT ![t].step = "empty csv", ![t].current = current]
          /\ told' = told \union DiffNew(current, scan[t].existing)
    BY <1>2 DEF SweepSubnets
  <2>2. current \subseteq told'
    BY <2>1 DEF DiffNew
  <2>3. told \subseteq told'
    BY <2>1
  <2>4. CarriedIsTold'
    BY <2>1, <2>2, <2>3
  <2>5. QED
    BY <1>2, <2>3, <2>4 DEF SweepSubnets
<1>3. ASSUME NEW t \in Scans, EmptyCsv(t) PROVE NewDevicesAreTold' /\ CarriedIsTold'
  BY <1>3 DEF EmptyCsv
<1>4. ASSUME NEW t \in Scans, FillCsv(t) PROVE NewDevicesAreTold' /\ CarriedIsTold'
  BY <1>4 DEF FillCsv, Written
<1>5. ASSUME NEW t \in Scans, Select(t) PROVE NewDevicesAreTold' /\ CarriedIsTold'
  <2>1. PICK hits \in SUBSET scan[t].current :
          \/ scan' = [scan EXCEPT ![t].step = "read back"]
          \/ scan' = [scan EXCEPT ![t].step = "empty list", ![t].hits = hits]
    BY <1>5 DEF Select
  <2>2. UNCHANGED <<csv, list, inventory, registered, told, kept, alone>>
    BY <1>5 DEF Select
  <2>3. scan[t].current \subseteq told
    OBVIOUS
  <2>4. hits \subseteq told
    BY <2>3
  <2>5. CASE scan' = [scan EXCEPT ![t].step = "read back"]
    BY <2>2, <2>5
  <2>6. CASE scan' = [scan EXCEPT ![t].step = "empty list", ![t].hits = hits]
    BY <2>2, <2>4, <2>6
  <2>7. QED
    BY <2>1, <2>5, <2>6
<1>6. ASSUME NEW t \in Scans, ReadBack(t) PROVE NewDevicesAreTold' /\ CarriedIsTold'
  BY <1>6 DEF ReadBack
<1>7. ASSUME NEW t \in Scans, EmptyList(t) PROVE NewDevicesAreTold' /\ CarriedIsTold'
  BY <1>7 DEF EmptyList
<1>8. ASSUME NEW t \in Scans, FillList(t) PROVE NewDevicesAreTold' /\ CarriedIsTold'
  BY <1>8 DEF FillList, Written
<1>9. ASSUME NEW t \in Scans, RegisterAll(t) PROVE NewDevicesAreTold' /\ CarriedIsTold'
  BY <1>9 DEF RegisterAll
<1>10. ASSUME NEW ip \in Ips, DeleteHost(ip) PROVE NewDevicesAreTold' /\ CarriedIsTold'
  BY <1>10 DEF DeleteHost
<1>11. CASE ScannerRestart
  BY <1>11 DEF ScannerRestart
<1>12. CASE UNCHANGED scannerVars
  BY <1>12 DEF scannerVars
<1>13. QED
  BY <1>1, <1>2, <1>3, <1>4, <1>5, <1>6, <1>7, <1>8, <1>9, <1>10, <1>11, <1>12
     DEF ScannerNext

LEMMA ListStep == ScannerInv /\ [ScannerNext]_scannerVars => OneScanHoldsTheList'
<1> SUFFICES ASSUME ScannerInv, [ScannerNext]_scannerVars, alone' PROVE OneScanHoldsTheList'
  BY DEF OneScanHoldsTheList
<1> USE DEF ScannerInv, ScannerTypeOK, OneScanHoldsTheList, Out, Proceed
<1>1. ASSUME NEW t \in Scans, BeginScan(t) PROVE OneScanHoldsTheList'
  BY <1>1 DEF BeginScan
<1>2. ASSUME NEW t \in Scans, SweepSubnets(t) PROVE OneScanHoldsTheList'
  BY <1>2 DEF SweepSubnets
<1>3. ASSUME NEW t \in Scans, EmptyCsv(t) PROVE OneScanHoldsTheList'
  BY <1>3 DEF EmptyCsv
<1>4. ASSUME NEW t \in Scans, FillCsv(t) PROVE OneScanHoldsTheList'
  BY <1>4 DEF FillCsv
<1>5. ASSUME NEW t \in Scans, Select(t) PROVE OneScanHoldsTheList'
  <2>1. kept = list
    BY <1>5 DEF Select
  <2>2. PICK hits \in SUBSET scan[t].current :
          \/ scan' = [scan EXCEPT ![t].step = "read back"]
          \/ /\ ~Drops(Cardinality(kept), Cardinality(hits))
             /\ scan' = [scan EXCEPT ![t].step = "empty list", ![t].hits = hits]
    BY <1>5, <2>1 DEF Select, PrevCount
  <2>3. /\ UNCHANGED <<csv, list, inventory, registered, told, kept, alone>>
        /\ scan[t].step = "select"
    BY <1>5 DEF Select
  <2>4. QED
    BY <2>1, <2>2, <2>3
<1>6. ASSUME NEW t \in Scans, ReadBack(t) PROVE OneScanHoldsTheList'
  BY <1>6 DEF ReadBack
<1>7. ASSUME NEW t \in Scans, EmptyList(t) PROVE OneScanHoldsTheList'
  BY <1>7 DEF EmptyList
<1>8. ASSUME NEW t \in Scans, FillList(t) PROVE OneScanHoldsTheList'
  <2>1. \A u \in Scans \ {t} : scan[u].step = "out"
    BY <1>8 DEF FillList
  <2>2. scan' = [scan EXCEPT ![t].step = "register"] /\ kept' = list'
    BY <1>8 DEF FillList
  <2>3. QED
    BY <2>1, <2>2
<1>9. ASSUME NEW t \in Scans, RegisterAll(t) PROVE OneScanHoldsTheList'
  BY <1>9 DEF RegisterAll
<1>10. ASSUME NEW ip \in Ips, DeleteHost(ip) PROVE OneScanHoldsTheList'
  BY <1>10 DEF DeleteHost
<1>11. CASE ScannerRestart
  BY <1>11 DEF ScannerRestart
<1>12. CASE UNCHANGED scannerVars
  BY <1>12 DEF scannerVars
<1>13. QED
  BY <1>1, <1>2, <1>3, <1>4, <1>5, <1>6, <1>7, <1>8, <1>9, <1>10, <1>11, <1>12
     DEF ScannerNext

LEMMA ScannerInvHolds == ScannerSpec => []ScannerInv
<1>1. ScannerInv /\ [ScannerNext]_scannerVars => ScannerInv'
  BY ScannerTypeStep, ToldStep, ListStep DEF ScannerInv
<1>2. QED
  BY <1>1, ScannerInvInit, PTL DEF ScannerSpec

\* No device gets into the device file, the ip_list, the inventory or the monitor
\* without a mail about it, for any subnets and any number of overlapping scans.
THEOREM NewDevicesStayTold == ScannerSpec => []NewDevicesAreTold
<1>1. ScannerInv => NewDevicesAreTold
  BY DEF ScannerInv
<1>2. QED
  BY <1>1, ScannerInvHolds, PTL

\* A scan that is alone with the ip_list does not replace it by one that the coverage
\* guard would have refused, for any guard and any threshold.
THEOREM CoverageStays == ScannerSpec => CoverageDoesNotCollapse
<1>1. ScannerInv /\ [ScannerNext]_scannerVars =>
        [alone /\ kept' # kept => ~Drops(Cardinality(kept), Cardinality(kept'))]_scannerVars
  <2> SUFFICES ASSUME ScannerInv, ScannerNext, alone, kept' # kept
               PROVE  ~Drops(Cardinality(kept), Cardinality(kept'))
    BY DEF scannerVars
  <2>1. PICK t \in Scans : FillList(t)
    BY DEF ScannerNext, BeginScan, SweepSubnets, EmptyCsv, FillCsv, Select, ReadBack,
           EmptyList, RegisterAll, DeleteHost, ScannerRestart
  <2>2. kept' = scan[t].hits
    BY <2>1 DEF FillList, Written, ScannerInv, OneScanHoldsTheList
  <2>3. QED
    BY <2>1, <2>2 DEF FillList, ScannerInv, OneScanHoldsTheList
<1>2. QED
  BY <1>1, ScannerInvHolds, PTL DEF ScannerSpec, CoverageDoesNotCollapse

(***************************************************************************)
(* ManualHosts                                                             *)
(***************************************************************************)
Requests ==
  [step : {"watch", "live"}, name : Names, host : Hosts, mode : Modes]
  \union [step : {"remove", "unwatch"}, name : Names, host : Hosts, mode : {None}]

Stores == [Names -> [host : Hosts, mode : Modes] \union {None}]

ManualTypeOK ==
  /\ hosts \in Stores /\ hostsFile \in Stores
  /\ live \in [Names -> Modes \union {None}]
  /\ monitor \in [Hosts -> Names \union Hosts \union {None}]
  /\ op \in [Operators -> Requests \union {NoRequest}]

Works(o, h) == op[o].step # "idle" /\ op[o].host = h

\* Two requests for an address have met, and a request still knows the address of
\* its name, or the change that gave it another one is excused.
MeetingsAreExcused ==
  /\ \A o, p \in Operators : o # p /\ Works(o, op[p].host) /\ op[p].step # "idle"
       => op[p].host \in excused
  /\ \A o \in Operators :
       op[o].step # "idle" /\ hosts[op[o].name] # None =>
         hosts[op[o].name].host \in excused \union {op[o].host}

\* Where two names have an address, that is known.
NamesakesAreKnown ==
  \A h \in Hosts : \A m, n \in At(hosts, h) : m # n => h \in twice

Honoured(n, h) ==
  /\ monitor[h] # None
  /\ h \notin Listed => monitor[h] = n /\ (n \notin Listed => live[n] = hosts[n].mode)

\* Nobody is working on the address: it is watched as it was entered, or not at all.
Rests(h) ==
  /\ At(hosts, h) = {} /\ h \notin Listed => monitor[h] = None
  /\ \A n \in At(hosts, h) : Honoured(n, h)

\* How far the request has come.
IsOnItsWay(q, h) ==
  /\ q.step = "unwatch" => At(hosts, h) = {}
  /\ q.step # "unwatch" => At(hosts, h) = {q.name}
  /\ q.step = "watch" =>
       hosts[q.name].mode = q.mode /\ (h \notin Listed => monitor[h] = None)
  /\ q.step = "live" =>
       /\ hosts[q.name].mode = q.mode
       /\ monitor[h] # None
       /\ h \notin Listed => monitor[h] = q.name /\ (q.name \notin Listed => live[q.name] # None)

HostOK(h) ==
  /\ \A o \in Operators : Works(o, h) => IsOnItsWay(op[o], h)
  /\ (\A o \in Operators : ~Works(o, h)) => Rests(h)

HostsAreOK == \A h \in Hosts : h \notin excused \union twice => HostOK(h)

\* An address that has an entry is watched or about to be, and no request that would
\* stop its monitor has left the entry of another request in the store.
Watched(h) ==
  /\ At(hosts, h) # {} => monitor[h] # None \/ Entering(h)
  /\ \A o \in Operators : op[o].host = h =>
       /\ op[o].step = "remove" => At(hosts, h) \subseteq {op[o].name}
       /\ op[o].step = "unwatch" => At(hosts, h) = {}

HostsAreWatched == \A h \in Hosts : h \notin twice \union crossed => Watched(h)

ManualInv ==
  ManualTypeOK /\ MeetingsAreExcused /\ NamesakesAreKnown /\ HostsAreOK /\ HostsAreWatched

LEMMA ManualInvInit == ManualInit => ManualInv
<1> SUFFICES ASSUME ManualInit PROVE ManualInv
  OBVIOUS
<1>1. ManualTypeOK
  BY DEF ManualInit, ManualTypeOK, Stores
<1>2. \A o \in Operators : op[o].step = "idle"
  BY DEF ManualInit, NoRequest
<1>3. \A h \in Hosts : At(hosts, h) = {}
  BY DEF ManualInit, At
<1>4. MeetingsAreExcused /\ NamesakesAreKnown
  BY <1>2, <1>3 DEF MeetingsAreExcused, NamesakesAreKnown
<1>5. HostsAreOK
  BY <1>2, <1>3 DEF HostsAreOK, HostOK, Works, Rests, ManualInit
<1>6. HostsAreWatched
  BY <1>2, <1>3 DEF HostsAreWatched, Watched
<1>7. QED
  BY <1>1, <1>4, <1>5, <1>6 DEF ManualInv

\* What Change does, whatever it is for.
LEMMA ChangeTypes ==
  ASSUME ManualTypeOK, NEW o \in Operators, NEW n \in Names,
         NEW entry \in [host : Hosts, mode : Modes] \union {None},
         NEW saved \in BOOLEAN, NEW next \in Requests,
         Change(o, n, entry, saved, next), UNCHANGED <<live, monitor>>
  PROVE  ManualTypeOK'
  BY DEF ManualTypeOK, Change, Stores

LEMMA RequestStep ==
  ASSUME ManualTypeOK
  PROVE  /\ NoRequest.step = "idle"
         /\ \A q \in Requests : q.step # "idle" /\ q.name \in Names /\ q.host \in Hosts
         /\ \A o \in Operators : op[o].step # "idle" => op[o] \in Requests
         /\ \A o \in Operators, h \in Hosts, n \in Names :
              (op[o].name = n \/ op[o].host = h) => op[o].step # "idle"
  BY ManualHostsAssumption DEF ManualTypeOK, Requests, NoRequest

LEMMA ManualTypeStep == ManualTypeOK /\ [ManualNext]_manualVars => ManualTypeOK'
<1> SUFFICES ASSUME ManualTypeOK, [ManualNext]_manualVars PROVE ManualTypeOK'
  OBVIOUS
<1>1. ASSUME NEW o \in Operators, NEW n \in Names, NEW m \in Modes, NEW saved \in BOOLEAN,
             NEW h \in Hosts, AddStore(o, n, h, m, saved)
      PROVE  ManualTypeOK'
  <2>1. [step |-> "watch", name |-> n, host |-> h, mode |-> m] \in Requests
    BY DEF Requests
  <2>2. QED
    BY <1>1, <2>1, ChangeTypes DEF AddStore
<1>2. ASSUME NEW o \in Operators, NEW n \in Names, NEW m \in Modes, NEW saved \in BOOLEAN,
             UpdateStore(o, n, m, saved)
      PROVE  ManualTypeOK'
  <2>1. hosts[n] \in [host : Hosts, mode : Modes]
    BY <1>2 DEF UpdateStore, ManualTypeOK, Stores
  <2>2. [step |-> "live", name |-> n, host |-> hosts[n].host, mode |-> m] \in Requests
    BY <2>1 DEF Requests
  <2>3. [hosts[n] EXCEPT !.mode = m] \in [host : Hosts, mode : Modes]
    BY <2>1
  <2>4. QED
    BY <1>2, <2>2, <2>3, ChangeTypes DEF UpdateStore
<1>3. ASSUME NEW o \in Operators, NEW n \in Names, RemoveLookup(o, n) PROVE ManualTypeOK'
  <2>1. hosts[n] \in [host : Hosts, mode : Modes]
    BY <1>3 DEF RemoveLookup, ManualTypeOK, Stores
  <2>2. [step |-> "remove", name |-> n, host |-> hosts[n].host, mode |-> None] \in Requests
    BY <2>1 DEF Requests
  <2>3. QED
    BY <1>3, <2>2 DEF RemoveLookup, ManualTypeOK
<1>4. ASSUME NEW o \in Operators, NEW saved \in BOOLEAN, RemoveStore(o, saved)
      PROVE  ManualTypeOK'
  <2>1. CASE hosts[op[o].name] = None
    BY <1>4, <2>1 DEF RemoveStore, ManualTypeOK
  <2>2. CASE hosts[op[o].name] # None
    <3>1. op[o] \in Requests /\ op[o].step = "remove"
      BY <1>4, RequestStep DEF RemoveStore
    <3>2. op[o].name \in Names /\ [op[o] EXCEPT !.step = "unwatch"] \in Requests
      BY <3>1 DEF Requests
    <3>3. QED
      BY <1>4, <2>2, <3>2, ChangeTypes DEF RemoveStore
  <2>3. QED
    BY <2>1, <2>2
<1>5. ASSUME NEW o \in Operators, AddMonitor(o) PROVE ManualTypeOK'
  <2>1. op[o] \in Requests /\ op[o].step = "watch"
    BY <1>5, RequestStep DEF AddMonitor
  <2>2. op[o].name \in Names /\ op[o].host \in Hosts /\ op[o].mode \in Modes
    BY <2>1 DEF Requests
  <2>3. QED
    BY <1>5, <2>2 DEF AddMonitor, Watch, ManualTypeOK
<1>6. ASSUME NEW o \in Operators, UpdateLive(o) PROVE ManualTypeOK'
  <2>1. op[o] \in Requests /\ op[o].step = "live"
    BY <1>6, RequestStep DEF UpdateLive
  <2>2. op[o].mode \in Modes
    BY <2>1 DEF Requests
  <2>3. QED
    BY <1>6, <2>2 DEF UpdateLive, LiveMode, ManualTypeOK
<1>7. ASSUME NEW o \in Operators, RemoveMonitor(o) PROVE ManualTypeOK'
  BY <1>7 DEF RemoveMonitor, ManualTypeOK
<1>8. CASE Sync
  BY <1>8, ManualHostsAssumption DEF Sync, Watch, ManualTypeOK
<1>9. ASSUME NEW readable \in BOOLEAN, ManualRestart(readable) PROVE ManualTypeOK'
  BY <1>9 DEF ManualRestart, Loaded, ManualTypeOK, Stores
<1>10. CASE UNCHANGED manualVars
  BY <1>10 DEF manualVars, ManualTypeOK
<1>11. QED
  BY <1>1, <1>2, <1>3, <1>4, <1>5, <1>6, <1>7, <1>8, <1>9, <1>10 DEF ManualNext

\* What a change of the store leaves behind for the ghosts.
LEMMA ChangeExcuses ==
  ASSUME ManualInv, NEW o \in Operators, NEW n \in Names,
         NEW entry \in [host : Hosts, mode : Modes] \union {None},
         NEW saved \in BOOLEAN, NEW next \in Requests,
         Change(o, n, entry, saved, next),
         next.name = n, entry # None => entry.host = next.host,
         op[o] = NoRequest \/ (op[o].host = next.host /\ op[o].name = n)
  PROVE  MeetingsAreExcused' /\ NamesakesAreKnown'
<1> USE RequestStep DEF ManualInv
<1> excused \subseteq excused'
  BY DEF Change
<1> \A p \in Operators \ {o} : op'[p] = op[p]
  BY DEF Change, ManualTypeOK
<1> op'[o] = (IF saved THEN next ELSE NoRequest)
  BY DEF Change, ManualTypeOK
<1> \A m \in Names \ {n} : hosts'[m] = hosts[m]
  BY DEF Change, ManualTypeOK, Stores
<1> hosts'[n] = entry
  BY DEF Change, ManualTypeOK, Stores
<1> \A p \in Operators \ {o} : op[p].name = n \/ op[p].host = next.host => next.host \in excused'
  BY DEF Change, Met
<1>1. ASSUME NEW p \in Operators, NEW q \in Operators, p # q,
             Works(p, op[q].host)', op'[q].step # "idle"
      PROVE  op'[q].host \in excused'
  <2>1. CASE p = o
    <3>1. op'[p] = next /\ op[q].host = next.host
      BY <1>1, <2>1 DEF Works
    <3>2. QED
      BY <1>1, <2>1, <3>1
  <2>2. CASE q = o
    <3>1. op'[q] = next /\ op[p].host = next.host
      BY <1>1, <2>2 DEF Works
    <3>2. QED
      BY <1>1, <2>2, <3>1
  <2>3. CASE p # o /\ q # o
    BY <1>1, <2>3 DEF MeetingsAreExcused, Works
  <2>4. QED
    BY <2>1, <2>2, <2>3
<1>2. ASSUME NEW p \in Operators, op'[p].step # "idle", hosts'[op'[p].name] # None
      PROVE  hosts'[op'[p].name].host \in excused' \union {op'[p].host}
  <2>1. CASE p = o
    BY <1>2, <2>1
  <2>2. CASE p # o /\ op[p].name = n
    BY <1>2, <2>2
  <2>3. CASE p # o /\ op[p].name # n
    <3>1. op[p].name \in Names
      BY <1>2, <2>3
    <3>2. QED
      BY <1>2, <2>3, <3>1 DEF MeetingsAreExcused
  <2>4. QED
    BY <2>1, <2>2, <2>3
<1>3. MeetingsAreExcused'
  BY <1>1, <1>2 DEF MeetingsAreExcused
<1>4. ASSUME NEW h \in Hosts, NEW m \in At(hosts', h), NEW k \in At(hosts', h), m # k
      PROVE  h \in twice'
  <2>1. At(hosts', h) # {m}
    BY <1>4
  <2>2. QED
    BY <1>4, <2>1 DEF Change, Shared
<1>5. NamesakesAreKnown'
  BY <1>4 DEF NamesakesAreKnown
<1>6. QED
  BY <1>3, <1>5

LEMMA GhostStep ==
  ManualInv /\ [ManualNext]_manualVars => MeetingsAreExcused' /\ NamesakesAreKnown'
<1> SUFFICES ASSUME ManualInv, [ManualNext]_manualVars
             PROVE  MeetingsAreExcused' /\ NamesakesAreKnown'
  OBVIOUS
<1> ManualTypeOK
  BY DEF ManualInv
<1>1. ASSUME NEW o \in Operators, NEW n \in Names, NEW m \in Modes, NEW saved \in BOOLEAN,
             NEW h \in Hosts, AddStore(o, n, h, m, saved)
      PROVE  MeetingsAreExcused' /\ NamesakesAreKnown'
  <2> DEFINE next == [step |-> "watch", name |-> n, host |-> h, mode |-> m]
  <2>1. next \in Requests /\ next.name = n /\ next.host = h
    BY DEF Requests
  <2> HIDE DEF next
  <2>2. op[o] = NoRequest /\ Change(o, n, [host |-> h, mode |-> m], saved, next)
    BY <1>1 DEF AddStore, next
  <2>3. QED
    BY <2>1, <2>2, ChangeExcuses
<1>2. ASSUME NEW o \in Operators, NEW n \in Names, NEW m \in Modes, NEW saved \in BOOLEAN,
             UpdateStore(o, n, m, saved)
      PROVE  MeetingsAreExcused' /\ NamesakesAreKnown'
  <2> DEFINE next == [step |-> "live", name |-> n, host |-> hosts[n].host, mode |-> m]
             entry == [hosts[n] EXCEPT !.mode = m]
  <2>1. hosts[n] \in [host : Hosts, mode : Modes]
    BY <1>2 DEF UpdateStore, ManualTypeOK, Stores
  <2>2. next \in Requests /\ next.name = n /\ next.host = hosts[n].host
    BY <2>1 DEF Requests
  <2>3. entry \in [host : Hosts, mode : Modes] /\ entry.host = hosts[n].host
    BY <2>1
  <2>4. op[o] = NoRequest /\ Change(o, n, entry, saved, next)
    BY <1>2 DEF UpdateStore
  <2> HIDE DEF next, entry
  <2>5. QED
    BY <2>2, <2>3, <2>4, ChangeExcuses
<1>3. ASSUME NEW o \in Operators, NEW n \in Names, RemoveLookup(o, n)
      PROVE  MeetingsAreExcused' /\ NamesakesAreKnown'
  <2> USE RequestStep DEF ManualInv
  <2>1. excused \subseteq excused' /\ UNCHANGED <<hosts, hostsFile, twice>>
    BY <1>3 DEF RemoveLookup
  <2>2. hosts[n] \in [host : Hosts, mode : Modes] /\ hosts[n] # None
    BY <1>3 DEF RemoveLookup, ManualTypeOK, Stores
  <2>3. op'[o].step = "remove" /\ op'[o].name = n /\ op'[o].host = hosts[n].host
    BY <1>3 DEF RemoveLookup, ManualTypeOK
  <2>4. \A p \in Operators \ {o} : op'[p] = op[p]
    BY <1>3 DEF RemoveLookup, ManualTypeOK
  <2>5. \A p \in Operators \ {o} : op[p].host = hosts[n].host => hosts[n].host \in excused'
    BY <1>3 DEF RemoveLookup, Met
  <2>6. ASSUME NEW p \in Operators, NEW q \in Operators, p # q,
               Works(p, op[q].host)', op'[q].step # "idle"
        PROVE  op'[q].host \in excused'
    BY <2>1, <2>3, <2>4, <2>5, <2>6 DEF MeetingsAreExcused, Works
  <2>7. ASSUME NEW p \in Operators, op'[p].step # "idle", hosts'[op'[p].name] # None
        PROVE  hosts'[op'[p].name].host \in excused' \union {op'[p].host}
    BY <2>1, <2>3, <2>4, <2>7 DEF MeetingsAreExcused
  <2>8. MeetingsAreExcused'
    BY <2>6, <2>7 DEF MeetingsAreExcused
  <2>9. NamesakesAreKnown'
    BY <2>1 DEF NamesakesAreKnown
  <2>10. QED
    BY <2>8, <2>9
<1>4. ASSUME NEW o \in Operators, op' = [op EXCEPT ![o] = NoRequest],
             UNCHANGED <<hosts, hostsFile, excused, twice>>
      PROVE  MeetingsAreExcused' /\ NamesakesAreKnown'
  <2> USE RequestStep DEF ManualInv
  <2>1. op'[o].step = "idle" /\ \A p \in Operators \ {o} : op'[p] = op[p]
    BY <1>4 DEF ManualTypeOK
  <2>2. MeetingsAreExcused'
    BY <1>4, <2>1 DEF MeetingsAreExcused, Works
  <2>3. NamesakesAreKnown'
    BY <1>4 DEF NamesakesAreKnown
  <2>4. QED
    BY <2>2, <2>3
<1>5. ASSUME NEW o \in Operators, NEW saved \in BOOLEAN, RemoveStore(o, saved)
      PROVE  MeetingsAreExcused' /\ NamesakesAreKnown'
  <2>1. CASE hosts[op[o].name] = None
    BY <1>4, <1>5, <2>1 DEF RemoveStore
  <2>2. CASE hosts[op[o].name] # None
    <3> DEFINE next == [op[o] EXCEPT !.step = "unwatch"]
    <3>1. op[o] \in Requests /\ op[o].step = "remove"
      BY <1>5, RequestStep DEF RemoveStore
    <3>2. op[o].name \in Names /\ next \in Requests
      BY <3>1 DEF Requests
    <3>3. next.name = op[o].name /\ next.host = op[o].host
      BY <3>1 DEF Requests
    <3>4. Change(o, op[o].name, None, saved, next)
      BY <1>5, <2>2 DEF RemoveStore
    <3> HIDE DEF next
    <3>5. QED
      BY <3>2, <3>3, <3>4, ChangeExcuses
  <2>3. QED
    BY <2>1, <2>2
<1>6. ASSUME NEW o \in Operators, AddMonitor(o) \/ UpdateLive(o) \/ RemoveMonitor(o)
      PROVE  MeetingsAreExcused' /\ NamesakesAreKnown'
  BY <1>4, <1>6 DEF AddMonitor, UpdateLive, RemoveMonitor
<1>7. CASE Sync \/ UNCHANGED manualVars
  <2>1. UNCHANGED <<hosts, hostsFile, op, excused, twice>>
    BY <1>7 DEF Sync, manualVars
  <2>2. QED
    BY <2>1 DEF ManualInv, MeetingsAreExcused, NamesakesAreKnown, Works
<1>8. ASSUME NEW readable \in BOOLEAN, ManualRestart(readable)
      PROVE  MeetingsAreExcused' /\ NamesakesAreKnown'
  <2>1. \A o \in Operators : op'[o].step = "idle"
    BY <1>8, RequestStep DEF ManualRestart
  <2>2. twice' = Shared(hosts')
    BY <1>8 DEF ManualRestart
  <2>3. ASSUME NEW h \in Hosts, NEW m \in At(hosts', h), NEW n \in At(hosts', h), m # n
        PROVE  h \in twice'
    <3>1. At(hosts', h) # {m}
      BY <2>3
    <3>2. QED
      BY <2>2, <2>3, <3>1 DEF Shared
  <2>4. NamesakesAreKnown'
    BY <2>3 DEF NamesakesAreKnown
  <2>5. QED
    BY <2>1, <2>4 DEF MeetingsAreExcused
<1>9. QED
  BY <1>1, <1>2, <1>3, <1>5, <1>6, <1>7, <1>8 DEF ManualNext

\* An address that a step does not touch stays as it is.
LEMMA Untouched ==
  ASSUME NEW h \in Hosts, HostOK(h),
         At(hosts', h) = At(hosts, h),
         \A m \in At(hosts, h) :
           hosts'[m] = hosts[m] /\ (m \notin Listed => live'[m] = live[m]),
         monitor'[h] = monitor[h],
         \A o \in Operators : Works(o, h)' <=> Works(o, h),
         \A o \in Operators : Works(o, h) => op'[o] = op[o]
  PROVE  HostOK(h)'
<1>1. ASSUME NEW o \in Operators, Works(o, h)' PROVE IsOnItsWay(op[o], h)'
  <2>1. Works(o, h) /\ op'[o] = op[o] /\ IsOnItsWay(op[o], h)
    BY <1>1 DEF HostOK
  <2>2. CASE op[o].step = "unwatch"
    BY <2>1, <2>2 DEF IsOnItsWay
  <2>3. CASE op[o].step # "unwatch"
    <3>1. op[o].name \in At(hosts, h)
      BY <2>1, <2>3 DEF IsOnItsWay
    <3>2. QED
      BY <2>1, <2>3, <3>1 DEF IsOnItsWay
  <2>4. QED
    BY <2>2, <2>3
<1>2. ASSUME \A o \in Operators : ~Works(o, h)' PROVE Rests(h)'
  BY <1>2 DEF HostOK, Rests, Honoured
<1>3. QED
  BY <1>1, <1>2 DEF HostOK

\* A change of the store, seen from an address: it is about another one, or there is
\* nobody else at work on it.
LEMMA ChangeAtOther ==
  ASSUME ManualInv, NEW o \in Operators, NEW n \in Names,
         NEW entry \in [host : Hosts, mode : Modes] \union {None},
         NEW saved \in BOOLEAN, NEW next \in Requests,
         Change(o, n, entry, saved, next), UNCHANGED <<live, monitor>>,
         entry # None => entry.host = next.host,
         op[o] = NoRequest \/ op[o].host = next.host,
         hosts[n] = None \/ hosts[n].host \in excused \union {next.host},
         NEW h \in Hosts, h \notin excused' \union twice', h # next.host
  PROVE  HostOK(h)'
<1> USE RequestStep DEF ManualInv
<1>1. h \notin excused \union twice
  BY DEF Change
<1>2. HostOK(h)
  BY <1>1 DEF HostsAreOK
<1>3. \A m \in Names \ {n} : hosts'[m] = hosts[m]
  BY DEF Change, ManualTypeOK, Stores
<1>4. hosts'[n] = entry
  BY DEF Change, ManualTypeOK, Stores
<1>5. n \notin At(hosts, h) /\ n \notin At(hosts', h)
  BY <1>1, <1>4 DEF At
<1>6. At(hosts', h) = At(hosts, h)
  BY <1>3, <1>5 DEF At
<1>7. \A m \in At(hosts, h) : m \in Names \ {n}
  BY <1>5 DEF At
<1>8. \A p \in Operators \ {o} : op'[p] = op[p]
  BY DEF Change, ManualTypeOK
<1>9. op'[o] = (IF saved THEN next ELSE NoRequest)
  BY DEF Change, ManualTypeOK
<1>10. ~Works(o, h) /\ ~Works(o, h)'
  BY <1>9 DEF Works
<1>11. \A p \in Operators : (Works(p, h)' <=> Works(p, h)) /\ (Works(p, h) => op'[p] = op[p])
  BY <1>8, <1>10 DEF Works
<1>12. \A m \in At(hosts, h) : hosts'[m] = hosts[m] /\ (m \notin Listed => live'[m] = live[m])
  BY <1>3, <1>7
<1>13. QED
  BY <1>2, <1>6, <1>11, <1>12, Untouched

LEMMA ChangeHere ==
  ASSUME ManualInv, NEW o \in Operators, NEW n \in Names,
         NEW entry \in [host : Hosts, mode : Modes] \union {None},
         NEW saved \in BOOLEAN, NEW next \in Requests,
         Change(o, n, entry, saved, next), UNCHANGED <<live, monitor>>,
         entry # None => entry.host = next.host,
         next.host \notin excused' \union twice'
  PROVE  /\ next.host \notin excused \union twice
         /\ op'[o] = next
         /\ \A p \in Operators \ {o} : ~Works(p, next.host) /\ ~Works(p, next.host)'
         /\ \A m \in Names \ {n} : hosts'[m] = hosts[m]
         /\ hosts'[n] = entry
         /\ entry # None => At(hosts', next.host) = {n}
         /\ entry = None =>
              At(hosts', next.host) = At(hosts, next.host) \ {n}
<1> USE RequestStep DEF ManualInv
<1>1. saved /\ ~Met(o, n, next.host)
  BY DEF Change
<1>2. op'[o] = next /\ \A p \in Operators \ {o} : op'[p] = op[p]
  BY <1>1 DEF Change, ManualTypeOK
<1>3. \A m \in Names \ {n} : hosts'[m] = hosts[m]
  BY DEF Change, ManualTypeOK, Stores
<1>4. hosts'[n] = entry
  BY DEF Change, ManualTypeOK, Stores
<1>5. next.host \notin excused \union twice
  BY DEF Change
<1>6. \A p \in Operators \ {o} : ~Works(p, next.host) /\ ~Works(p, next.host)'
  BY <1>1, <1>2 DEF Met, Works
<1>7. ASSUME entry # None PROVE At(hosts', next.host) = {n}
  <2>1. n \in At(hosts', next.host)
    BY <1>4, <1>7 DEF At
  <2>2. next.host \in Hosts
    OBVIOUS
  <2>3. At(hosts', next.host) = {n} \/ next.host \in twice'
    BY <2>1, <2>2 DEF Change, Shared
  <2>4. QED
    BY <2>3
<1>8. entry = None => At(hosts', next.host) = At(hosts, next.host) \ {n}
  BY <1>3, <1>4 DEF At
<1>9. QED
  BY <1>2, <1>3, <1>4, <1>5, <1>6, <1>7, <1>8

LEMMA ChangeAway ==
  ASSUME ManualInv, NEW o \in Operators, NEW n \in Names,
         NEW saved \in BOOLEAN, NEW next \in Requests,
         Change(o, n, None, saved, next), UNCHANGED <<live, monitor>>,
         NEW h \in Hosts, h = next.host, h \notin excused' \union twice'
  PROVE  /\ h \notin excused \union twice
         /\ op'[o] = next
         /\ \A p \in Operators \ {o} : ~Works(p, h) /\ ~Works(p, h)'
         /\ At(hosts', h) = At(hosts, h) \ {n}
<1>1. None \in [host : Hosts, mode : Modes] \union {None}
  OBVIOUS
<1>2. None # None => None.host = next.host
  OBVIOUS
<1>3. QED
  BY <1>1, <1>2, ChangeHere

\* A request is done, and nobody else is at work on its address.
LEMMA OneIsAtWork ==
  ASSUME ManualInv, NEW o \in Operators, op[o].step # "idle",
         NEW h \in Hosts, h = op[o].host, h \notin excused \union twice,
         op' = [op EXCEPT ![o] = NoRequest]
  PROVE  /\ IsOnItsWay(op[o], h)
         /\ \A p \in Operators : ~Works(p, h)'
<1> USE RequestStep DEF ManualInv
<1>1. IsOnItsWay(op[o], h)
  BY DEF HostsAreOK, HostOK, Works
<1>2. op'[o] = NoRequest /\ \A p \in Operators \ {o} : op'[p] = op[p]
  BY DEF ManualTypeOK
<1>3. \A p \in Operators \ {o} : op[p].step # "idle" => op[p].host # h
  BY DEF MeetingsAreExcused, Works
<1>4. QED
  BY <1>1, <1>2, <1>3 DEF Works

\* The monitor of an address, or the mode of a name that has another address or none,
\* is changed, by a request that is done.
LEMMA DoneElsewhere ==
  ASSUME ManualInv, NEW o \in Operators, op[o].step # "idle",
         op' = [op EXCEPT ![o] = NoRequest],
         UNCHANGED <<hosts, excused, twice>>,
         \A k \in Hosts : k # op[o].host => monitor'[k] = monitor[k],
         \A m \in Names : m # op[o].name => live'[m] = live[m],
         NEW h \in Hosts, h \notin excused \union twice, h # op[o].host
  PROVE  HostOK(h)'
<1> USE RequestStep DEF ManualInv
<1>1. HostOK(h)
  BY DEF HostsAreOK
<1>2. op'[o] = NoRequest /\ \A p \in Operators \ {o} : op'[p] = op[p]
  BY DEF ManualTypeOK
<1>3. \A p \in Operators : (Works(p, h)' <=> Works(p, h)) /\ (Works(p, h) => op'[p] = op[p])
  BY <1>2 DEF Works
<1>4. At(hosts', h) = At(hosts, h)
  OBVIOUS
<1>5. op[o].name \notin At(hosts, h)
  BY DEF MeetingsAreExcused, At
<1>6. \A m \in At(hosts, h) : m \in Names
  BY DEF At
<1>7. \A m \in At(hosts, h) : hosts'[m] = hosts[m] /\ (m \notin Listed => live'[m] = live[m])
  BY <1>5, <1>6
<1>8. QED
  BY <1>1, <1>3, <1>4, <1>7, Untouched

LEMMA HostsStep == ManualInv /\ [ManualNext]_manualVars => HostsAreOK'
<1> SUFFICES ASSUME ManualInv, [ManualNext]_manualVars,
                    NEW h \in Hosts, h \notin excused' \union twice'
             PROVE  HostOK(h)'
  BY DEF HostsAreOK
<1> ManualTypeOK
  BY DEF ManualInv
<1> USE RequestStep
<1>1. ASSUME NEW o \in Operators, NEW n \in Names, NEW m \in Modes, NEW saved \in BOOLEAN,
             NEW k \in Hosts, AddStore(o, n, k, m, saved)
      PROVE  HostOK(h)'
  <2> DEFINE next == [step |-> "watch", name |-> n, host |-> k, mode |-> m]
             entry == [host |-> k, mode |-> m]
  <2>1. next \in Requests /\ next.name = n /\ next.host = k /\ next.step = "watch" /\ next.mode = m
    BY DEF Requests
  <2>2. entry \in [host : Hosts, mode : Modes] /\ entry.host = k /\ entry.mode = m /\ entry # None
    BY ManualHostsAssumption
  <2> HIDE DEF next, entry
  <2>3. /\ op[o] = NoRequest /\ hosts[n] = None
        /\ Change(o, n, entry, saved, next)
        /\ UNCHANGED <<live, monitor>>
    BY <1>1 DEF AddStore, next, entry
  <2>4. CASE h # k
    BY <2>1, <2>2, <2>3, <2>4, ChangeAtOther
  <2>5. CASE h = k
    <3>1. /\ h \notin excused \union twice
          /\ op'[o] = next
          /\ \A p \in Operators \ {o} : ~Works(p, h) /\ ~Works(p, h)'
          /\ hosts'[n] = entry
          /\ At(hosts', h) = {n}
          /\ \A i \in Names \ {n} : hosts'[i] = hosts[i]
      BY <2>1, <2>2, <2>3, <2>5, ChangeHere
    <3>2. At(hosts, h) = {}
      BY <2>3, <3>1 DEF At
    <3>3. Rests(h)
      BY <2>3, <3>1 DEF ManualInv, HostsAreOK, HostOK, Works
    <3>4. IsOnItsWay(next, h)'
      BY <2>1, <2>2, <2>3, <3>1, <3>2, <3>3 DEF IsOnItsWay, Rests
    <3>5. Works(o, h)'
      BY <2>1, <2>5, <3>1 DEF Works
    <3>6. \A p \in Operators : Works(p, h)' => p = o
      BY <3>1
    <3>7. IsOnItsWay(op[o], h)'
      BY <3>1, <3>4 DEF IsOnItsWay
    <3>8. QED
      BY <3>5, <3>6, <3>7 DEF HostOK
  <2>6. QED
    BY <2>4, <2>5
<1>2. ASSUME NEW o \in Operators, NEW n \in Names, NEW m \in Modes, NEW saved \in BOOLEAN,
             UpdateStore(o, n, m, saved)
      PROVE  HostOK(h)'
  <2> DEFINE next == [step |-> "live", name |-> n, host |-> hosts[n].host, mode |-> m]
             entry == [hosts[n] EXCEPT !.mode = m]
  <2>1. hosts[n] \in [host : Hosts, mode : Modes] /\ hosts[n] # None
    BY <1>2 DEF UpdateStore, ManualTypeOK, Stores
  <2>2. /\ next \in Requests /\ next.name = n /\ next.host = hosts[n].host
        /\ next.step = "live" /\ next.mode = m
    BY <2>1 DEF Requests
  <2>3. /\ entry \in [host : Hosts, mode : Modes] /\ entry.host = hosts[n].host
        /\ entry.mode = m /\ entry # None
    BY <2>1, ManualHostsAssumption
  <2>4. /\ op[o] = NoRequest
        /\ Change(o, n, entry, saved, next)
        /\ UNCHANGED <<live, monitor>>
    BY <1>2 DEF UpdateStore
  <2> HIDE DEF next, entry
  <2>5. CASE h # next.host
    BY <2>2, <2>3, <2>4, <2>5, ChangeAtOther
  <2>6. CASE h = next.host
    <3>1. /\ h \notin excused \union twice
          /\ op'[o] = next
          /\ \A p \in Operators \ {o} : ~Works(p, h) /\ ~Works(p, h)'
          /\ hosts'[n] = entry
          /\ At(hosts', h) = {n}
      BY <2>2, <2>3, <2>4, <2>6, ChangeHere
    <3>2. n \in At(hosts, h)
      BY <2>1, <2>2, <2>6 DEF At
    <3>3. Rests(h)
      BY <2>4, <3>1 DEF ManualInv, HostsAreOK, HostOK, Works
    <3>4. Honoured(n, h) /\ hosts[n].mode \in Modes /\ hosts[n].mode # None
      BY <2>1, <3>2, <3>3, ManualHostsAssumption DEF Rests
    <3>5. op'[o].step = "live" /\ op'[o].name = n /\ op'[o].mode = m
      BY <2>2, <3>1
    <3>6. Works(o, h)'
      BY <2>2, <2>6, <3>1 DEF Works
    <3>7. \A p \in Operators : Works(p, h)' => p = o
      BY <3>1
    <3>8. IsOnItsWay(op[o], h)'
      BY <2>3, <2>4, <3>1, <3>4, <3>5 DEF IsOnItsWay, Honoured
    <3>9. QED
      BY <3>6, <3>7, <3>8 DEF HostOK
  <2>7. QED
    BY <2>5, <2>6
<1>3. ASSUME NEW o \in Operators, NEW n \in Names, RemoveLookup(o, n) PROVE HostOK(h)'
  <2>1. h \notin excused \union twice /\ UNCHANGED <<hosts, live, monitor, twice>>
    BY <1>3 DEF RemoveLookup
  <2>2. HostOK(h)
    BY <2>1 DEF ManualInv, HostsAreOK
  <2>3. hosts[n] # None /\ op[o] = NoRequest
    BY <1>3 DEF RemoveLookup
  <2>4. /\ op'[o].step = "remove" /\ op'[o].name = n /\ op'[o].host = hosts[n].host
        /\ \A p \in Operators \ {o} : op'[p] = op[p]
    BY <1>3 DEF RemoveLookup, ManualTypeOK
  <2>5. CASE h # hosts[n].host
    <3>1. \A p \in Operators : (Works(p, h)' <=> Works(p, h)) /\ (Works(p, h) => op'[p] = op[p])
      BY <2>3, <2>4, <2>5 DEF Works
    <3>2. QED
      BY <2>1, <2>2, <3>1, Untouched
  <2>6. CASE h = hosts[n].host
    <3>1. \A p \in Operators \ {o} : ~Works(p, h) /\ ~Works(p, h)'
      BY <1>3, <2>4, <2>6 DEF RemoveLookup, Met, Works
    <3>2. n \in At(hosts, h)
      BY <2>3, <2>6 DEF At
    <3>3. At(hosts, h) = {n}
      BY <2>1, <3>2 DEF ManualInv, NamesakesAreKnown, At
    <3>4. IsOnItsWay(op[o], h)'
      BY <2>1, <2>4, <3>3 DEF IsOnItsWay
    <3>5. Works(o, h)'
      BY <2>4, <2>6 DEF Works
    <3>6. \A p \in Operators : Works(p, h)' => p = o
      BY <3>1
    <3>7. QED
      BY <3>4, <3>5, <3>6 DEF HostOK
  <2>7. QED
    BY <2>5, <2>6

<1>4. ASSUME NEW o \in Operators, NEW saved \in BOOLEAN, RemoveStore(o, saved) PROVE HostOK(h)'
  <2>1. op[o] \in Requests /\ op[o].step = "remove" /\ UNCHANGED <<live, monitor>>
    BY <1>4 DEF RemoveStore
  <2>2. op[o].name \in Names /\ op[o].host \in Hosts
    BY <2>1
  <2>3. CASE hosts[op[o].name] = None
    <3>1. op' = [op EXCEPT ![o] = NoRequest] /\ UNCHANGED <<hosts, excused, twice>>
      BY <1>4, <2>3 DEF RemoveStore
    <3>2. CASE h # op[o].host
      BY <2>1, <3>1, <3>2, DoneElsewhere
    <3>3. CASE h = op[o].host
      <4>1. IsOnItsWay(op[o], h)
        BY <2>1, <3>1, <3>3, OneIsAtWork
      <4>2. QED
        BY <2>1, <2>3, <4>1 DEF IsOnItsWay, At
    <3>4. QED
      BY <3>2, <3>3
  <2>4. CASE hosts[op[o].name] # None
    <3>1. PICK n \in Names, next \in Requests :
            /\ n = op[o].name /\ next.host = op[o].host /\ next.step = "unwatch"
            /\ Change(o, n, None, saved, next)
      <4>1. [op[o] EXCEPT !.step = "unwatch"] \in Requests
        BY <2>1 DEF Requests
      <4>2. QED
        BY <1>4, <2>1, <2>2, <2>4, <4>1 DEF RemoveStore, Requests
    <3>2. hosts[n].host \in excused \union {next.host}
      BY <2>1, <2>4, <3>1 DEF ManualInv, MeetingsAreExcused
    <3>3. CASE h # next.host
      BY <2>1, <3>1, <3>2, <3>3, ChangeAtOther
    <3>4. CASE h = next.host
      <4>1. /\ h \notin excused \union twice
            /\ op'[o] = next
            /\ \A p \in Operators \ {o} : ~Works(p, h) /\ ~Works(p, h)'
            /\ At(hosts', h) = At(hosts, h) \ {n}
        BY <2>1, <3>1, <3>4, ChangeAway
      <4>2. IsOnItsWay(op[o], h)
        BY <2>1, <3>1, <3>4, <4>1 DEF ManualInv, HostsAreOK, HostOK, Works
      <4>3. At(hosts', h) = {}
        BY <2>1, <3>1, <4>1, <4>2 DEF IsOnItsWay
      <4>4. IsOnItsWay(op[o], h)'
        BY <3>1, <4>1, <4>3 DEF IsOnItsWay
      <4>5. Works(o, h)' /\ \A p \in Operators : Works(p, h)' => p = o
        BY <3>1, <3>4, <4>1 DEF Works
      <4>6. QED
        BY <4>4, <4>5 DEF HostOK
    <3>5. QED
      BY <3>3, <3>4
  <2>5. QED
    BY <2>3, <2>4
<1>5. ASSUME NEW o \in Operators, AddMonitor(o) PROVE HostOK(h)'
  <2>1. /\ op[o] \in Requests /\ op[o].step = "watch"
        /\ op' = [op EXCEPT ![o] = NoRequest]
        /\ UNCHANGED <<hosts, excused, twice>>
    BY <1>5 DEF AddMonitor
  <2>2. op[o].name \in Names /\ op[o].host \in Hosts /\ op[o].mode \in Modes
    BY <2>1 DEF Requests
  <2>3. Watch(op[o].host, op[o].name, op[o].mode)
    BY <1>5 DEF AddMonitor
  <2>4. /\ \A k \in Hosts : k # op[o].host => monitor'[k] = monitor[k]
        /\ \A i \in Names : i # op[o].name => live'[i] = live[i]
    BY <2>2, <2>3 DEF Watch, ManualTypeOK
  <2>5. CASE h # op[o].host
    BY <2>1, <2>4, <2>5, DoneElsewhere
  <2>6. CASE h = op[o].host
    <3>1. IsOnItsWay(op[o], h) /\ \A p \in Operators : ~Works(p, h)'
      BY <2>1, <2>6, OneIsAtWork
    <3>2. /\ At(hosts, h) = {op[o].name} /\ hosts[op[o].name].mode = op[o].mode
          /\ h \notin Listed => monitor[h] = None
      BY <2>1, <3>1 DEF IsOnItsWay
    <3>3. monitor'[h] # None
      BY <2>2, <2>3, <2>6, ManualHostsAssumption DEF Watch, ManualTypeOK
    <3>4. h \notin Listed => monitor'[h] = op[o].name /\ live'[op[o].name] = op[o].mode
      BY <2>2, <2>3, <2>6, <3>2 DEF Watch, ManualTypeOK
    <3>5. \A i \in At(hosts', h) : i = op[o].name
      BY <2>1, <3>2
    <3>6. At(hosts', h) # {}
      BY <2>1, <3>2
    <3>7. Rests(h)'
      BY <2>1, <3>2, <3>3, <3>4, <3>5, <3>6 DEF Rests, Honoured
    <3>8. QED
      BY <3>1, <3>7 DEF HostOK
  <2>7. QED
    BY <2>5, <2>6
<1>6. ASSUME NEW o \in Operators, UpdateLive(o) PROVE HostOK(h)'
  <2>1. /\ op[o] \in Requests /\ op[o].step = "live"
        /\ op' = [op EXCEPT ![o] = NoRequest]
        /\ UNCHANGED <<hosts, monitor, excused, twice>>
    BY <1>6 DEF UpdateLive
  <2>2. op[o].name \in Names /\ op[o].host \in Hosts /\ op[o].mode \in Modes
    BY <2>1 DEF Requests
  <2>3. live' = LiveMode(op[o].name, op[o].mode)
    BY <1>6 DEF UpdateLive
  <2>4. \A i \in Names : i # op[o].name => live'[i] = live[i]
    BY <2>2, <2>3 DEF LiveMode, ManualTypeOK
  <2>5. CASE h # op[o].host
    BY <2>1, <2>4, <2>5, DoneElsewhere
  <2>6. CASE h = op[o].host
    <3>1. IsOnItsWay(op[o], h) /\ \A p \in Operators : ~Works(p, h)'
      BY <2>1, <2>6, OneIsAtWork
    <3>2. /\ At(hosts, h) = {op[o].name} /\ hosts[op[o].name].mode = op[o].mode
          /\ monitor[h] # None
          /\ h \notin Listed => monitor[h] = op[o].name
          /\ h \notin Listed /\ op[o].name \notin Listed => live[op[o].name] # None
      BY <2>1, <3>1 DEF IsOnItsWay
    <3>3. h \notin Listed /\ op[o].name \notin Listed => live'[op[o].name] = op[o].mode
      BY <2>2, <2>3, <3>2 DEF LiveMode, ManualTypeOK
    <3>4. \A i \in At(hosts', h) : i = op[o].name
      BY <2>1, <3>2
    <3>5. At(hosts', h) # {}
      BY <2>1, <3>2
    <3>6. Rests(h)'
      BY <2>1, <3>2, <3>3, <3>4, <3>5 DEF Rests, Honoured
    <3>7. QED
      BY <3>1, <3>6 DEF HostOK
  <2>7. QED
    BY <2>5, <2>6
<1>7. ASSUME NEW o \in Operators, RemoveMonitor(o) PROVE HostOK(h)'
  <2>1. /\ op[o] \in Requests /\ op[o].step = "unwatch"
        /\ op' = [op EXCEPT ![o] = NoRequest]
        /\ monitor' = [monitor EXCEPT ![op[o].host] = None]
        /\ UNCHANGED <<hosts, live, excused, twice>>
    BY <1>7 DEF RemoveMonitor
  <2>2. op[o].host \in Hosts /\ \A k \in Hosts : k # op[o].host => monitor'[k] = monitor[k]
    BY <2>1 DEF ManualTypeOK
  <2>3. CASE h # op[o].host
    BY <2>1, <2>2, <2>3, DoneElsewhere
  <2>4. CASE h = op[o].host
    <3>1. IsOnItsWay(op[o], h) /\ \A p \in Operators : ~Works(p, h)'
      BY <2>1, <2>4, OneIsAtWork
    <3>2. At(hosts', h) = {} /\ monitor'[h] = None
      BY <2>1, <2>4, <3>1 DEF IsOnItsWay, ManualTypeOK
    <3>3. QED
      BY <3>1, <3>2 DEF HostOK, Rests
  <2>5. QED
    BY <2>3, <2>4
<1>8. CASE Sync
  <2>1. PICK k \in Listed : monitor[k] = None /\ Watch(k, k, "auto")
    BY <1>8 DEF Sync
  <2>2. UNCHANGED <<hosts, op, excused, twice>> /\ HostOK(h)
    BY <1>8 DEF Sync, ManualInv, HostsAreOK
  <2>3. k \in Hosts /\ monitor' = [monitor EXCEPT ![k] = k]
    BY <2>1, ManualHostsAssumption DEF Watch
  <2>4. \A i \in Names \ Listed : live'[i] = live[i]
    BY <2>1 DEF Watch, ManualTypeOK
  <2>5. At(hosts', h) = At(hosts, h) /\ \A i \in At(hosts, h) : i \in Names
    BY <2>2 DEF At
  <2>6. CASE h # k
    <3>1. monitor'[h] = monitor[h]
      BY <2>3, <2>6 DEF ManualTypeOK
    <3>2. \A p \in Operators : (Works(p, h)' <=> Works(p, h)) /\ (Works(p, h) => op'[p] = op[p])
      BY <2>2 DEF Works
    <3>3. QED
      BY <2>2, <2>4, <2>5, <3>1, <3>2, Untouched
  <2>7. CASE h = k
    <3>1. h \in Listed /\ monitor'[h] # None
      BY <2>3, <2>7, ManualHostsAssumption DEF ManualTypeOK
    <3>2. ASSUME NEW p \in Operators, Works(p, h)' PROVE IsOnItsWay(op[p], h)'
      BY <2>2, <3>1, <3>2 DEF HostOK, Works, IsOnItsWay
    <3>3. Rests(h)'
      BY <3>1 DEF Rests, Honoured
    <3>4. QED
      BY <3>2, <3>3 DEF HostOK
  <2>8. QED
    BY <2>6, <2>7
<1>9. ASSUME NEW readable \in BOOLEAN, ManualRestart(readable) PROVE HostOK(h)'
  <2>1. \A p \in Operators : ~Works(p, h)'
    BY <1>9 DEF ManualRestart, Works
  <2>2. /\ hosts' = Loaded(readable) /\ twice' = Shared(hosts')
        /\ monitor'[h] \in Seed(h, Loaded(readable))
    BY <1>9 DEF ManualRestart
  <2>3. hosts' \in Stores /\ (hosts' = hostsFile \/ \A i \in Names : hosts'[i] = None)
    BY <2>2 DEF Loaded, ManualTypeOK, Stores
  <2>4. h \notin Listed => monitor'[h] \in IF At(hosts', h) = {} THEN {None} ELSE At(hosts', h)
    BY <2>2 DEF Seed
  <2>5. ASSUME NEW n \in At(hosts', h) PROVE Honoured(n, h)'
    <3>1. n \in Names /\ hosts'[n] # None /\ hosts'[n].host = h
      BY <2>5 DEF At
    <3>2. h \notin Shared(hosts')
      BY <2>2
    <3>3. At(hosts', h) = {n}
      BY <2>5, <3>2 DEF Shared
    <3>4. CASE h \in Listed
      <4>1. monitor'[h] = h
        BY <2>2, <3>4 DEF Seed
      <4>2. QED
        BY <3>4, <4>1, ManualHostsAssumption DEF Honoured
    <3>5. CASE h \notin Listed
      <4>1. monitor'[h] = n /\ n # None
        BY <2>4, <3>1, <3>3, <3>5, ManualHostsAssumption
      <4> DEFINE polled == {k \in Hosts : monitor'[k] = n}
      <4>2. live'[n] \in SeededModes(n, hosts', polled)
        BY <1>9, <2>2, <3>1 DEF ManualRestart
      <4>3. ASSUME n \notin Listed, NEW k \in polled PROVE k \notin Listed
        BY <1>9, <4>3 DEF ManualRestart, Seed
      <4>4. h \in polled
        BY <4>1
      <4>5. n \notin Listed => live'[n] = hosts'[n].mode
        BY <4>2, <4>3, <4>4 DEF SeededModes
      <4>6. QED
        BY <4>1, <4>5 DEF Honoured
    <3>6. QED
      BY <3>4, <3>5
  <2>6. Rests(h)'
    BY <2>4, <2>5 DEF Rests
  <2>7. QED
    BY <2>1, <2>6 DEF HostOK
<1>10. CASE UNCHANGED manualVars
  <2>1. HostOK(h) /\ UNCHANGED <<hosts, live, monitor, op>>
    BY <1>10 DEF manualVars, ManualInv, HostsAreOK
  <2>2. \A p \in Operators : (Works(p, h)' <=> Works(p, h)) /\ (Works(p, h) => op'[p] = op[p])
    BY <2>1 DEF Works
  <2>3. QED
    BY <2>1, <2>2, Untouched
<1>11. QED
  BY <1>1, <1>2, <1>3, <1>4, <1>5, <1>6, <1>7, <1>8, <1>9, <1>10 DEF ManualNext

\* A change of the store, seen by those that watch an address.
LEMMA ChangeWatched ==
  ASSUME ManualInv, NEW o \in Operators, NEW n \in Names,
         NEW entry \in [host : Hosts, mode : Modes] \union {None},
         NEW saved \in BOOLEAN, NEW next \in Requests,
         Change(o, n, entry, saved, next), UNCHANGED monitor,
         NEW h \in Hosts, Watched(h), op[o].step # "watch",
         At(hosts', h) # {} => At(hosts, h) # {},
         At(hosts', h) \subseteq At(hosts, h),
         next.host = h => next.step # "remove" /\ (next.step = "unwatch" => At(hosts', h) = {})
  PROVE  Watched(h)'
<1>1. /\ op'[o] = (IF saved THEN next ELSE NoRequest)
      /\ \A p \in Operators \ {o} : op'[p] = op[p]
  BY DEF Change, ManualInv, ManualTypeOK
<1>2. NoRequest.step = "idle"
  BY DEF NoRequest
<1>3. Entering(h) => Entering(h)'
  BY <1>1 DEF Entering
<1>4. At(hosts', h) # {} => monitor'[h] # None \/ Entering(h)'
  BY <1>3 DEF Watched
<1>5. ASSUME NEW p \in Operators, op'[p].host = h
      PROVE  /\ op'[p].step = "remove" => At(hosts', h) \subseteq {op'[p].name}
             /\ op'[p].step = "unwatch" => At(hosts', h) = {}
  <2>1. CASE p = o
    BY <1>1, <1>2, <1>5, <2>1
  <2>2. CASE p # o
    BY <1>1, <1>5, <2>2 DEF Watched
  <2>3. QED
    BY <2>1, <2>2
<1>6. QED
  BY <1>4, <1>5 DEF Watched

\* A request is done with its address, and the store is as it was.
LEMMA DoneWatched ==
  ASSUME ManualInv, NEW o \in Operators, UNCHANGED hosts,
         op' = [op EXCEPT ![o] = NoRequest], NEW h \in Hosts, Watched(h),
         monitor[h] # None => monitor'[h] # None \/ At(hosts, h) = {},
         op[o].step = "watch" /\ op[o].host = h => monitor'[h] # None
  PROVE  Watched(h)'
<1>1. op'[o] = NoRequest /\ \A p \in Operators \ {o} : op'[p] = op[p]
  BY DEF ManualInv, ManualTypeOK
<1>2. NoRequest.step = "idle"
  BY DEF NoRequest
<1>3. At(hosts', h) = At(hosts, h)
  OBVIOUS
<1>4. Entering(h) => Entering(h)' \/ monitor'[h] # None
  BY <1>1 DEF Entering
<1>5. At(hosts', h) # {} => monitor'[h] # None \/ Entering(h)'
  BY <1>3, <1>4 DEF Watched
<1>6. ASSUME NEW p \in Operators, op'[p].host = h, op'[p].step \in {"remove", "unwatch"}
      PROVE  p # o /\ op'[p] = op[p]
  BY <1>1, <1>2, <1>6
<1>7. QED
  BY <1>3, <1>5, <1>6 DEF Watched

LEMMA WatchedStep == ManualInv /\ [ManualNext]_manualVars => HostsAreWatched'
<1> SUFFICES ASSUME ManualInv, [ManualNext]_manualVars,
                    NEW h \in Hosts, h \notin twice' \union crossed'
             PROVE  Watched(h)'
  BY DEF HostsAreWatched
<1> ManualTypeOK
  BY DEF ManualInv
<1> USE RequestStep
<1>w. h \notin twice \union crossed => Watched(h)
  BY DEF ManualInv, HostsAreWatched
<1>1. ASSUME NEW o \in Operators, NEW n \in Names, NEW m \in Modes, NEW saved \in BOOLEAN,
             NEW k \in Hosts, AddStore(o, n, k, m, saved)
      PROVE  Watched(h)'
  <2> DEFINE next == [step |-> "watch", name |-> n, host |-> k, mode |-> m]
             entry == [host |-> k, mode |-> m]
  <2>1. next \in Requests /\ next.host = k /\ next.step = "watch"
    BY DEF Requests
  <2>2. entry \in [host : Hosts, mode : Modes] \union {None} /\ entry.host = k
    OBVIOUS
  <2> HIDE DEF next, entry
  <2>3. /\ op[o] = NoRequest /\ hosts[n] = None
        /\ Change(o, n, entry, saved, next)
        /\ UNCHANGED <<live, monitor>>
        /\ crossed' = IF saved /\ ~Removed(o, k) THEN crossed ELSE crossed \union {k}
    BY <1>1 DEF AddStore, next, entry
  <2>4. twice \subseteq twice' /\ crossed \subseteq crossed'
    BY <2>3 DEF Change
  <2>5. Watched(h)
    BY <1>w, <2>4
  <2>6. /\ hosts'[n] = entry /\ \A i \in Names \ {n} : hosts'[i] = hosts[i]
        /\ op'[o] = (IF saved THEN next ELSE NoRequest)
        /\ \A p \in Operators \ {o} : op'[p] = op[p]
    BY <2>2, <2>3 DEF Change, ManualTypeOK, Stores
  <2>7. CASE h # k
    <3>1. At(hosts', h) = At(hosts, h)
      BY <2>2, <2>3, <2>6, <2>7 DEF At
    <3>2. op[o].step # "watch"
      BY <2>3
    <3>3. QED
      BY <2>1, <2>2, <2>3, <2>5, <2>7, <3>1, <3>2, ChangeWatched
  <2>8. CASE h = k
    <3>1. saved /\ ~Removed(o, h)
      BY <2>3, <2>8
    <3>2. op'[o].step = "watch" /\ op'[o].host = h
      BY <2>1, <2>6, <2>8, <3>1
    <3>3. Entering(h)'
      BY <3>2 DEF Entering
    <3>4. ASSUME NEW p \in Operators, op'[p].host = h
          PROVE  op'[p].step \notin {"remove", "unwatch"}
      <4>1. CASE p = o
        BY <3>2, <4>1
      <4>2. CASE p # o
        BY <2>6, <3>1, <3>4, <4>2 DEF Removed
      <4>3. QED
        BY <4>1, <4>2
    <3>5. QED
      BY <3>3, <3>4 DEF Watched
  <2>9. QED
    BY <2>7, <2>8
<1>2. ASSUME NEW o \in Operators, NEW n \in Names, NEW m \in Modes, NEW saved \in BOOLEAN,
             UpdateStore(o, n, m, saved)
      PROVE  Watched(h)'
  <2> DEFINE next == [step |-> "live", name |-> n, host |-> hosts[n].host, mode |-> m]
             entry == [hosts[n] EXCEPT !.mode = m]
  <2>1. hosts[n] \in [host : Hosts, mode : Modes] /\ hosts[n] # None
    BY <1>2 DEF UpdateStore, ManualTypeOK, Stores
  <2>2. next \in Requests /\ next.step = "live"
    BY <2>1 DEF Requests
  <2>3. entry \in [host : Hosts, mode : Modes] /\ entry.host = hosts[n].host
    BY <2>1
  <2>4. /\ op[o] = NoRequest /\ Change(o, n, entry, saved, next)
        /\ UNCHANGED <<monitor, crossed>>
    BY <1>2 DEF UpdateStore
  <2> HIDE DEF next, entry
  <2>5. twice \subseteq twice' /\ hosts'[n] = entry
        /\ \A i \in Names \ {n} : hosts'[i] = hosts[i]
    BY <2>3, <2>4 DEF Change, ManualTypeOK, Stores
  <2>6. At(hosts', h) = At(hosts, h)
    BY <2>1, <2>3, <2>5, ManualHostsAssumption DEF At
  <2>7. Watched(h) /\ op[o].step # "watch"
    BY <1>w, <2>4, <2>5
  <2>8. entry \in [host : Hosts, mode : Modes] \union {None}
    BY <2>3
  <2>9. QED
    BY <2>2, <2>4, <2>6, <2>7, <2>8, ChangeWatched
<1>3. ASSUME NEW o \in Operators, NEW n \in Names, RemoveLookup(o, n) PROVE Watched(h)'
  <2>1. /\ UNCHANGED <<hosts, monitor, crossed, twice>> /\ op[o] = NoRequest
        /\ op'[o].step = "remove" /\ op'[o].name = n /\ op'[o].host = hosts[n].host
        /\ \A p \in Operators \ {o} : op'[p] = op[p]
    BY <1>3 DEF RemoveLookup, ManualTypeOK
  <2>2. Watched(h) /\ At(hosts', h) = At(hosts, h)
    BY <1>w, <2>1
  <2>3. Entering(h) => Entering(h)'
    BY <2>1 DEF Entering
  <2>4. n \in At(hosts, hosts[n].host)
    BY <1>3 DEF RemoveLookup, At
  <2>5. ASSUME op'[o].host = h PROVE At(hosts, h) \subseteq {n}
    <3>1. n \in At(hosts, h) /\ h \notin twice
      BY <2>1, <2>4, <2>5
    <3>2. QED
      BY <3>1 DEF ManualInv, NamesakesAreKnown
  <2>6. ASSUME NEW p \in Operators, op'[p].host = h
        PROVE  /\ op'[p].step = "remove" => At(hosts', h) \subseteq {op'[p].name}
               /\ op'[p].step = "unwatch" => At(hosts', h) = {}
    <3>1. CASE p = o
      BY <2>1, <2>2, <2>5, <2>6, <3>1
    <3>2. CASE p # o
      BY <2>1, <2>2, <2>6, <3>2 DEF Watched
    <3>3. QED
      BY <3>1, <3>2
  <2>7. QED
    BY <2>1, <2>2, <2>3, <2>6 DEF Watched
<1>4. ASSUME NEW o \in Operators, NEW saved \in BOOLEAN, RemoveStore(o, saved)
      PROVE  Watched(h)'
  <2>1. CASE hosts[op[o].name] = None
    <3>1. /\ UNCHANGED <<hosts, monitor, crossed, twice>> /\ op' = [op EXCEPT ![o] = NoRequest]
          /\ op[o].step # "watch"
      BY <1>4, <2>1 DEF RemoveStore
    <3>2. Watched(h)
      BY <1>w, <3>1
    <3>3. QED
      BY <3>1, <3>2, DoneWatched
  <2>2. CASE hosts[op[o].name] # None
    <3> DEFINE next == [op[o] EXCEPT !.step = "unwatch"]
    <3>1. op[o] \in Requests /\ op[o].step = "remove"
      BY <1>4 DEF RemoveStore
    <3>2. op[o].name \in Names /\ next \in Requests /\ next.step = "unwatch" /\ next.host = op[o].host
      BY <3>1 DEF Requests
    <3>3. Change(o, op[o].name, None, saved, next) /\ UNCHANGED <<monitor, crossed>>
      BY <1>4, <2>2 DEF RemoveStore
    <3> HIDE DEF next
    <3>4. /\ twice \subseteq twice' /\ hosts'[op[o].name] = None
          /\ \A i \in Names \ {op[o].name} : hosts'[i] = hosts[i]
      BY <3>2, <3>3 DEF Change, ManualTypeOK, Stores
    <3>5. At(hosts', h) = At(hosts, h) \ {op[o].name}
      BY <3>4 DEF At
    <3>6. Watched(h)
      BY <1>w, <3>3, <3>4
    <3>7. next.host = h => At(hosts', h) = {}
      BY <3>1, <3>2, <3>5, <3>6 DEF Watched
    <3>8. PICK n \in Names : n = op[o].name
      BY <3>2
    <3>9. Change(o, n, None, saved, next) /\ op[o].step # "watch"
      BY <3>1, <3>3, <3>8
    <3>10. None \in [host : Hosts, mode : Modes] \union {None}
      OBVIOUS
    <3>11. next.host = h => next.step # "remove" /\ (next.step = "unwatch" => At(hosts', h) = {})
      BY <3>2, <3>7
    <3>12. At(hosts', h) \subseteq At(hosts, h)
      BY <3>5
    <3>13. QED
      BY <3>2, <3>3, <3>6, <3>9, <3>10, <3>11, <3>12, ChangeWatched
  <2>3. QED
    BY <2>1, <2>2
<1>5. ASSUME NEW o \in Operators, AddMonitor(o) PROVE Watched(h)'
  <2>1. /\ UNCHANGED <<hosts, crossed, twice>> /\ op' = [op EXCEPT ![o] = NoRequest]
        /\ op[o] \in Requests /\ op[o].step = "watch" /\ Watch(op[o].host, op[o].name, op[o].mode)
    BY <1>5 DEF AddMonitor
  <2>2. op[o].host \in Hosts /\ op[o].name \in Names /\ None \notin Names
    BY <2>1, ManualHostsAssumption
  <2>3. /\ monitor[h] # None => monitor'[h] # None
        /\ op[o].host = h => monitor'[h] # None
    BY <2>1, <2>2 DEF Watch, ManualTypeOK
  <2>4. Watched(h)
    BY <1>w, <2>1
  <2>5. QED
    BY <2>1, <2>3, <2>4, DoneWatched
<1>6. ASSUME NEW o \in Operators, UpdateLive(o) PROVE Watched(h)'
  <2>1. /\ UNCHANGED <<hosts, crossed, twice, monitor>> /\ op' = [op EXCEPT ![o] = NoRequest]
        /\ op[o].step # "watch"
    BY <1>6 DEF UpdateLive
  <2>2. Watched(h)
    BY <1>w, <2>1
  <2>3. QED
    BY <2>1, <2>2, DoneWatched
<1>7. ASSUME NEW o \in Operators, RemoveMonitor(o) PROVE Watched(h)'
  <2>1. /\ UNCHANGED <<hosts, crossed, twice>> /\ op' = [op EXCEPT ![o] = NoRequest]
        /\ op[o].step = "unwatch" /\ monitor' = [monitor EXCEPT ![op[o].host] = None]
    BY <1>7 DEF RemoveMonitor
  <2>2. Watched(h)
    BY <1>w, <2>1
  <2>3. op[o].host = h => At(hosts, h) = {}
    BY <2>1, <2>2 DEF Watched
  <2>4. monitor[h] # None => monitor'[h] # None \/ At(hosts, h) = {}
    BY <2>1, <2>3 DEF ManualTypeOK
  <2>5. op[o].step # "watch"
    BY <2>1
  <2>6. QED
    BY <2>1, <2>2, <2>4, <2>5, DoneWatched
<1>8. CASE Sync
  <2>1. PICK k \in Listed : monitor[k] = None /\ Watch(k, k, "auto")
    BY <1>8 DEF Sync
  <2>2. UNCHANGED <<hosts, op, crossed, twice>>
    BY <1>8 DEF Sync
  <2>3. monitor[h] # None => monitor'[h] # None
    BY <2>1, ManualHostsAssumption DEF Watch, ManualTypeOK
  <2>4. QED
    BY <1>w, <2>2, <2>3 DEF Watched, Entering
<1>9. ASSUME NEW readable \in BOOLEAN, ManualRestart(readable) PROVE Watched(h)'
  <2>1. hosts' = Loaded(readable) /\ monitor'[h] \in Seed(h, hosts')
    BY <1>9 DEF ManualRestart
  <2>2. \A o \in Operators : op'[o].step = "idle"
    BY <1>9 DEF ManualRestart
  <2>3. At(hosts', h) \subseteq Names /\ None \notin Names \union Hosts
    BY ManualHostsAssumption DEF At
  <2>4. At(hosts', h) # {} => monitor'[h] # None
    BY <2>1, <2>3 DEF Seed
  <2>5. QED
    BY <2>2, <2>4 DEF Watched
<1>10. CASE UNCHANGED manualVars
  BY <1>10, <1>w DEF manualVars, Watched, Entering
<1>11. QED
  BY <1>1, <1>2, <1>3, <1>4, <1>5, <1>6, <1>7, <1>8, <1>9, <1>10 DEF ManualNext

\* What the operator entered by hand is what the agent watches, whatever requests meet
\* or fail, but for an address entered twice, unsaved, or while it is being removed; and
\* in the mode that was chosen, where the requests for it did not meet or fail - for any
\* hosts, any number of requests at a time and any ip_list.
THEOREM ManualHostsStayHonoured == ManualSpec => []ManualHostsAreHonoured
<1>1. ManualInv /\ [ManualNext]_manualVars => ManualInv'
  BY ManualTypeStep, GhostStep, HostsStep, WatchedStep DEF ManualInv
<1>2. ManualInv => ManualHostsAreWatched
  <2> SUFFICES ASSUME ManualInv, NEW n \in Names, hosts[n] # None, ~Entering(hosts[n].host),
                      hosts[n].host \notin twice \union crossed
               PROVE  monitor[hosts[n].host] # None
    BY DEF ManualHostsAreWatched
  <2>1. hosts[n].host \in Hosts /\ n \in At(hosts, hosts[n].host)
    BY DEF ManualInv, ManualTypeOK, Stores, At
  <2>2. Watched(hosts[n].host)
    BY <2>1 DEF ManualInv, HostsAreWatched
  <2>3. QED
    BY <2>1, <2>2 DEF Watched
<1>3. ManualInv => ChosenModeIsUsed
  <2> SUFFICES ASSUME ManualInv, NEW n \in Names, hosts[n] # None, ~Busy(n),
                      {n, hosts[n].host} \intersect excused = {},
                      hosts[n].host \notin twice
               PROVE  Honoured(n, hosts[n].host)
    BY DEF ChosenModeIsUsed, Honoured
  <2> DEFINE h == hosts[n].host
  <2>1. h \in Hosts /\ h \notin excused \union twice /\ n \in At(hosts, h)
    BY DEF ManualInv, ManualTypeOK, Stores, At
  <2>2. HostOK(h)
    BY <2>1 DEF ManualInv, HostsAreOK
  <2>3. ASSUME NEW o \in Operators PROVE ~Works(o, h)
    <3> SUFFICES ASSUME Works(o, h) PROVE FALSE
      OBVIOUS
    <3>1. IsOnItsWay(op[o], h)
      BY <2>2 DEF HostOK
    <3>2. op[o].name = n
      BY <2>1, <3>1 DEF IsOnItsWay
    <3>3. QED
      BY <3>2 DEF Busy, Works
  <2>4. QED
    BY <2>1, <2>2, <2>3 DEF HostOK, Rests
<1>4. QED
  BY <1>1, <1>2, <1>3, ManualInvInit, PTL DEF ManualSpec, ManualHostsAreHonoured

-------------------------------------------------------------------------------
(***************************************************************************)
(* Backups.  A version that a run has chosen to remove has `retention'     *)
(* others modified after it, unless it is modified once more; the run that *)
(* has just written the newest version is the only one that cleans up,     *)
(* where runs do not overlap.                                              *)
(***************************************************************************)
RunSteps == {"idle", "open", "write", "sidecar", "list", "sort", "remove", "report"}
RunStates ==
  [step : RunSteps, config : Configs \union {None}, file : 0 .. MaxClock,
   listed : SUBSET Seconds, ok : BOOLEAN]
WholeVersions == [by : Runs, config : Configs]
FileStates == {NoVersion, Unwritten, HalfWritten} \union WholeVersions

BackupTypeOK ==
  /\ retention \in Retentions
  /\ second \in Seconds
  /\ versions \in [Seconds -> FileStates]
  /\ later \in [Seconds -> SUBSET Seconds]
  /\ sidecars \in [Seconds -> {None, "empty"} \union Runs]
  /\ backup \in [Runs -> RunStates]
  /\ unlinked \in SUBSET Runs
  /\ ever \in SUBSET Seconds
  /\ caught \in SUBSET Seconds
  /\ lastGood \in Configs \union {None}
  /\ good \in BOOLEAN /\ overlapped \in BOOLEAN /\ shared \in BOOLEAN
  /\ disturbed \in BOOLEAN /\ wrong \in BOOLEAN

\* What a step of a run relies on.
RunIsSane(b) ==
  /\ b.step = "idle" => b = Idle
  /\ b.step \in {"open", "write", "sidecar", "list", "sort", "remove"} \/ b.ok => b.config # None
  /\ b.step = "open" => b.file \in Seconds /\ b.file <= second
  /\ b.step \in {"write", "sidecar"} => b.file \in ever
  /\ b.listed \subseteq ever
  /\ b.ok => b.step = "report"

FilesAreSane ==
  /\ \A r \in Runs : RunIsSane(backup[r])
  /\ \A s \in ever : s <= second
  /\ \A s \in Seconds : versions[s] # NoVersion => s \in ever

FilesInv == BackupTypeOK /\ FilesAreSane

\* What a step makes of the run it is of.
Moved(r, b) == b \in RunStates /\ backup' = [backup EXCEPT ![r] = b]

LEMMA BackupConstants ==
  /\ None \notin Configs /\ None \notin Runs /\ "torn" \notin Runs /\ None # "torn"
  /\ "nobody" \notin Runs /\ None # "nobody"
  /\ MaxClock \in Nat /\ Retentions \subseteq Nat /\ Seconds \subseteq Nat
  /\ Idle \in RunStates
  /\ \A v \in FileStates : v.config # None <=> v \in WholeVersions
  /\ \A v \in WholeVersions : v.config \in Configs /\ v.by \in Runs /\ v # NoVersion
  /\ HalfWritten # NoVersion /\ Unwritten # NoVersion
<1>1. /\ None \notin Configs /\ None \notin Runs /\ "torn" \notin Runs /\ None # "torn"
      /\ "nobody" \notin Runs /\ None # "nobody"
      /\ MaxClock \in Nat /\ Retentions \subseteq Nat
  BY BackupAssumption
<1>2. Idle \in RunStates
  BY <1>1 DEF Idle, RunStates, RunSteps
<1>3. \A v \in WholeVersions : v.config \in Configs /\ v.by \in Runs
  BY DEF WholeVersions
<1>4. /\ NoVersion.config = None /\ HalfWritten.config = None /\ Unwritten.config = None
      /\ NoVersion.by = None /\ HalfWritten.by = "torn" /\ Unwritten.by = "nobody"
  BY DEF NoVersion, HalfWritten, Unwritten
<1>5. \A v \in FileStates : v.config # None <=> v \in WholeVersions
  BY <1>1, <1>3, <1>4 DEF FileStates
<1>6. \A v \in WholeVersions : v # NoVersion
  BY <1>1, <1>3, <1>4
<1>7. HalfWritten # NoVersion /\ Unwritten # NoVersion
  BY <1>1, <1>4
<1>8. Seconds \subseteq Nat
  BY <1>1 DEF Seconds
<1>9. QED
  BY <1>1, <1>2, <1>3, <1>5, <1>6, <1>7, <1>8

LEMMA RunFields ==
  ASSUME NEW b \in RunStates, NEW x \in RunSteps
  PROVE  LET c == [b EXCEPT !.step = x] IN
         /\ c \in RunStates /\ c.step = x
         /\ c.config = b.config /\ c.file = b.file /\ c.listed = b.listed /\ c.ok = b.ok
  BY DEF RunStates

LEMMA CaptureFields ==
  ASSUME NEW a \in RunStates, NEW x \in RunSteps, NEW k \in Configs \union {None},
         NEW f \in 0 .. MaxClock
  PROVE  LET c == [a EXCEPT !.step = x, !.config = k, !.file = f] IN
         /\ c \in RunStates /\ c.step = x
         /\ c.config = k /\ c.file = f /\ c.listed = a.listed /\ c.ok = a.ok
  BY DEF RunStates

LEMMA CaptureMoves ==
  ASSUME FilesInv, NEW r \in Runs, NEW c \in Configs \union {None}, Capture(r, c)
  PROVE  \E b \in RunStates :
           /\ Moved(r, b) /\ b.step = (IF c = None THEN "report" ELSE "open")
           /\ b.config = c /\ b.file = (IF c = None THEN 0 ELSE second)
           /\ b.listed = {} /\ b.ok = FALSE
<1>1. PICK a \in RunStates : backup[r] = a /\ a = Idle
  BY DEF FilesInv, BackupTypeOK, Capture
<1>2. PICK x \in RunSteps : x = (IF c = None THEN "report" ELSE "open")
  BY DEF RunSteps
<1>3. PICK f \in 0 .. MaxClock : f = (IF c = None THEN 0 ELSE second)
  <2>1. second \in 0 .. MaxClock /\ 0 \in 0 .. MaxClock
    BY BackupConstants DEF FilesInv, BackupTypeOK, Seconds
  <2>2. QED
    BY <2>1
<1>4. PICK b : b = [a EXCEPT !.step = x, !.config = c, !.file = f]
  OBVIOUS
<1>5. backup' = [backup EXCEPT ![r] = [backup[r] EXCEPT !.step = x, !.config = c, !.file = f]]
  BY <1>2, <1>3 DEF Capture
<1>6. backup' = [backup EXCEPT ![r] = b]
  BY <1>1, <1>4, <1>5
<1>7. /\ b \in RunStates /\ b.step = x /\ b.config = c /\ b.file = f
      /\ b.listed = a.listed /\ b.ok = a.ok
  <2>1. b.step = x /\ b.config = c /\ b.file = f /\ b.listed = a.listed /\ b.ok = a.ok
    BY <1>4 DEF RunStates
  <2>2. [a EXCEPT !.step = x, !.config = c, !.file = f] \in RunStates
    BY CaptureFields
  <2>3. QED
    BY <1>4, <2>1, <2>2
<1>8. a.listed = {} /\ a.ok = FALSE
  BY <1>1 DEF Idle
<1>9. QED
  BY <1>2, <1>3, <1>6, <1>7, <1>8 DEF Moved

\* A step that goes on to the next, and one that fails.
LEMMA GoMoves ==
  ASSUME FilesInv, NEW r \in Runs, NEW x \in RunSteps, Go(r, x)
  PROVE  \E b \in RunStates :
           /\ Moved(r, b) /\ b.step = x /\ b.file = backup[r].file
           /\ b.config = backup[r].config /\ b.listed = backup[r].listed /\ b.ok = backup[r].ok
<1> DEFINE b == [backup[r] EXCEPT !.step = x]
<1>1. backup[r] \in RunStates
  BY DEF FilesInv, BackupTypeOK
<1>2. backup' = [backup EXCEPT ![r] = b]
  BY DEF Go
<1>3. /\ b \in RunStates /\ b.step = x /\ b.file = backup[r].file
      /\ b.config = backup[r].config /\ b.listed = backup[r].listed /\ b.ok = backup[r].ok
  BY <1>1, RunFields
<1> HIDE DEF b
<1>4. QED
  BY <1>2, <1>3 DEF Moved

LEMMA FailMoves ==
  ASSUME FilesInv, NEW r \in Runs, Fails(r)
  PROVE  \E b \in RunStates :
           /\ Moved(r, b) /\ b.step = "report" /\ b.file = 0
           /\ b.config = None /\ b.listed = {} /\ b.ok = FALSE
<1> DEFINE b == [Idle EXCEPT !.step = "report"]
<1>1. /\ b.step = "report" /\ b.file = 0
      /\ b.config = None /\ b.listed = {} /\ b.ok = FALSE
  BY DEF Idle
<1>2. b \in RunStates
  BY BackupConstants, RunFields DEF RunSteps
<1>3. backup' = [backup EXCEPT ![r] = b]
  BY DEF Fails
<1> HIDE DEF b
<1>4. QED
  BY <1>1, <1>2, <1>3 DEF Moved

LEMMA ListMoves ==
  ASSUME FilesInv, NEW r \in Runs, ListFiles(r)
  PROVE  \E b \in RunStates :
           /\ Moved(r, b) /\ b.step = "sort" /\ b.file = 0 /\ b.listed = Versions
           /\ b.config = backup[r].config /\ b.ok = backup[r].ok
<1> DEFINE b == [backup[r] EXCEPT !.step = "sort", !.file = 0, !.listed = Versions]
<1>1. backup[r] \in RunStates /\ 0 \in 0 .. MaxClock /\ Versions \in SUBSET Seconds
  BY BackupConstants DEF FilesInv, BackupTypeOK, Versions
<1>2. b \in RunStates
  BY <1>1 DEF RunStates, RunSteps
<1>3. /\ b.step = "sort" /\ b.file = 0 /\ b.listed = Versions
      /\ b.config = backup[r].config /\ b.ok = backup[r].ok
  BY <1>1 DEF RunStates
<1>4. backup' = [backup EXCEPT ![r] = b]
  BY DEF ListFiles
<1> HIDE DEF b
<1>5. QED
  BY <1>2, <1>3, <1>4 DEF Moved

\* A run whose list of what to remove becomes L, or that is done with it.
LEMMA ShortenFields ==
  ASSUME NEW a \in RunStates, NEW L \in SUBSET Seconds, NEW x \in RunSteps, NEW o \in BOOLEAN
  PROVE  LET c == [a EXCEPT !.step = x, !.listed = L, !.ok = o] IN
         /\ c \in RunStates /\ c.step = x
         /\ c.config = a.config /\ c.file = a.file /\ c.listed = L /\ c.ok = o
  BY DEF RunStates

LEMMA SortMoves ==
  ASSUME FilesInv, NEW r \in Runs, Sort(r)
  PROVE  \E b \in RunStates, there \in BOOLEAN, old \in SUBSET Seconds :
           /\ Moved(r, b) /\ b.step = (IF old = {} THEN "report" ELSE "remove")
           /\ there = (backup[r].listed \subseteq Versions)
           /\ old = IF there THEN Old(backup[r].listed) ELSE {}
           /\ b.listed = old /\ b.ok = (there /\ old = {})
           /\ b.config = backup[r].config /\ b.file = backup[r].file
           /\ good' = (good \/ (there /\ old = {}))
<1>1. backup[r] \in RunStates /\ backup[r].listed \in SUBSET Seconds
  BY DEF FilesInv, BackupTypeOK, RunStates
<1>2. PICK there \in BOOLEAN : there = (backup[r].listed \subseteq Versions)
  OBVIOUS
<1>3. PICK old \in SUBSET Seconds : old = IF there THEN Old(backup[r].listed) ELSE {}
  <2>1. Old(backup[r].listed) \in SUBSET Seconds
    BY <1>1 DEF Old
  <2>2. QED
    BY <2>1
<1>4. PICK x \in RunSteps : x = (IF old = {} THEN "report" ELSE "remove")
  BY DEF RunSteps
<1>5. PICK o \in BOOLEAN : o = (there /\ old = {})
  OBVIOUS
<1>6. PICK b : b = [backup[r] EXCEPT !.step = x, !.listed = old, !.ok = o]
  OBVIOUS
<1>7. /\ backup' = [backup EXCEPT ![r] = [backup[r] EXCEPT !.step = x, !.listed = old, !.ok = o]]
      /\ good' = (good \/ (there /\ old = {}))
  BY <1>2, <1>3, <1>4, <1>5 DEF Sort
<1>8. /\ b \in RunStates /\ b.step = x /\ b.config = backup[r].config
      /\ b.file = backup[r].file /\ b.listed = old /\ b.ok = o
  <2>1. PICK a \in RunStates : a = backup[r]
    BY <1>1
  <2>2. b = [a EXCEPT !.step = x, !.listed = old, !.ok = o]
    BY <1>6, <2>1
  <2>3. /\ b.step = x /\ b.config = a.config /\ b.file = a.file
        /\ b.listed = old /\ b.ok = o
    BY <2>2 DEF RunStates
  <2>4. [a EXCEPT !.step = x, !.listed = old, !.ok = o] \in RunStates
    BY ShortenFields
  <2>5. QED
    BY <2>1, <2>2, <2>3, <2>4
<1>9. Moved(r, b)
  BY <1>6, <1>7, <1>8 DEF Moved
<1>10. QED
  BY <1>2, <1>3, <1>4, <1>5, <1>7, <1>8, <1>9

LEMMA RemoveMoves ==
  ASSUME FilesInv, NEW r \in Runs, NEW s \in Seconds,
         Remove(r, s, TRUE) \/ Remove(r, s, FALSE)
  PROVE  \E b \in RunStates, left \in SUBSET Seconds :
           /\ Moved(r, b) /\ b.step = (IF left = {} THEN "report" ELSE "remove")
           /\ left = backup[r].listed \ {s}
           /\ b.listed = left /\ b.ok = (left = {})
           /\ b.config = backup[r].config /\ b.file = backup[r].file
           /\ good' = (good \/ left = {})
<1>1. backup[r] \in RunStates /\ backup[r].listed \in SUBSET Seconds
  BY DEF FilesInv, BackupTypeOK, RunStates
<1>2. PICK left \in SUBSET Seconds : left = backup[r].listed \ {s}
  BY <1>1
<1>3. PICK x \in RunSteps : x = (IF left = {} THEN "report" ELSE "remove")
  BY DEF RunSteps
<1>4. PICK o \in BOOLEAN : o = (left = {})
  OBVIOUS
<1>5. PICK b : b = [backup[r] EXCEPT !.step = x, !.listed = left, !.ok = o]
  OBVIOUS
<1>6. /\ backup' = [backup EXCEPT ![r] = [backup[r] EXCEPT !.step = x, !.listed = left, !.ok = o]]
      /\ good' = (good \/ left = {})
  BY <1>2, <1>3, <1>4 DEF Remove
<1>7. /\ b \in RunStates /\ b.step = x /\ b.config = backup[r].config
      /\ b.file = backup[r].file /\ b.listed = left /\ b.ok = o
  <2>1. PICK a \in RunStates : a = backup[r]
    BY <1>1
  <2>2. b = [a EXCEPT !.step = x, !.listed = left, !.ok = o]
    BY <1>5, <2>1
  <2>3. /\ b.step = x /\ b.config = a.config /\ b.file = a.file
        /\ b.listed = left /\ b.ok = o
    BY <2>2 DEF RunStates
  <2>4. [a EXCEPT !.step = x, !.listed = left, !.ok = o] \in RunStates
    BY ShortenFields
  <2>5. QED
    BY <2>1, <2>2, <2>3, <2>4
<1>8. Moved(r, b)
  BY <1>5, <1>6, <1>7 DEF Moved
<1>9. QED
  BY <1>2, <1>3, <1>4, <1>6, <1>7, <1>8

LEMMA MovedOne ==
  ASSUME FilesInv, NEW r \in Runs, NEW b \in RunStates, Moved(r, b)
  PROVE  /\ backup' \in [Runs -> RunStates] /\ backup'[r] = b
         /\ \A q \in Runs : q # r => backup'[q] = backup[q]
  BY DEF Moved, FilesInv, BackupTypeOK

LEMMA SaneFrame ==
  ASSUME FilesInv, NEW r \in Runs, NEW b \in RunStates, Moved(r, b),
         second' = second, ever \subseteq ever', RunIsSane(b)'
  PROVE  \A q \in Runs : RunIsSane(backup[q])'
<1>1. /\ backup'[r] = b
      /\ \A q \in Runs : q # r => backup'[q] = backup[q]
  BY MovedOne
<1>2. ASSUME NEW q \in Runs, q # r, NEW a, a = backup[q] PROVE RunIsSane(a)'
  BY <1>2 DEF RunIsSane, FilesInv, FilesAreSane
<1>3. ASSUME NEW q \in Runs, NEW a, a = backup'[q] PROVE RunIsSane(a)'
  BY <1>1, <1>2, <1>3
<1>4. QED
  BY <1>3 DEF RunIsSane

\* A modification leaves the times of the others as they are to each other.
LEMMA TouchTypes ==
  ASSUME FilesInv, NEW f \in Seconds, Touch(f)
  PROVE  /\ later' \in [Seconds -> SUBSET Seconds] /\ caught' \in SUBSET Seconds
         /\ later'[f] = {} /\ \A s \in Seconds : s # f => later'[s] = later[s] \union {f}
  BY DEF FilesInv, BackupTypeOK, Touch

LEMMA FilesInit == BackupInit => FilesInv
<1> SUFFICES ASSUME BackupInit PROVE FilesInv
  OBVIOUS
<1>1. NoVersion \in FileStates
  BY DEF FileStates
<1>2. BackupTypeOK
  BY <1>1, BackupConstants DEF BackupInit, BackupTypeOK
<1>3. RunIsSane(Idle)
  BY DEF RunIsSane, Idle
<1>4. FilesAreSane
  BY <1>3 DEF BackupInit, FilesAreSane
<1>5. QED
  BY <1>2, <1>4 DEF FilesInv

LEMMA FilesStep == FilesInv /\ [BackupNext]_backupVars => FilesInv'
<1> SUFFICES ASSUME FilesInv, [BackupNext]_backupVars PROVE FilesInv'
  OBVIOUS
<1>t. /\ retention \in Retentions
      /\ second \in Seconds
      /\ versions \in [Seconds -> FileStates]
      /\ later \in [Seconds -> SUBSET Seconds]
      /\ sidecars \in [Seconds -> {None, "empty"} \union Runs]
      /\ backup \in [Runs -> RunStates]
      /\ unlinked \in SUBSET Runs
      /\ ever \in SUBSET Seconds
      /\ caught \in SUBSET Seconds
      /\ lastGood \in Configs \union {None}
      /\ good \in BOOLEAN /\ overlapped \in BOOLEAN /\ shared \in BOOLEAN
      /\ disturbed \in BOOLEAN /\ wrong \in BOOLEAN
  BY DEF FilesInv, BackupTypeOK
<1>s. /\ \A r \in Runs : RunIsSane(backup[r])
      /\ \A s \in ever : s <= second
      /\ \A s \in Seconds : versions[s] # NoVersion => s \in ever
  BY DEF FilesInv, FilesAreSane
<1>1. ASSUME NEW r \in Runs, NEW c \in Configs \union {None}, Capture(r, c) PROVE FilesInv'
  <2>1. PICK b \in RunStates :
           /\ Moved(r, b) /\ b.step = (IF c = None THEN "report" ELSE "open")
           /\ b.config = c /\ b.file = (IF c = None THEN 0 ELSE second)
           /\ b.listed = {} /\ b.ok = FALSE
    BY <1>1, CaptureMoves
  <2>2. /\ UNCHANGED <<retention, second, versions, later, sidecars, unlinked, ever, caught,
                       lastGood, good, shared, wrong>>
        /\ overlapped' \in BOOLEAN /\ disturbed' \in BOOLEAN
    BY <1>1, <1>t DEF Capture
  <2>3. RunIsSane(b)'
    BY <1>t, <2>1, <2>2, BackupConstants DEF RunIsSane
  <2>4. \A q \in Runs : RunIsSane(backup[q])'
    BY <2>1, <2>2, <2>3, SaneFrame
  <2>5. backup' \in [Runs -> RunStates]
    BY <2>1, MovedOne
  <2>6. BackupTypeOK'
    BY <1>t, <2>2, <2>5 DEF BackupTypeOK
  <2>7. FilesAreSane'
    BY <1>s, <2>2, <2>4 DEF FilesAreSane
  <2>8. QED
    BY <2>6, <2>7 DEF FilesInv
<1>2. ASSUME NEW r \in Runs, OpenFile(r) PROVE FilesInv'
  <2>1. PICK f : f = backup[r].file
    OBVIOUS
  <2>2. /\ UNCHANGED <<retention, second, sidecars, unlinked, lastGood, good, overlapped,
                       disturbed, wrong>>
        /\ versions' = [versions EXCEPT ![f] = Unwritten] /\ Touch(f)
        /\ ever' = ever \union {f} /\ shared' \in BOOLEAN
        /\ backup[r].step = "open" /\ Go(r, "write")
    BY <1>2, <2>1 DEF OpenFile
  <2>3. /\ f \in Seconds /\ f <= second /\ backup[r].config # None
        /\ backup[r].listed \subseteq ever /\ backup[r].ok = FALSE
    BY <1>s, <1>t, <2>1, <2>2 DEF RunIsSane, RunStates
  <2>4. PICK b \in RunStates :
           /\ Moved(r, b) /\ b.step = "write" /\ b.file = f
           /\ b.config = backup[r].config /\ b.listed = backup[r].listed /\ b.ok = backup[r].ok
    BY <2>1, <2>2, GoMoves DEF RunSteps
  <2>5. RunIsSane(b)'
    BY <2>2, <2>3, <2>4 DEF RunIsSane
  <2>6. \A q \in Runs : RunIsSane(backup[q])'
    BY <2>2, <2>4, <2>5, SaneFrame
  <2>7. backup' \in [Runs -> RunStates]
    BY <2>4, MovedOne
  <2>8. /\ versions' \in [Seconds -> FileStates] /\ ever' \in SUBSET Seconds
        /\ \A s \in Seconds : versions'[s] # NoVersion => s \in ever'
        /\ \A s \in ever' : s <= second'
    BY <1>s, <1>t, <2>2, <2>3 DEF FileStates
  <2>9. later' \in [Seconds -> SUBSET Seconds] /\ caught' \in SUBSET Seconds
    BY <2>2, <2>3, TouchTypes
  <2>10. BackupTypeOK'
    BY <1>t, <2>2, <2>7, <2>8, <2>9 DEF BackupTypeOK
  <2>11. QED
    BY <2>6, <2>8, <2>10 DEF FilesInv, FilesAreSane
<1>3. ASSUME NEW r \in Runs, NEW ok \in BOOLEAN, WriteFile(r, ok) PROVE FilesInv'
  <2>1. PICK f : f = backup[r].file
    OBVIOUS
  <2>2. /\ UNCHANGED <<retention, second, sidecars, ever, lastGood, good, overlapped, shared, wrong>>
        /\ disturbed' \in BOOLEAN /\ backup[r].step = "write"
        /\ unlinked' \in SUBSET Runs
        /\ \/ UNCHANGED <<versions, later, caught>>
           \/ \E left \in Leaves(r, ok) :
                /\ versions' = [versions EXCEPT ![f] = left]
                /\ Touch(f) \/ UNCHANGED <<later, caught>>
        /\ IF ok THEN Go(r, "sidecar") ELSE Fails(r)
    BY <1>3, <1>t, <2>1 DEF WriteFile
  <2>3. /\ backup[r].config \in Configs /\ backup[r].listed \subseteq ever
        /\ f \in ever /\ f \in Seconds /\ backup[r].ok = FALSE
    BY <1>s, <1>t, <2>1, <2>2 DEF RunIsSane, RunStates
  <2>4. PICK b \in RunStates : Moved(r, b) /\ RunIsSane(b)'
    <3>1. CASE ok
      <4>1. PICK b \in RunStates :
               /\ Moved(r, b) /\ b.step = "sidecar" /\ b.file = backup[r].file
               /\ b.config = backup[r].config /\ b.listed = backup[r].listed /\ b.ok = backup[r].ok
        BY <2>2, <3>1, GoMoves DEF RunSteps
      <4>2. RunIsSane(b)'
        BY <2>1, <2>2, <2>3, <4>1, BackupConstants DEF RunIsSane
      <4>3. QED
        BY <4>1, <4>2
    <3>2. CASE ~ok
      <4>1. PICK b \in RunStates :
               /\ Moved(r, b) /\ b.step = "report" /\ b.file = 0
               /\ b.config = None /\ b.listed = {} /\ b.ok = FALSE
        BY <2>2, <3>2, FailMoves
      <4>2. RunIsSane(b)'
        BY <2>2, <2>3, <4>1 DEF RunIsSane
      <4>3. QED
        BY <4>1, <4>2
    <3>3. QED
      BY <3>1, <3>2
  <2>5. \A q \in Runs : RunIsSane(backup[q])'
    BY <2>2, <2>4, SaneFrame
  <2>6. backup' \in [Runs -> RunStates]
    BY <2>4, MovedOne
  <2>7. \A left \in Leaves(r, ok) : left \in FileStates
    <3>1. versions[f] \in FileStates /\ HalfWritten \in FileStates
      BY <1>t, <2>3 DEF FileStates
    <3>2. [by |-> r, config |-> backup[r].config] \in FileStates
      BY <2>3 DEF FileStates, WholeVersions
    <3>3. QED
      BY <2>1, <3>1, <3>2 DEF Leaves
  <2>8. /\ versions' \in [Seconds -> FileStates]
        /\ \A s \in Seconds : versions'[s] # NoVersion => s \in ever'
    BY <1>s, <1>t, <2>2, <2>3, <2>7
  <2>9. later' \in [Seconds -> SUBSET Seconds] /\ caught' \in SUBSET Seconds
    BY <1>t, <2>2, <2>3, TouchTypes
  <2>10. BackupTypeOK'
    BY <1>t, <2>2, <2>6, <2>8, <2>9 DEF BackupTypeOK
  <2>11. QED
    BY <1>s, <2>2, <2>5, <2>8, <2>10 DEF FilesInv, FilesAreSane
<1>4. ASSUME NEW r \in Runs, NEW ok \in BOOLEAN, WriteSidecar(r, ok) PROVE FilesInv'
  <2>1. /\ UNCHANGED <<retention, second, versions, later, unlinked, ever, caught, lastGood,
                       good, overlapped, shared, wrong>>
        /\ disturbed' \in BOOLEAN /\ backup[r].step = "sidecar"
        /\ sidecars' = [sidecars EXCEPT ![backup[r].file] = IF ok THEN r ELSE "empty"]
        /\ IF ok THEN Go(r, "list") ELSE Fails(r)
    BY <1>4, <1>t DEF WriteSidecar, Digest
  <2>2. /\ backup[r].config \in Configs /\ backup[r].listed \subseteq ever
        /\ backup[r].file \in ever /\ backup[r].ok = FALSE
    BY <1>s, <1>t, <2>1 DEF RunIsSane, RunStates
  <2>3. PICK b \in RunStates : Moved(r, b) /\ RunIsSane(b)'
    <3>1. CASE ok
      <4>1. PICK b \in RunStates :
               /\ Moved(r, b) /\ b.step = "list" /\ b.file = backup[r].file
               /\ b.config = backup[r].config /\ b.listed = backup[r].listed /\ b.ok = backup[r].ok
        BY <2>1, <3>1, GoMoves DEF RunSteps
      <4>2. RunIsSane(b)'
        BY <2>1, <2>2, <4>1, BackupConstants DEF RunIsSane
      <4>3. QED
        BY <4>1, <4>2
    <3>2. CASE ~ok
      <4>1. PICK b \in RunStates :
               /\ Moved(r, b) /\ b.step = "report" /\ b.file = 0
               /\ b.config = None /\ b.listed = {} /\ b.ok = FALSE
        BY <2>1, <3>2, FailMoves
      <4>2. RunIsSane(b)'
        BY <2>1, <2>2, <4>1 DEF RunIsSane
      <4>3. QED
        BY <4>1, <4>2
    <3>3. QED
      BY <3>1, <3>2
  <2>4. \A q \in Runs : RunIsSane(backup[q])'
    BY <2>1, <2>3, SaneFrame
  <2>5. backup' \in [Runs -> RunStates]
    BY <2>3, MovedOne
  <2>6. sidecars' \in [Seconds -> {None, "empty"} \union Runs]
    BY <1>t, <2>1
  <2>7. BackupTypeOK'
    BY <1>t, <2>1, <2>5, <2>6 DEF BackupTypeOK
  <2>8. QED
    BY <1>s, <2>1, <2>4, <2>7 DEF FilesInv, FilesAreSane
<1>5. ASSUME NEW r \in Runs, ListFiles(r) PROVE FilesInv'
  <2>1. PICK b \in RunStates :
           /\ Moved(r, b) /\ b.step = "sort" /\ b.file = 0 /\ b.listed = Versions
           /\ b.config = backup[r].config /\ b.ok = backup[r].ok
    BY <1>5, ListMoves
  <2>2. /\ UNCHANGED <<retention, second, versions, later, sidecars, unlinked, ever, caught,
                       lastGood, good, overlapped, shared, disturbed, wrong>>
        /\ backup[r].step = "list"
    BY <1>5 DEF ListFiles
  <2>3. backup[r].config # None /\ backup[r].ok = FALSE
    BY <1>s, <1>t, <2>2 DEF RunIsSane, RunStates
  <2>4. Versions \subseteq ever
    BY <1>s DEF Versions
  <2>5. RunIsSane(b)'
    BY <2>1, <2>2, <2>3, <2>4 DEF RunIsSane
  <2>6. \A q \in Runs : RunIsSane(backup[q])'
    BY <2>1, <2>2, <2>5, SaneFrame
  <2>7. backup' \in [Runs -> RunStates]
    BY <2>1, MovedOne
  <2>8. BackupTypeOK'
    BY <1>t, <2>2, <2>7 DEF BackupTypeOK
  <2>9. QED
    BY <1>s, <2>2, <2>6, <2>8 DEF FilesInv, FilesAreSane
<1>6. ASSUME NEW r \in Runs, Sort(r) PROVE FilesInv'
  <2>1. PICK b \in RunStates, there \in BOOLEAN, old \in SUBSET Seconds :
           /\ Moved(r, b) /\ b.step = (IF old = {} THEN "report" ELSE "remove")
           /\ there = (backup[r].listed \subseteq Versions)
           /\ old = IF there THEN Old(backup[r].listed) ELSE {}
           /\ b.listed = old /\ b.ok = (there /\ old = {})
           /\ b.config = backup[r].config
           /\ good' = (good \/ (there /\ old = {}))
    BY <1>6, SortMoves
  <2>2. /\ UNCHANGED <<retention, second, versions, later, sidecars, unlinked, ever, caught,
                       lastGood, overlapped, shared, disturbed, wrong>>
        /\ backup[r].step = "sort"
    BY <1>6 DEF Sort
  <2>3. backup[r].config # None /\ backup[r].listed \subseteq ever
    BY <1>s, <2>2 DEF RunIsSane
  <2>4. old \subseteq ever
    BY <2>1, <2>3 DEF Old
  <2>5. RunIsSane(b)'
    BY <2>1, <2>2, <2>3, <2>4 DEF RunIsSane
  <2>6. \A q \in Runs : RunIsSane(backup[q])'
    BY <2>1, <2>2, <2>5, SaneFrame
  <2>7. backup' \in [Runs -> RunStates]
    BY <2>1, MovedOne
  <2>8. BackupTypeOK'
    BY <1>t, <2>1, <2>2, <2>7 DEF BackupTypeOK
  <2>9. QED
    BY <1>s, <2>2, <2>6, <2>8 DEF FilesInv, FilesAreSane
<1>r. ASSUME NEW r \in Runs, NEW s \in Seconds, NEW removed \in BOOLEAN, Remove(r, s, removed)
      PROVE  FilesInv'
  <2>1. PICK b \in RunStates, left \in SUBSET Seconds :
           /\ Moved(r, b) /\ b.step = (IF left = {} THEN "report" ELSE "remove")
           /\ left = backup[r].listed \ {s}
           /\ b.listed = left /\ b.ok = (left = {})
           /\ b.config = backup[r].config /\ b.file = backup[r].file
           /\ good' = (good \/ left = {})
    <3>1. Remove(r, s, TRUE) \/ Remove(r, s, FALSE)
      BY <1>r
    <3>2. QED
      BY <3>1, RemoveMoves
  <2>2. /\ UNCHANGED <<retention, second, later, ever, caught, lastGood, overlapped, shared,
                       disturbed, wrong>>
        /\ backup[r].step = "remove"
        /\ versions' = IF removed THEN [versions EXCEPT ![s] = NoVersion] ELSE versions
        /\ sidecars' = [sidecars EXCEPT ![s] = None]
        /\ unlinked' \in SUBSET Runs
    BY <1>r, <1>t DEF Remove
  <2>3. backup[r].config # None /\ backup[r].listed \subseteq ever
    BY <1>s, <2>2 DEF RunIsSane
  <2>4. RunIsSane(b)'
    BY <2>1, <2>2, <2>3 DEF RunIsSane
  <2>5. \A q \in Runs : RunIsSane(backup[q])'
    BY <2>1, <2>2, <2>4, SaneFrame
  <2>6. backup' \in [Runs -> RunStates]
    BY <2>1, MovedOne
  <2>7. /\ versions' \in [Seconds -> FileStates]
        /\ sidecars' \in [Seconds -> {None, "empty"} \union Runs]
        /\ \A z \in Seconds : versions'[z] # NoVersion => z \in ever'
    BY <1>s, <1>t, <2>2 DEF FileStates
  <2>8. BackupTypeOK'
    BY <1>t, <2>1, <2>2, <2>6, <2>7 DEF BackupTypeOK
  <2>9. QED
    BY <1>s, <2>2, <2>5, <2>7, <2>8 DEF FilesInv, FilesAreSane
<1>7. ASSUME NEW r \in Runs, Report(r) PROVE FilesInv'
  <2>1. /\ UNCHANGED <<retention, second, versions, later, sidecars, unlinked, ever, caught,
                       good, overlapped, shared, disturbed>>
        /\ backup' = [backup EXCEPT ![r] = Idle] /\ wrong' \in BOOLEAN
        /\ lastGood' \in {None, backup[r].config, lastGood}
    BY <1>7, <1>t DEF Report
  <2>2. Moved(r, Idle) /\ Idle \in RunStates
    BY <2>1, BackupConstants DEF Moved
  <2>3. RunIsSane(Idle)'
    BY DEF RunIsSane, Idle
  <2>4. \A q \in Runs : RunIsSane(backup[q])'
    BY <2>1, <2>2, <2>3, SaneFrame
  <2>5. backup' \in [Runs -> RunStates]
    BY <2>2, MovedOne
  <2>6. lastGood' \in Configs \union {None}
    BY <1>t, <2>1 DEF RunStates
  <2>7. BackupTypeOK'
    BY <1>t, <2>1, <2>5, <2>6 DEF BackupTypeOK
  <2>8. QED
    BY <1>s, <2>1, <2>4, <2>7 DEF FilesInv, FilesAreSane
<1>8. CASE Die
  <2>1. /\ UNCHANGED <<retention, second, versions, later, sidecars, ever, caught, lastGood,
                       good, overlapped, shared, wrong>>
        /\ backup' = [r \in Runs |-> Idle] /\ disturbed' = TRUE /\ unlinked' = {}
    BY <1>8 DEF Die
  <2>2. RunIsSane(Idle)'
    BY DEF RunIsSane, Idle
  <2>3. \A q \in Runs : RunIsSane(backup[q])'
    <3>1. ASSUME NEW q \in Runs, NEW a, a = backup'[q] PROVE RunIsSane(a)'
      BY <2>1, <2>2, <3>1
    <3>2. QED
      BY <3>1 DEF RunIsSane
  <2>4. BackupTypeOK'
    BY <1>t, <2>1, BackupConstants DEF BackupTypeOK
  <2>5. QED
    BY <1>s, <2>1, <2>3, <2>4 DEF FilesInv, FilesAreSane
<1>9. CASE SecondPasses
  <2>1. /\ second < MaxClock /\ second' = second + 1
        /\ UNCHANGED <<retention, versions, later, sidecars, backup, unlinked, ever, caught,
                       lastGood, good, overlapped, shared, disturbed, wrong>>
    BY <1>9 DEF SecondPasses
  <2>2. second' \in Seconds /\ second' > second
    BY <1>t, <2>1, BackupConstants DEF Seconds
  <2>3. \A q \in Runs : RunIsSane(backup[q])'
    <3>1. \A x \in Seconds : x <= second => x <= second'
      BY <1>t, <2>1, <2>2, BackupConstants
    <3>2. ASSUME NEW q \in Runs, NEW a, a = backup[q] PROVE RunIsSane(a)'
      BY <1>s, <2>1, <3>1, <3>2 DEF RunIsSane
    <3>3. ASSUME NEW q \in Runs, NEW a, a = backup'[q] PROVE RunIsSane(a)'
      BY <2>1, <3>2, <3>3
    <3>4. QED
      BY <3>3 DEF RunIsSane
  <2>4. \A s \in ever' : s <= second'
    BY <1>s, <1>t, <2>1, <2>2, BackupConstants
  <2>5. BackupTypeOK'
    BY <1>t, <2>1, <2>2 DEF BackupTypeOK
  <2>6. QED
    BY <1>s, <2>1, <2>3, <2>4, <2>5 DEF FilesInv, FilesAreSane
<1>10. CASE UNCHANGED backupVars
  <2>1. BackupTypeOK'
    BY <1>t, <1>10 DEF BackupTypeOK, backupVars
  <2>2. \A q \in Runs : RunIsSane(backup[q])'
    BY <1>s, <1>10 DEF RunIsSane, backupVars
  <2>3. QED
    BY <1>s, <1>10, <2>1, <2>2 DEF FilesInv, FilesAreSane, backupVars
<1>11. QED
  BY <1>1, <1>2, <1>3, <1>4, <1>5, <1>6, <1>r, <1>7, <1>8, <1>9, <1>10 DEF BackupNext

LEMMA FilesHold == BackupSpec => []FilesInv
  BY FilesInit, FilesStep, PTL DEF BackupSpec

\* A run that has opened its version, or has succeeded and not yet said so.
InFlight(b) == b.step \in {"write", "sidecar", "list", "sort", "remove"} \/ b.ok

\* A run that has written its version.
HasWritten(b) == b.step \in {"sidecar", "list", "sort", "remove"}

NoneBeside ==
  \A q, r \in Runs : backup[q].step # "idle" /\ backup[r].step # "idle" => q = r

\* Only a run that is writing has its file removed, and one whose file was not has it open.
LinksAreSane ==
  /\ \A r \in unlinked : backup[r].step = "write"
  /\ \A r \in Runs : backup[r].step = "write" /\ r \notin unlinked =>
       versions[backup[r].file] # NoVersion

\* Runs that share no second write to files of their own.
FilesAreOwn ==
  ~shared =>
    \A r \in Runs : backup[r].step = "write" =>
      /\ r \in unlinked \/ versions[backup[r].file] = Unwritten
      /\ \A q \in Runs \ {r} : backup[q].step = "write" => backup[q].file # backup[r].file

\* A version that is about to be removed has `retention' others after it, or was
\* modified when the choice had been made.
RemovalIsDue ==
  \A r \in Runs : backup[r].step = "remove" =>
    \A s \in backup[r].listed :
      \/ s \in caught
      \/ retention # 0 /\ ~(Cardinality(later[s] \intersect ever) < retention)

NothingGoes ==
  retention = 0 => unlinked = {} /\ \A r \in Runs : backup[r].step # "remove"

\* Runs that share no second leave what another has written as it is, so that
\* the last success stays readable until a clean-up; the one that cleans up has
\* modified its version last, unless two runs overlap.
SomethingIsReadable ==
  /\ ~shared /\ (retention = 0 \/ ~overlapped)
  /\ good \/ \E r \in Runs : HasWritten(backup[r])
  => \E s \in Seconds : Readable(s)

LastIsOwn(b) ==
  \E m \in ever :
    /\ later[m] = {}
    /\ IF b.step = "write" THEN b.file = m ELSE Readable(m)

NewestIsOwn ==
  ~shared /\ ~overlapped =>
    /\ NoneBeside /\ unlinked = {} /\ caught = {}
    /\ \A r \in Runs : HasWritten(backup[r]) \/ backup[r].step = "write" => LastIsOwn(backup[r])

WriteInv == FilesInv /\ LinksAreSane /\ FilesAreOwn
KeptInv == NewestAreKept /\ RemovalIsDue /\ NothingGoes
RestoreInv == WriteInv /\ KeptInv /\ NewestIsOwn /\ SomethingIsReadable

\* The newest of the versions S, which f holds, is of the configuration c; there
\* is none while c is None.
LatestOf(f, S, c) ==
  IF S = {} THEN c = None
  ELSE c # None /\ \E m \in S : (\A s \in S : s <= m) /\ f[m].config = c

\* Versions are modified in the order of their names, and a run opens the last.
InOrder == \A s, t \in ever : t \in later[s] <=> s < t
OwnIsLast(b) == b.step \in {"open", "write"} => \A s \in ever : s <= b.file

IsGreatest(k, S) == k \in S /\ \A s \in S : s <= k

\* A run that has opened its version finds it the newest there is, and next to
\* it what the last success has left; it removes neither.
OwnIsNext(b) ==
  \E m \in Versions :
    /\ \A s \in Versions : s <= m
    /\ LatestOf(versions, Versions \ {m}, lastGood)
    /\ IF b.step = "write" THEN b.file = m ELSE versions[m].config = b.config
    /\ b.step = "sort" => b.listed \subseteq Versions
    /\ b.step = "remove" =>
         m \notin b.listed /\ \A k \in b.listed : ~IsGreatest(k, Versions \ {m})

TellInv ==
  ~disturbed /\ ~shared =>
    /\ NoneBeside /\ ~overlapped /\ InOrder
    /\ \A r \in Runs : OwnIsLast(backup[r])
    /\ (\A r \in Runs : ~InFlight(backup[r])) => LatestOf(versions, Versions, lastGood)
    /\ \A r \in Runs : InFlight(backup[r]) => OwnIsNext(backup[r])

ComparedInv == RestoreInv /\ (retention # 1 => TellInv /\ ~wrong)

\* There are no fewer later versions in a larger set.
LEMMA FewerLater ==
  ASSUME NEW T \in SUBSET Seconds, NEW S \in SUBSET T
  PROVE  /\ Cardinality(S) <= Cardinality(T)
         /\ Cardinality(S) \in Nat /\ Cardinality(T) \in Nat
<1>1. IsFiniteSet(Seconds)
  BY FS_Interval, BackupConstants DEF Seconds
<1>2. IsFiniteSet(T)
  BY <1>1, FS_Subset
<1>3. IsFiniteSet(S)
  BY <1>2, FS_Subset
<1>4. QED
  BY <1>2, <1>3, FS_Subset, FS_CardinalityType

\* What a run removes of its list has enough later versions among all there ever were.
LEMMA OldAreOld ==
  ASSUME FilesInv, NEW listed \in SUBSET ever, NEW s \in Old(listed)
  PROVE  retention # 0 /\ ~(Cardinality(later[s] \intersect ever) < retention)
<1>1. /\ ever \in SUBSET Seconds /\ retention \in Nat /\ s \in Seconds
      /\ later[s] \in SUBSET Seconds
  BY BackupConstants DEF FilesInv, BackupTypeOK, Old
<1>2. retention # 0 /\ s \in listed /\ s \notin Newest(listed, retention)
  BY DEF Old
<1>3. ~(Cardinality(later[s] \intersect listed) < retention)
  BY <1>2 DEF Newest
<1>4. /\ Cardinality(later[s] \intersect listed) <= Cardinality(later[s] \intersect ever)
      /\ Cardinality(later[s] \intersect listed) \in Nat
      /\ Cardinality(later[s] \intersect ever) \in Nat
  <2>1. /\ later[s] \intersect ever \in SUBSET Seconds
        /\ later[s] \intersect listed \in SUBSET (later[s] \intersect ever)
    BY <1>1
  <2>2. QED
    BY <2>1, FewerLater
<1>5. QED
  BY <1>1, <1>2, <1>3, <1>4

\* A run opens the file it has the name of.
LEMMA OpenKeeps ==
  ASSUME FilesInv, NEW r \in Runs, OpenFile(r)
  PROVE  \E f \in Seconds, b \in RunStates :
           /\ f = backup[r].file /\ backup[r].step = "open" /\ f <= second
           /\ Moved(r, b) /\ b.step = "write" /\ b.file = f
           /\ b.config = backup[r].config /\ b.listed = backup[r].listed /\ b.ok = backup[r].ok
           /\ UNCHANGED <<retention, second, unlinked, good, overlapped>>
           /\ Touch(f) /\ ever' = ever \union {f} /\ shared' = (shared \/ f \in ever)
           /\ versions'[f] = Unwritten /\ f \in Versions'
           /\ \A s \in Seconds : s # f => versions'[s] = versions[s]
<1>1. PICK f : f = backup[r].file
  OBVIOUS
<1>2. /\ backup[r].step = "open" /\ Go(r, "write") /\ Touch(f)
      /\ versions' = [versions EXCEPT ![f] = Unwritten]
      /\ UNCHANGED <<retention, second, unlinked, good, overlapped>>
      /\ ever' = ever \union {f} /\ shared' = (shared \/ f \in ever)
  BY <1>1 DEF OpenFile
<1>3. f \in Seconds /\ f <= second /\ versions \in [Seconds -> FileStates]
  BY <1>1, <1>2 DEF FilesInv, BackupTypeOK, FilesAreSane, RunIsSane
<1>4. /\ versions'[f] = Unwritten
      /\ \A s \in Seconds : s # f => versions'[s] = versions[s]
  BY <1>2, <1>3
<1>5. f \in Versions'
  BY <1>3, <1>4, BackupConstants DEF Versions
<1>6. PICK b \in RunStates :
           /\ Moved(r, b) /\ b.step = "write" /\ b.file = f
           /\ b.config = backup[r].config /\ b.listed = backup[r].listed /\ b.ok = backup[r].ok
  BY <1>1, <1>2, GoMoves DEF RunSteps
<1>7. QED
  BY <1>1, <1>2, <1>3, <1>4, <1>5, <1>6

\* What a write does to the files: nothing, where its own is gone; or it leaves something
\* in it, and modifies it, or fails at once.
LEMMA WriteKeeps ==
  ASSUME FilesInv, NEW r \in Runs, NEW ok \in BOOLEAN, WriteFile(r, ok)
  PROVE  \E f \in ever, b \in RunStates :
           /\ f \in Seconds /\ f = backup[r].file /\ backup[r].step = "write"
           /\ backup[r].config \in Configs
           /\ Moved(r, b) /\ b.step = (IF ok THEN "sidecar" ELSE "report")
           /\ ok => b.file = f /\ b.config = backup[r].config
           /\ UNCHANGED <<retention, second, ever, lastGood, good, overlapped, shared>>
           /\ unlinked' = unlinked \ {r}
           /\ \/ r \in unlinked /\ UNCHANGED <<versions, later, caught>>
              \/ /\ r \notin unlinked /\ versions'[f] \in Leaves(r, ok)
                 /\ \A s \in Seconds : s # f => versions'[s] = versions[s]
                 /\ Touch(f) \/ (versions' = versions /\ UNCHANGED <<later, caught>>)
<1>1. PICK f : f = backup[r].file
  OBVIOUS
<1>2. /\ backup[r].step = "write"
      /\ UNCHANGED <<retention, second, ever, lastGood, good, overlapped, shared>>
      /\ unlinked' = unlinked \ {r}
      /\ IF ok THEN Go(r, "sidecar") ELSE Fails(r)
      /\ IF r \in unlinked THEN UNCHANGED <<versions, later, caught>>
         ELSE \E left \in Leaves(r, ok) :
            /\ versions' = [versions EXCEPT ![f] = left]
            /\ Touch(f) \/ (left = versions[f] /\ UNCHANGED <<later, caught>>)
  BY <1>1 DEF WriteFile
<1>3. /\ versions \in [Seconds -> FileStates] /\ ever \in SUBSET Seconds
      /\ backup[r] \in RunStates /\ RunIsSane(backup[r])
  BY DEF FilesInv, BackupTypeOK, FilesAreSane
<1>4. f \in ever /\ f \in Seconds /\ backup[r].config \in Configs
  BY <1>1, <1>2, <1>3 DEF RunIsSane, RunStates
<1>5. \/ r \in unlinked /\ UNCHANGED <<versions, later, caught>>
      \/ /\ r \notin unlinked /\ versions'[f] \in Leaves(r, ok)
         /\ \A s \in Seconds : s # f => versions'[s] = versions[s]
         /\ Touch(f) \/ (versions' = versions /\ UNCHANGED <<later, caught>>)
  BY <1>2, <1>3, <1>4
<1>6. PICK b \in RunStates :
        /\ Moved(r, b) /\ b.step = (IF ok THEN "sidecar" ELSE "report")
        /\ ok => b.file = f /\ b.config = backup[r].config
  <2>1. CASE ok
    <3>1. PICK b \in RunStates :
            Moved(r, b) /\ b.step = "sidecar" /\ b.file = f /\ b.config = backup[r].config
      BY <1>1, <1>2, <2>1, GoMoves DEF RunSteps
    <3>2. QED
      BY <2>1, <3>1
  <2>2. CASE ~ok
    <3>1. PICK b \in RunStates : Moved(r, b) /\ b.step = "report"
      BY <1>2, <2>2, FailMoves
    <3>2. QED
      BY <2>2, <3>1
  <2>3. QED
    BY <2>1, <2>2
<1>7. QED
  BY <1>1, <1>2, <1>4, <1>5, <1>6

LEMMA RemoveKeeps ==
  ASSUME FilesInv, NEW r \in Runs, NEW s \in Seconds, NEW removed \in BOOLEAN,
         Remove(r, s, removed)
  PROVE  /\ backup[r].step = "remove" /\ s \in backup[r].listed
         /\ UNCHANGED <<retention, second, later, ever, caught, lastGood, overlapped, shared,
                        disturbed, wrong>>
         /\ \A z \in Seconds : z # s => versions'[z] = versions[z]
         /\ removed => unlinked' =
              unlinked \union {q \in Runs : backup[q].step = "write" /\ backup[q].file = s}
         /\ ~removed => UNCHANGED <<versions, unlinked>>
  BY DEF FilesInv, BackupTypeOK, Remove

LEMMA Removes ==
  ASSUME FilesInv, NEW r \in Runs, NEW s \in Seconds, NEW removed \in BOOLEAN,
         Remove(r, s, removed)
  PROVE  \E b \in RunStates :
           /\ Moved(r, b) /\ b.listed = backup[r].listed \ {s}
           /\ b.step = (IF b.listed = {} THEN "report" ELSE "remove")
           /\ b.ok = (b.listed = {}) /\ b.config = backup[r].config
           /\ good' = (good \/ b.listed = {})
<1>1. Remove(r, s, TRUE) \/ Remove(r, s, FALSE)
  OBVIOUS
<1>2. PICK b \in RunStates, left \in SUBSET Seconds :
        /\ Moved(r, b) /\ b.step = (IF left = {} THEN "report" ELSE "remove")
        /\ left = backup[r].listed \ {s}
        /\ b.listed = left /\ b.ok = (left = {})
        /\ b.config = backup[r].config /\ b.file = backup[r].file
        /\ good' = (good \/ left = {})
  BY <1>1, RemoveMoves
<1>3. QED
  BY <1>2

\* A run that is under way and steps leaves the others as they were.
LEMMA OnlyOne ==
  ASSUME FilesInv, NoneBeside, NEW r \in Runs, NEW b \in RunStates, Moved(r, b),
         backup[r].step # "idle"
  PROVE  /\ backup'[r] = b /\ NoneBeside'
         /\ \A q \in Runs : q # r => backup[q] = Idle /\ backup'[q] = Idle
<1>1. backup'[r] = b /\ \A q \in Runs : q # r => backup'[q] = backup[q]
  BY MovedOne
<1>2. \A q \in Runs : q # r => backup[q].step = "idle"
  BY DEF NoneBeside
<1>3. \A q \in Runs : q # r => backup[q] = Idle
  BY <1>2 DEF FilesInv, FilesAreSane, RunIsSane
<1>4. NoneBeside'
  BY <1>1, <1>2 DEF NoneBeside
<1>5. QED
  BY <1>1, <1>3, <1>4

LEMMA CaptureAlone ==
  ASSUME FilesInv, NEW r \in Runs, NEW c \in Configs \union {None}, Capture(r, c),
         ~overlapped' \/ ~disturbed'
  PROVE  /\ \A q \in Runs : backup[q] = Idle
         /\ \A q \in Runs : q # r => backup'[q] = Idle
         /\ NoneBeside'
<1>1. \A q \in Runs : backup[q] = Idle
  BY DEF Capture
<1>2. PICK b \in RunStates : Moved(r, b)
  BY CaptureMoves
<1>3. \A q \in Runs : q # r => backup'[q] = Idle
  BY <1>1, <1>2, MovedOne
<1>4. \A q \in Runs : q # r => backup'[q].step = "idle"
  BY <1>3 DEF Idle
<1>5. NoneBeside'
  BY <1>4 DEF NoneBeside
<1>6. QED
  BY <1>1, <1>3, <1>5

\* A step that is none of the three that change the files.
Quiet ==
  /\ UNCHANGED <<retention, versions, later, ever, caught, shared>>
  /\ \/ unlinked' = unlinked /\ \A q \in Runs : backup[q].step = "write" => backup'[q] = backup[q]
     \/ unlinked' = {} /\ \A q \in Runs : backup'[q] = Idle
  /\ overlapped => overlapped'
  /\ NoneBeside /\ ~overlapped' => NoneBeside'
  /\ good' => good \/ \E q \in Runs : HasWritten(backup[q])
  /\ \A q \in Runs : HasWritten(backup'[q]) => HasWritten(backup[q])
  /\ \A q \in Runs : backup'[q].step = "write" => backup'[q] = backup[q]
  /\ \A q \in Runs : backup'[q].step = "remove" => backup'[q] = backup[q] \/ Sort(q)

LEMMA QuietMove ==
  ASSUME FilesInv, NEW r \in Runs, NEW b \in RunStates, Moved(r, b),
         backup[r].step \notin {"idle", "write"},
         UNCHANGED <<retention, versions, later, unlinked, ever, caught, shared, overlapped>>,
         good' => good \/ HasWritten(backup[r]),
         b.step # "write", b.step = "remove" => Sort(r),
         HasWritten(b) => HasWritten(backup[r])
  PROVE  Quiet
<1>1. backup'[r] = b /\ \A q \in Runs : q # r => backup'[q] = backup[q]
  BY MovedOne
<1>2. NoneBeside => NoneBeside'
  BY OnlyOne
<1>3. \A q \in Runs : HasWritten(backup'[q]) => HasWritten(backup[q])
  BY <1>1
<1>4. QED
  BY <1>1, <1>2, <1>3 DEF Quiet

LEMMA QuietSteps ==
  ASSUME FilesInv, [BackupNext]_backupVars
  PROVE  \/ Quiet
         \/ \E r \in Runs : OpenFile(r)
         \/ \E r \in Runs, ok \in BOOLEAN : WriteFile(r, ok)
         \/ \E r \in Runs, s \in Seconds, removed \in BOOLEAN : Remove(r, s, removed)
<1>1. ASSUME NEW r \in Runs, NEW c \in Configs \union {None}, Capture(r, c) PROVE Quiet
  <2>1. /\ UNCHANGED <<retention, versions, later, unlinked, ever, caught, good, shared>>
        /\ (overlapped => overlapped') /\ backup[r] = Idle
    BY <1>1 DEF Capture
  <2>2. ~overlapped' => NoneBeside'
    BY <1>1, CaptureAlone
  <2>3. PICK b \in RunStates :
           /\ Moved(r, b) /\ b.step = (IF c = None THEN "report" ELSE "open")
           /\ b.config = c /\ b.file = (IF c = None THEN 0 ELSE second)
           /\ b.listed = {} /\ b.ok = FALSE
    BY <1>1, CaptureMoves
  <2>4. backup'[r] = b /\ \A q \in Runs : q # r => backup'[q] = backup[q]
    BY <2>3, MovedOne
  <2>5. backup[r].step = "idle" /\ b.step \in {"report", "open"}
    BY <2>1, <2>3 DEF Idle
  <2>6. \A q \in Runs : HasWritten(backup'[q]) => HasWritten(backup[q])
    BY <2>4, <2>5 DEF HasWritten
  <2>7. /\ \A q \in Runs : backup[q].step = "write" => backup'[q] = backup[q]
        /\ \A q \in Runs : backup'[q].step \in {"write", "remove"} => backup'[q] = backup[q]
    BY <2>4, <2>5
  <2>8. QED
    BY <2>1, <2>2, <2>6, <2>7 DEF Quiet
<1>2. ASSUME NEW r \in Runs, NEW ok \in BOOLEAN, WriteSidecar(r, ok) PROVE Quiet
  <2>1. /\ UNCHANGED <<retention, versions, later, unlinked, ever, caught, good, shared, overlapped>>
        /\ backup[r].step = "sidecar" /\ (Go(r, "list") \/ Fails(r))
    BY <1>2 DEF WriteSidecar
  <2>2. PICK b \in RunStates : Moved(r, b) /\ b.step \in {"list", "report"}
    <3>1. CASE Go(r, "list")
      <4>1. "list" \in RunSteps
        BY DEF RunSteps
      <4>2. PICK b \in RunStates : Moved(r, b) /\ b.step = "list"
        BY <3>1, <4>1, GoMoves
      <4>3. QED
        BY <4>2
    <3>2. CASE Fails(r)
      BY <3>2, FailMoves
    <3>3. QED
      BY <2>1, <3>1, <3>2
  <2>3. QED
    BY <2>1, <2>2, QuietMove DEF HasWritten
<1>3. ASSUME NEW r \in Runs, ListFiles(r) PROVE Quiet
  <2>1. /\ UNCHANGED <<retention, versions, later, unlinked, ever, caught, good, shared, overlapped>>
        /\ backup[r].step = "list"
    BY <1>3 DEF ListFiles
  <2>2. PICK b \in RunStates : Moved(r, b) /\ b.step = "sort"
    BY <1>3, ListMoves
  <2>3. QED
    BY <2>1, <2>2, QuietMove DEF HasWritten
<1>4. ASSUME NEW r \in Runs, Sort(r) PROVE Quiet
  <2>1. /\ UNCHANGED <<retention, versions, later, unlinked, ever, caught, shared, overlapped>>
        /\ backup[r].step = "sort"
    BY <1>4 DEF Sort
  <2>2. PICK b \in RunStates : Moved(r, b) /\ b.step \in {"report", "remove"}
    BY <1>4, SortMoves
  <2>3. HasWritten(backup[r]) /\ b.step # "write"
    BY <2>1, <2>2 DEF HasWritten
  <2>4. QED
    BY <1>4, <2>1, <2>2, <2>3, QuietMove
<1>5. ASSUME NEW r \in Runs, Report(r) PROVE Quiet
  <2>1. /\ UNCHANGED <<retention, versions, later, unlinked, ever, caught, good, shared, overlapped>>
        /\ backup[r].step = "report" /\ backup' = [backup EXCEPT ![r] = Idle]
    BY <1>5 DEF Report
  <2>2. Moved(r, Idle) /\ Idle \in RunStates /\ Idle.step = "idle"
    BY <2>1, BackupConstants DEF Moved, Idle
  <2>3. QED
    BY <2>1, <2>2, QuietMove DEF HasWritten
<1>6. CASE Die
  <2>1. /\ UNCHANGED <<retention, versions, later, ever, caught, good, shared, overlapped>>
        /\ backup' = [r \in Runs |-> Idle] /\ unlinked' = {}
    BY <1>6 DEF Die
  <2>2. \A q \in Runs : backup'[q] = Idle
    BY <2>1
  <2>3. Idle.step = "idle" /\ ~HasWritten(Idle)
    BY DEF Idle, HasWritten
  <2>4. NoneBeside'
    BY <2>2, <2>3 DEF NoneBeside
  <2>5. /\ \A q \in Runs : HasWritten(backup'[q]) => HasWritten(backup[q])
        /\ \A q \in Runs : backup'[q].step # "write" /\ backup'[q].step # "remove"
    BY <2>2, <2>3
  <2>6. QED
    BY <2>1, <2>2, <2>4, <2>5 DEF Quiet
<1>7. ASSUME UNCHANGED <<retention, versions, later, backup, unlinked, ever, caught, good,
                         shared, overlapped>>
      PROVE  Quiet
  BY <1>7 DEF Quiet, NoneBeside, HasWritten
<1>8. CASE SecondPasses
  BY <1>7, <1>8 DEF SecondPasses
<1>9. CASE UNCHANGED backupVars
  BY <1>7, <1>9 DEF backupVars
<1>10. QED
  BY <1>1, <1>2, <1>3, <1>4, <1>5, <1>6, <1>8, <1>9 DEF BackupNext

LEMMA WriteInvInit == BackupInit => WriteInv
<1> SUFFICES ASSUME BackupInit PROVE WriteInv
  OBVIOUS
<1>1. unlinked = {} /\ \A r \in Runs : backup[r].step = "idle"
  BY DEF BackupInit, Idle
<1>2. QED
  BY <1>1, FilesInit DEF WriteInv, LinksAreSane, FilesAreOwn

LEMMA LinksStep == WriteInv /\ [BackupNext]_backupVars => LinksAreSane'
<1> SUFFICES ASSUME WriteInv, [BackupNext]_backupVars PROVE LinksAreSane'
  OBVIOUS
<1>i. FilesInv
  BY DEF WriteInv
<1>l. /\ \A r \in unlinked : backup[r].step = "write"
      /\ \A r \in Runs : backup[r].step = "write" /\ r \notin unlinked =>
           versions[backup[r].file] # NoVersion
      /\ unlinked \in SUBSET Runs
  BY DEF WriteInv, LinksAreSane, FilesInv, BackupTypeOK
<1>f. \A r \in Runs : backup[r].step = "write" => backup[r].file \in Seconds
  BY <1>i DEF FilesInv, BackupTypeOK, FilesAreSane, RunIsSane
<1>1. ASSUME NEW r \in Runs, OpenFile(r) PROVE LinksAreSane'
  <2>1. PICK f \in Seconds, b \in RunStates :
           /\ f = backup[r].file /\ backup[r].step = "open"
           /\ Moved(r, b) /\ b.step = "write" /\ b.file = f
           /\ UNCHANGED unlinked /\ versions'[f] = Unwritten
           /\ \A s \in Seconds : s # f => versions'[s] = versions[s]
    BY <1>1, <1>i, OpenKeeps
  <2>2. backup'[r] = b /\ \A q \in Runs : q # r => backup'[q] = backup[q]
    BY <1>i, <2>1, MovedOne
  <2>3. \A q \in unlinked : q # r
    BY <1>l, <2>1
  <2>4. \A q \in unlinked' : backup'[q].step = "write"
    BY <1>l, <2>1, <2>2, <2>3
  <2>5. ASSUME NEW q \in Runs, backup'[q].step = "write", q \notin unlinked'
        PROVE  versions'[backup'[q].file] # NoVersion
    BY <1>f, <1>l, <2>1, <2>2, <2>5, BackupConstants
  <2>6. QED
    BY <2>4, <2>5 DEF LinksAreSane
<1>2. ASSUME NEW r \in Runs, NEW ok \in BOOLEAN, WriteFile(r, ok) PROVE LinksAreSane'
  <2>1. PICK f \in Seconds, b \in RunStates :
           /\ f = backup[r].file /\ backup[r].step = "write" /\ backup[r].config \in Configs
           /\ Moved(r, b) /\ b.step \in {"sidecar", "report"}
           /\ unlinked' = unlinked \ {r}
           /\ \/ UNCHANGED versions
              \/ /\ r \notin unlinked /\ versions'[f] \in Leaves(r, ok)
                 /\ \A s \in Seconds : s # f => versions'[s] = versions[s]
    BY <1>2, <1>i, WriteKeeps
  <2>2. backup'[r] = b /\ \A q \in Runs : q # r => backup'[q] = backup[q]
    BY <1>i, <2>1, MovedOne
  <2>3. \A q \in unlinked' : backup'[q].step = "write"
    BY <1>l, <2>1, <2>2
  <2>4. r \notin unlinked => \A left \in Leaves(r, ok) : left # NoVersion
    <3>1. SUFFICES ASSUME r \notin unlinked PROVE \A left \in Leaves(r, ok) : left # NoVersion
      OBVIOUS
    <3>2. versions[backup[r].file] # NoVersion
      BY <1>l, <2>1, <3>1
    <3>3. [by |-> r, config |-> backup[r].config] # NoVersion
      BY <2>1, BackupConstants DEF NoVersion
    <3>4. QED
      BY <3>2, <3>3, BackupConstants DEF Leaves
  <2>5. ASSUME NEW q \in Runs, backup'[q].step = "write", q \notin unlinked'
        PROVE  versions'[backup'[q].file] # NoVersion
    <3>1. q # r /\ q \notin unlinked /\ backup'[q] = backup[q] /\ backup[q].step = "write"
      BY <2>1, <2>2, <2>5
    <3>2. versions[backup[q].file] # NoVersion /\ backup[q].file \in Seconds
      BY <1>f, <1>l, <3>1
    <3>3. QED
      BY <2>1, <2>4, <3>1, <3>2
  <2>6. QED
    BY <2>3, <2>5 DEF LinksAreSane
<1>3. ASSUME NEW r \in Runs, NEW s \in Seconds, NEW removed \in BOOLEAN, Remove(r, s, removed)
      PROVE  LinksAreSane'
  <2>1. /\ backup[r].step = "remove"
        /\ \A z \in Seconds : z # s => versions'[z] = versions[z]
        /\ removed => unlinked' =
             unlinked \union {q \in Runs : backup[q].step = "write" /\ backup[q].file = s}
        /\ ~removed => UNCHANGED <<versions, unlinked>>
    BY <1>3, <1>i, RemoveKeeps
  <2>2. PICK b \in RunStates : Moved(r, b) /\ b.step \in {"report", "remove"}
    <3>1. PICK b \in RunStates : Moved(r, b) /\ b.step = (IF b.listed = {} THEN "report" ELSE "remove")
      BY <1>3, <1>i, Removes
    <3>2. QED
      BY <3>1
  <2>3. backup'[r] = b /\ \A q \in Runs : q # r => backup'[q] = backup[q]
    BY <1>i, <2>2, MovedOne
  <2>4. ASSUME NEW q \in unlinked' PROVE backup'[q].step = "write"
    <3>1. q \in Runs /\ backup[q].step = "write"
      BY <1>l, <2>1, <2>4
    <3>2. QED
      BY <2>1, <2>3, <3>1
  <2>5. ASSUME NEW q \in Runs, backup'[q].step = "write", q \notin unlinked'
        PROVE  versions'[backup'[q].file] # NoVersion
    <3>1. q # r /\ backup'[q] = backup[q] /\ backup[q].step = "write"
      BY <2>2, <2>3, <2>5
    <3>2. q \notin unlinked /\ (removed => backup[q].file # s)
      BY <2>1, <2>5, <3>1
    <3>3. versions[backup[q].file] # NoVersion /\ backup[q].file \in Seconds
      BY <1>f, <1>l, <3>1, <3>2
    <3>4. QED
      BY <2>1, <3>1, <3>2, <3>3
  <2>6. QED
    BY <2>4, <2>5 DEF LinksAreSane
<1>4. CASE Quiet
  <2>1. /\ UNCHANGED versions
        /\ \A q \in Runs : backup'[q].step = "write" => backup'[q] = backup[q]
        /\ \/ unlinked' = unlinked /\ \A q \in Runs : backup[q].step = "write" => backup'[q] = backup[q]
           \/ unlinked' = {} /\ \A q \in Runs : backup'[q] = Idle
    BY <1>4 DEF Quiet
  <2>2. CASE unlinked' = {} /\ \A q \in Runs : backup'[q] = Idle
    BY <2>2 DEF LinksAreSane, Idle
  <2>3. CASE unlinked' = unlinked /\ \A q \in Runs : backup[q].step = "write" => backup'[q] = backup[q]
    <3>1. \A q \in unlinked' : backup'[q].step = "write"
      BY <1>l, <2>3
    <3>2. ASSUME NEW q \in Runs, backup'[q].step = "write", q \notin unlinked'
          PROVE  versions'[backup'[q].file] # NoVersion
      BY <1>l, <2>1, <2>3, <3>2
    <3>3. QED
      BY <3>1, <3>2 DEF LinksAreSane
  <2>4. QED
    BY <2>1, <2>2, <2>3
<1>5. QED
  BY <1>1, <1>2, <1>3, <1>4, <1>i, QuietSteps

LEMMA OwnFilesStep == WriteInv /\ [BackupNext]_backupVars => FilesAreOwn'
<1> SUFFICES ASSUME WriteInv, [BackupNext]_backupVars, ~shared' PROVE FilesAreOwn'
  BY DEF FilesAreOwn
<1>i. FilesInv
  BY DEF WriteInv
<1>s. ~shared
  <2>1. ASSUME NEW r \in Runs, OpenFile(r) PROVE ~shared
    BY <2>1 DEF OpenFile
  <2>2. ASSUME NEW r \in Runs, NEW ok \in BOOLEAN, WriteFile(r, ok) PROVE ~shared
    BY <2>2 DEF WriteFile
  <2>3. ASSUME NEW r \in Runs, NEW s \in Seconds, NEW removed \in BOOLEAN, Remove(r, s, removed)
        PROVE  ~shared
    BY <2>3 DEF Remove
  <2>4. Quiet => ~shared
    BY DEF Quiet
  <2>5. QED
    BY <1>i, <2>1, <2>2, <2>3, <2>4, QuietSteps
<1>l. \A r \in Runs : backup[r].step = "write" =>
        /\ r \in unlinked \/ versions[backup[r].file] = Unwritten
        /\ \A q \in Runs \ {r} : backup[q].step = "write" => backup[q].file # backup[r].file
  BY <1>s DEF WriteInv, FilesAreOwn
<1>f. \A r \in Runs : backup[r].step = "write" => backup[r].file \in Seconds /\ backup[r].file \in ever
  BY <1>i DEF FilesInv, BackupTypeOK, FilesAreSane, RunIsSane
<1>1. ASSUME NEW r \in Runs, OpenFile(r) PROVE FilesAreOwn'
  <2>1. PICK f \in Seconds, b \in RunStates :
           /\ Moved(r, b) /\ b.step = "write" /\ b.file = f
           /\ UNCHANGED unlinked /\ versions'[f] = Unwritten
           /\ shared' = (shared \/ f \in ever)
           /\ \A s \in Seconds : s # f => versions'[s] = versions[s]
    BY <1>1, <1>i, OpenKeeps
  <2>2. backup'[r] = b /\ \A q \in Runs : q # r => backup'[q] = backup[q]
    BY <1>i, <2>1, MovedOne
  <2>3. f \notin ever
    BY <2>1
  <2>4. ASSUME NEW q \in Runs, q # r, backup'[q].step = "write"
        PROVE  /\ backup[q].step = "write" /\ backup'[q].file = backup[q].file
               /\ backup'[q].file # f
               /\ q \in unlinked' \/ versions'[backup'[q].file] = Unwritten
    <3>1. backup'[q] = backup[q] /\ backup[q].step = "write"
      BY <2>2, <2>4
    <3>2. backup[q].file \in Seconds /\ backup[q].file # f
      BY <1>f, <2>3, <3>1
    <3>3. versions'[backup[q].file] = versions[backup[q].file]
      BY <2>1, <3>2
    <3>4. QED
      BY <1>l, <2>1, <3>1, <3>2, <3>3
  <2>5. backup'[r].file = f
    BY <2>1, <2>2
  <2>6. ASSUME NEW q \in Runs, backup'[q].step = "write"
        PROVE  /\ q \in unlinked' \/ versions'[backup'[q].file] = Unwritten
               /\ \A p \in Runs \ {q} : backup'[p].step = "write" => backup'[p].file # backup'[q].file
    <3>1. CASE q = r
      BY <2>1, <2>4, <2>5, <3>1
    <3>2. CASE q # r
      <4>1. ASSUME NEW p \in Runs \ {q}, backup'[p].step = "write"
            PROVE  backup'[p].file # backup'[q].file
        <5>1. CASE p = r
          BY <2>4, <2>5, <2>6, <3>2, <5>1
        <5>2. CASE p # r
          BY <1>l, <2>4, <2>6, <3>2, <4>1, <5>2
        <5>3. QED
          BY <5>1, <5>2
      <4>2. QED
        BY <2>4, <2>6, <3>2, <4>1
    <3>3. QED
      BY <3>1, <3>2
  <2>7. QED
    BY <2>6 DEF FilesAreOwn
<1>o. ASSUME \A q \in Runs : backup'[q].step = "write" =>
                /\ backup'[q] = backup[q]
                /\ q \in unlinked' \/ versions'[backup[q].file] = Unwritten
      PROVE  FilesAreOwn'
  <2>1. ASSUME NEW q \in Runs, backup'[q].step = "write"
        PROVE  /\ q \in unlinked' \/ versions'[backup'[q].file] = Unwritten
               /\ \A p \in Runs \ {q} : backup'[p].step = "write" => backup'[p].file # backup'[q].file
    <3>1. backup'[q] = backup[q] /\ backup[q].step = "write"
      BY <1>o, <2>1
    <3>2. ASSUME NEW p \in Runs \ {q}, backup'[p].step = "write"
          PROVE  backup'[p].file # backup'[q].file
      <4>1. backup'[p] = backup[p] /\ backup[p].step = "write"
        BY <1>o, <3>2
      <4>2. QED
        BY <1>l, <3>1, <4>1
    <3>3. QED
      BY <1>o, <2>1, <3>1, <3>2
  <2>2. QED
    BY <2>1 DEF FilesAreOwn
<1>2. ASSUME NEW r \in Runs, NEW ok \in BOOLEAN, WriteFile(r, ok) PROVE FilesAreOwn'
  <2>1. PICK f \in Seconds, b \in RunStates :
           /\ f = backup[r].file /\ backup[r].step = "write"
           /\ Moved(r, b) /\ b.step \in {"sidecar", "report"}
           /\ unlinked' = unlinked \ {r}
           /\ \A s \in Seconds : s # f => versions'[s] = versions[s]
    BY <1>2, <1>i, WriteKeeps
  <2>2. backup'[r] = b /\ \A q \in Runs : q # r => backup'[q] = backup[q]
    BY <1>i, <2>1, MovedOne
  <2>3. ASSUME NEW q \in Runs, backup'[q].step = "write"
        PROVE  /\ backup'[q] = backup[q]
               /\ q \in unlinked' \/ versions'[backup[q].file] = Unwritten
    <3>1. q # r /\ backup'[q] = backup[q] /\ backup[q].step = "write"
      BY <2>1, <2>2, <2>3
    <3>2. backup[q].file \in Seconds /\ backup[q].file # f
      BY <1>f, <1>l, <2>1, <3>1
    <3>3. QED
      BY <1>l, <2>1, <3>1, <3>2
  <2>4. QED
    BY <1>o, <2>3
<1>3. ASSUME NEW r \in Runs, NEW s \in Seconds, NEW removed \in BOOLEAN, Remove(r, s, removed)
      PROVE  FilesAreOwn'
  <2>1. /\ backup[r].step = "remove"
        /\ \A z \in Seconds : z # s => versions'[z] = versions[z]
        /\ removed => unlinked' =
             unlinked \union {q \in Runs : backup[q].step = "write" /\ backup[q].file = s}
        /\ ~removed => UNCHANGED <<versions, unlinked>>
    BY <1>3, <1>i, RemoveKeeps
  <2>2. PICK b \in RunStates : Moved(r, b) /\ b.step \in {"report", "remove"}
    <3>1. PICK b \in RunStates : Moved(r, b) /\ b.step = (IF b.listed = {} THEN "report" ELSE "remove")
      BY <1>3, <1>i, Removes
    <3>2. QED
      BY <3>1
  <2>3. backup'[r] = b /\ \A q \in Runs : q # r => backup'[q] = backup[q]
    BY <1>i, <2>2, MovedOne
  <2>4. ASSUME NEW q \in Runs, backup'[q].step = "write"
        PROVE  /\ backup'[q] = backup[q]
               /\ q \in unlinked' \/ versions'[backup[q].file] = Unwritten
    <3>1. backup'[q] = backup[q] /\ backup[q].step = "write"
      BY <2>2, <2>3, <2>4
    <3>2. backup[q].file \in Seconds
      BY <1>f, <3>1
    <3>3. QED
      BY <1>l, <2>1, <3>1, <3>2
  <2>5. QED
    BY <1>o, <2>4
<1>4. CASE Quiet
  <2>1. /\ UNCHANGED versions
        /\ \A q \in Runs : backup'[q].step = "write" => backup'[q] = backup[q]
        /\ \/ unlinked' = unlinked
           \/ \A q \in Runs : backup'[q].step # "write"
    BY <1>4 DEF Quiet, Idle
  <2>2. ASSUME NEW q \in Runs, backup'[q].step = "write"
        PROVE  /\ backup'[q] = backup[q]
               /\ q \in unlinked' \/ versions'[backup[q].file] = Unwritten
    BY <1>l, <2>1, <2>2
  <2>3. QED
    BY <1>o, <2>2
<1>5. QED
  BY <1>1, <1>2, <1>3, <1>4, <1>i, QuietSteps

\* A modification leaves `retention' others after a version that had them before.
LEMMA TouchKeeps ==
  ASSUME FilesInv, NEW f \in Seconds, Touch(f), f \in Versions', UNCHANGED retention,
         ever' = ever \union {f},
         NewestAreKept, RemovalIsDue,
         \A s \in Seconds : s # f => versions'[s] = versions[s],
         \A q \in Runs : backup'[q].step = "remove" => backup'[q] = backup[q]
  PROVE  NewestAreKept' /\ RemovalIsDue'
<1>t. /\ later' \in [Seconds -> SUBSET Seconds] /\ caught' \in SUBSET Seconds
      /\ later'[f] = {} /\ \A s \in Seconds : s # f => later'[s] = later[s] \union {f}
  BY TouchTypes
<1>e. /\ ever \in SUBSET Seconds /\ retention \in Nat
      /\ later \in [Seconds -> SUBSET Seconds]
      /\ versions \in [Seconds -> FileStates]
  BY BackupConstants DEF FilesInv, BackupTypeOK
<1>c. caught \subseteq caught'
  BY DEF Touch
<1>m. ASSUME NEW s \in Seconds, s # f, Cardinality(later'[s] \intersect ever') < retention
      PROVE  Cardinality(later[s] \intersect ever) < retention
  <2>1. /\ later[s] \intersect ever \in SUBSET (later'[s] \intersect ever')
        /\ later'[s] \intersect ever' \in SUBSET Seconds
    BY <1>t, <1>e, <1>m
  <2>2. /\ Cardinality(later[s] \intersect ever) <= Cardinality(later'[s] \intersect ever')
        /\ Cardinality(later[s] \intersect ever) \in Nat
        /\ Cardinality(later'[s] \intersect ever') \in Nat
    BY <2>1, FewerLater
  <2>3. QED
    BY <1>e, <1>m, <2>2
<1>1. NewestAreKept'
  <2>1. ASSUME NEW s \in (IF retention = 0 THEN ever ELSE Newest(ever, retention))', s # f
        PROVE  s \in Versions' \union caught'
    <3>1. s \in ever /\ s \in Seconds
      BY <1>e, <2>1 DEF Newest
    <3>2. retention # 0 => Cardinality(later'[s] \intersect ever') < retention
      BY <2>1 DEF Newest
    <3>3. retention # 0 => s \in Newest(ever, retention)
      BY <1>m, <2>1, <3>1, <3>2 DEF Newest
    <3>4. s \in Versions \union caught
      BY <3>1, <3>3 DEF NewestAreKept
    <3>5. QED
      BY <1>c, <2>1, <3>1, <3>4 DEF Versions
  <2>2. QED
    BY <2>1 DEF NewestAreKept
<1>2. RemovalIsDue'
  <2>1. ASSUME NEW r \in Runs, backup'[r].step = "remove", NEW s \in backup'[r].listed
        PROVE  \/ s \in caught'
               \/ retention' # 0 /\ ~(Cardinality(later'[s] \intersect ever') < retention')
    <3>1. backup'[r] = backup[r] /\ backup[r].step = "remove" /\ s \in backup[r].listed
      BY <2>1
    <3>2. s \in Seconds
      BY <3>1 DEF FilesInv, BackupTypeOK, RunStates
    <3>3. CASE s = f
      BY <3>1, <3>3 DEF Touch
    <3>4. CASE s # f
      BY <1>c, <1>m, <3>1, <3>2, <3>4 DEF RemovalIsDue
    <3>5. QED
      BY <3>3, <3>4
  <2>2. QED
    BY <2>1 DEF RemovalIsDue
<1>3. QED
  BY <1>1, <1>2

LEMMA KeptInit == BackupInit => KeptInv
<1> SUFFICES ASSUME BackupInit PROVE KeptInv
  OBVIOUS
<1>1. /\ unlinked = {} /\ ever = {}
      /\ \A r \in Runs : backup[r].step = "idle"
  BY DEF BackupInit, Idle
<1>2. NewestAreKept
  BY <1>1 DEF NewestAreKept, Newest
<1>3. QED
  BY <1>1, <1>2 DEF KeptInv, RemovalIsDue, NothingGoes

LEMMA KeptStep == WriteInv /\ KeptInv /\ [BackupNext]_backupVars => NewestAreKept' /\ RemovalIsDue'
<1> SUFFICES ASSUME WriteInv, FilesInv, KeptInv, [BackupNext]_backupVars
             PROVE  NewestAreKept' /\ RemovalIsDue'
  BY DEF WriteInv
<1>k. NewestAreKept /\ RemovalIsDue
  BY DEF KeptInv
<1>1. ASSUME NEW r \in Runs, OpenFile(r) PROVE NewestAreKept' /\ RemovalIsDue'
  <2>1. PICK f \in Seconds, b \in RunStates :
           /\ Moved(r, b) /\ b.step = "write"
           /\ UNCHANGED retention /\ Touch(f) /\ ever' = ever \union {f}
           /\ f \in Versions'
           /\ \A s \in Seconds : s # f => versions'[s] = versions[s]
    BY <1>1, OpenKeeps
  <2>2. \A q \in Runs : backup'[q].step = "remove" => backup'[q] = backup[q]
    BY <2>1, MovedOne
  <2>3. QED
    BY <1>k, <2>1, <2>2, TouchKeeps
<1>2. ASSUME NEW r \in Runs, NEW ok \in BOOLEAN, WriteFile(r, ok)
      PROVE  NewestAreKept' /\ RemovalIsDue'
  <2>1. PICK f \in ever, b \in RunStates :
           /\ f \in Seconds /\ f = backup[r].file /\ backup[r].step = "write"
           /\ backup[r].config \in Configs
           /\ Moved(r, b) /\ b.step = (IF ok THEN "sidecar" ELSE "report")
           /\ UNCHANGED <<retention, ever>>
           /\ \/ r \in unlinked /\ UNCHANGED <<versions, later, caught>>
              \/ /\ r \notin unlinked /\ versions'[f] \in Leaves(r, ok)
                 /\ \A s \in Seconds : s # f => versions'[s] = versions[s]
                 /\ Touch(f) \/ (versions' = versions /\ UNCHANGED <<later, caught>>)
    BY <1>2, WriteKeeps
  <2>2. \A q \in Runs : backup'[q].step = "remove" => backup'[q] = backup[q]
    BY <2>1, MovedOne
  <2>3. CASE UNCHANGED <<versions, later, caught>>
    <3>1. UNCHANGED <<retention, ever, versions, later, caught>>
      BY <2>1, <2>3
    <3>2. NewestAreKept'
      BY <1>k, <3>1 DEF NewestAreKept, Newest, Versions
    <3>3. RemovalIsDue'
      BY <1>k, <2>2, <3>1 DEF RemovalIsDue
    <3>4. QED
      BY <3>2, <3>3
  <2>4. CASE /\ r \notin unlinked /\ versions'[f] \in Leaves(r, ok) /\ Touch(f)
             /\ \A s \in Seconds : s # f => versions'[s] = versions[s]
    <3>1. versions[f] # NoVersion
      BY <2>1, <2>4 DEF WriteInv, LinksAreSane
    <3>2. f \in Versions'
      BY <2>1, <2>4, <3>1, BackupConstants DEF Leaves, Versions, NoVersion
    <3>3. ever' = ever \union {f}
      BY <2>1
    <3>4. QED
      BY <1>k, <2>1, <2>2, <2>4, <3>2, <3>3, TouchKeeps
  <2>5. QED
    BY <2>1, <2>3, <2>4
<1>3. ASSUME NEW r \in Runs, NEW s \in Seconds, NEW removed \in BOOLEAN, Remove(r, s, removed)
      PROVE  NewestAreKept' /\ RemovalIsDue'
  <2>1. /\ backup[r].step = "remove" /\ s \in backup[r].listed
        /\ UNCHANGED <<retention, later, ever, caught>>
        /\ \A z \in Seconds : z # s => versions'[z] = versions[z]
    BY <1>3, RemoveKeeps
  <2>2. PICK b \in RunStates : Moved(r, b) /\ b.listed = backup[r].listed \ {s}
    BY <1>3, Removes
  <2>3. backup'[r] = b /\ \A q \in Runs : q # r => backup'[q] = backup[q]
    BY <2>2, MovedOne
  <2>4. \A q \in Runs : backup'[q].step = "remove" =>
          backup[q].step = "remove" /\ backup'[q].listed \subseteq backup[q].listed
    BY <2>1, <2>2, <2>3
  <2>5. RemovalIsDue'
    BY <1>k, <2>1, <2>4 DEF RemovalIsDue
  <2>6. \/ s \in caught
        \/ retention # 0 /\ ~(Cardinality(later[s] \intersect ever) < retention)
    BY <1>k, <2>1 DEF RemovalIsDue
  <2>7. ASSUME NEW z \in IF retention = 0 THEN ever ELSE Newest(ever, retention)
        PROVE  z \in Versions' \union caught
    <3>1. z \in ever /\ z \in Seconds
      BY <2>7 DEF Newest, FilesInv, BackupTypeOK
    <3>2. z \in Versions \union caught
      BY <1>k, <2>7 DEF NewestAreKept
    <3>3. CASE z = s
      BY <2>6, <2>7, <3>3 DEF Newest
    <3>4. CASE z # s
      BY <2>1, <3>1, <3>2, <3>4 DEF Versions
    <3>5. QED
      BY <3>3, <3>4
  <2>8. NewestAreKept'
    BY <2>1, <2>7 DEF NewestAreKept, Newest
  <2>9. QED
    BY <2>5, <2>8
<1>4. CASE Quiet
  <2>1. /\ UNCHANGED <<retention, versions, later, ever, caught>>
        /\ \A q \in Runs : backup'[q].step = "remove" => backup'[q] = backup[q] \/ Sort(q)
    BY <1>4 DEF Quiet
  <2>2. NewestAreKept'
    BY <1>k, <2>1 DEF NewestAreKept, Newest, Versions
  <2>3. ASSUME NEW q \in Runs, backup'[q].step = "remove", NEW s \in backup'[q].listed
        PROVE  s \in caught \/ (retention # 0 /\ ~(Cardinality(later[s] \intersect ever) < retention))
    <3>1. CASE backup'[q] = backup[q]
      BY <1>k, <2>3, <3>1 DEF RemovalIsDue
    <3>2. CASE Sort(q)
      <4>1. PICK b \in RunStates, there \in BOOLEAN, old \in SUBSET Seconds :
               /\ Moved(q, b) /\ b.listed = old
               /\ old = IF there THEN Old(backup[q].listed) ELSE {}
        BY <3>2, SortMoves
      <4>2. s \in Old(backup[q].listed)
        BY <2>3, <4>1, MovedOne
      <4>3. backup[q].listed \in SUBSET ever
        BY DEF FilesInv, FilesAreSane, RunIsSane
      <4>4. PICK listed \in SUBSET ever : listed = backup[q].listed
        BY <4>3
      <4>5. QED
        BY <4>2, <4>4, OldAreOld
    <3>3. QED
      BY <2>1, <2>3, <3>1, <3>2
  <2>4. RemovalIsDue'
    BY <2>1, <2>3 DEF RemovalIsDue
  <2>5. QED
    BY <2>2, <2>4
<1>5. QED
  BY <1>1, <1>2, <1>3, <1>4, QuietSteps

LEMMA NothingStep == KeptInv /\ FilesInv /\ [BackupNext]_backupVars => NothingGoes'
<1> SUFFICES ASSUME KeptInv, FilesInv, [BackupNext]_backupVars, retention' = 0
             PROVE  unlinked' = {} /\ \A q \in Runs : backup'[q].step # "remove"
  BY DEF NothingGoes
<1>k. retention = 0 => unlinked = {} /\ \A q \in Runs : backup[q].step # "remove"
  BY DEF KeptInv, NothingGoes
<1>1. ASSUME NEW r \in Runs, NEW b \in RunStates, Moved(r, b), b.step # "remove",
             UNCHANGED retention, unlinked' \subseteq unlinked
      PROVE  unlinked' = {} /\ \A q \in Runs : backup'[q].step # "remove"
  BY <1>1, <1>k, MovedOne
<1>2. ASSUME NEW r \in Runs, OpenFile(r)
      PROVE  unlinked' = {} /\ \A q \in Runs : backup'[q].step # "remove"
  BY <1>1, <1>2, OpenKeeps
<1>3. ASSUME NEW r \in Runs, NEW ok \in BOOLEAN, WriteFile(r, ok)
      PROVE  unlinked' = {} /\ \A q \in Runs : backup'[q].step # "remove"
  <2>1. PICK b \in RunStates : /\ Moved(r, b) /\ b.step = (IF ok THEN "sidecar" ELSE "report")
                               /\ UNCHANGED retention /\ unlinked' = unlinked \ {r}
    BY <1>3, WriteKeeps
  <2>2. QED
    BY <1>1, <2>1
<1>4. ASSUME NEW r \in Runs, NEW s \in Seconds, NEW removed \in BOOLEAN, Remove(r, s, removed)
      PROVE  unlinked' = {} /\ \A q \in Runs : backup'[q].step # "remove"
  <2>1. backup[r].step = "remove" /\ UNCHANGED retention
    BY <1>4, RemoveKeeps
  <2>2. QED
    BY <1>k, <2>1
<1>5. CASE Quiet
  <2>1. /\ UNCHANGED retention /\ (unlinked' = unlinked \/ unlinked' = {})
        /\ \A q \in Runs : backup'[q].step = "remove" => backup'[q] = backup[q] \/ Sort(q)
    BY <1>5 DEF Quiet
  <2>2. ASSUME NEW q \in Runs, backup'[q].step = "remove" PROVE FALSE
    <3>1. Sort(q)
      BY <1>k, <2>1, <2>2
    <3>2. PICK b \in RunStates, there \in BOOLEAN, old \in SUBSET Seconds :
             /\ Moved(q, b) /\ b.step = (IF old = {} THEN "report" ELSE "remove")
             /\ old = IF there THEN Old(backup[q].listed) ELSE {}
      BY <3>1, SortMoves
    <3>3. old = {}
      BY <2>1, <3>2 DEF Old
    <3>4. QED
      BY <2>2, <3>2, <3>3, MovedOne
  <2>3. QED
    BY <1>k, <2>1, <2>2
<1>6. QED
  BY <1>2, <1>3, <1>4, <1>5, QuietSteps

\* Where runs do not overlap, the one that steps is the only one.
LEMMA Alone ==
  ASSUME FilesInv, NewestIsOwn, ~shared, ~overlapped, NEW r \in Runs, NEW b \in RunStates,
         Moved(r, b), backup[r].step # "idle"
  PROVE  /\ NoneBeside' /\ backup'[r] = b
         /\ \A q \in Runs : q # r => backup'[q].step = "idle" /\ backup[q].step = "idle"
<1>1. NoneBeside
  BY DEF NewestIsOwn
<1>2. /\ NoneBeside' /\ backup'[r] = b
      /\ \A q \in Runs : q # r => backup'[q] = Idle /\ backup[q] = Idle
  BY <1>1, OnlyOne
<1>3. QED
  BY <1>2 DEF Idle

\* It does not remove the version it has just written.
LEMMA OwnStays ==
  ASSUME WriteInv, KeptInv, NewestIsOwn, ~shared, ~overlapped,
         NEW r \in Runs, NEW s \in Seconds, NEW removed \in BOOLEAN, Remove(r, s, removed)
  PROVE  \E m \in ever : m \in Seconds /\ later[m] = {} /\ Readable(m) /\ Readable(m)'
<1>i. FilesInv
  BY DEF WriteInv
<1>1. /\ backup[r].step = "remove" /\ s \in backup[r].listed
      /\ \A z \in Seconds : z # s => versions'[z] = versions[z]
  BY <1>i, RemoveKeeps
<1>2. PICK m \in ever : later[m] = {} /\ Readable(m)
  BY <1>1 DEF NewestIsOwn, LastIsOwn, HasWritten
<1>3. retention # 0 /\ ~(Cardinality(later[s] \intersect ever) < retention)
  BY <1>1 DEF KeptInv, RemovalIsDue, NewestIsOwn
<1>4. retention \in Nat /\ m \in Seconds
  BY <1>i, BackupConstants DEF FilesInv, BackupTypeOK
<1>5. m = s => Cardinality(later[s] \intersect ever) = 0
  BY <1>2, FS_EmptySet
<1>6. m # s
  BY <1>3, <1>4, <1>5
<1>7. QED
  BY <1>1, <1>2, <1>4, <1>6 DEF Readable

LEMMA OwnStep == WriteInv /\ KeptInv /\ NewestIsOwn /\ [BackupNext]_backupVars => NewestIsOwn'
<1> SUFFICES ASSUME WriteInv, KeptInv, NewestIsOwn, [BackupNext]_backupVars,
                    ~shared', ~overlapped'
             PROVE  /\ NoneBeside' /\ unlinked' = {} /\ caught' = {}
                    /\ \A q \in Runs : HasWritten(backup[q])' \/ backup'[q].step = "write" =>
                         LastIsOwn(backup[q])'
  BY DEF NewestIsOwn
<1>i. FilesInv
  BY DEF WriteInv
<1>d. ASSUME \A q \in Runs : \A b \in {backup'[q]} : HasWritten(b) \/ b.step = "write" =>
               \E m \in ever' : /\ later'[m] = {}
                                /\ IF b.step = "write" THEN b.file = m ELSE Readable(m)'
      PROVE  \A q \in Runs : HasWritten(backup[q])' \/ backup'[q].step = "write" =>
                         LastIsOwn(backup[q])'
  BY <1>d DEF HasWritten, LastIsOwn, Readable
<1>l. ASSUME ~shared, ~overlapped
      PROVE  /\ NoneBeside /\ unlinked = {} /\ caught = {}
             /\ \A q \in Runs : \A b \in {backup[q]} : HasWritten(b) \/ b.step = "write" =>
                  \E m \in ever : /\ later[m] = {}
                                  /\ IF b.step = "write" THEN b.file = m ELSE Readable(m)
  BY <1>l DEF NewestIsOwn, HasWritten, LastIsOwn, Readable
<1>1. ASSUME NEW r \in Runs, OpenFile(r)
      PROVE  /\ NoneBeside' /\ unlinked' = {} /\ caught' = {}
             /\ \A q \in Runs : \A b \in {backup'[q]} : HasWritten(b) \/ b.step = "write" =>
                  \E m \in ever' : /\ later'[m] = {}
                                   /\ IF b.step = "write" THEN b.file = m ELSE Readable(m)'
  <2>1. PICK f \in Seconds, b \in RunStates :
           /\ backup[r].step = "open" /\ Moved(r, b) /\ b.step = "write" /\ b.file = f
           /\ UNCHANGED <<unlinked, overlapped>>
           /\ Touch(f) /\ ever' = ever \union {f} /\ shared' = (shared \/ f \in ever)
    BY <1>1, <1>i, OpenKeeps
  <2>2. ~shared /\ ~overlapped
    BY <2>1
  <2>3. /\ NoneBeside' /\ backup'[r] = b
        /\ \A q \in Runs : q # r => backup'[q].step = "idle" /\ backup[q].step = "idle"
    BY <1>i, <2>1, <2>2, Alone
  <2>4. caught' = {} /\ unlinked' = {}
    BY <1>l, <2>1, <2>2, <2>3 DEF Touch
  <2>5. later'[f] = {} /\ f \in ever'
    BY <1>i, <2>1, TouchTypes
  <2>6. \A q \in Runs : \A a \in {backup'[q]} : HasWritten(a) \/ a.step = "write" =>
                  \E m \in ever' : /\ later'[m] = {}
                                   /\ IF a.step = "write" THEN a.file = m ELSE Readable(m)'
    BY <2>1, <2>3, <2>5 DEF HasWritten
  <2>7. QED
    BY <2>3, <2>4, <2>6
<1>2. ASSUME NEW r \in Runs, NEW ok \in BOOLEAN, WriteFile(r, ok)
      PROVE  /\ NoneBeside' /\ unlinked' = {} /\ caught' = {}
             /\ \A q \in Runs : \A b \in {backup'[q]} : HasWritten(b) \/ b.step = "write" =>
                  \E m \in ever' : /\ later'[m] = {}
                                   /\ IF b.step = "write" THEN b.file = m ELSE Readable(m)'
  <2>1. PICK f \in ever, b \in RunStates :
           /\ f \in Seconds /\ f = backup[r].file /\ backup[r].step = "write"
           /\ backup[r].config \in Configs
           /\ Moved(r, b) /\ b.step = (IF ok THEN "sidecar" ELSE "report")
           /\ UNCHANGED <<ever, overlapped, shared>> /\ unlinked' = unlinked \ {r}
           /\ \/ r \in unlinked /\ UNCHANGED <<versions, later, caught>>
              \/ /\ r \notin unlinked /\ versions'[f] \in Leaves(r, ok)
                 /\ \A s \in Seconds : s # f => versions'[s] = versions[s]
                 /\ Touch(f) \/ (versions' = versions /\ UNCHANGED <<later, caught>>)
    BY <1>2, <1>i, WriteKeeps
  <2>2. ~shared /\ ~overlapped
    BY <2>1
  <2>3. /\ NoneBeside' /\ backup'[r] = b
        /\ \A q \in Runs : q # r => backup'[q].step = "idle" /\ backup[q].step = "idle"
    BY <1>i, <2>1, <2>2, Alone
  <2>4. /\ unlinked = {} /\ caught = {} /\ unlinked' = {}
    BY <1>l, <2>1, <2>2
  <2>5. caught' = {}
    BY <2>1, <2>3, <2>4 DEF Touch
  <2>6. later[f] = {}
    BY <1>l, <2>1, <2>2
  <2>7. later'[f] = {}
    BY <1>i, <2>1, <2>6, TouchTypes
  <2>8. versions[f] = Unwritten
    BY <2>1, <2>2, <2>4 DEF WriteInv, FilesAreOwn
  <2>9. ok => Readable(f)'
    BY <2>1, <2>4, <2>8, BackupConstants DEF Leaves, Readable
  <2>10. b.step # "write" /\ (HasWritten(b) => ok)
    BY <2>1 DEF HasWritten
  <2>11. \A q \in Runs : \A a \in {backup'[q]} : HasWritten(a) \/ a.step = "write" =>
                  \E m \in ever' : /\ later'[m] = {}
                                   /\ IF a.step = "write" THEN a.file = m ELSE Readable(m)'
    BY <2>1, <2>3, <2>7, <2>9, <2>10 DEF HasWritten
  <2>12. QED
    BY <2>3, <2>4, <2>5, <2>11
<1>3. ASSUME NEW r \in Runs, NEW s \in Seconds, NEW removed \in BOOLEAN, Remove(r, s, removed)
      PROVE  /\ NoneBeside' /\ unlinked' = {} /\ caught' = {}
             /\ \A q \in Runs : \A b \in {backup'[q]} : HasWritten(b) \/ b.step = "write" =>
                  \E m \in ever' : /\ later'[m] = {}
                                   /\ IF b.step = "write" THEN b.file = m ELSE Readable(m)'
  <2>1. /\ backup[r].step = "remove" /\ s \in backup[r].listed
        /\ UNCHANGED <<later, ever, caught, overlapped, shared>>
        /\ \A z \in Seconds : z # s => versions'[z] = versions[z]
        /\ removed => unlinked' =
             unlinked \union {q \in Runs : backup[q].step = "write" /\ backup[q].file = s}
        /\ ~removed => UNCHANGED unlinked
    BY <1>3, <1>i, RemoveKeeps
  <2>2. PICK b \in RunStates : /\ Moved(r, b) /\ b.listed = backup[r].listed \ {s}
                               /\ b.step = (IF b.listed = {} THEN "report" ELSE "remove")
    BY <1>3, <1>i, Removes
  <2>3. ~shared /\ ~overlapped
    BY <2>1
  <2>4. /\ NoneBeside' /\ backup'[r] = b
        /\ \A q \in Runs : q # r => backup'[q].step = "idle" /\ backup[q].step = "idle"
    BY <1>i, <2>1, <2>2, <2>3, Alone
  <2>5. unlinked = {} /\ caught = {} /\ caught' = {}
    BY <1>l, <2>1, <2>3
  <2>6. unlinked' = {}
    BY <2>1, <2>4, <2>5
  <2>7. PICK m \in ever : later[m] = {} /\ Readable(m)'
    BY <1>3, <2>3, OwnStays
  <2>9. m \in ever' /\ later'[m] = {} /\ Readable(m)'
    BY <2>1, <2>7
  <2>10. b.step # "write"
    BY <2>2
  <2>11. \A q \in Runs : \A a \in {backup'[q]} : HasWritten(a) \/ a.step = "write" =>
                  \E n \in ever' : /\ later'[n] = {}
                                   /\ IF a.step = "write" THEN a.file = n ELSE Readable(n)'
    BY <2>4, <2>9, <2>10 DEF HasWritten
  <2>12. QED
    BY <2>4, <2>5, <2>6, <2>11
<1>4. ASSUME Quiet
      PROVE  /\ NoneBeside' /\ unlinked' = {} /\ caught' = {}
             /\ \A q \in Runs : \A b \in {backup'[q]} : HasWritten(b) \/ b.step = "write" =>
                  \E m \in ever' : /\ later'[m] = {}
                                   /\ IF b.step = "write" THEN b.file = m ELSE Readable(m)'
  <2>1. /\ UNCHANGED <<versions, later, ever, caught, shared>>
        /\ unlinked' = unlinked \/ unlinked' = {}
        /\ overlapped => overlapped'
        /\ NoneBeside /\ ~overlapped' => NoneBeside'
        /\ \A q \in Runs : HasWritten(backup'[q]) => HasWritten(backup[q])
        /\ \A q \in Runs : backup'[q].step = "write" => backup'[q] = backup[q]
    BY <1>4 DEF Quiet
  <2>2. /\ NoneBeside /\ unlinked = {} /\ caught = {}
        /\ \A q \in Runs : \A b \in {backup[q]} : HasWritten(b) \/ b.step = "write" =>
             \E m \in ever : /\ later[m] = {}
                             /\ IF b.step = "write" THEN b.file = m ELSE Readable(m)
    BY <1>l, <2>1
  <2>3. ASSUME NEW q \in Runs, NEW b \in {backup'[q]}, HasWritten(b) \/ b.step = "write"
        PROVE  \E m \in ever' : /\ later'[m] = {}
                                /\ IF b.step = "write" THEN b.file = m ELSE Readable(m)'
    <3>1. CASE b.step = "write"
      <4>1. b = backup[q]
        BY <2>1, <2>3, <3>1
      <4>2. QED
        BY <2>1, <2>2, <3>1, <4>1
    <3>2. CASE HasWritten(b)
      <4>1. HasWritten(backup[q]) /\ b.step # "write"
        BY <2>1, <2>3, <3>2 DEF HasWritten
      <4>2. backup[q].step # "write"
        BY <4>1 DEF HasWritten
      <4>3. PICK m \in ever : later[m] = {} /\ Readable(m)
        BY <2>2, <4>1, <4>2
      <4>4. m \in ever' /\ later'[m] = {} /\ Readable(m)'
        BY <2>1, <4>3 DEF Readable
      <4>5. QED
        BY <4>1, <4>4
    <3>3. QED
      BY <2>3, <3>1, <3>2
  <2>4. QED
    BY <2>1, <2>2, <2>3
<1>5. QED
  BY <1>1, <1>2, <1>3, <1>4, <1>d, <1>i, QuietSteps

LEMMA ReadableStep ==
  RestoreInv /\ [BackupNext]_backupVars => SomethingIsReadable'
<1> SUFFICES ASSUME WriteInv, FilesInv, KeptInv, NewestIsOwn, SomethingIsReadable,
                    [BackupNext]_backupVars,
                    ~shared', retention' = 0 \/ ~overlapped',
                    good' \/ \E q \in Runs : HasWritten(backup'[q])
             PROVE  \E s \in Seconds : Readable(s)'
  BY DEF RestoreInv, WriteInv, SomethingIsReadable, HasWritten
<1>w. ASSUME ~shared, retention = 0 \/ ~overlapped,
             good \/ \E q \in Runs : HasWritten(backup[q])
      PROVE  \E s \in Seconds : Readable(s)
  BY <1>w DEF SomethingIsReadable
<1>1. ASSUME NEW r \in Runs, OpenFile(r) PROVE \E s \in Seconds : Readable(s)'
  <2>1. PICK f \in Seconds, b \in RunStates :
           /\ Moved(r, b) /\ b.step = "write"
           /\ UNCHANGED <<retention, good, overlapped>>
           /\ shared' = (shared \/ f \in ever)
           /\ \A s \in Seconds : s # f => versions'[s] = versions[s]
    BY <1>1, OpenKeeps
  <2>2. backup'[r] = b /\ \A q \in Runs : q # r => backup'[q] = backup[q]
    BY <2>1, MovedOne
  <2>3. \A q \in Runs : HasWritten(backup'[q]) => HasWritten(backup[q])
    BY <2>1, <2>2 DEF HasWritten
  <2>4. PICK s \in Seconds : Readable(s)
    BY <1>w, <2>1, <2>3
  <2>5. versions[f] = NoVersion
    BY <2>1 DEF FilesInv, FilesAreSane
  <2>6. s # f
    BY <2>4, <2>5 DEF Readable, NoVersion
  <2>7. QED
    BY <2>1, <2>4, <2>6 DEF Readable
<1>2. ASSUME NEW r \in Runs, NEW ok \in BOOLEAN, WriteFile(r, ok)
      PROVE  \E s \in Seconds : Readable(s)'
  <2>1. PICK f \in ever, b \in RunStates :
           /\ f \in Seconds /\ f = backup[r].file /\ backup[r].step = "write"
           /\ backup[r].config \in Configs
           /\ Moved(r, b) /\ b.step = (IF ok THEN "sidecar" ELSE "report")
           /\ UNCHANGED <<retention, good, overlapped, shared>>
           /\ \/ r \in unlinked /\ UNCHANGED <<versions, later, caught>>
              \/ /\ r \notin unlinked /\ versions'[f] \in Leaves(r, ok)
                 /\ \A s \in Seconds : s # f => versions'[s] = versions[s]
    BY <1>2, WriteKeeps
  <2>2. backup'[r] = b /\ \A q \in Runs : q # r => backup'[q] = backup[q]
    BY <2>1, MovedOne
  <2>3. unlinked = {}
    BY <2>1 DEF KeptInv, NothingGoes, NewestIsOwn
  <2>4. versions[f] = Unwritten
    BY <2>1, <2>3 DEF WriteInv, FilesAreOwn
  <2>5. CASE ok
    <3>1. versions'[f] = [by |-> r, config |-> backup[r].config]
      BY <2>1, <2>3, <2>4, <2>5 DEF Leaves
    <3>2. QED
      BY <2>1, <3>1, BackupConstants DEF Readable
  <2>6. CASE ~ok
    <3>1. \A q \in Runs : HasWritten(backup'[q]) => HasWritten(backup[q])
      BY <2>1, <2>2, <2>6 DEF HasWritten
    <3>2. PICK s \in Seconds : Readable(s)
      BY <1>w, <2>1, <3>1
    <3>3. s # f
      BY <2>4, <3>2 DEF Readable, Unwritten
    <3>4. QED
      BY <2>1, <2>3, <3>2, <3>3 DEF Readable
  <2>7. QED
    BY <2>5, <2>6
<1>3. ASSUME NEW r \in Runs, NEW s \in Seconds, NEW removed \in BOOLEAN, Remove(r, s, removed)
      PROVE  \E z \in Seconds : Readable(z)'
  <2>1. backup[r].step = "remove" /\ UNCHANGED <<retention, overlapped, shared>>
    BY <1>3, RemoveKeeps
  <2>2. retention # 0
    BY <2>1 DEF KeptInv, NothingGoes
  <2>3. QED
    BY <1>3, <2>1, <2>2, OwnStays
<1>4. CASE Quiet
  <2>1. /\ UNCHANGED <<retention, versions, shared>>
        /\ overlapped => overlapped'
        /\ good' => good \/ \E q \in Runs : HasWritten(backup[q])
        /\ \A q \in Runs : HasWritten(backup'[q]) => HasWritten(backup[q])
    BY <1>4 DEF Quiet
  <2>2. PICK s \in Seconds : Readable(s)
    BY <1>w, <2>1
  <2>3. QED
    BY <2>1, <2>2 DEF Readable
<1>5. QED
  BY <1>1, <1>2, <1>3, <1>4, QuietSteps

LEMMA RestoreInit == BackupInit => RestoreInv
<1> SUFFICES ASSUME BackupInit PROVE RestoreInv
  OBVIOUS
<1>1. /\ unlinked = {} /\ caught = {} /\ good = FALSE
      /\ \A r \in Runs : backup[r].step = "idle"
  BY DEF BackupInit, Idle
<1>2. \A r \in Runs : ~HasWritten(backup[r])
  BY <1>1 DEF HasWritten
<1>3. NewestIsOwn
  BY <1>1, <1>2 DEF NewestIsOwn, NoneBeside
<1>4. SomethingIsReadable
  BY <1>1, <1>2 DEF SomethingIsReadable
<1>5. QED
  BY <1>3, <1>4, WriteInvInit, KeptInit DEF RestoreInv

LEMMA RestoreStep == RestoreInv /\ [BackupNext]_backupVars => RestoreInv'
<1> SUFFICES ASSUME RestoreInv, [BackupNext]_backupVars PROVE RestoreInv'
  OBVIOUS
<1>1. WriteInv /\ KeptInv /\ NewestIsOwn /\ FilesInv
  BY DEF RestoreInv, WriteInv
<1>2. WriteInv'
  BY <1>1, FilesStep, LinksStep, OwnFilesStep DEF WriteInv
<1>3. KeptInv'
  BY <1>1, KeptStep, NothingStep DEF KeptInv
<1>4. NewestIsOwn' /\ SomethingIsReadable'
  BY <1>1, OwnStep, ReadableStep
<1>5. QED
  BY <1>2, <1>3, <1>4 DEF RestoreInv

LEMMA RestoreIsEnough == RestoreInv => BackupsCanBeRestored
<1> SUFFICES ASSUME RestoreInv PROVE BackupsCanBeRestored
  OBVIOUS
<1>1. FilesInv /\ NewestAreKept /\ SomethingIsReadable
  BY DEF RestoreInv, WriteInv, KeptInv
<1>2. GoodVersionRemains
  BY <1>1 DEF GoodVersionRemains, SomethingIsReadable
<1>3. ASSUME NEW s \in Seconds, VerifiesOk(s) PROVE Readable(s)
  <2>1. /\ versions[s] \in FileStates /\ sidecars[s] \in {None, "empty"} \union Runs
        /\ versions[s] # NoVersion /\ sidecars[s] # None /\ sidecars[s] = versions[s].by
    BY <1>1, <1>3 DEF FilesInv, BackupTypeOK, VerifiesOk
  <2>2. versions[s].by # "empty" => versions[s].by \in Runs
    BY <2>1
  <2>3. Unwritten.by = "nobody" /\ HalfWritten.by = "torn"
    BY DEF Unwritten, HalfWritten
  <2>4. versions[s] \in WholeVersions
    BY <2>1, <2>2, <2>3, BackupConstants DEF FileStates
  <2>5. QED
    BY <2>1, <2>4, BackupConstants DEF Readable
<1>4. QED
  BY <1>1, <1>2, <1>3 DEF BackupsCanBeRestored, VerifiedIsReadable

\* However the runs of a device overlap, fail or die: none removes one of the
\* versions that are to be kept; once one has succeeded something can be read,
\* unless runs share a second or clean up past each other; and what verifies can
\* be read.
THEOREM BackupsStayRestorable == BackupSpec => []BackupsCanBeRestored
  BY RestoreInit, RestoreStep, RestoreIsEnough, PTL DEF BackupSpec

\* Two versions are compared when there are two, and only then.
LEMMA MaxIsGreatest ==
  ASSUME NEW S \in SUBSET Nat, NEW m \in S, \A s \in S : s <= m
  PROVE  Max(S) = m
<1>1. ASSUME NEW x \in S, \A y \in S : x >= y PROVE x = m
  <2>1. x >= m /\ x <= m /\ x \in Nat /\ m \in Nat
    BY <1>1
  <2>2. QED
    BY <2>1
<1>2. \A y \in S : m >= y
  OBVIOUS
<1>3. QED
  BY <1>1, <1>2 DEF Max

LEMMA TwoAreTwo ==
  ASSUME NEW S \in SUBSET Seconds, NEW m \in S
  PROVE  Cardinality(S) >= 2 <=> S \ {m} # {}
<1>1. IsFiniteSet(Seconds)
  BY FS_Interval, BackupConstants DEF Seconds
<1>2. IsFiniteSet(S) /\ IsFiniteSet(S \ {m})
  BY <1>1, FS_Subset
<1>3. Cardinality(S \ {m}) = Cardinality(S) - 1 /\ Cardinality(S) \in Nat
  BY <1>2, FS_RemoveElement, FS_CardinalityType
<1>4. Cardinality(S \ {m}) \in Nat /\ (Cardinality(S \ {m}) = 0 <=> S \ {m} = {})
  BY <1>2, FS_EmptySet, FS_CardinalityType
<1>5. QED
  BY <1>3, <1>4

\* The two newest survive a clean-up that keeps two or all.
LEMMA TopIsNewest ==
  ASSUME FilesInv, InOrder, NEW S \in SUBSET ever, NEW m \in S, \A s \in S : s <= m,
         NEW n \in Nat, n > 0
  PROVE  m \in Newest(S, n)
<1>1. ever \subseteq Nat
  BY BackupConstants DEF FilesInv, BackupTypeOK
<1>2. ASSUME NEW t \in later[m] \intersect S PROVE FALSE
  <2>1. t \in ever /\ m \in ever /\ m < t /\ t <= m
    BY <1>2 DEF InOrder
  <2>2. QED
    BY <1>1, <2>1
<1>3. Cardinality(later[m] \intersect S) = 0
  BY <1>2, FS_EmptySet
<1>4. QED
  BY <1>3 DEF Newest

LEMMA SecondIsNewest ==
  ASSUME FilesInv, InOrder, NEW S \in SUBSET ever, NEW m \in S, \A s \in S : s <= m,
         NEW k \in S \ {m}, \A s \in S \ {m} : s <= k,
         NEW n \in Nat, n > 1
  PROVE  k \in Newest(S, n)
<1>1. ever \subseteq Nat
  BY BackupConstants DEF FilesInv, BackupTypeOK
<1>2. ASSUME NEW t \in later[k] \intersect S PROVE t = m
  <2>1. t \in ever /\ k \in ever /\ k < t
    BY <1>2 DEF InOrder
  <2>2. QED
    BY <1>1, <1>2, <2>1
<1>3. later[k] \intersect S = {} \/ later[k] \intersect S = {m}
  BY <1>2
<1>4. Cardinality(later[k] \intersect S) \in {0, 1}
  BY <1>3, FS_EmptySet, FS_Singleton
<1>5. QED
  BY <1>4 DEF Newest

\* What the newest of a set is depends on the set and on its versions only.
LEMMA LatestFrame ==
  ASSUME NEW f, NEW g, NEW S, NEW c, LatestOf(f, S, c), \A s \in S : g[s] = f[s]
  PROVE  LatestOf(g, S, c)
  BY DEF LatestOf

LEMMA TellInit == BackupInit => TellInv /\ ~wrong
<1> SUFFICES ASSUME BackupInit PROVE TellInv /\ ~wrong
  OBVIOUS
<1>1. Versions = {} /\ lastGood = None /\ ~wrong /\ ~overlapped /\ ever = {}
  BY DEF BackupInit, Versions
<1>2. \A r \in Runs : backup[r].step = "idle" /\ backup[r].ok = FALSE
  BY DEF BackupInit, Idle
<1>3. QED
  BY <1>1, <1>2 DEF TellInv, NoneBeside, InFlight, LatestOf, InOrder, OwnIsLast

\* While one run is under way, and no other, it is enough to look at that one.
LEMMA TellOfOne ==
  ASSUME NEW r \in Runs, NoneBeside', ~overlapped', InOrder',
         \A q \in Runs : q # r => backup'[q] = Idle,
         OwnIsLast(backup[r])',
         InFlight(backup[r])' => OwnIsNext(backup[r])',
         ~InFlight(backup[r])' => LatestOf(versions, Versions, lastGood)'
  PROVE  TellInv'
<1>1. ~InFlight(Idle) /\ Idle.step = "idle"
  BY DEF InFlight, Idle
<1>2. \A q \in Runs : q # r => ~InFlight(backup[q])' /\ OwnIsLast(backup[q])'
  BY <1>1 DEF InFlight, OwnIsLast
<1>3. \A q \in Runs : InFlight(backup[q])' => OwnIsNext(backup[q])'
  BY <1>2
<1>4. QED
  BY <1>2, <1>3 DEF TellInv

\* A run that has not opened its version, and is alone, leaves the newest version
\* to the last success; and one that has, finds its own next to it.
LEMMA NobodyInFlight ==
  ASSUME FilesInv, TellInv, ~disturbed, ~shared, NEW r \in Runs,
         backup[r].step # "idle", ~InFlight(backup[r])
  PROVE  NoneBeside /\ ~overlapped /\ InOrder /\ LatestOf(versions, Versions, lastGood)
<1>1. NoneBeside /\ ~overlapped /\ InOrder
  BY DEF TellInv
<1>2. \A q \in Runs : q # r => backup[q].step = "idle" /\ backup[q].ok = FALSE
  BY <1>1 DEF NoneBeside, FilesInv, FilesAreSane, RunIsSane, Idle
<1>3. \A q \in Runs : ~InFlight(backup[q])
  BY <1>2 DEF InFlight
<1>4. QED
  BY <1>1, <1>3 DEF TellInv

LEMMA TellCapture ==
  ASSUME FilesInv, TellInv, NEW r \in Runs, NEW c \in Configs \union {None}, Capture(r, c)
  PROVE  TellInv'
<1> SUFFICES ASSUME ~disturbed', ~shared' PROVE TellInv'
  BY DEF TellInv
<1>1. ~disturbed /\ ~shared /\ UNCHANGED <<versions, later, ever, lastGood>>
  BY DEF Capture
<1>2. /\ \A q \in Runs : backup[q] = Idle
      /\ \A q \in Runs : q # r => backup'[q] = Idle
      /\ NoneBeside'
  BY CaptureAlone
<1>3. \A q \in Runs : ~InFlight(backup[q])
  BY <1>2 DEF InFlight, Idle
<1>4. LatestOf(versions, Versions, lastGood) /\ InOrder /\ ~overlapped
  BY <1>1, <1>3 DEF TellInv
<1>5. LatestOf(versions, Versions, lastGood)' /\ InOrder'
  BY <1>1, <1>4 DEF Versions, InOrder
<1>6. PICK b \in RunStates :
           /\ Moved(r, b) /\ b.step = (IF c = None THEN "report" ELSE "open")
           /\ b.config = c /\ b.file = (IF c = None THEN 0 ELSE second)
           /\ b.listed = {} /\ b.ok = FALSE
  BY CaptureMoves
<1>7. backup'[r] = b
  BY <1>6, MovedOne
<1>8. ~InFlight(backup[r])'
  BY <1>6, <1>7 DEF InFlight
<1>9. OwnIsLast(backup[r])'
  <2>1. \A s \in ever' : s <= second
    BY <1>1 DEF FilesInv, FilesAreSane
  <2>2. QED
    BY <1>6, <1>7, <2>1 DEF OwnIsLast
<1>10. ~overlapped'
  BY <1>2, <1>4 DEF Capture
<1>11. QED
  BY <1>2, <1>5, <1>8, <1>9, <1>10, TellOfOne

LEMMA TellOpen ==
  ASSUME FilesInv, TellInv, NEW r \in Runs, OpenFile(r)
  PROVE  TellInv'
<1> SUFFICES ASSUME ~disturbed', ~shared' PROVE TellInv'
  BY DEF TellInv
<1>t. /\ ever \in SUBSET Seconds /\ Seconds \subseteq Nat
      /\ \A s \in Seconds : versions[s] # NoVersion => s \in ever
  BY BackupConstants DEF FilesInv, BackupTypeOK, FilesAreSane
<1>1. PICK f \in Seconds, b \in RunStates :
           /\ f = backup[r].file /\ backup[r].step = "open" /\ f <= second
           /\ Moved(r, b) /\ b.step = "write" /\ b.file = f
           /\ b.config = backup[r].config /\ b.listed = backup[r].listed /\ b.ok = backup[r].ok
           /\ UNCHANGED <<retention, second, unlinked, good, overlapped>>
           /\ Touch(f) /\ ever' = ever \union {f} /\ shared' = (shared \/ f \in ever)
           /\ versions'[f] = Unwritten /\ f \in Versions'
           /\ \A s \in Seconds : s # f => versions'[s] = versions[s]
  BY OpenKeeps
<1>2. ~disturbed /\ ~shared /\ f \notin ever /\ UNCHANGED lastGood
  BY <1>1 DEF OpenFile
<1>3. ~InFlight(backup[r])
  BY <1>1 DEF InFlight, FilesInv, FilesAreSane, RunIsSane
<1>4. NoneBeside /\ ~overlapped /\ InOrder /\ LatestOf(versions, Versions, lastGood)
  BY <1>1, <1>2, <1>3, NobodyInFlight
<1>5. f \notin Versions
  BY <1>t, <1>2 DEF Versions
<1>6. Versions' = Versions \union {f}
  BY <1>1, <1>5 DEF Versions
<1>7. Versions' \ {f} = Versions
  BY <1>5, <1>6
<1>8. LatestOf(versions', Versions, lastGood)
  <2>1. \A s \in Versions : versions'[s] = versions[s]
    BY <1>1, <1>5 DEF Versions
  <2>2. QED
    BY <1>4, <2>1, LatestFrame
<1>9. LatestOf(versions', Versions' \ {f}, lastGood')
  BY <1>2, <1>7, <1>8
<1>o. \A s \in ever : s <= f
  BY <1>1, <1>2 DEF TellInv, OwnIsLast
<1>10. \A s \in ever' : s <= f
  BY <1>t, <1>1, <1>o
<1>11. \A s \in Versions' : s <= f
  BY <1>t, <1>6, <1>10, <1>1 DEF Versions
<1>12. /\ backup'[r] = b /\ NoneBeside'
       /\ \A q \in Runs : q # r => backup'[q] = Idle
  BY <1>1, <1>4, OnlyOne
<1>13. OwnIsNext(backup[r])'
  BY <1>1, <1>9, <1>11, <1>12 DEF OwnIsNext
<1>14. InFlight(backup[r])' /\ OwnIsLast(backup[r])'
  BY <1>1, <1>10, <1>12 DEF InFlight, OwnIsLast
<1>15. InOrder'
  <2>1. later'[f] = {} /\ \A s \in Seconds : s # f => later'[s] = later[s] \union {f}
    BY <1>1, TouchTypes
  <2>2. QED
    BY <1>t, <1>1, <1>2, <1>4, <1>10, <2>1 DEF InOrder
<1>16. QED
  BY <1>1, <1>4, <1>12, <1>13, <1>14, <1>15, TellOfOne

LEMMA TellWrite ==
  ASSUME RestoreInv, TellInv, NEW r \in Runs, NEW ok \in BOOLEAN, WriteFile(r, ok)
  PROVE  TellInv'
<1> SUFFICES ASSUME ~disturbed', ~shared' PROVE TellInv'
  BY DEF TellInv
<1>i. FilesInv /\ WriteInv
  BY DEF RestoreInv, WriteInv
<1>0. ~disturbed /\ ~shared /\ ok
  BY DEF WriteFile
<1>1. PICK f \in ever, b \in RunStates :
           /\ f \in Seconds /\ f = backup[r].file /\ backup[r].step = "write"
           /\ backup[r].config \in Configs
           /\ Moved(r, b) /\ b.step = (IF ok THEN "sidecar" ELSE "report")
           /\ ok => b.file = f /\ b.config = backup[r].config
           /\ UNCHANGED <<retention, second, ever, lastGood, good, overlapped, shared>>
           /\ unlinked' = unlinked \ {r}
           /\ \/ r \in unlinked /\ UNCHANGED <<versions, later, caught>>
              \/ /\ r \notin unlinked /\ versions'[f] \in Leaves(r, ok)
                 /\ \A s \in Seconds : s # f => versions'[s] = versions[s]
                 /\ Touch(f) \/ (versions' = versions /\ UNCHANGED <<later, caught>>)
  BY <1>i, WriteKeeps
<1>2. NoneBeside /\ ~overlapped /\ InOrder /\ OwnIsLast(backup[r]) /\ OwnIsNext(backup[r])
  BY <1>0, <1>1 DEF TellInv, InFlight
<1>3. r \notin unlinked
  BY <1>0, <1>2 DEF RestoreInv, NewestIsOwn
<1>4. versions'[f] = [by |-> r, config |-> backup[r].config]
  BY <1>0, <1>1, <1>3 DEF Leaves, WriteInv, FilesAreOwn, RestoreInv
<1>5. versions'[f].config = backup[r].config /\ versions'[f] # NoVersion
  BY <1>1, <1>4, BackupConstants DEF NoVersion
<1>6. PICK m \in Versions :
        /\ \A s \in Versions : s <= m
        /\ LatestOf(versions, Versions \ {m}, lastGood)
        /\ f = m
  BY <1>1, <1>2 DEF OwnIsNext
<1>7. Versions' = Versions
  BY <1>1, <1>3, <1>5, <1>6 DEF Versions
<1>8. LatestOf(versions', Versions \ {m}, lastGood)
  <2>1. \A s \in Versions \ {m} : versions'[s] = versions[s]
    BY <1>1, <1>3, <1>6 DEF Versions
  <2>2. QED
    BY <1>6, <2>1, LatestFrame
<1>9. LatestOf(versions', Versions' \ {m}, lastGood')
  BY <1>1, <1>7, <1>8
<1>10. /\ backup'[r] = b /\ NoneBeside'
       /\ \A q \in Runs : q # r => backup'[q] = Idle
  BY <1>1, <1>2, <1>i, OnlyOne
<1>11. b.step = "sidecar" /\ versions'[m].config = b.config
  BY <1>0, <1>1, <1>5, <1>6
<1>12. OwnIsNext(backup[r])'
  BY <1>6, <1>7, <1>9, <1>10, <1>11 DEF OwnIsNext
<1>13. InFlight(backup[r])' /\ OwnIsLast(backup[r])'
  BY <1>10, <1>11 DEF InFlight, OwnIsLast
<1>14. InOrder'
  <2>1. CASE UNCHANGED later
    BY <1>1, <1>2, <2>1 DEF InOrder
  <2>2. CASE Touch(f)
    <3>1. later'[f] = {} /\ \A s \in Seconds : s # f => later'[s] = later[s] \union {f}
      BY <1>1, <1>i, <2>2, TouchTypes
    <3>2. \A s \in ever : s <= f
      BY <1>1, <1>2 DEF OwnIsLast
    <3>3. ever \in SUBSET Seconds /\ Seconds \subseteq Nat
      BY <1>i, BackupConstants DEF FilesInv, BackupTypeOK
    <3>4. QED
      BY <1>1, <1>2, <3>1, <3>2, <3>3 DEF InOrder
  <2>3. QED
    BY <1>1, <1>3, <2>1, <2>2
<1>15. QED
  BY <1>1, <1>2, <1>10, <1>12, <1>13, <1>14, TellOfOne

\* The sidecar and the list change no version.
LEMMA TellOn ==
  ASSUME FilesInv, TellInv, ~disturbed, ~shared, NEW r \in Runs,
         backup[r].step \in {"sidecar", "list"},
         UNCHANGED <<versions, later, ever, lastGood, overlapped>>,
         NEW b \in RunStates, Moved(r, b), b.step \in {"list", "sort"},
         b.config = backup[r].config, b.step = "sort" => b.listed = Versions
  PROVE  TellInv'
<1>1. NoneBeside /\ ~overlapped /\ InOrder /\ OwnIsNext(backup[r])
  BY DEF TellInv, InFlight
<1>2. PICK m \in Versions :
        /\ \A s \in Versions : s <= m
        /\ LatestOf(versions, Versions \ {m}, lastGood)
        /\ versions[m].config = backup[r].config
  BY <1>1 DEF OwnIsNext
<1>3. Versions' = Versions
  BY DEF Versions
<1>4. /\ backup'[r] = b /\ NoneBeside'
      /\ \A q \in Runs : q # r => backup'[q] = Idle
  BY <1>1, OnlyOne
<1>5. LatestOf(versions', Versions' \ {m}, lastGood')
  BY <1>2, <1>3
<1>6. OwnIsNext(backup[r])'
  BY <1>2, <1>3, <1>4, <1>5 DEF OwnIsNext
<1>7. InFlight(backup[r])' /\ OwnIsLast(backup[r])'
  BY <1>4 DEF InFlight, OwnIsLast
<1>8. InOrder'
  BY <1>1 DEF InOrder
<1>9. QED
  BY <1>1, <1>4, <1>6, <1>7, <1>8, TellOfOne

LEMMA TellSidecar ==
  ASSUME FilesInv, TellInv, NEW r \in Runs, NEW ok \in BOOLEAN, WriteSidecar(r, ok)
  PROVE  TellInv'
<1> SUFFICES ASSUME ~disturbed', ~shared' PROVE TellInv'
  BY DEF TellInv
<1>1. /\ ~disturbed /\ ~shared /\ UNCHANGED <<versions, later, ever, lastGood, overlapped>>
      /\ backup[r].step = "sidecar" /\ Go(r, "list")
  BY DEF WriteSidecar
<1>2. "list" \in RunSteps
  BY DEF RunSteps
<1>3. PICK b \in RunStates : Moved(r, b) /\ b.step = "list" /\ b.config = backup[r].config
  BY <1>1, <1>2, GoMoves
<1>4. QED
  BY <1>1, <1>3, TellOn

LEMMA TellList ==
  ASSUME FilesInv, TellInv, NEW r \in Runs, ListFiles(r)
  PROVE  TellInv'
<1> SUFFICES ASSUME ~disturbed', ~shared' PROVE TellInv'
  BY DEF TellInv
<1>1. /\ ~disturbed /\ ~shared /\ UNCHANGED <<versions, later, ever, lastGood, overlapped>>
      /\ backup[r].step = "list"
  BY DEF ListFiles
<1>2. PICK b \in RunStates :
        /\ Moved(r, b) /\ b.step = "sort" /\ b.listed = Versions
        /\ b.config = backup[r].config
  BY ListMoves
<1>3. QED
  BY <1>1, <1>2, TellOn

\* A clean-up that keeps two or all removes neither the run's own version nor the
\* one that the last success has left.
LEMMA TellSort ==
  ASSUME FilesInv, retention # 1, TellInv, NEW r \in Runs, Sort(r)
  PROVE  TellInv'
<1> SUFFICES ASSUME ~disturbed', ~shared' PROVE TellInv'
  BY DEF TellInv
<1>t. /\ retention \in Nat /\ ever \in SUBSET Seconds /\ Seconds \subseteq Nat
      /\ Versions \in SUBSET ever
  BY BackupConstants DEF FilesInv, BackupTypeOK, Versions, FilesAreSane
<1>1. /\ ~disturbed /\ ~shared /\ backup[r].step = "sort"
      /\ UNCHANGED <<versions, later, ever, lastGood, overlapped>>
  BY DEF Sort
<1>2. NoneBeside /\ ~overlapped /\ InOrder /\ OwnIsNext(backup[r])
  BY <1>1 DEF TellInv, InFlight
<1>3. PICK m \in Versions :
        /\ \A s \in Versions : s <= m
        /\ LatestOf(versions, Versions \ {m}, lastGood)
        /\ versions[m].config = backup[r].config
        /\ backup[r].listed \subseteq Versions
  BY <1>1, <1>2 DEF OwnIsNext
<1>4. PICK listed \in SUBSET Versions : listed = backup[r].listed
  BY <1>3
<1>5. PICK b \in RunStates, there \in BOOLEAN, old \in SUBSET Seconds :
           /\ Moved(r, b) /\ b.step = (IF old = {} THEN "report" ELSE "remove")
           /\ there = (backup[r].listed \subseteq Versions)
           /\ old = IF there THEN Old(backup[r].listed) ELSE {}
           /\ b.listed = old /\ b.ok = (there /\ old = {})
           /\ b.config = backup[r].config /\ b.file = backup[r].file
           /\ good' = (good \/ (there /\ old = {}))
  BY SortMoves
<1>6. old = Old(listed) /\ b.ok = (old = {})
  BY <1>3, <1>4, <1>5
<1>7. ASSUME NEW k \in Versions, k = m \/ IsGreatest(k, Versions \ {m})
      PROVE  k \notin old
  <2>1. SUFFICES ASSUME k \in listed, retention # 0 PROVE k \in Newest(listed, retention)
    BY <1>6 DEF Old
  <2>2. listed \in SUBSET ever /\ retention > 0 /\ retention > 1
    <3>1. retention > 0 /\ retention > 1
      BY <1>t, <2>1
    <3>2. listed \in SUBSET ever
      BY <1>t
    <3>3. QED
      BY <3>1, <3>2
  <2>3. \A s \in listed : s <= m
    BY <1>3, <1>4
  <2>4. CASE k = m
    BY <1>2, <1>t, <2>1, <2>2, <2>3, <2>4, TopIsNewest
  <2>5. CASE IsGreatest(k, Versions \ {m})
    <3>1. CASE m \in listed
      <4>1. k \in listed \ {m} /\ \A s \in listed \ {m} : s <= k
        BY <1>4, <2>1, <2>5 DEF IsGreatest
      <4>2. QED
        BY <1>2, <1>t, <2>2, <2>3, <3>1, <4>1, SecondIsNewest
    <3>2. CASE m \notin listed
      <4>1. \A s \in listed : s <= k
        BY <1>4, <2>5, <3>2 DEF IsGreatest
      <4>2. QED
        BY <1>2, <1>t, <2>1, <2>2, <4>1, TopIsNewest
    <3>3. QED
      BY <3>1, <3>2
  <2>6. QED
    BY <1>7, <2>4, <2>5
<1>8. Versions' = Versions
  BY <1>1 DEF Versions
<1>9. LatestOf(versions', Versions' \ {m}, lastGood')
  BY <1>1, <1>3, <1>8
<1>10. /\ backup'[r] = b /\ NoneBeside'
       /\ \A q \in Runs : q # r => backup'[q] = Idle
  BY <1>1, <1>2, <1>5, OnlyOne
<1>11. m \notin b.listed /\ \A k \in b.listed : ~IsGreatest(k, Versions \ {m})
  BY <1>5, <1>7 DEF IsGreatest
<1>12. OwnIsNext(backup[r])'
  <2>1. b.step # "write" /\ b.step # "sort"
    BY <1>5
  <2>2. \A k \in b.listed : ~IsGreatest(k, Versions' \ {m})
    BY <1>8, <1>11
  <2>3. versions'[m].config = b.config
    BY <1>1, <1>3, <1>5
  <2>4. QED
    BY <1>3, <1>8, <1>9, <1>10, <1>11, <2>1, <2>2, <2>3 DEF OwnIsNext, IsGreatest
<1>13. InFlight(backup[r])' /\ OwnIsLast(backup[r])'
  BY <1>5, <1>6, <1>10 DEF InFlight, OwnIsLast
<1>14. InOrder'
  BY <1>1, <1>2 DEF InOrder
<1>15. QED
  BY <1>1, <1>2, <1>10, <1>12, <1>13, <1>14, TellOfOne

LEMMA TellRemove ==
  ASSUME FilesInv, TellInv, NEW r \in Runs, NEW s \in Seconds, NEW removed \in BOOLEAN,
         Remove(r, s, removed)
  PROVE  TellInv'
<1> SUFFICES ASSUME ~disturbed', ~shared' PROVE TellInv'
  BY DEF TellInv
<1>t. /\ versions \in [Seconds -> FileStates] /\ Seconds \subseteq Nat
      /\ Versions \in SUBSET Seconds
  BY BackupConstants DEF FilesInv, BackupTypeOK, Versions
<1>1. /\ ~disturbed /\ ~shared /\ backup[r].step = "remove" /\ s \in backup[r].listed
      /\ UNCHANGED <<later, ever, lastGood, overlapped>>
      /\ versions' = IF removed THEN [versions EXCEPT ![s] = NoVersion] ELSE versions
  BY DEF Remove
<1>2. NoneBeside /\ ~overlapped /\ InOrder /\ OwnIsNext(backup[r])
  BY <1>1 DEF TellInv, InFlight
<1>3. PICK m \in Versions :
        /\ \A z \in Versions : z <= m
        /\ LatestOf(versions, Versions \ {m}, lastGood)
        /\ versions[m].config = backup[r].config
        /\ m \notin backup[r].listed
        /\ \A k \in backup[r].listed : ~IsGreatest(k, Versions \ {m})
  BY <1>1, <1>2 DEF OwnIsNext
<1>4. PICK b \in RunStates :
           /\ Moved(r, b) /\ b.listed = backup[r].listed \ {s}
           /\ b.step = (IF b.listed = {} THEN "report" ELSE "remove")
           /\ b.ok = (b.listed = {}) /\ b.config = backup[r].config
           /\ good' = (good \/ b.listed = {})
  BY Removes
<1>5. Versions' \subseteq Versions /\ Versions \ {s} \subseteq Versions'
  BY <1>t, <1>1 DEF Versions
<1>6. \A z \in Versions' : versions'[z] = versions[z]
  BY <1>t, <1>1 DEF Versions
<1>7. m \in Versions'
  BY <1>1, <1>3, <1>5
<1>8. ASSUME NEW k, IsGreatest(k, Versions \ {m})
      PROVE  k \in Versions' \ {m} /\ \A z \in Versions' \ {m} : z <= k
  BY <1>1, <1>3, <1>5, <1>8 DEF IsGreatest
<1>9. LatestOf(versions', Versions' \ {m}, lastGood') /\
      \A k \in b.listed : ~IsGreatest(k, Versions' \ {m})
  <2>1. CASE Versions \ {m} = {}
    <3>1. lastGood = None /\ Versions' \ {m} = {}
      BY <1>3, <1>5, <2>1 DEF LatestOf
    <3>2. QED
      BY <1>1, <3>1 DEF LatestOf, IsGreatest
  <2>2. CASE Versions \ {m} # {}
    <3>1. PICK k \in Versions \ {m} :
            /\ \A z \in Versions \ {m} : z <= k
            /\ versions[k].config = lastGood /\ lastGood # None
      BY <1>3, <2>2 DEF LatestOf
    <3>2. IsGreatest(k, Versions \ {m})
      BY <3>1 DEF IsGreatest
    <3>3. k \in Versions' \ {m} /\ \A z \in Versions' \ {m} : z <= k
      BY <1>8, <3>2
    <3>4. LatestOf(versions', Versions' \ {m}, lastGood')
      BY <1>1, <1>6, <3>1, <3>3 DEF LatestOf
    <3>5. ASSUME NEW j \in b.listed, IsGreatest(j, Versions' \ {m}) PROVE FALSE
      <4>1. j = k
        <5>1. j \in Nat /\ k \in Nat
          BY <1>t, <1>5, <3>3, <3>5 DEF IsGreatest
        <5>2. j <= k /\ k <= j
          BY <3>3, <3>5 DEF IsGreatest
        <5>3. QED
          BY <5>1, <5>2
      <4>2. QED
        BY <1>3, <1>4, <3>2, <3>5, <4>1
    <3>6. QED
      BY <3>4, <3>5
  <2>3. QED
    BY <2>1, <2>2
<1>10. /\ backup'[r] = b /\ NoneBeside'
       /\ \A q \in Runs : q # r => backup'[q] = Idle
  BY <1>1, <1>2, <1>4, OnlyOne
<1>11. OwnIsNext(backup[r])'
  <2>1. b.step # "write" /\ b.step # "sort" /\ m \notin b.listed
    BY <1>3, <1>4
  <2>2. versions'[m].config = b.config /\ \A z \in Versions' : z <= m
    BY <1>3, <1>4, <1>5, <1>6, <1>7
  <2>3. QED
    BY <1>7, <1>9, <1>10, <2>1, <2>2 DEF OwnIsNext, IsGreatest
<1>12. InFlight(backup[r])' /\ OwnIsLast(backup[r])'
  BY <1>4, <1>10 DEF InFlight, OwnIsLast
<1>13. InOrder'
  BY <1>1, <1>2 DEF InOrder
<1>14. QED
  BY <1>1, <1>2, <1>10, <1>11, <1>12, <1>13, TellOfOne

\* What changed_since_previous finds is what the run has to tell.
LEMMA TellReport ==
  ASSUME FilesInv, TellInv, ~wrong, NEW r \in Runs, Report(r)
  PROVE  TellInv' /\ ~wrong'
<1>t. Seconds \subseteq Nat /\ Versions \in SUBSET Seconds
  BY BackupConstants DEF Seconds, Versions
<1>1. /\ backup[r].step = "report" /\ backup' = [backup EXCEPT ![r] = Idle]
      /\ UNCHANGED <<versions, later, ever, shared, disturbed, overlapped>>
  BY DEF Report
<1>2. Moved(r, Idle) /\ Idle \in RunStates
  BY <1>1, BackupConstants DEF Moved
<1>3. Idle.step = "idle" /\ ~InFlight(Idle)
  BY DEF Idle, InFlight
<1>4. wrong' = (wrong \/ (backup[r].ok /\ ~disturbed /\ ~shared
                            /\ Changed # (lastGood # None /\ lastGood # backup[r].config)))
  BY DEF Report
<1>5. CASE disturbed \/ shared
  BY <1>1, <1>4, <1>5 DEF TellInv
<1>6. CASE ~disturbed /\ ~shared
  <2>1. NoneBeside /\ ~overlapped /\ InOrder
    BY <1>6 DEF TellInv
  <2>o. ~overlapped' /\ InOrder'
    BY <1>1, <2>1 DEF InOrder
  <2>2. /\ backup'[r] = Idle /\ NoneBeside'
        /\ \A q \in Runs : q # r => backup'[q] = Idle
    BY <1>1, <1>2, <2>1, OnlyOne
  <2>3. ~InFlight(backup[r])' /\ OwnIsLast(backup[r])'
    BY <1>3, <2>2 DEF InFlight, OwnIsLast
  <2>4. Versions' = Versions
    BY <1>1 DEF Versions
  <2>5. CASE ~backup[r].ok
    <3>1. ~InFlight(backup[r])
      BY <1>1, <2>5 DEF InFlight
    <3>2. LatestOf(versions, Versions, lastGood)
      BY <1>1, <1>6, <3>1, NobodyInFlight
    <3>3. lastGood' = lastGood
      BY <1>6, <2>5 DEF Report
    <3>4. LatestOf(versions, Versions, lastGood)'
      BY <1>1, <2>4, <3>2, <3>3
    <3>5. ~wrong'
      BY <1>4, <2>5
    <3>6. QED
      BY <2>o, <2>2, <2>3, <3>4, <3>5, TellOfOne
  <2>6. CASE backup[r].ok
    <3>1. OwnIsNext(backup[r])
      BY <1>6, <2>6 DEF TellInv, InFlight
    <3>2. PICK m \in Versions :
            /\ \A s \in Versions : s <= m
            /\ LatestOf(versions, Versions \ {m}, lastGood)
            /\ versions[m].config = backup[r].config
      BY <1>1, <3>1 DEF OwnIsNext
    <3>3. backup[r].config # None
      BY <2>6 DEF FilesInv, FilesAreSane, RunIsSane
    <3>4. lastGood' = backup[r].config
      BY <1>6, <2>6 DEF Report
    <3>5. LatestOf(versions, Versions, lastGood)'
      <4>1. LatestOf(versions, Versions, backup[r].config)
        BY <3>2, <3>3 DEF LatestOf
      <4>2. QED
        BY <1>1, <2>4, <3>4, <4>1
    <3>6. Max(Versions) = m
      BY <1>t, <3>2, MaxIsGreatest
    <3>7. Cardinality(Versions) >= 2 <=> Versions \ {m} # {}
      BY <1>t, TwoAreTwo
    <3>8. Changed <=> lastGood # None /\ lastGood # backup[r].config
      <4>1. CASE Versions \ {m} = {}
        BY <3>2, <3>7, <4>1 DEF LatestOf, Changed
      <4>2. CASE Versions \ {m} # {}
        <5>1. PICK k \in Versions \ {m} :
                /\ \A s \in Versions \ {m} : s <= k
                /\ versions[k].config = lastGood /\ lastGood # None
          BY <3>2, <4>2 DEF LatestOf
        <5>2. Versions \ {m} \in SUBSET Nat
          BY <1>t
        <5>3. Max(Versions \ {m}) = k
          BY <5>1, <5>2, MaxIsGreatest
        <5>4. Changed <=> versions[m].config # versions[k].config
          BY <3>2, <3>3, <3>6, <3>7, <4>2, <5>1, <5>3 DEF Changed, Readable
        <5>5. QED
          BY <3>2, <5>1, <5>4
      <4>3. QED
        BY <4>1, <4>2
    <3>9. ~wrong'
      BY <1>4, <3>8 DEF Changed
    <3>10. QED
      BY <2>o, <2>2, <2>3, <3>5, <3>9, TellOfOne
  <2>7. QED
    BY <2>5, <2>6
<1>7. QED
  BY <1>5, <1>6

LEMMA TellStep ==
  ASSUME RestoreInv, retention # 1, TellInv, ~wrong, [BackupNext]_backupVars
  PROVE  TellInv' /\ ~wrong'
<1>i. FilesInv
  BY DEF RestoreInv, WriteInv
<1>1. ASSUME NEW r \in Runs, NEW c \in Configs \union {None}, Capture(r, c)
      PROVE  TellInv' /\ ~wrong'
  BY <1>i, <1>1, TellCapture DEF Capture
<1>2. ASSUME NEW r \in Runs, OpenFile(r) PROVE TellInv' /\ ~wrong'
  BY <1>i, <1>2, TellOpen DEF OpenFile
<1>3. ASSUME NEW r \in Runs, NEW ok \in BOOLEAN, WriteFile(r, ok) PROVE TellInv' /\ ~wrong'
  BY <1>3, TellWrite DEF WriteFile
<1>4. ASSUME NEW r \in Runs, NEW ok \in BOOLEAN, WriteSidecar(r, ok) PROVE TellInv' /\ ~wrong'
  BY <1>i, <1>4, TellSidecar DEF WriteSidecar
<1>5. ASSUME NEW r \in Runs, ListFiles(r) PROVE TellInv' /\ ~wrong'
  BY <1>i, <1>5, TellList DEF ListFiles
<1>6. ASSUME NEW r \in Runs, Sort(r) PROVE TellInv' /\ ~wrong'
  BY <1>i, <1>6, TellSort DEF Sort
<1>r. ASSUME NEW r \in Runs, NEW s \in Seconds, NEW removed \in BOOLEAN, Remove(r, s, removed)
      PROVE  TellInv' /\ ~wrong'
  BY <1>i, <1>r, TellRemove DEF Remove
<1>7. ASSUME NEW r \in Runs, Report(r) PROVE TellInv' /\ ~wrong'
  BY <1>i, <1>7, TellReport
<1>8. CASE Die
  BY <1>8 DEF Die, TellInv
<1>9. ASSUME UNCHANGED <<versions, later, backup, ever, lastGood, overlapped, shared,
                         disturbed, wrong>>
      PROVE  TellInv' /\ ~wrong'
  <2>1. Versions' = Versions
    BY <1>9 DEF Versions
  <2>2. \A q \in Runs : InFlight(backup[q])' <=> InFlight(backup[q])
    BY <1>9 DEF InFlight
  <2>3. \A q \in Runs : OwnIsNext(backup[q]) => OwnIsNext(backup[q])'
    BY <1>9, <2>1 DEF OwnIsNext, IsGreatest
  <2>4. /\ NoneBeside => NoneBeside'
        /\ InOrder => InOrder'
        /\ \A q \in Runs : OwnIsLast(backup[q]) => OwnIsLast(backup[q])'
    BY <1>9 DEF NoneBeside, InOrder, OwnIsLast
  <2>5. QED
    BY <1>9, <2>1, <2>2, <2>3, <2>4 DEF TellInv
<1>10. CASE SecondPasses
  BY <1>9, <1>10 DEF SecondPasses
<1>11. CASE UNCHANGED backupVars
  BY <1>9, <1>11 DEF backupVars
<1>12. QED
  BY <1>1, <1>2, <1>3, <1>4, <1>5, <1>6, <1>r, <1>7, <1>8, <1>10, <1>11
     DEF BackupNext

LEMMA RetentionStays == [BackupNext]_backupVars => UNCHANGED retention
  BY DEF BackupNext, backupVars, Capture, OpenFile, WriteFile, WriteSidecar, ListFiles,
         Sort, Remove, Report, Die, SecondPasses

LEMMA ComparedInit == BackupInit => ComparedInv
  BY RestoreInit, TellInit DEF ComparedInv

LEMMA ComparedStep == ComparedInv /\ [BackupNext]_backupVars => ComparedInv'
  BY RestoreStep, TellStep, RetentionStays DEF ComparedInv

\* As long as two versions are kept and nothing gets in the way of a run, it
\* reports a change exactly when it has captured something else than the last
\* successful one has.
THEOREM EveryChangeIsTold == BackupSpec => []ChangesAreTold
<1>1. ComparedInv => ChangesAreTold
  BY DEF ComparedInv, ChangesAreTold
<1>2. QED
  BY ComparedInit, ComparedStep, <1>1, PTL DEF BackupSpec
================================================================================
