------------------------- MODULE WindowsUpdatesProof -------------------------
(* Proofs about WindowsUpdates, for every finite set of updates and all     *)
(* limits of the script.                                                    *)
EXTENDS WindowsUpdates, Integers, FiniteSetTheorems, TLAPS

(* A batch that fits in what the counter leaves keeps the counter in range.  *)
LEMMA BatchFits ==
  ASSUME TypeOK, NEW batch \in SUBSET Downloadable,
         cycleUpdateCount + Cardinality(batch) <= MaxUpdatesPerCycle
  PROVE  cycleUpdateCount + Cardinality(batch) \in 0 .. MaxUpdatesPerCycle
<1>1. batch \subseteq Updates
  BY DEF TypeOK, Downloadable
<1>2. Cardinality(batch) \in Nat
  BY <1>1, UpdatesAssumption, FS_Subset, FS_CardinalityType
<1>3. QED
  BY <1>2, LimitsAssumption DEF TypeOK

(* Both ends of a counter's range are in it.                                *)
LEMMA ZeroInRange == \A n \in Nat : 0 \in 0 .. n /\ n \in 0 .. n /\ 0 \in 0 .. n + 1
  OBVIOUS

(* Initial states satisfy the invariant.                                    *)
LEMMA InitInv == Init => IInv
<1>1. Init => TypeOK
  BY UpdatesAssumption, LimitsAssumption, ZeroInRange DEF Init, TypeOK, Phase
<1>2. Init => /\ RestartPending /\ Unregistered /\ CyclesBounded
              /\ RestartHasTask /\ EndIsAnnounced /\ DoneIsTidy
  BY DEF Init, RestartPending, Unregistered, CyclesBounded, RestartHasTask,
     EndIsAnnounced, DoneIsTidy
<1>3. QED
  BY <1>1, <1>2 DEF IInv

(* A step of the script or of the machine preserves the types.              *)
LEMMA NextType == IInv /\ [Next]_vars => TypeOK'
<1> SUFFICES ASSUME IInv, [Next]_vars PROVE TypeOK'
  OBVIOUS
<1> USE UpdatesAssumption, LimitsAssumption
     DEF TypeOK, Phase, script, machine, events, Goto, Fault, Call, Called
<1>0. TypeOK
  BY DEF IInv
<1>1. CASE WaitWindowsUpdates
  <2>1. autologon' \in 0 .. AutoLogonCount
    BY <1>1, ZeroInRange DEF WaitWindowsUpdates
  <2>2. winrm' \in BOOLEAN
    BY <1>0, <1>1 DEF WaitWindowsUpdates
  <2>3. QED
    BY <1>0, <1>1, <2>1, <2>2 DEF WaitWindowsUpdates
<1>2. CASE InstallWindowsUpdates
  BY <1>0, <1>2 DEF InstallWindowsUpdates
<1>3. CASE Search
  BY <1>0, <1>3 DEF Search
<1>4. CASE Show
  BY <1>0, <1>4 DEF Show
<1>5. CASE ShowFailed
  BY <1>0, <1>5 DEF ShowFailed, RegisterAndRestart
<1>6. CASE GotBatch
  BY <1>0, <1>6 DEF GotBatch
<1>7. CASE InvokeRebootOrComplete
  BY <1>0, <1>7 DEF InvokeRebootOrComplete, Unregister, RegisterAndRestart
<1>8. CASE SelectBatch
  <2>1. PICK batch \in SUBSET Downloadable :
          /\ cycleUpdateCount + Cardinality(batch) <= MaxUpdatesPerCycle
          /\ toDownload' = batch
          /\ cycleUpdateCount' = cycleUpdateCount + Cardinality(batch)
    BY <1>8 DEF SelectBatch
  <2>2. cycleUpdateCount' \in 0 .. MaxUpdatesPerCycle
    BY <1>0, <2>1, BatchFits
  <2>3. cycles' \in 0 .. MaxCycles + 1
    BY <1>0, <1>8 DEF SelectBatch, IInv, CyclesBounded
  <2>4. toDownload' \subseteq (searchResult \ downloaded)'
    BY <1>8, <2>1 DEF SelectBatch, Downloadable
  <2>5. QED
    BY <1>0, <1>8, <2>2, <2>3, <2>4 DEF SelectBatch
<1>9. CASE DownloadFails
  BY <1>0, <1>9 DEF DownloadFails
<1>10. CASE Download
  BY <1>0, <1>10 DEF Download
<1>11. CASE NothingToInstall
  BY <1>0, <1>11 DEF NothingToInstall, Enable
<1>12. CASE Install
  <2>1. installed' \subseteq Updates
    BY <1>0, <1>12 DEF Install, ToInstall
  <2>2. restartRequired' \in {0, 1}
    BY <1>12 DEF Install
  <2>3. QED
    BY <1>0, <1>12, <2>1, <2>2 DEF Install
<1>13. CASE EnableWinRM
  BY <1>0, <1>13 DEF EnableWinRM, Enable
<1>14. CASE DisableAutologon
  BY <1>0, <1>14 DEF DisableAutologon
<1>15. CASE RestartComputer
  BY <1>0, <1>15 DEF RestartComputer
<1>16. CASE Logon
  BY <1>0, <1>16 DEF Logon
<1>17. CASE UNCHANGED vars
  BY <1>0, <1>17 DEF vars
<1>18. CASE WusaRestarts
  BY <1>0, <1>18 DEF WusaRestarts
<1>19. QED
  BY <1>1, <1>2, <1>3, <1>4, <1>5, <1>6, <1>7, <1>8, <1>9, <1>10, <1>11, <1>12, <1>13,
     <1>14, <1>15, <1>16, <1>17, <1>18 DEF Next, Script

(* A step preserves what the script and the machine owe to each other.      *)
LEMMA NextHandover ==
  IInv /\ [Next]_vars =>
    (RestartPending /\ Unregistered /\ CyclesBounded
     /\ RestartHasTask /\ EndIsAnnounced /\ DoneIsTidy)'
<1> SUFFICES ASSUME IInv, [Next]_vars
             PROVE  (RestartPending /\ Unregistered /\ CyclesBounded
                     /\ RestartHasTask /\ EndIsAnnounced /\ DoneIsTidy)'
  OBVIOUS
<1> USE LimitsAssumption DEF IInv, TypeOK, Phase, RestartPending, Unregistered,
     CyclesBounded, RestartHasTask, EndIsAnnounced, DoneIsTidy, script, machine, events,
     Goto, Fault, Call, Called
<1>1. CASE WaitWindowsUpdates
  BY <1>1 DEF WaitWindowsUpdates
<1>2. CASE InstallWindowsUpdates
  BY <1>2 DEF InstallWindowsUpdates
<1>3. CASE Search
  BY <1>3 DEF Search
<1>4. CASE Show
  BY <1>4 DEF Show
<1>5. CASE ShowFailed
  BY <1>5 DEF ShowFailed, RegisterAndRestart
<1>6. CASE GotBatch
  BY <1>6 DEF GotBatch
<1>7. CASE InvokeRebootOrComplete
  <2>1. CASE restartRequired = 0
    BY <1>7, <2>1 DEF InvokeRebootOrComplete, Unregister
  <2>2. CASE restartRequired = 1
    BY <1>7, <2>2 DEF InvokeRebootOrComplete, RegisterAndRestart
  <2>3. QED
    BY <1>7, <2>1, <2>2 DEF InvokeRebootOrComplete
<1>8. CASE SelectBatch
  BY <1>8 DEF SelectBatch
<1>9. CASE DownloadFails
  BY <1>9 DEF DownloadFails
<1>10. CASE Download
  BY <1>10 DEF Download
<1>11. CASE NothingToInstall
  BY <1>11 DEF NothingToInstall, Enable
<1>12. CASE Install
  BY <1>12 DEF Install
<1>13. CASE EnableWinRM
  BY <1>13 DEF EnableWinRM, Enable
<1>14. CASE DisableAutologon
  BY <1>14 DEF DisableAutologon
<1>15. CASE RestartComputer
  BY <1>15 DEF RestartComputer
<1>16. CASE Logon
  BY <1>16 DEF Logon
<1>17. CASE UNCHANGED vars
  BY <1>17 DEF vars
<1>18. CASE WusaRestarts
  BY <1>18 DEF WusaRestarts
<1>19. QED
  BY <1>1, <1>2, <1>3, <1>4, <1>5, <1>6, <1>7, <1>8, <1>9, <1>10, <1>11, <1>12, <1>13,
     <1>14, <1>15, <1>16, <1>17, <1>18 DEF Next, Script

(* The inductive invariant of an installation across its restarts.          *)
THEOREM Invariance == Spec => []IInv
<1>1. IInv /\ [Next]_vars => IInv'
  BY NextType, NextHandover DEF IInv
<1>2. QED
  BY InitInv, <1>1, PTL DEF Spec

(* A restart the script asked for finds the task that goes on after it,      *)
(* unless registering that failed unheard.                                  *)
THEOREM RestartsContinue == Spec => []RestartHasTask
  BY Invariance, PTL DEF IInv

(* A script that has ended for good has enabled WinRM, unless that or the    *)
(* going on after a restart failed unheard.                                 *)
THEOREM EndsAnnounced == Spec => []EndIsAnnounced
  BY Invariance, PTL DEF IInv

(* A script that is done has removed its task and its autologon, unless a    *)
(* command failed unheard.                                                  *)
THEOREM DoneTidy == Spec => []DoneIsTidy
  BY Invariance, PTL DEF IInv

-----------------------------------------------------------------------------
(* The logons.  Every restart is paid for by an update that has newly been   *)
(* installed, by a listing that failed or by the one patch of wusa's, so     *)
(* those autologon was given last as long as WinRM is off.                  *)

Restarting == installed \intersect NeedsRestart

LEMMA RestartingFinite ==
  ASSUME TypeOK
  PROVE  IsFiniteSet(Restarting) /\ Cardinality(Restarting) \in Nat
<1>1. Restarting \subseteq Updates
  BY DEF TypeOK, Restarting
<1>2. QED
  BY <1>1, UpdatesAssumption, FS_Subset, FS_CardinalityType

(* Installing never loses an update, and one that asks for a restart is one  *)
(* more.                                                                    *)
LEMMA InstallCounts ==
  ASSUME TypeOK, TypeOK', Install
  PROVE  /\ Cardinality(Restarting') >= Cardinality(Restarting)
         /\ restartRequired' = 1 => Cardinality(Restarting') > Cardinality(Restarting)
<1>1. Restarting \subseteq Restarting'
  BY DEF Install, Restarting
<1>2. restartRequired' = 1 => Restarting' # Restarting
  BY DEF Install, Restarting
<1>3. /\ IsFiniteSet(Restarting')
      /\ Cardinality(Restarting) \in Nat /\ Cardinality(Restarting') \in Nat
  BY RestartingFinite, UpdatesAssumption, FS_Subset, FS_CardinalityType DEF TypeOK, Restarting
<1>4. QED
  BY <1>1, <1>2, <1>3, FS_Subset

(* The steps other than Install leave the installed updates alone.          *)
LEMMA OnlyInstallInstalls ==
  [Next]_vars => Install \/ installed' = installed
BY DEF Next, Script, WaitWindowsUpdates, InstallWindowsUpdates, Search, Show, ShowFailed,
   GotBatch, InvokeRebootOrComplete, SelectBatch, DownloadFails, Download,
   NothingToInstall, EnableWinRM, DisableAutologon, RestartComputer, WusaRestarts, Logon,
   Goto, machine, vars

(* A number that is not less is more by a number.                           *)
LEMMA MoreByWhat ==
  \A x \in Nat, y \in Nat :
    y >= x => \E more \in Nat : y = x + more /\ (y > x => more > 0)
<1> SUFFICES ASSUME NEW x \in Nat, NEW y \in Nat, y >= x
             PROVE  \E more \in Nat : y = x + more /\ (y > x => more > 0)
  OBVIOUS
<1>1. y - x \in Nat /\ y = x + (y - x) /\ (y > x => y - x > 0)
  OBVIOUS
<1>2. QED
  BY <1>1

(* A step never spends a logon that no restart has been paid for.           *)
LEMMA NextSpent == IInv /\ IInv' /\ LogonsSpent /\ [Next]_vars => LogonsSpent'
<1> SUFFICES ASSUME IInv, IInv', LogonsSpent, [Next]_vars PROVE LogonsSpent'
  OBVIOUS
<1> DEFINE count == Cardinality(installed \intersect NeedsRestart)
           quiet == unheard \intersect {"winrm", "autologon"} = {}
           extra == IF wusa = "restarted" THEN 1 ELSE 0
<1>1. count \in Nat /\ count' \in Nat
  BY RestartingFinite, UpdatesAssumption, FS_Subset, FS_CardinalityType
  DEF IInv, TypeOK, Restarting
<1>2. ~Install => count' = count
  BY OnlyInstallInstalls
<1>3. Install => count' >= count /\ (restartRequired' = 1 => count' > count)
  BY InstallCounts DEF IInv, Restarting
<1>t. /\ autologon \in Nat /\ faults \in Nat /\ AutoLogonCount \in Nat
      /\ autologon' \in Nat /\ faults' \in Nat
      /\ extra \in 0 .. 1 /\ extra' \in 0 .. 1
  BY LimitsAssumption DEF IInv, TypeOK
<1>4. ~winrm /\ quiet =>
        /\ autologon + count + faults + extra >= AutoLogonCount
        /\ RestartOwed => autologon + count + faults + extra > AutoLogonCount
  BY <1>1, <1>t DEF LogonsSpent
<1>5. SUFFICES ~winrm' /\ quiet' =>
                 /\ autologon' + count' + faults' + extra' >= AutoLogonCount
                 /\ RestartOwed' => autologon' + count' + faults' + extra' > AutoLogonCount
  BY <1>1, <1>t DEF LogonsSpent
<1>u. UNCHANGED events => extra' = extra /\ quiet' = quiet
  BY DEF events
<1>6. CASE WaitWindowsUpdates
  <2>1. quiet' => autologon' = AutoLogonCount
    BY <1>6 DEF WaitWindowsUpdates, Call, Called
  <2>2. ~RestartOwed'
    <3>1. pc' = "call" /\ restart' = restart
      BY <1>6 DEF WaitWindowsUpdates, Goto
    <3>2. ~restart
      BY <1>6 DEF WaitWindowsUpdates, IInv, RestartPending
    <3>3. QED
      BY <3>1, <3>2 DEF RestartOwed
  <2> HIDE DEF count, quiet, extra
  <2>3. \A a \in Nat, c \in Nat, f \in Nat, e \in 0 .. 1, limit \in Nat :
          a = limit => a + c + f + e >= limit
    OBVIOUS
  <2>4. quiet' => autologon' + count' + faults' + extra' >= AutoLogonCount
    BY <1>1, <1>t, <2>1, <2>3
  <2>5. QED
    BY <2>2, <2>4
<1> HIDE DEF count
<1> USE <1>1, <1>2, <1>4, LimitsAssumption
     DEF IInv, TypeOK, Phase, RestartPending, Unregistered,
         script, machine, events, Goto, Fault, Call, Called
<1>7. CASE InstallWindowsUpdates
  <2>1. ~Install
    BY <1>7 DEF InstallWindowsUpdates, Install
  <2>2. QED
    BY <1>7, <2>1 DEF InstallWindowsUpdates, RestartOwed
<1>8. CASE Search
  <2>1. ~Install
    BY <1>8 DEF Search, Install
  <2>2. ~RestartOwed'
    BY <1>8 DEF Search, RestartOwed
  <2>3. winrm' = winrm /\ autologon' = autologon /\ UNCHANGED events
    BY <1>8 DEF Search
  <2>4. CASE faults' = faults
    BY <1>t, <1>u, <2>1, <2>2, <2>3, <2>4
  <2>5. CASE faults' = faults + 1
    BY <1>t, <1>u, <2>1, <2>2, <2>3, <2>5
  <2>6. QED
    BY <1>8, <2>4, <2>5 DEF Search
<1>9. CASE Show
  <2>1. ~Install
    BY <1>9 DEF Show, Install
  <2>2. winrm' = winrm /\ autologon' = autologon /\ ~restart' /\ UNCHANGED events
    BY <1>9 DEF Show
  <2>3. CASE pc' = "showFailed"
    <3>1. faults' = faults + 1
      BY <1>9, <2>3 DEF Show
    <3>2. ~RestartOwed
      BY <1>9 DEF Show, RestartOwed
    <3>3. QED
      BY <1>t, <1>u, <2>1, <2>2, <3>1, <3>2
  <2>4. CASE pc' = "gotBatch"
    <3>1. faults' = faults
      BY <1>9, <2>4 DEF Show
    <3>2. ~(moreUpdates' = 0 /\ restartRequired' = 1)
      BY <1>9, <2>4 DEF Show
    <3>3. ~RestartOwed'
      BY <2>2, <2>4, <3>2 DEF RestartOwed
    <3>4. QED
      BY <1>t, <1>u, <2>1, <2>2, <3>1, <3>3
  <2>5. QED
    BY <1>9, <2>3, <2>4 DEF Show
<1>10. CASE ShowFailed
  <2>1. ~Install
    BY <1>10 DEF ShowFailed, Install
  <2>2. QED
    BY <1>10, <2>1 DEF ShowFailed, RestartOwed, RegisterAndRestart
<1>11. CASE GotBatch
  <2>1. ~Install
    BY <1>11 DEF GotBatch, Install
  <2>2. /\ winrm' = winrm /\ autologon' = autologon /\ faults' = faults
        /\ restart' = restart /\ UNCHANGED events
    BY <1>11 DEF GotBatch
  <2>3. RestartOwed' => RestartOwed
    BY <1>11 DEF GotBatch, RestartOwed
  <2>4. QED
    BY <1>t, <1>u, <2>1, <2>2, <2>3
<1>12. CASE InvokeRebootOrComplete
  <2>1. ~Install
    BY <1>12 DEF InvokeRebootOrComplete, Install
  <2>2. /\ winrm' = winrm /\ autologon' = autologon /\ faults' = faults
        /\ wusa' = wusa
    BY <1>12 DEF InvokeRebootOrComplete, Unregister, RegisterAndRestart
  <2>3. quiet' => quiet
    <3>1. CASE restartRequired = 0
      BY <1>12, <3>1 DEF InvokeRebootOrComplete, Unregister
    <3>2. CASE restartRequired = 1
      BY <1>12, <3>2 DEF InvokeRebootOrComplete, RegisterAndRestart
    <3>3. QED
      BY <3>1, <3>2, <1>12 DEF InvokeRebootOrComplete
  <2>4. RestartOwed' => RestartOwed
    BY <1>12 DEF InvokeRebootOrComplete, Unregister, RegisterAndRestart, RestartOwed
  <2>5. QED
    BY <1>t, <2>1, <2>2, <2>3, <2>4
<1>13. CASE SelectBatch
  <2>1. ~Install
    BY <1>13 DEF SelectBatch, Install
  <2>2. QED
    BY <1>13, <2>1 DEF SelectBatch, RestartOwed
<1>14. CASE DownloadFails
  <2>1. ~Install
    BY <1>14 DEF DownloadFails, Install
  <2>2. QED
    BY <1>14, <2>1 DEF DownloadFails, RestartOwed
<1>15. CASE Download
  <2>1. ~Install
    BY <1>15 DEF Download, Install
  <2>2. winrm' = winrm /\ autologon' = autologon /\ UNCHANGED events
    BY <1>15 DEF Download
  <2>3. ~RestartOwed'
    BY <1>15 DEF Download, RestartOwed
  <2>4. CASE faults' = faults
    BY <1>t, <1>u, <2>1, <2>2, <2>3, <2>4
  <2>5. CASE faults' = faults + 1
    BY <1>t, <1>u, <2>1, <2>2, <2>3, <2>5
  <2>6. QED
    BY <1>15, <2>4, <2>5 DEF Download
<1>16. CASE NothingToInstall
  <2>1. ~Install
    BY <1>16 DEF NothingToInstall, Install
  <2>2. quiet' => winrm'
    BY <1>16 DEF NothingToInstall, Enable
  <2>3. QED
    BY <2>2
<1>17. CASE Install
  <2>1. /\ winrm' = winrm /\ autologon' = autologon /\ faults' = faults
        /\ UNCHANGED events
    BY <1>17 DEF Install
  <2>2. RestartOwed' => restartRequired' = 1
    BY <1>17 DEF Install, RestartOwed
  <2>3. PICK more \in Nat :
          /\ count' = count + more
          /\ restartRequired' = 1 => more > 0
    <3>1. count' >= count /\ (restartRequired' = 1 => count' > count)
      BY <1>3, <1>17
    <3>2. QED
      BY <1>1, <3>1, MoreByWhat, Zenon
  <2>4. CASE restartRequired' = 1
    BY <1>t, <1>u, <2>1, <2>3, <2>4
  <2>5. CASE restartRequired' # 1
    <3>1. ~RestartOwed'
      BY <2>2, <2>5
    <3>2. QED
      BY <1>t, <1>u, <2>1, <2>3, <3>1
  <2>6. QED
    BY <2>4, <2>5
<1>18. CASE EnableWinRM
  <2>1. ~Install
    BY <1>18 DEF EnableWinRM, Install
  <2>2. quiet' => winrm'
    BY <1>18 DEF EnableWinRM, Enable
  <2>3. QED
    BY <2>2
<1>19. CASE DisableAutologon
  <2>1. ~Install
    BY <1>19 DEF DisableAutologon, Install
  <2>2. ~winrm' => ~quiet'
    BY <1>19 DEF DisableAutologon
  <2>3. QED
    BY <2>2
<1>20. CASE RestartComputer
  <2>1. ~Install
    BY <1>20 DEF RestartComputer, Install
  <2>2. QED
    BY <1>20, <2>1 DEF RestartComputer, RestartOwed
<1>21. CASE Logon
  <2>1. ~Install
    BY <1>21 DEF Logon, Install
  <2>2. QED
    BY <1>21, <2>1 DEF Logon, RestartOwed
<1>22. CASE UNCHANGED vars
  <2>1. count' = count
    BY <1>22 DEF vars, count
  <2>2. QED
    BY <1>22, <2>1 DEF vars, RestartOwed
<1>23. CASE WusaRestarts
  <2>1. ~Install
    BY <1>23 DEF WusaRestarts, Install
  <2>2. QED
    BY <1>23, <2>1 DEF WusaRestarts, RestartOwed
<1>24. QED
  BY <1>6, <1>7, <1>8, <1>9, <1>10, <1>11, <1>12, <1>13, <1>14, <1>15, <1>16, <1>17, <1>18,
     <1>19, <1>20, <1>21, <1>22, <1>23 DEF Next, Script

(* The logons left while WinRM is off cover every restart still to come.     *)
THEOREM LogonsCounted == Spec => []LogonsSpent
<1>1. Init => LogonsSpent
  BY DEF Init, LogonsSpent
<1>2. QED
  BY <1>1, Invariance, NextSpent, PTL DEF Spec

(* With a logon for every update that may ask for a restart, every listing   *)
(* that may fail and wusa's restart, the machine never waits at a logon      *)
(* screen where nobody is logged on and WinRM is off, unless one of the      *)
(* commands that were to enable the two failed unheard.                     *)
THEOREM LockedOutNever ==
  ASSUME AutoLogonCount >= Cardinality(NeedsRestart) + MaxFaults + 1
  PROVE  Spec => []NeverLockedOut
<1>1. TypeOK /\ LogonsSpent => NeverLockedOut
  <2> SUFFICES ASSUME TypeOK, LogonsSpent, pc = "boot", autologon = 0, ~winrm,
                      unheard \intersect {"winrm", "autologon"} = {}
               PROVE  FALSE
    BY DEF NeverLockedOut
  <2> DEFINE count == Cardinality(Restarting)
             all   == Cardinality(NeedsRestart)
  <2>1. count + faults + 1 >= AutoLogonCount + 1
    <3>1. RestartOwed
      BY DEF RestartOwed
    <3>2. QED
      BY <3>1, RestartingFinite, LimitsAssumption DEF LogonsSpent, TypeOK, Restarting
  <2>2. /\ count \in Nat /\ all \in Nat
        /\ count <= all
    BY RestartingFinite, UpdatesAssumption, FS_Subset, FS_CardinalityType DEF Restarting
  <2>3. faults \in Nat /\ faults <= MaxFaults
    BY LimitsAssumption DEF TypeOK
  <2> HIDE DEF count
  <2>4. QED
    BY <2>1, <2>2, <2>3, LimitsAssumption
<1>2. QED
  BY <1>1, Invariance, LogonsCounted, PTL DEF IInv

(* A machine that has come to rest can be reached, unless a command that     *)
(* mattered for it failed unheard.                                          *)
THEOREM RestReachable ==
  ASSUME AutoLogonCount >= Cardinality(NeedsRestart) + MaxFaults + 1
  PROVE  Spec => []RestIsReachable
  BY EndsAnnounced, LockedOutNever, PTL DEF RestIsReachable

-----------------------------------------------------------------------------
(* The end.  Rank bounds the steps the script has before it ends, with the   *)
(* code's limit of five cycles: those of a batch are nine, and the check     *)
(* that comes before the first batch may be made twice.                      *)
Position ==
  CASE pc = "download"   -> 8
    [] pc = "install"    -> 7
    [] pc = "invoke"     -> 6
    [] pc = "search"     -> 5
    [] pc = "show"       -> 4
    [] pc = "showFailed" -> 3
    [] pc = "gotBatch"   -> 2
    [] pc = "select"     -> 1
    [] OTHER             -> 0

FirstCheck ==
  caller = "install" /\ pc \in {"search", "show", "showFailed", "gotBatch"}

Rank ==
  CASE pc = "fresh"            -> 68
    [] pc = "call"             -> 67
    [] pc = "enableWinRM"      -> 1
    [] pc = "disableAutologon" -> 0
    [] OTHER -> 2 + 9 * (6 - cycles) + Position + (IF FirstCheck THEN 5 ELSE 0)

LEMMA RankType ==
  ASSUME MaxCycles = 5, IInv, Running
  PROVE  Rank \in 0 .. 68
  BY DEF IInv, TypeOK, Phase, CyclesBounded, Running, Rank, Position, FirstCheck

(* Every step of the script is one step closer to its end.                   *)
LEMMA ScriptDescends ==
  ASSUME MaxCycles = 5, IInv, IInv', Script
  PROVE  ~Running' \/ Rank' < Rank
<1> USE MaxCycles = 5 DEF IInv, TypeOK, Phase, CyclesBounded, Running, Rank, Position,
      FirstCheck, script, machine, Goto, Fault, Call, Called, RegisterAndRestart,
      Unregister, Enable
<1>1. CASE WaitWindowsUpdates
  BY <1>1 DEF WaitWindowsUpdates
<1>2. CASE InstallWindowsUpdates
  BY <1>2 DEF InstallWindowsUpdates
<1>3. CASE Search
  BY <1>3 DEF Search
<1>4. CASE Show
  BY <1>4 DEF Show
<1>5. CASE ShowFailed
  BY <1>5 DEF ShowFailed
<1>6. CASE GotBatch
  BY <1>6 DEF GotBatch
<1>7. CASE InvokeRebootOrComplete
  <2>1. CASE restartRequired = 0
    BY <1>7, <2>1 DEF InvokeRebootOrComplete
  <2>2. CASE restartRequired = 1
    BY <1>7, <2>2 DEF InvokeRebootOrComplete
  <2>3. QED
    BY <1>7, <2>1, <2>2 DEF InvokeRebootOrComplete
<1>8. CASE SelectBatch
  BY <1>8 DEF SelectBatch
<1>9. CASE Download
  BY <1>9 DEF Download
<1>10. CASE NothingToInstall
  BY <1>10 DEF NothingToInstall
<1>11. CASE Install
  BY <1>11 DEF Install
<1>12. CASE EnableWinRM
  BY <1>12 DEF EnableWinRM
<1>13. CASE DisableAutologon
  BY <1>13 DEF DisableAutologon
<1>14. QED
  BY <1>1, <1>2, <1>3, <1>4, <1>5, <1>6, <1>7, <1>8, <1>9, <1>10, <1>11, <1>12, <1>13
  DEF Script

(* The other steps leave a running script where it is, or kill it.           *)
LEMMA OthersKeepRank ==
  ASSUME Running, [Next]_vars, ~Script
  PROVE  ~Running' \/ (Running' /\ Rank' = Rank)
  BY DEF Next, Running, DownloadFails, RestartComputer, WusaRestarts, Logon, Goto, script,
     vars, Rank, Position, FirstCheck

(* Weak fairness, with the conditions of GuardsAreExact in the place of      *)
(* ENABLED: the step is not due again and again, or taken again and again.   *)
ScriptKeepsGoing == []<>~Running \/ []<><<Script>>_vars
RestartsHappen   == []<>~restart \/ []<><<RestartComputer>>_vars
LogonsHappen     == []<>~LogonDue \/ []<><<Logon>>_vars

Below(k) == Running /\ Rank < k

Settles(k, j) == Spec /\ ScriptKeepsGoing => (Below(k) ~> (Below(j) \/ ~Running))

LEMMA OneDown ==
  ASSUME MaxCycles = 5, NEW j \in Nat, NEW k \in Nat, k = j + 1
  PROVE  Settles(k, j)
<1> DEFINE At_j == Running /\ Rank = j
<1>1. IInv /\ Below(k) => Below(j) \/ At_j
  BY RankType DEF Below
<1>2. (IInv /\ Running => Rank \in 0 .. 68)'
  BY RankType, PTL
<1>3. IInv /\ IInv' /\ At_j /\ [Next]_vars => (At_j \/ Below(j) \/ ~Running)'
  BY <1>2, RankType, ScriptDescends, OthersKeepRank DEF Below
<1>4. IInv /\ IInv' /\ At_j /\ <<Script>>_vars => (Below(j) \/ ~Running)'
  BY ScriptDescends DEF Below
<1> HIDE DEF At_j
<1>5. Spec /\ ScriptKeepsGoing => (Below(k) ~> (Below(j) \/ ~Running))
  <2>1. At_j => Running
    BY DEF At_j
  <2>2. QED
    BY <1>1, <1>3, <1>4, <2>1, Invariance, PTL DEF Spec, ScriptKeepsGoing
<1>6. QED
  BY <1>5 DEF Settles

LEMMA TenDown ==
  ASSUME MaxCycles = 5, NEW j \in Nat, NEW k \in Nat, k = j + 10
  PROVE  Settles(k, j)
<1>1. /\ Settles(k, j + 9) /\ Settles(j + 9, j + 8) /\ Settles(j + 8, j + 7)
      /\ Settles(j + 7, j + 6) /\ Settles(j + 6, j + 5) /\ Settles(j + 5, j + 4)
      /\ Settles(j + 4, j + 3) /\ Settles(j + 3, j + 2) /\ Settles(j + 2, j + 1)
      /\ Settles(j + 1, j)
  BY OneDown
<1>2. QED
  BY <1>1, PTL DEF Settles

(* A run of the script comes to its end, or a restart ends it.               *)
LEMMA ScriptEnds ==
  ASSUME MaxCycles = 5
  PROVE  Spec /\ ScriptKeepsGoing => []<>~Running
<1>1. /\ Settles(70, 60) /\ Settles(60, 50) /\ Settles(50, 40) /\ Settles(40, 30)
      /\ Settles(30, 20) /\ Settles(20, 10) /\ Settles(10, 0)
  BY TenDown
<1>2. IInv => (Running => Below(70)) /\ ~Below(0)
  BY RankType DEF Below
<1>3. QED
  BY <1>1, <1>2, Invariance, PTL DEF Settles

(* The machine.  Each time it logs on there is one logon less, and where     *)
(* none is due and no restart either, it rests.                             *)
RestartDue == pc = "ended" /\ restart
AtRest     == (pc = "ended" /\ ~restart) \/ (pc = "boot" /\ autologon = 0)
Budget(k)  == pc # "fresh" /\ autologon <= k

FairMachine == ScriptKeepsGoing /\ RestartsHappen /\ LogonsHappen

LEMMA WhereItStands == IInv => Running \/ RestartDue \/ LogonDue \/ AtRest
  BY LimitsAssumption DEF IInv, TypeOK, Phase, Running, RestartDue, LogonDue, AtRest

(* Of the steps that follow an end or a boot.                                *)
LEMMA AfterTheScript ==
  ASSUME IInv, [Next]_vars
  PROVE  /\ RestartDue => (RestartDue \/ LogonDue \/ AtRest)'
         /\ RestartDue /\ RestartComputer => (LogonDue \/ AtRest)'
         /\ LogonDue => LogonDue' \/ (pc' # "boot" /\ autologon' = autologon - 1)
         /\ LogonDue /\ Logon => autologon' = autologon - 1 /\ pc' # "fresh"
         /\ AtRest => AtRest' \/ (wusa = "running" /\ wusa' = "restarted")
         /\ wusa = "restarted" => wusa' = "restarted"
<1> USE LimitsAssumption DEF IInv, TypeOK, Phase, RestartPending, RestartDue, LogonDue,
     AtRest, Goto, events
<1>1. CASE Script
  BY <1>1 DEF Script, WaitWindowsUpdates, InstallWindowsUpdates, Search, Show, ShowFailed,
     GotBatch, InvokeRebootOrComplete, SelectBatch, Download, NothingToInstall, Install,
     EnableWinRM, DisableAutologon, RegisterAndRestart, Unregister, Enable
<1>2. CASE DownloadFails
  BY <1>2 DEF DownloadFails
<1>3. CASE RestartComputer
  BY <1>3 DEF RestartComputer, Logon
<1>4. CASE WusaRestarts
  BY <1>4 DEF WusaRestarts, Logon
<1>5. CASE Logon
  BY <1>5 DEF Logon, RestartComputer
<1>6. CASE UNCHANGED vars
  BY <1>6 DEF vars, machine, Logon, RestartComputer
<1>7. QED
  BY <1>1, <1>2, <1>3, <1>4, <1>5, <1>6 DEF Next

(* Only Wait-WindowsUpdates sets autologon, and it is called once.           *)
LEMMA LogonsOnlyFall ==
  ASSUME IInv, [Next]_vars, pc # "fresh"
  PROVE  pc' # "fresh" /\ autologon' <= autologon
<1> USE LimitsAssumption DEF IInv, TypeOK, Phase, RestartPending, script, machine, Goto
<1>1. CASE DisableAutologon
  BY <1>1 DEF DisableAutologon
<1>2. CASE Script /\ ~DisableAutologon
  <2>1. autologon' = autologon
    BY <1>2 DEF Script, WaitWindowsUpdates, InstallWindowsUpdates, Search, Show, ShowFailed,
       GotBatch, InvokeRebootOrComplete, SelectBatch, Download, NothingToInstall, Install,
       EnableWinRM
  <2>2. pc' # "fresh"
    BY <1>2 DEF Script, WaitWindowsUpdates, InstallWindowsUpdates, Search, Show, ShowFailed,
       GotBatch, InvokeRebootOrComplete, SelectBatch, Download, NothingToInstall, Install,
       EnableWinRM
  <2>3. QED
    BY <2>1, <2>2
<1>3. CASE DownloadFails \/ RestartComputer \/ WusaRestarts \/ Logon \/ UNCHANGED vars
  BY <1>3 DEF DownloadFails, RestartComputer, WusaRestarts, Logon, vars
<1>4. QED
  BY <1>1, <1>2, <1>3 DEF Next

Spends(k, j) == Spec /\ FairMachine => (Budget(k) ~> (Budget(j) \/ AtRest))

LEMMA OneLogon ==
  ASSUME MaxCycles = 5, NEW j \in Nat, NEW k \in Nat, k = j + 1
  PROVE  Spends(k, j)
<1>1. IInv /\ IInv' /\ Budget(k) /\ [Next]_vars => Budget(k)'
  BY LogonsOnlyFall, LimitsAssumption DEF Budget, IInv, TypeOK
<1>2. IInv /\ IInv' /\ Budget(k) /\ LogonDue /\ [Next]_vars => (LogonDue \/ Budget(j))'
  <2>1. IInv /\ IInv' /\ Budget(k) /\ LogonDue /\ [Next]_vars /\ ~LogonDue' =>
          autologon' = autologon - 1 /\ pc' # "fresh"
    BY AfterTheScript, LogonsOnlyFall DEF Budget
  <2>2. QED
    BY <2>1, LimitsAssumption DEF Budget, IInv, TypeOK
<1>3. IInv /\ IInv' /\ Budget(k) /\ LogonDue /\ <<Logon>>_vars => Budget(j)'
  <2>1. IInv /\ IInv' /\ LogonDue /\ <<Logon>>_vars =>
          autologon' = autologon - 1 /\ pc' # "fresh"
    BY AfterTheScript DEF Next
  <2>2. QED
    BY <2>1, LimitsAssumption DEF Budget, IInv, TypeOK
<1>4. IInv /\ RestartDue /\ [Next]_vars => (RestartDue \/ LogonDue \/ AtRest)'
  BY AfterTheScript
<1>5. IInv /\ RestartDue /\ <<RestartComputer>>_vars => (LogonDue \/ AtRest)'
  BY AfterTheScript DEF Next
<1>6. RestartDue => restart
  BY DEF RestartDue
<1>7. Spec /\ FairMachine => (Budget(k) ~> (Budget(j) \/ AtRest))
  BY <1>1, <1>2, <1>3, <1>4, <1>5, <1>6, WhereItStands, ScriptEnds, Invariance, PTL
  DEF Spec, FairMachine, RestartsHappen, LogonsHappen
<1>8. QED
  BY <1>7 DEF Spends

LEMMA TenLogons ==
  ASSUME MaxCycles = 5, NEW j \in Nat, NEW k \in Nat, k = j + 10
  PROVE  Spends(k, j)
<1>1. /\ Spends(k, j + 9) /\ Spends(j + 9, j + 8) /\ Spends(j + 8, j + 7)
      /\ Spends(j + 7, j + 6) /\ Spends(j + 6, j + 5) /\ Spends(j + 5, j + 4)
      /\ Spends(j + 4, j + 3) /\ Spends(j + 3, j + 2) /\ Spends(j + 2, j + 1)
      /\ Spends(j + 1, j)
  BY OneLogon
<1>2. QED
  BY <1>1, PTL DEF Spends

(* With the limits of the code, five cycles and fifty logons, the machine    *)
(* comes to rest for good within reach of whoever waits for it, or with a    *)
(* command failed unheard, whichever of at most fifty restarts and failing  *)
(* listings there are, wusa's restart among them.                           *)
THEOREM EndIsReached ==
  ASSUME MaxCycles = 5, AutoLogonCount = 50,
         AutoLogonCount >= Cardinality(NeedsRestart) + MaxFaults + 1
  PROVE  Spec /\ FairMachine => EndsReachable
<1>1. /\ Spends(50, 40) /\ Spends(40, 30) /\ Spends(30, 20) /\ Spends(20, 10)
      /\ Spends(10, 0)
  BY TenLogons
<1>2. IInv => (~Running => Budget(50))
  BY DEF IInv, TypeOK, Running, Budget
<1>3. IInv /\ Budget(0) => ~LogonDue
  BY LimitsAssumption DEF IInv, TypeOK, Budget, LogonDue
<1>4. IInv /\ IInv' /\ Budget(0) /\ [Next]_vars => Budget(0)'
  BY LogonsOnlyFall, LimitsAssumption DEF Budget, IInv, TypeOK
<1>5. IInv /\ RestartDue /\ [Next]_vars => (RestartDue \/ LogonDue \/ AtRest)'
  BY AfterTheScript
<1>6. IInv /\ RestartDue /\ <<RestartComputer>>_vars => (LogonDue \/ AtRest)'
  BY AfterTheScript DEF Next
<1>7. RestartDue => restart
  BY DEF RestartDue
<1>8. Spec /\ FairMachine => []<>AtRest
  BY <1>1, <1>2, <1>3, <1>4, <1>5, <1>6, <1>7, WhereItStands, ScriptEnds, Invariance, PTL
  DEF Spec, Spends, FairMachine, RestartsHappen
<1> DEFINE Spent == wusa = "restarted"
<1>9. IInv /\ AtRest /\ [Next]_vars => AtRest' \/ (~Spent /\ Spent')
  BY AfterTheScript
<1>10. IInv /\ Spent /\ [Next]_vars => Spent'
  BY AfterTheScript
<1> HIDE DEF Spent
<1>11. Spec /\ FairMachine => <>[]AtRest
  BY <1>8, <1>9, <1>10, Invariance, PTL DEF Spec
<1>12. IInv /\ RestIsReachable /\ AtRest => Reachable
  BY DEF IInv, RestartPending, AtRest, Reachable, RestIsReachable, EndIsAnnounced,
     NeverLockedOut
<1>13. QED
  BY <1>11, <1>12, RestReachable, Invariance, PTL DEF Spec, EndsReachable
=============================================================================
