---------------------------- MODULE ScanLockProofs ----------------------------
(***************************************************************************)
(* Proofs about ScanLock, for any processes, hosts, lease, heartbeat and   *)
(* bounds: the type invariant, that an owner which runs and beats keeps    *)
(* its lease, and that two scans overlap only after a race or an expired   *)
(* lease.                                                                  *)
(***************************************************************************)
EXTENDS ScanLock, FiniteSetTheorems, TLAPS

--------------------------------------------------------------------------------
(* The inductive invariant, beyond the types and the properties themselves. *)

\* Where a process stands says what it may still do.
PlaceInv ==
  /\ \A p \in Proc : pc[p] \in {"judge", "unlink"} => attempt[p] < 2
  /\ \A p \in Proc : beat[p] = "touching" => pc[p] = "holding"
  /\ child => pc[Scheduler] = "holding"
  /\ ~child => launches <= Retries

\* A living owner of the file has written its payload once it scans, and its
\* heartbeat has not ended unless an error or a suspension is to blame; a
\* suspended owner has lapsed.
OwnerInv ==
  /\ Owned => (file.written <=> pc[file.by] # "write")
  /\ Owned /\ pc[file.by] = "holding" /\ file.by \notin lapsed => beat[file.by] \in {"on", "touching"}
  /\ \A p \in paused : pc[p] \in Owning => p \in lapsed

\* The file of a living owner that has not lapsed is young, and whoever looked at
\* this very file knows it.
LeaseInv ==
  Owned /\ file.by \notin lapsed =>
    /\ file.age <= Beat
    /\ \A p \in Proc : pc[p] = "judge" /\ p \notin replaced => age[p] <= Beat

\* Every owner is the one the file names, unless a race or an expired lease
\* took the file from it; who is about to unlink the file it judged finds
\* nobody's.
MutexInv ==
  /\ ~raced /\ ~expired =>
       \A p \in Proc : pc[p] \in Owning => Owned /\ file.by = p
  /\ ~expired =>
       \A p \in Proc : pc[p] = "unlink" /\ p \notin replaced => ~Owned

IInv == TypeOK /\ PlaceInv /\ OwnerInv /\ LeaseInv /\ LeaseKept /\ MutexInv

--------------------------------------------------------------------------------
(* Every step preserves it.                                                *)

\* The bounds are numbers.
LEMMA Numbers ==
  /\ Beat \in Nat /\ Lease \in Nat /\ Stale \in Nat /\ Retries \in Nat
  /\ MaxCrashes \in Nat /\ MaxPauses \in Nat /\ MaxErrors \in Nat /\ MaxFaults \in Nat
  /\ 0 \in 0 .. Retries + 1 /\ 0 \in 0 .. Stale + 1
  /\ 0 \in 0 .. MaxCrashes /\ 0 \in 0 .. MaxPauses /\ 0 \in 0 .. MaxErrors
<1>1. /\ Beat \in Nat /\ Lease \in Nat /\ Stale \in Nat /\ Retries \in Nat
      /\ MaxCrashes \in Nat /\ MaxPauses \in Nat /\ MaxErrors \in Nat /\ MaxFaults \in Nat
  BY ConstantsOK
<1>2. QED
  BY <1>1

\* What O_CREAT and touch leave is a file, and what becomes of a file is one.
LEMMA FileShapes ==
  /\ \A f \in Files : f # NoFile
  /\ \A p \in Proc : NewFile(p) \in Files
  /\ NewFile(Nobody) \in Files
  /\ \A f \in Files : [f EXCEPT !.written = TRUE, !.age = 0] \in Files
  /\ \A f \in Files : [f EXCEPT !.dead = TRUE] \in Files
  /\ \A f \in Files : [f EXCEPT !.age = 0] \in Files
<1>1. Stale \in Nat /\ 0 .. Stale + 1 \subseteq Nat
  BY Numbers
<1>2. Files \subseteq [by : Proc \cup {Nobody}, written : BOOLEAN, dead : BOOLEAN, age : Nat]
  BY <1>1 DEF Files
<1>3. \A f \in Files : f # NoFile
  BY <1>2, ConstantsOK
<1>4. 0 \in 0 .. Stale + 1
  BY <1>1
<1>5. QED
  BY <1>3, <1>4 DEF Files, NewFile

\* Every step of a process, of a heartbeat, of a child and of time keeps the types.
LEMMA TypeStep ==
  ASSUME TypeOK, PlaceInv, [Next]_vars
  PROVE  TypeOK'
<1> USE ConstantsOK DEF lock, history, scan, faults, Running, Goto, Retire, MayFail, Owning, At, Owned, TypeOK, PlaceInv
<1>1. ASSUME NEW p \in Proc, Request(p) PROVE TypeOK'
  BY <1>1 DEF Request
<1>2. ASSUME NEW p \in Proc, Create(p) PROVE TypeOK'
  <2>1. file' = NoFile \/ file' \in Files
    BY <1>2, FileShapes DEF Replace, Create
  <2>2. replaced' \subseteq Proc
    BY <1>2 DEF Replace, Create
  <2>3. QED
    BY <1>2, <2>1, <2>2 DEF Create
<1>3. ASSUME NEW p \in Proc, Stat(p) PROVE TypeOK'
  <2>1. age' \in [Proc -> 0 .. Stale + 1]
    BY <1>3, Numbers DEF Stat, Files
  <2>2. QED
    BY <1>3, <2>1 DEF Stat
<1>4. ASSUME NEW p \in Proc, Judge(p) PROVE TypeOK'
  BY <1>4 DEF OwnerActive, ProcessLives, Decide, Judge
<1>5. ASSUME NEW p \in Proc, Unlink(p) PROVE TypeOK'
  BY <1>5 DEF Unlink
<1>6. ASSUME NEW p \in Proc, Write(p) PROVE TypeOK'
  <2>1. file' = NoFile \/ file' \in Files
    BY <1>6, FileShapes DEF Write
  <2>2. QED
    BY <1>6, <2>1 DEF Write
<1>7. ASSUME NEW p \in Proc, BeatRead(p) PROVE TypeOK'
  BY <1>7 DEF Mine, BeatRead
<1>8. ASSUME NEW p \in Proc, BeatTouch(p) PROVE TypeOK'
  <2>1. file' = NoFile \/ file' \in Files
    BY <1>8, FileShapes DEF Replace, BeatTouch
  <2>2. replaced' \subseteq Proc
    BY <1>8 DEF Replace, BeatTouch
  <2>3. QED
    BY <1>8, <2>1, <2>2 DEF BeatTouch
<1>9. ASSUME NEW p \in Proc, ScanEnds(p) PROVE TypeOK'
  BY <1>9 DEF ScanEnds
<1>10. ASSUME NEW p \in Proc, ReleaseRead(p) PROVE TypeOK'
  BY <1>10 DEF Mine, ReleaseRead
<1>11. ASSUME NEW p \in Proc, ReleaseUnlink(p) PROVE TypeOK'
  BY <1>11 DEF Replace, ReleaseUnlink
<1>12. ASSUME NEW p \in Proc, Crash(p) PROVE TypeOK'
  <2>1. file' = NoFile \/ file' \in Files
    BY <1>12, FileShapes DEF Crash
  <2>2. launches' \in 0 .. Retries + 1
    <3>1. launches' = 0 \/ launches' = launches
      BY <1>12 DEF Crash
    <3>2. QED
      BY <3>1, Numbers
  <2>5. orphan' \in BOOLEAN /\ child' \in BOOLEAN
    BY <1>12 DEF Crash
  <2>3. crashes' \in 0 .. MaxCrashes /\ pauses' \in 0 .. MaxPauses
    BY <1>12, Numbers DEF Crash
  <2>4. QED
    BY <1>12, <2>1, <2>2, <2>3, <2>5, Numbers DEF Crash
<1>13. ASSUME NEW p \in Proc, Pause(p) PROVE TypeOK'
  BY <1>13 DEF Pause
<1>14. ASSUME NEW p \in Proc, Resume(p) PROVE TypeOK'
  BY <1>14 DEF Resume
<1>15. CASE Launch
  BY <1>15 DEF Launch
<1>16. CASE ChildFails
  BY <1>16 DEF ChildFails
<1>17. CASE ChildEnds
  <2>1. launches' \in 0 .. Retries + 1 /\ child' \in BOOLEAN
    BY <1>17, Numbers DEF ChildEnds
  <2>2. pc' \in [Proc -> At] /\ beat' \in [Proc -> {"off", "on", "touching"}]
    BY <1>17 DEF ChildEnds
  <2>3. UNCHANGED <<attempt, age, paused, lock, orphan, faults>>
    BY <1>17 DEF ChildEnds
  <2>4. QED
    BY <2>1, <2>2, <2>3
<1>18. CASE OrphanEnds
  BY <1>18 DEF OrphanEnds
<1>19. CASE Tick
  <2>1. file' \in Files
    BY <1>19, Numbers DEF Tick, Files
  <2>2. QED
    BY <1>19, <2>1 DEF Tick
<1>20. CASE UNCHANGED vars
  BY <1>20 DEF vars
<1>21. ASSUME NEW p \in Proc, BeatFails(p) PROVE TypeOK'
  BY <1>21 DEF BeatFails
<1>22. ASSUME NEW p \in Proc, JudgeUnread(p) PROVE TypeOK'
  BY <1>22 DEF Decide, JudgeUnread
<1>23. ASSUME NEW p \in Proc, CallFails(p) PROVE TypeOK'
  BY <1>23 DEF CallFails
<1>24. QED
  BY <1>1, <1>2, <1>3, <1>4, <1>5, <1>6, <1>7, <1>8, <1>9, <1>10, <1>11, <1>12, <1>13, <1>14, <1>15, <1>16, <1>17, <1>18, <1>19, <1>20, <1>21, <1>22, <1>23 DEF Next, Acquire, Heartbeat, Release, Failure, ScheduledScan

\* ... and where each process stands.
LEMMA PlaceStep ==
  ASSUME TypeOK, PlaceInv, [Next]_vars
  PROVE  PlaceInv'
<1> USE ConstantsOK DEF lock, history, scan, faults, Running, Goto, Retire, MayFail, Owning, At, Owned, TypeOK, PlaceInv, Files
<1>1. ASSUME NEW p \in Proc, Request(p) PROVE PlaceInv'
  BY <1>1 DEF Request
<1>2. ASSUME NEW p \in Proc, Create(p) PROVE PlaceInv'
  BY <1>2 DEF Replace, NewFile, Create
<1>3. ASSUME NEW p \in Proc, Stat(p) PROVE PlaceInv'
  BY <1>3 DEF Stat
<1>4. ASSUME NEW p \in Proc, Judge(p) PROVE PlaceInv'
  BY <1>4 DEF OwnerActive, ProcessLives, Decide, Judge
<1>5. ASSUME NEW p \in Proc, Unlink(p) PROVE PlaceInv'
  BY <1>5 DEF Unlink
<1>6. ASSUME NEW p \in Proc, Write(p) PROVE PlaceInv'
  BY <1>6 DEF Write
<1>7. ASSUME NEW p \in Proc, BeatRead(p) PROVE PlaceInv'
  BY <1>7 DEF Mine, BeatRead
<1>8. ASSUME NEW p \in Proc, BeatTouch(p) PROVE PlaceInv'
  BY <1>8 DEF Replace, NewFile, BeatTouch
<1>9. ASSUME NEW p \in Proc, ScanEnds(p) PROVE PlaceInv'
  BY <1>9 DEF ScanEnds
<1>10. ASSUME NEW p \in Proc, ReleaseRead(p) PROVE PlaceInv'
  BY <1>10 DEF Mine, ReleaseRead
<1>11. ASSUME NEW p \in Proc, ReleaseUnlink(p) PROVE PlaceInv'
  BY <1>11 DEF Replace, ReleaseUnlink
<1>12. ASSUME NEW p \in Proc, Crash(p) PROVE PlaceInv'
  BY <1>12 DEF Crash
<1>13. ASSUME NEW p \in Proc, Pause(p) PROVE PlaceInv'
  BY <1>13 DEF Pause
<1>14. ASSUME NEW p \in Proc, Resume(p) PROVE PlaceInv'
  BY <1>14 DEF Resume
<1>15. CASE Launch
  BY <1>15 DEF Launch
<1>16. CASE ChildFails
  BY <1>16 DEF ChildFails
<1>17. CASE ChildEnds
  BY <1>17 DEF ChildEnds
<1>18. CASE OrphanEnds
  BY <1>18 DEF OrphanEnds
<1>19. CASE Tick
  BY <1>19 DEF Tick
<1>20. CASE UNCHANGED vars
  BY <1>20 DEF vars
<1>21. ASSUME NEW p \in Proc, BeatFails(p) PROVE PlaceInv'
  BY <1>21 DEF BeatFails
<1>22. ASSUME NEW p \in Proc, JudgeUnread(p) PROVE PlaceInv'
  BY <1>22 DEF Decide, JudgeUnread
<1>23. ASSUME NEW p \in Proc, CallFails(p) PROVE PlaceInv'
  BY <1>23 DEF CallFails
<1>24. QED
  BY <1>1, <1>2, <1>3, <1>4, <1>5, <1>6, <1>7, <1>8, <1>9, <1>10, <1>11, <1>12, <1>13, <1>14, <1>15, <1>16, <1>17, <1>18, <1>19, <1>20, <1>21, <1>22, <1>23 DEF Next, Acquire, Heartbeat, Release, Failure, ScheduledScan

\* ... and what the file says of a living owner.
LEMMA OwnerStep ==
  ASSUME TypeOK, PlaceInv, OwnerInv, [Next]_vars
  PROVE  OwnerInv'
<1> USE ConstantsOK DEF lock, history, scan, faults, Running, Goto, Retire, MayFail, Owning, At, Owned, TypeOK, PlaceInv, OwnerInv, Files
<1>1. ASSUME NEW p \in Proc, Request(p) PROVE OwnerInv'
  BY <1>1 DEF Request
<1>2. ASSUME NEW p \in Proc, Create(p) PROVE OwnerInv'
  BY <1>2 DEF Replace, NewFile, Create
<1>3. ASSUME NEW p \in Proc, Stat(p) PROVE OwnerInv'
  BY <1>3 DEF Stat
<1>4. ASSUME NEW p \in Proc, Judge(p) PROVE OwnerInv'
  BY <1>4 DEF OwnerActive, ProcessLives, Decide, Judge
<1>5. ASSUME NEW p \in Proc, Unlink(p) PROVE OwnerInv'
  BY <1>5 DEF Unlink
<1>6. ASSUME NEW p \in Proc, Write(p) PROVE OwnerInv'
  BY <1>6 DEF Write
<1>7. ASSUME NEW p \in Proc, BeatRead(p) PROVE OwnerInv'
  BY <1>7 DEF Mine, BeatRead
<1>8. ASSUME NEW p \in Proc, BeatTouch(p) PROVE OwnerInv'
  BY <1>8 DEF Replace, NewFile, BeatTouch
<1>9. ASSUME NEW p \in Proc, ScanEnds(p) PROVE OwnerInv'
  BY <1>9 DEF ScanEnds
<1>10. ASSUME NEW p \in Proc, ReleaseRead(p) PROVE OwnerInv'
  BY <1>10 DEF Mine, ReleaseRead
<1>11. ASSUME NEW p \in Proc, ReleaseUnlink(p) PROVE OwnerInv'
  BY <1>11 DEF Replace, ReleaseUnlink
<1>12. ASSUME NEW p \in Proc, Crash(p) PROVE OwnerInv'
  BY <1>12 DEF Crash
<1>13. ASSUME NEW p \in Proc, Pause(p) PROVE OwnerInv'
  BY <1>13 DEF Pause
<1>14. ASSUME NEW p \in Proc, Resume(p) PROVE OwnerInv'
  BY <1>14 DEF Resume
<1>15. CASE Launch
  BY <1>15 DEF Launch
<1>16. CASE ChildFails
  BY <1>16 DEF ChildFails
<1>17. CASE ChildEnds
  BY <1>17 DEF ChildEnds
<1>18. CASE OrphanEnds
  BY <1>18 DEF OrphanEnds
<1>19. CASE Tick
  BY <1>19 DEF Tick
<1>20. CASE UNCHANGED vars
  BY <1>20 DEF vars
<1>21. ASSUME NEW p \in Proc, BeatFails(p) PROVE OwnerInv'
  BY <1>21 DEF BeatFails
<1>22. ASSUME NEW p \in Proc, JudgeUnread(p) PROVE OwnerInv'
  BY <1>22 DEF Decide, JudgeUnread
<1>23. ASSUME NEW p \in Proc, CallFails(p) PROVE OwnerInv'
  BY <1>23 DEF CallFails
<1>24. QED
  BY <1>1, <1>2, <1>3, <1>4, <1>5, <1>6, <1>7, <1>8, <1>9, <1>10, <1>11, <1>12, <1>13, <1>14, <1>15, <1>16, <1>17, <1>18, <1>19, <1>20, <1>21, <1>22, <1>23 DEF Next, Acquire, Heartbeat, Release, Failure, ScheduledScan

\* ... and the youth of a lock whose owner has not lapsed.
LEMMA LeaseStep ==
  ASSUME TypeOK, PlaceInv, OwnerInv, LeaseInv, [Next]_vars
  PROVE  LeaseInv'
<1> USE ConstantsOK DEF lock, history, scan, faults, Running, Goto, Retire, MayFail, Owning, At, Owned, TypeOK, PlaceInv, OwnerInv, LeaseInv, Files
<1>1. ASSUME NEW p \in Proc, Request(p) PROVE LeaseInv'
  BY <1>1 DEF Request
<1>2. ASSUME NEW p \in Proc, Create(p) PROVE LeaseInv'
  BY <1>2 DEF Replace, NewFile, Create
<1>3. ASSUME NEW p \in Proc, Stat(p) PROVE LeaseInv'
  BY <1>3 DEF Stat
<1>4. ASSUME NEW p \in Proc, Judge(p) PROVE LeaseInv'
  BY <1>4 DEF OwnerActive, ProcessLives, Decide, Judge
<1>5. ASSUME NEW p \in Proc, Unlink(p) PROVE LeaseInv'
  BY <1>5 DEF Unlink
<1>6. ASSUME NEW p \in Proc, Write(p) PROVE LeaseInv'
  BY <1>6 DEF Write
<1>7. ASSUME NEW p \in Proc, BeatRead(p) PROVE LeaseInv'
  BY <1>7 DEF Mine, BeatRead
<1>8. ASSUME NEW p \in Proc, BeatTouch(p) PROVE LeaseInv'
  BY <1>8 DEF Replace, NewFile, BeatTouch
<1>9. ASSUME NEW p \in Proc, ScanEnds(p) PROVE LeaseInv'
  BY <1>9 DEF ScanEnds
<1>10. ASSUME NEW p \in Proc, ReleaseRead(p) PROVE LeaseInv'
  BY <1>10 DEF Mine, ReleaseRead
<1>11. ASSUME NEW p \in Proc, ReleaseUnlink(p) PROVE LeaseInv'
  BY <1>11 DEF Replace, ReleaseUnlink
<1>12. ASSUME NEW p \in Proc, Crash(p) PROVE LeaseInv'
  BY <1>12 DEF Crash
<1>13. ASSUME NEW p \in Proc, Pause(p) PROVE LeaseInv'
  BY <1>13 DEF Pause
<1>14. ASSUME NEW p \in Proc, Resume(p) PROVE LeaseInv'
  BY <1>14 DEF Resume
<1>15. CASE Launch
  BY <1>15 DEF Launch
<1>16. CASE ChildFails
  BY <1>16 DEF ChildFails
<1>17. CASE ChildEnds
  BY <1>17 DEF ChildEnds
<1>18. CASE OrphanEnds
  BY <1>18 DEF OrphanEnds
<1>19. CASE Tick
  BY <1>19 DEF Prompt, Mine, Tick
<1>20. CASE UNCHANGED vars
  BY <1>20 DEF vars
<1>21. ASSUME NEW p \in Proc, BeatFails(p) PROVE LeaseInv'
  BY <1>21 DEF BeatFails
<1>22. ASSUME NEW p \in Proc, JudgeUnread(p) PROVE LeaseInv'
  BY <1>22 DEF Decide, JudgeUnread
<1>23. ASSUME NEW p \in Proc, CallFails(p) PROVE LeaseInv'
  BY <1>23 DEF CallFails
<1>24. QED
  BY <1>1, <1>2, <1>3, <1>4, <1>5, <1>6, <1>7, <1>8, <1>9, <1>10, <1>11, <1>12, <1>13, <1>14, <1>15, <1>16, <1>17, <1>18, <1>19, <1>20, <1>21, <1>22, <1>23 DEF Next, Acquire, Heartbeat, Release, Failure, ScheduledScan

\* ... so no owner that runs and beats is judged inactive.
LEMMA KeptStep ==
  ASSUME TypeOK, PlaceInv, OwnerInv, LeaseInv, LeaseKept, [Next]_vars
  PROVE  LeaseKept'
<1> USE ConstantsOK DEF lock, history, scan, faults, Running, Goto, Retire, MayFail, Owning, At, Owned, TypeOK, PlaceInv, OwnerInv, LeaseInv, LeaseKept, Files
<1>1. ASSUME NEW p \in Proc, Request(p) PROVE LeaseKept'
  BY <1>1 DEF Request
<1>2. ASSUME NEW p \in Proc, Create(p) PROVE LeaseKept'
  BY <1>2 DEF Replace, NewFile, Create
<1>3. ASSUME NEW p \in Proc, Stat(p) PROVE LeaseKept'
  BY <1>3 DEF Stat
<1>4. ASSUME NEW p \in Proc, Judge(p) PROVE LeaseKept'
  BY <1>4 DEF OwnerActive, ProcessLives, Decide, Judge
<1>5. ASSUME NEW p \in Proc, Unlink(p) PROVE LeaseKept'
  BY <1>5 DEF Unlink
<1>6. ASSUME NEW p \in Proc, Write(p) PROVE LeaseKept'
  BY <1>6 DEF Write
<1>7. ASSUME NEW p \in Proc, BeatRead(p) PROVE LeaseKept'
  BY <1>7 DEF Mine, BeatRead
<1>8. ASSUME NEW p \in Proc, BeatTouch(p) PROVE LeaseKept'
  BY <1>8 DEF Replace, NewFile, BeatTouch
<1>9. ASSUME NEW p \in Proc, ScanEnds(p) PROVE LeaseKept'
  BY <1>9 DEF ScanEnds
<1>10. ASSUME NEW p \in Proc, ReleaseRead(p) PROVE LeaseKept'
  BY <1>10 DEF Mine, ReleaseRead
<1>11. ASSUME NEW p \in Proc, ReleaseUnlink(p) PROVE LeaseKept'
  BY <1>11 DEF Replace, ReleaseUnlink
<1>12. ASSUME NEW p \in Proc, Crash(p) PROVE LeaseKept'
  BY <1>12 DEF Crash
<1>13. ASSUME NEW p \in Proc, Pause(p) PROVE LeaseKept'
  BY <1>13 DEF Pause
<1>14. ASSUME NEW p \in Proc, Resume(p) PROVE LeaseKept'
  BY <1>14 DEF Resume
<1>15. CASE Launch
  BY <1>15 DEF Launch
<1>16. CASE ChildFails
  BY <1>16 DEF ChildFails
<1>17. CASE ChildEnds
  BY <1>17 DEF ChildEnds
<1>18. CASE OrphanEnds
  BY <1>18 DEF OrphanEnds
<1>19. CASE Tick
  BY <1>19 DEF Tick
<1>20. CASE UNCHANGED vars
  BY <1>20 DEF vars
<1>21. ASSUME NEW p \in Proc, BeatFails(p) PROVE LeaseKept'
  BY <1>21 DEF BeatFails
<1>22. ASSUME NEW p \in Proc, JudgeUnread(p) PROVE LeaseKept'
  BY <1>22 DEF Decide, JudgeUnread
<1>23. ASSUME NEW p \in Proc, CallFails(p) PROVE LeaseKept'
  BY <1>23 DEF CallFails
<1>24. QED
  BY <1>1, <1>2, <1>3, <1>4, <1>5, <1>6, <1>7, <1>8, <1>9, <1>10, <1>11, <1>12, <1>13, <1>14, <1>15, <1>16, <1>17, <1>18, <1>19, <1>20, <1>21, <1>22, <1>23 DEF Next, Acquire, Heartbeat, Release, Failure, ScheduledScan

\* A judgement leaves the file to its owner, or the history says it did not.
LEMMA DecideMutex ==
  ASSUME TypeOK, MutexInv, NEW p \in Proc, NEW active, Decide(p, active)
  PROVE  MutexInv'
<1>1. /\ pc[p] = "judge" /\ pc' = [pc EXCEPT ![p] = IF active THEN "idle" ELSE "unlink"]
      /\ UNCHANGED <<file, replaced, raced>>
      /\ expired' = (expired \/ (~active /\ p \notin replaced /\ Owned))
  BY DEF Decide, Goto
<1>2. pc \in [Proc -> At]
  BY DEF TypeOK
<1>3. /\ \A q \in Proc : q # p => pc'[q] = pc[q]
      /\ pc'[p] = IF active THEN "idle" ELSE "unlink"
  BY <1>1, <1>2
<1>4. Owned' => Owned
  <2>1. SUFFICES ASSUME Owned' PROVE Owned
    OBVIOUS
  <2>2. file # NoFile /\ file.by # Nobody /\ ~file.dead /\ file.by \in Proc
    BY <1>1, <2>1 DEF Owned, TypeOK, Files
  <2>3. pc[file.by] \in Owning
    BY <1>1, <1>3, <2>1, <2>2 DEF Owned, Owning
  <2>4. QED
    BY <2>2, <2>3 DEF Owned
<1>5. \A q \in Proc : pc'[q] \in Owning => q # p
  BY <1>3 DEF Owning
<1>6. ASSUME ~raced', ~expired', NEW q \in Proc, pc'[q] \in Owning
      PROVE  Owned' /\ file'.by = q
  <2>1. q # p /\ pc[q] \in Owning /\ ~raced /\ ~expired
    BY <1>1, <1>3, <1>5, <1>6
  <2>2. Owned /\ file.by = q
    BY <2>1 DEF MutexInv
  <2>3. QED
    BY <1>1, <1>6, <2>2 DEF Owned
<1>7. ASSUME ~expired', NEW q \in Proc, pc'[q] = "unlink", q \notin replaced'
      PROVE  ~Owned'
  <2>1. CASE q = p
    <3>1. ~active
      BY <1>3, <1>7, <2>1
    <3>2. p \notin replaced
      BY <1>1, <1>7, <2>1
    <3>3. ~Owned
      BY <1>1, <1>7, <3>1, <3>2
    <3>4. QED
      BY <1>4, <3>3
  <2>2. CASE q # p
    BY <1>1, <1>3, <1>4, <1>7, <2>2 DEF MutexInv
  <2>3. QED
    BY <2>1, <2>2
<1>8. QED
  BY <1>6, <1>7 DEF MutexInv

\* ... and the file names every owner.
LEMMA MutexStep ==
  ASSUME TypeOK, PlaceInv, OwnerInv, MutexInv, [Next]_vars
  PROVE  MutexInv'
<1> USE ConstantsOK DEF lock, history, scan, faults, Running, Goto, Retire, MayFail, Owning, At, Owned, TypeOK, PlaceInv, OwnerInv, MutexInv, Files
<1>1. ASSUME NEW p \in Proc, Request(p) PROVE MutexInv'
  BY <1>1 DEF Request
<1>2. ASSUME NEW p \in Proc, Create(p) PROVE MutexInv'
  <2>1. NewFile(p) # NoFile /\ NewFile(p).by = p /\ ~NewFile(p).dead
    BY FileShapes DEF NewFile
  <2>2. QED
    BY <1>2, <2>1 DEF Replace, Create
<1>3. ASSUME NEW p \in Proc, Stat(p) PROVE MutexInv'
  BY <1>3 DEF Stat
<1>4. ASSUME NEW p \in Proc, Judge(p) PROVE MutexInv'
  <2>1. Decide(p, OwnerActive(p))
    BY <1>4 DEF Judge
  <2>2. QED
    BY <2>1, DecideMutex
<1>5. ASSUME NEW p \in Proc, Unlink(p) PROVE MutexInv'
  BY <1>5 DEF Unlink
<1>6. ASSUME NEW p \in Proc, Write(p) PROVE MutexInv'
  <2>1. Owned' <=> Owned
    BY <1>6, FileShapes DEF Write, Files
  <2>2. Owned => file'.by = file.by
    BY <1>6 DEF Write
  <2>3. QED
    BY <1>6, <2>1, <2>2 DEF Write
<1>7. ASSUME NEW p \in Proc, BeatRead(p) PROVE MutexInv'
  BY <1>7 DEF Mine, BeatRead
<1>8. ASSUME NEW p \in Proc, BeatTouch(p) PROVE MutexInv'
  BY <1>8 DEF Replace, NewFile, BeatTouch
<1>9. ASSUME NEW p \in Proc, ScanEnds(p) PROVE MutexInv'
  BY <1>9 DEF ScanEnds
<1>10. ASSUME NEW p \in Proc, ReleaseRead(p) PROVE MutexInv'
  BY <1>10 DEF Mine, ReleaseRead
<1>11. ASSUME NEW p \in Proc, ReleaseUnlink(p) PROVE MutexInv'
  BY <1>11 DEF Replace, ReleaseUnlink
<1>12. ASSUME NEW p \in Proc, Crash(p) PROVE MutexInv'
  BY <1>12 DEF Crash
<1>13. ASSUME NEW p \in Proc, Pause(p) PROVE MutexInv'
  BY <1>13 DEF Pause
<1>14. ASSUME NEW p \in Proc, Resume(p) PROVE MutexInv'
  BY <1>14 DEF Resume
<1>15. CASE Launch
  BY <1>15 DEF Launch
<1>16. CASE ChildFails
  BY <1>16 DEF ChildFails
<1>17. CASE ChildEnds
  BY <1>17 DEF ChildEnds
<1>18. CASE OrphanEnds
  BY <1>18 DEF OrphanEnds
<1>19. CASE Tick
  BY <1>19 DEF Tick
<1>20. CASE UNCHANGED vars
  BY <1>20 DEF vars
<1>21. ASSUME NEW p \in Proc, BeatFails(p) PROVE MutexInv'
  BY <1>21 DEF BeatFails
<1>22. ASSUME NEW p \in Proc, JudgeUnread(p) PROVE MutexInv'
  <2>1. Decide(p, age[p] <= Stale)
    BY <1>22 DEF JudgeUnread
  <2>2. QED
    BY <2>1, DecideMutex
<1>23. ASSUME NEW p \in Proc, CallFails(p) PROVE MutexInv'
  BY <1>23 DEF CallFails
<1>24. QED
  BY <1>1, <1>2, <1>3, <1>4, <1>5, <1>6, <1>7, <1>8, <1>9, <1>10, <1>11, <1>12, <1>13, <1>14, <1>15, <1>16, <1>17, <1>18, <1>19, <1>20, <1>21, <1>22, <1>23 DEF Next, Acquire, Heartbeat, Release, Failure, ScheduledScan

--------------------------------------------------------------------------------
(* The theorems.                                                           *)

\* Nobody has asked for the lock yet.
LEMMA InitInv == Init => IInv
<1> SUFFICES ASSUME Init PROVE IInv
  OBVIOUS
<1>1. TypeOK
  <2>1. pc \in [Proc -> At] /\ beat \in [Proc -> {"off", "on", "touching"}]
    BY DEF Init, At
  <2>2. attempt \in [Proc -> 0 .. 2] /\ age \in [Proc -> 0 .. Stale + 1]
    BY Numbers DEF Init
  <2>3. QED
    BY <2>1, <2>2, Numbers DEF Init, TypeOK
<1>2. PlaceInv
  BY ConstantsOK, Numbers DEF Init, PlaceInv
<1>3. OwnerInv /\ LeaseInv /\ LeaseKept /\ MutexInv
  BY DEF Init, OwnerInv, LeaseInv, LeaseKept, MutexInv, Owned, Owning
<1>4. QED
  BY <1>1, <1>2, <1>3 DEF IInv

\* A step of acquire, of a heartbeat, of a scan, of release or of the
\* environment preserves the invariant.
LEMMA StepInv == IInv /\ [Next]_vars => IInv'
BY TypeStep, PlaceStep, OwnerStep, LeaseStep, KeptStep, MutexStep DEF IInv

\* The invariant holds of every behaviour of the lock.
THEOREM InvHolds == Spec => []IInv
BY InitInv, StepInv, PTL DEF Spec

\* The files, ages, places and heartbeats of the lock keep their types.
THEOREM TypeHolds == Spec => []TypeOK
<1>1. IInv => TypeOK
  BY DEF IInv
<1>2. QED
  BY <1>1, InvHolds, PTL

\* An owner that has not been suspended and whose heartbeat has met no error
\* never loses its lease, whatever befalls the other processes: its heartbeat
\* keeps the file younger than any contender's patience.
THEOREM LeaseHolds == Spec => []LeaseKept
<1>1. IInv => LeaseKept
  BY DEF IInv
<1>2. QED
  BY <1>1, InvHolds, PTL

\* Two scans overlap only after a race to recover one stale lock or an expired
\* lease, whatever the number of processes and wherever they crash.
THEOREM OverlapHolds == Spec => []OverlapExplained
<1>1. ASSUME IInv, ~raced, ~expired PROVE Cardinality(Scanners) <= 1
  <2>1. \A p, q \in Scanners : p = q
    BY <1>1 DEF IInv, PlaceInv, MutexInv, Owning, Scanners
  <2>2. CASE Scanners = {}
    BY <2>2, FS_EmptySet
  <2>3. CASE Scanners # {}
    <3>1. PICK p \in Scanners : TRUE
      BY <2>3
    <3>2. Scanners = {p}
      BY <2>1, <3>1
    <3>3. QED
      BY <3>2, FS_Singleton
  <2>4. QED
    BY <2>2, <2>3
<1>2. IInv => OverlapExplained
  BY <1>1 DEF OverlapExplained
<1>3. QED
  BY <1>2, InvHolds, PTL

================================================================================
