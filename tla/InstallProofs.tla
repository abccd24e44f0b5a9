--------------------------- MODULE InstallProofs ---------------------------
(***************************************************************************)
(* Install's properties for every set of paths, every foreign content and  *)
(* whatever the destinations can link.                                     *)
(***************************************************************************)
EXTENDS Install, TLAPS

\* The steps of the program and its surroundings, one disjunct per action.
Step ==
    \/ \E j \in Jobs : Start(j)
    \/ LaunchFails \/ Write \/ CopyOk \/ CopyFails
    \/ \E r \in {"cancelled", "stopped"} : CopyInterrupted(r)
    \/ LinkLocal \/ StatLocal \/ RenameLocal
    \/ LnOk \/ Ls \/ LsInterrupted \/ RenameOk
    \/ \E took \in BOOLEAN : LnRefused(took)
    \/ \E took \in BOOLEAN : RenameRefused(took)
    \/ \E r \in Interrupts, took \in BOOLEAN : LnInterrupted(r, took)
    \/ \E r \in Interrupts, took \in BOOLEAN : RenameInterrupted(r, took)
    \/ \E took \in BOOLEAN : Rm(took)
    \/ \E p \in Paths : OtherRemoves(p)
    \/ \E p \in Paths, f \in Foreign : OtherWrites(p, f)
    \/ ConnectionLost
    \/ MasterUp

\* Next is the disjunction of the actions.
LEMMA NextIsStep == Next => Step
  BY DEF Next, Copy, InstallDownload, InstallUpload, Other, Step

\* The program starts with no job under way, so nothing is claimed yet.
LEMMA InitInv == Init => InstallInv
  BY InstallAssumption
  DEF Init, InstallInv, TypeOK, BytesInv, FallbackInv, ReportTrue,
      NothingThrownAway, Phases, LocalPhases, RemotePhases, Outcomes, Contents,
      OwnContents, Excuses

\* Every step keeps every value in its type.
LEMMA TypeStep == ASSUME TypeOK, [Next]_installVars PROVE TypeOK'
<1> USE InstallAssumption DEF Excuses, TypeOK, Phases, LocalPhases, RemotePhases,
        Outcomes, Interrupts, Contents, OwnContents, Paths, Jobs, history, End,
        EndAfterRm, Dest
<1>1. ASSUME NEW j \in Jobs, Start(j) PROVE TypeOK'
  BY <1>1 DEF Start
<1>2. CASE LaunchFails
  BY <1>2 DEF LaunchFails
<1>3. CASE Write
  BY <1>3 DEF Write
<1>4. CASE CopyOk
  BY <1>4 DEF CopyOk
<1>5. CASE CopyFails
  BY <1>5 DEF CopyFails
<1>6. ASSUME NEW r \in {"cancelled", "stopped"}, CopyInterrupted(r) PROVE TypeOK'
  BY <1>6 DEF CopyInterrupted
<1>7. CASE LinkLocal
  <2>1. fs' \in [Paths -> Contents]
    BY <1>7 DEF LinkLocal, LinkUnsupported
  <2>2. arrived' \in BOOLEAN /\ tmp' \in {"none", "part", "whole"}
    BY <1>7 DEF LinkLocal, LinkUnsupported
  <2>3. phase' \in Phases /\ outcome' \in Outcomes
    BY <1>7 DEF LinkLocal, LinkUnsupported
  <2>4. QED
    BY <1>7, <2>1, <2>2, <2>3 DEF LinkLocal, LinkUnsupported
<1>8. CASE StatLocal
  BY <1>8 DEF StatLocal
<1>9. CASE RenameLocal
  BY <1>9 DEF RenameLocal
<1>10. CASE LnOk
  BY <1>10 DEF LnOk, Linked, Installed
<1>11. ASSUME NEW took \in BOOLEAN, LnRefused(took) PROVE TypeOK'
  BY <1>11 DEF LnRefused, LnErrs, Linked, CanLink, Free, Installed
<1>12. CASE Ls
  BY <1>12 DEF Ls, NotTaken
<1>13. CASE LsInterrupted
  BY <1>13 DEF LsInterrupted, NotTaken
<1>14. CASE RenameOk
  BY <1>14 DEF RenameOk, Renamed, Installed
<1>15. ASSUME NEW took \in BOOLEAN, RenameRefused(took) PROVE TypeOK'
  BY <1>15 DEF RenameRefused, Renamed, Installed
<1>16. ASSUME NEW r \in Interrupts, NEW took \in BOOLEAN, LnInterrupted(r, took)
       PROVE  TypeOK'
  BY <1>16 DEF LnInterrupted, Linked, Installed, StepFailed
<1>17. ASSUME NEW r \in Interrupts, NEW took \in BOOLEAN, RenameInterrupted(r, took)
       PROVE  TypeOK'
  BY <1>17 DEF RenameInterrupted, Renamed, Installed, StepFailed
<1>18. ASSUME NEW took \in BOOLEAN, Rm(took) PROVE TypeOK'
  BY <1>18 DEF Rm
<1>19. ASSUME NEW p \in Paths, OtherRemoves(p) PROVE TypeOK'
  BY <1>19 DEF OtherRemoves
<1>20. ASSUME NEW p \in Paths, NEW f \in Foreign, OtherWrites(p, f) PROVE TypeOK'
  BY <1>20 DEF OtherWrites
<1>21. CASE ConnectionLost
  <2>1. up' \in BOOLEAN
    BY <1>21, Zenon DEF ConnectionLost
  <2>2. QED
    BY <1>21, <2>1 DEF ConnectionLost
<1>22. CASE UNCHANGED installVars
  BY <1>22 DEF installVars
<1>23. CASE MasterUp
  <2>1. up' \in BOOLEAN
    BY <1>23, Zenon DEF MasterUp
  <2>2. QED
    BY <1>23, <2>1 DEF MasterUp
<1>24. QED
  BY <1>1, <1>2, <1>3, <1>4, <1>5, <1>6, <1>7, <1>8, <1>9, <1>10, <1>11, <1>12,
     <1>13, <1>14, <1>15, <1>16, <1>17, <1>18, <1>19, <1>20, <1>21, <1>22,
     <1>23, NextIsStep DEF Step

\* Every step keeps what is known of a single file's bytes, and with it what
\* the worker reports and what it must not throw away.
LEMMA BytesStep ==
    ASSUME TypeOK, BytesInv, ReportTrue, NothingThrownAway, [Next]_installVars
    PROVE  BytesInv' /\ ReportTrue' /\ NothingThrownAway'
<1> DEFINE Goal == BytesInv' /\ ReportTrue' /\ NothingThrownAway'
<1> USE InstallAssumption DEF Excuses, TypeOK, BytesInv, ReportTrue, NothingThrownAway,
        LocalPhases, RemotePhases, Phases, Interrupts, history, End, EndAfterRm
<1>1. ASSUME NEW j \in Jobs, Start(j) PROVE  Goal
  BY <1>1 DEF Start
<1>2. CASE LaunchFails
  BY <1>2 DEF LaunchFails
<1>3. CASE Write
  BY <1>3 DEF Write
<1>4. CASE CopyOk
  BY <1>4 DEF CopyOk
<1>5. CASE CopyFails
  BY <1>5 DEF CopyFails
<1>6. ASSUME NEW r \in {"cancelled", "stopped"}, CopyInterrupted(r) PROVE  Goal
  BY <1>6 DEF CopyInterrupted
<1>7. CASE LinkLocal
  BY <1>7 DEF LinkLocal, LinkUnsupported
<1>8. CASE StatLocal
  BY <1>8 DEF StatLocal
<1>9. CASE RenameLocal
  BY <1>9 DEF RenameLocal
<1>10. CASE LnOk
  BY <1>10 DEF LnOk, Linked, Installed
<1>11. ASSUME NEW took \in BOOLEAN, LnRefused(took) PROVE Goal
  BY <1>11 DEF LnRefused, LnErrs, Linked, CanLink, Free, Installed
<1>12. CASE Ls
  BY <1>12 DEF Ls, NotTaken
<1>13. CASE LsInterrupted
  BY <1>13 DEF LsInterrupted, NotTaken
<1>14. CASE RenameOk
  BY <1>14 DEF RenameOk, Renamed, Installed
<1>15. ASSUME NEW took \in BOOLEAN, RenameRefused(took) PROVE Goal
  BY <1>15 DEF RenameRefused, Renamed, Installed
<1>16. ASSUME NEW r \in Interrupts, NEW took \in BOOLEAN, LnInterrupted(r, took)
       PROVE  Goal
  BY <1>16 DEF LnInterrupted, Linked, Installed, StepFailed
<1>17. ASSUME NEW r \in Interrupts, NEW took \in BOOLEAN, RenameInterrupted(r, took)
       PROVE  Goal
  BY <1>17 DEF RenameInterrupted, Renamed, Installed, StepFailed
<1>18. ASSUME NEW took \in BOOLEAN, Rm(took) PROVE Goal
  BY <1>18 DEF Rm
<1>19. ASSUME NEW p \in Paths, OtherRemoves(p) PROVE Goal
  BY <1>19 DEF OtherRemoves
<1>20. ASSUME NEW p \in Paths, NEW f \in Foreign, OtherWrites(p, f) PROVE Goal
  BY <1>20 DEF OtherWrites
<1>21. CASE ConnectionLost
  BY <1>21 DEF ConnectionLost
<1>22. CASE UNCHANGED installVars
  BY <1>22 DEF installVars
<1>23. CASE MasterUp
  BY <1>23 DEF MasterUp
<1>24. QED
  BY <1>1, <1>2, <1>3, <1>4, <1>5, <1>6, <1>7, <1>8, <1>9, <1>10, <1>11, <1>12,
     <1>13, <1>14, <1>15, <1>16, <1>17, <1>18, <1>19, <1>20, <1>21, <1>22,
     <1>23, NextIsStep DEF Step

\* Every step keeps the reasons for being past a refused link.
LEMMA FallbackStep ==
    ASSUME TypeOK, FallbackInv, [Next]_installVars
    PROVE  FallbackInv'
<1> USE InstallAssumption DEF Excuses, TypeOK, FallbackInv, Phases, LocalPhases,
        RemotePhases, Interrupts, history, End, EndAfterRm, Dest
<1>1. ASSUME NEW j \in Jobs, Start(j) PROVE  FallbackInv'
  BY <1>1 DEF Start
<1>2. CASE LaunchFails
  BY <1>2 DEF LaunchFails
<1>3. CASE Write
  BY <1>3 DEF Write
<1>4. CASE CopyOk
  BY <1>4 DEF CopyOk
<1>5. CASE CopyFails
  BY <1>5 DEF CopyFails
<1>6. ASSUME NEW r \in {"cancelled", "stopped"}, CopyInterrupted(r) PROVE  FallbackInv'
  BY <1>6 DEF CopyInterrupted
<1>7. CASE LinkLocal
  BY <1>7 DEF LinkLocal, LinkUnsupported
<1>8. CASE StatLocal
  BY <1>8 DEF StatLocal, OwnContents
<1>9. CASE RenameLocal
  BY <1>9 DEF RenameLocal
<1>10. CASE LnOk
  BY <1>10 DEF LnOk, Linked, Installed
<1>11. ASSUME NEW took \in BOOLEAN, LnRefused(took) PROVE FallbackInv'
  BY <1>11 DEF LnRefused, LnErrs, Linked, CanLink, Free, Installed
<1>12. CASE Ls
  BY <1>12 DEF Ls, NotTaken, OwnContents
<1>13. CASE LsInterrupted
  BY <1>13 DEF LsInterrupted, NotTaken, OwnContents
<1>14. CASE RenameOk
  BY <1>14 DEF RenameOk, Renamed, Installed
<1>15. ASSUME NEW took \in BOOLEAN, RenameRefused(took) PROVE FallbackInv'
  BY <1>15 DEF RenameRefused, Renamed, Installed
<1>16. ASSUME NEW r \in Interrupts, NEW took \in BOOLEAN, LnInterrupted(r, took)
       PROVE  FallbackInv'
  BY <1>16 DEF LnInterrupted, Linked, Installed, StepFailed
<1>17. ASSUME NEW r \in Interrupts, NEW took \in BOOLEAN, RenameInterrupted(r, took)
       PROVE  FallbackInv'
  BY <1>17 DEF RenameInterrupted, Renamed, Installed, StepFailed
<1>18. ASSUME NEW took \in BOOLEAN, Rm(took) PROVE FallbackInv'
  BY <1>18 DEF Rm
<1>19. ASSUME NEW p \in Paths, OtherRemoves(p) PROVE FallbackInv'
  BY <1>19 DEF OtherRemoves, OwnContents
<1>20. ASSUME NEW p \in Paths, NEW f \in Foreign, OtherWrites(p, f) PROVE FallbackInv'
  BY <1>20 DEF OtherWrites, OwnContents
<1>21. CASE ConnectionLost
  BY <1>21 DEF ConnectionLost
<1>22. CASE UNCHANGED installVars
  BY <1>22 DEF installVars
<1>23. CASE MasterUp
  BY <1>23 DEF MasterUp
<1>24. QED
  BY <1>1, <1>2, <1>3, <1>4, <1>5, <1>6, <1>7, <1>8, <1>9, <1>10, <1>11, <1>12,
     <1>13, <1>14, <1>15, <1>16, <1>17, <1>18, <1>19, <1>20, <1>21, <1>22,
     <1>23, NextIsStep DEF Step

\* The strengthened invariant holds in every state of every behaviour.
LEMMA Invariance == Spec => []InstallInv
<1>1. Init => InstallInv
  BY InitInv
<1>2. InstallInv /\ [Next]_installVars => InstallInv'
  BY TypeStep, BytesStep, FallbackStep DEF InstallInv
<1>3. QED
  BY <1>1, <1>2, PTL DEF Spec

\* Type correctness.
THEOREM TypeCorrect == Spec => []TypeOK
<1>1. InstallInv => TypeOK
  BY DEF InstallInv
<1>2. QED
  BY <1>1, Invariance, PTL

\* The worker's Done is true of what is under the real name, and its Skipped
\* too unless the server's answer was lost (what transfer() returns).
THEOREM ReportsAreTrue == Spec => []ReportTrue
<1>1. InstallInv => ReportTrue
  BY DEF InstallInv
<1>2. QED
  BY <1>1, Invariance, PTL

\* A file that crossed whole survives every install that fails
\* (kept_as_temporary and kept_as_remote_temporary).
THEOREM BytesAreKept == Spec => []NothingThrownAway
<1>1. InstallInv => NothingThrownAway
  BY DEF InstallInv
<1>2. QED
  BY <1>1, Invariance, PTL

\* A single file replaces another program's file only if that came after the
\* last look at the name, or was missed by it; and where the name takes links
\* only for the three reasons the property lists (install_remote,
\* install_linked).
THEOREM OnlyLatecomersAreReplaced == Spec => ReplacesOnlyLatecomers
<1> DEFINE Excused == /\ excuses \cap {"late", "blind"} # {}
                      /\ job.path \in Linkable =>
                            excuses \cap {"refused", "vacated", "blind"} # {}
<1>1. InstallInv /\ [Next]_installVars => [Replaces => Excused]_installVars
  <2> SUFFICES ASSUME InstallInv, [Next]_installVars, Replaces
               PROVE  Excused
    OBVIOUS
  <2> USE InstallAssumption DEF InstallInv, TypeOK, FallbackInv, Replaces, Dest,
          Contents, OwnContents, Jobs, End, EndAfterRm
  <2>1. \A p \in Paths, f \in Foreign : ~OtherWrites(p, f)
    BY DEF OtherWrites
  <2>2. \A p \in Paths : ~OtherRemoves(p)
    BY DEF OtherRemoves
  <2>3. CASE fs' = fs
    BY <2>3
  <2>4. ~Linked
    BY DEF Linked, CanLink, Free
  <2>5. CASE LinkLocal
    BY <2>5 DEF LinkLocal, LinkUnsupported
  <2>6. CASE RenameLocal
    BY <2>6 DEF RenameLocal
  <2>7. CASE RenameOk
    BY <2>7 DEF RenameOk
  <2>8. ASSUME NEW took \in BOOLEAN, RenameRefused(took) PROVE Excused
    BY <2>8 DEF RenameRefused
  <2>9. ASSUME NEW r \in Interrupts, NEW took \in BOOLEAN, RenameInterrupted(r, took)
        PROVE  Excused
    BY <2>9 DEF RenameInterrupted
  <2>10. ASSUME NEW r \in Interrupts, NEW took \in BOOLEAN, LnInterrupted(r, took)
         PROVE  fs' = fs
    BY <2>10, <2>4 DEF LnInterrupted
  <2>11. ASSUME NEW took \in BOOLEAN, LnRefused(took) PROVE fs' = fs
    BY <2>11, <2>4 DEF LnRefused, LnErrs
  <2>12. CASE Write \/ CopyOk
    BY <2>12 DEF Write, CopyOk
  <2>13. ASSUME NEW r \in {"cancelled", "stopped"}, CopyInterrupted(r) PROVE fs' = fs
    BY <2>13 DEF CopyInterrupted
  <2>14. ~LnOk
    BY <2>4 DEF LnOk
  <2>15. QED
    BY <2>1, <2>2, <2>3, <2>5, <2>6, <2>7, <2>8, <2>9, <2>10, <2>11, <2>12,
       <2>13, <2>14, NextIsStep
    DEF Step, Start, LaunchFails, CopyFails, StatLocal, Ls, LsInterrupted, Rm,
        ConnectionLost, MasterUp, installVars
<1>2. QED
  BY <1>1, Invariance, PTL DEF Spec, ReplacesOnlyLatecomers

\* A single-file job shows nothing but the whole file, under its own name only
\* (transfer_batch's temporary, and the one step that installs it).
THEOREM OnlyWholeFilesAppear == Spec => WholeOrUntouched
<1>1. InstallInv /\ [Next]_installVars => [ShowsOnlyWhole]_installVars
  <2> SUFFICES ASSUME InstallInv, [Next]_installVars, job' = job, ~job.folder,
                      NEW p \in Paths, fs'[p] # fs[p]
               PROVE  OwnChange(p) \/ OthersChange(p)
    BY DEF ShowsOnlyWhole
  <2> USE DEF InstallInv, TypeOK, BytesInv, LocalPhases, OwnChange, OthersChange
  <2>1. ASSUME NEW q \in Paths, OtherRemoves(q) PROVE OthersChange(p)
    BY <2>1 DEF OtherRemoves
  <2>2. ASSUME NEW q \in Paths, NEW f \in Foreign, OtherWrites(q, f)
        PROVE  OthersChange(p)
    BY <2>2 DEF OtherWrites
  <2>3. CASE LinkLocal \/ RenameLocal
    BY <2>3 DEF LinkLocal, LinkUnsupported, RenameLocal
  <2>4. CASE LnOk \/ RenameOk
    BY <2>4 DEF LnOk, RenameOk, Linked, Renamed, Installed
  <2>5. ASSUME NEW r \in Interrupts, NEW took \in BOOLEAN,
               LnInterrupted(r, took) \/ RenameInterrupted(r, took)
        PROVE  OwnChange(p)
    BY <2>5 DEF LnInterrupted, RenameInterrupted, Linked, Renamed, Installed
  <2>6. ASSUME NEW took \in BOOLEAN, LnRefused(took) \/ RenameRefused(took)
        PROVE  OwnChange(p)
    BY <2>6 DEF LnRefused, LnErrs, RenameRefused, Linked, Renamed, Installed
  <2>7. ~Write /\ ~CopyOk
    BY DEF Write, CopyOk
  <2>8. \A r \in {"cancelled", "stopped"} : ~CopyInterrupted(r)
    BY DEF CopyInterrupted
  <2>9. QED
    BY <2>1, <2>2, <2>3, <2>4, <2>5, <2>6, <2>7, <2>8, NextIsStep
    DEF Step, Start, LaunchFails, CopyFails, StatLocal, Ls, LsInterrupted, Rm,
        ConnectionLost, MasterUp, installVars
<1>2. QED
  BY <1>1, Invariance, PTL DEF Spec, WholeOrUntouched
=============================================================================
