-------------------------- MODULE ConfigFileProofs --------------------------
(***************************************************************************)
(* Proofs about the configuration file, for any number of configurations,     *)
(* crashes and failing file operations: a save replaces the file in one go,   *)
(* the remembered hash is that of what a start would read, and an orderly     *)
(* stop loses nothing.  IInv says what the files hold at each step of a save. *)
(***************************************************************************)
EXTENDS ConfigFile, TLAPS

\* The files at each place of CfgSaveExW3, whatever happened before.
FilesInSave ==
  /\ tmp.eof => Exists(tmp)
  /\ pc = "copying" => Exists(name) /\ ~tmp.eof
  /\ pc \in {"write", "undo"} => name \in {Empty, Holding(Torn)}
  /\ pc = "clean" => name = Holding(saving)
  /\ pc = "rename" => name = NoFile
  /\ uploading # Initial => newf # NoFile

\* The copy to fall back on, if the save began with a good file.
GoodCopy ==
  sound /\ newf = NoFile =>
    /\ pc \in {"copy", "copying"} /\ Exists(name) => name.cfg \notin {Torn, Stub}
    /\ pc = "copy" /\ Exists(name) => name.cfg = Stored
    /\ pc = "copying" /\ tmp.cfg # Stub => name.cfg = Stored
    /\ pc = "copy" /\ ~Exists(name) => tmp.eof
    /\ pc = "create" => tmp.eof /\ (Exists(name) => tmp.cfg = name.cfg)
    /\ pc \in {"write", "undo", "rename", "clean"} => tmp.eof

\* The hash belongs to the save under way, or to the last one; a server that runs
\* is not in its last save.
HashInSave ==
  /\ pc # "idle" => hash = saving
  /\ up = "running" => "final" \notin waiting \cup {job}
  /\ up = "down" => pc = "idle" /\ hash = NoHash /\ waiting = {} /\ uploading = Initial

\* Versions are numbered in the order they are made.
Versions ==
  /\ mem <= last /\ uploading <= last /\ saving <= last
  /\ name.cfg <= last /\ tmp.cfg <= last /\ newf.cfg <= last

\* From the last save on, nothing older than what was promised is written; nothing
\* fails, or there is no promise.
Kept ==
  promised # NoPromise =>
    /\ up # "running"
    /\ newf # NoFile /\ uploading = Initial => newf.cfg >= promised
    /\ newf = NoFile =>
         /\ up = "stopping" => mem >= promised
         /\ pc # "idle" /\ (job = "final" \/ "final" \notin waiting)
              => saving >= promised /\ pc \notin {"undo", "rename"}
         /\ pc = "idle" /\ "final" \notin waiting => Stored >= promised

IInv ==
  /\ TypeOK /\ FilesInSave /\ GoodCopy /\ HashInSave /\ HashHonest /\ Versions /\ Kept

\* What every save step, and every start and stop, is made of.
USE DEF Initial, Configs, Torn, Stub, NoConfig, Missing, NoHash, NoPromise, Holding, NoFile,
        Empty, Exists, File, Threads, PCs

LEMMA BoundsAreNat == MaxVersion \in Nat /\ MaxCrashes \in Nat /\ MaxFaults \in Nat
BY ConfigAssumption

\* The type invariant, in the part about flags and the rest.
FlagsOK == unix \in BOOLEAN /\ noMoreSave \in BOOLEAN /\ resetSetting \in BOOLEAN /\ sound \in BOOLEAN

ValuesOK ==
  /\ name \in File /\ tmp \in File /\ newf \in File
  /\ up \in {"down", "running", "stopping"} /\ mem \in Configs \cup {Torn}
  /\ hash \in Configs \cup {Torn, NoHash}
  /\ waiting \subseteq Threads /\ job \in Threads \cup {"none"} /\ pc \in PCs
  /\ (job = "none" <=> pc = "idle")
  /\ saving \in Configs \cup {Torn} /\ uploading \in Configs /\ last \in Configs
  /\ promised \in Configs \cup {Torn, NoPromise}
  /\ crashes \in 0 .. MaxCrashes /\ faults \in 0 .. MaxFaults

LEMMA TypeSplit == TypeOK <=> FlagsOK /\ ValuesOK
BY DEF TypeOK, FlagsOK, ValuesOK

LEMMA InitIInv == Init => IInv
<1> SUFFICES ASSUME Init PROVE IInv  OBVIOUS
<1> USE DEF Init
<1>1. FlagsOK  BY Zenon DEF FlagsOK
<1>2. ValuesOK  BY BoundsAreNat DEF ValuesOK
<1>3. FilesInSave /\ GoodCopy /\ HashInSave  BY DEF FilesInSave, GoodCopy, HashInSave
<1>4. HashHonest /\ Versions /\ Kept  BY DEF HashHonest, Versions, Kept
<1>5. QED  BY <1>1, <1>2, <1>3, <1>4, TypeSplit DEF IInv

\* Flags are flags.
LEMMA FlagsStep == ASSUME TypeOK, [Next]_vars PROVE FlagsOK'
<1> USE TypeSplit DEF FlagsOK
<1>1. CASE UNCHANGED vars
  BY Zenon, <1>1 DEF vars, disk, process, save, bounds
<1>2. CASE CheckNoMoreSave  BY Zenon, <1>2 DEF CheckNoMoreSave, disk, process, bounds
<1>3. CASE CopyCreate  BY Zenon, <1>3 DEF CopyCreate, SaveStep, Fault, NoFault, RenameBack
<1>4. CASE CopyPart  BY Zenon, <1>4 DEF CopyPart, SaveStep, Fault, NoFault, RenameBack
<1>5. CASE CopyEnd  BY Zenon, <1>5 DEF CopyEnd, SaveStep, Fault, NoFault, RenameBack
<1>6. CASE CopyFail  BY Zenon, <1>6 DEF CopyFail, SaveStep, Fault, NoFault, RenameBack
<1>7. CASE Create  BY Zenon, <1>7 DEF Create, SaveStep, Fault, NoFault, RenameBack
<1>8. CASE CreateFail  BY Zenon, <1>8 DEF CreateFail, SaveStep, Fault, NoFault, RenameBack
<1>9. CASE WritePart  BY Zenon, <1>9 DEF WritePart, SaveStep, Fault, NoFault, RenameBack
<1>10. CASE WriteEnd  BY Zenon, <1>10 DEF WriteEnd, SaveStep, Fault, NoFault, RenameBack
<1>11. CASE WriteFail  BY Zenon, <1>11 DEF WriteFail, SaveStep, Fault, NoFault, RenameBack
<1>12. CASE Undo  BY Zenon, <1>12 DEF Undo, SaveStep, Fault, NoFault, RenameBack
<1>13. CASE Rename  BY Zenon, <1>13 DEF Rename, SaveStep, Fault, NoFault, RenameBack
<1>14. CASE Clean  BY Zenon, <1>14 DEF Clean, SaveStep, Fault, NoFault, RenameBack
<1>15. CASE Change  BY Zenon, <1>15 DEF Change, disk, save
<1>16. CASE UploadCreate  BY Zenon, <1>16 DEF UploadCreate, UploadStep, save
<1>17. CASE UploadPart  BY Zenon, <1>17 DEF UploadPart, UploadStep, save
<1>18. CASE UploadEnd  BY Zenon, <1>18 DEF UploadEnd, UploadStep, save, Fault
<1>19. CASE StRebootServer  BY Zenon, <1>19 DEF StRebootServer, disk, save, bounds
<1>20. CASE StopServer  BY Zenon, <1>20 DEF StopServer, disk, bounds, Promise
<1>21. CASE SetNoMoreSave  BY Zenon, <1>21 DEF SetNoMoreSave, disk, save, bounds
<1>22. CASE StopEnd  BY Zenon, <1>22 DEF StopEnd, Halted, disk
<1>23. CASE Crash  BY Zenon, <1>23 DEF Crash, Halted, disk
<1>24. CASE Load  BY Zenon, <1>24 DEF Load, save, bounds
<1>25. ASSUME NEW t \in Threads, BeginSave(t) PROVE FlagsOK'
  <2>1. sound' \in BOOLEAN  BY <1>25 DEF BeginSave, ValuesOK
  <2>2. QED  BY Zenon, <1>25, <2>1 DEF BeginSave, disk, process
<1>26. QED  BY Zenon, <1>1, <1>2, <1>3, <1>4, <1>5, <1>6, <1>7, <1>8, <1>9,
     <1>10, <1>11, <1>12, <1>13, <1>14, <1>15, <1>16, <1>17, <1>18, <1>19,
     <1>20, <1>21, <1>22, <1>23, <1>24, <1>25 DEF Next, SaveSteps

\* The rest, action by action.
LEMMA ValuesStep == ASSUME TypeOK, [Next]_vars PROVE ValuesOK'
<1> USE TypeSplit, BoundsAreNat DEF FlagsOK, ValuesOK
<1>1. CASE UNCHANGED vars
  BY <1>1 DEF vars, disk, process, save, bounds
<1>2. CASE CheckNoMoreSave  BY <1>2 DEF CheckNoMoreSave, disk, process, bounds
<1>3. CASE CopyCreate  BY <1>3 DEF CopyCreate, SaveStep, Fault, NoFault, RenameBack
<1>4. CASE CopyPart
  <2>1. Holding(Torn) \in File /\ Holding(Stub) \in File  OBVIOUS
  <2>2. tmp' = Holding(Stub) \/ tmp' = Holding(Torn)  BY <1>4 DEF CopyPart
  <2>3. tmp' \in File  BY Zenon, <2>1, <2>2
  <2>4. QED  BY <1>4, <2>3 DEF CopyPart, SaveStep, NoFault
<1>5. CASE CopyEnd  BY <1>5 DEF CopyEnd, SaveStep, Fault, NoFault, RenameBack
<1>6. CASE CopyFail  BY <1>6 DEF CopyFail, SaveStep, Fault, NoFault, RenameBack
<1>7. CASE Create  BY <1>7 DEF Create, SaveStep, Fault, NoFault, RenameBack
<1>8. CASE CreateFail  BY <1>8 DEF CreateFail, SaveStep, Fault, NoFault, RenameBack
<1>9. CASE WritePart  BY <1>9 DEF WritePart, SaveStep, Fault, NoFault, RenameBack
<1>10. CASE WriteEnd  BY <1>10 DEF WriteEnd, SaveStep, Fault, NoFault, RenameBack
<1>11. CASE WriteFail  BY <1>11 DEF WriteFail, SaveStep, Fault, NoFault, RenameBack
<1>12. CASE Undo  BY <1>12 DEF Undo, SaveStep, Fault, NoFault, RenameBack
<1>13. CASE Rename  BY <1>13 DEF Rename, SaveStep, Fault, NoFault, RenameBack
<1>14. CASE Clean  BY <1>14 DEF Clean, SaveStep, Fault, NoFault, RenameBack
<1>15. CASE Change  BY <1>15 DEF Change, disk, save
<1>16. CASE UploadCreate  BY <1>16 DEF UploadCreate, UploadStep, save
<1>17. CASE UploadPart  BY <1>17 DEF UploadPart, UploadStep, save
<1>18. CASE UploadEnd
  <2>1. newf' = Holding(uploading) \/ newf' = newf  BY <1>18 DEF UploadEnd
  <2>2. Holding(uploading) \in File  OBVIOUS
  <2>3. newf' \in File  BY Zenon, <2>1, <2>2
  <2>4. promised' \in {uploading, promised, NoPromise}  BY <1>18 DEF UploadEnd, Fault
  <2>5. promised' \in Configs \cup {Torn, NoPromise}  BY <2>4
  <2>6. faults' \in 0 .. MaxFaults  BY <1>18 DEF UploadEnd, Fault
  <2>7. QED  BY <1>18, <2>3, <2>5, <2>6 DEF UploadEnd, UploadStep, save
<1>19. CASE StRebootServer  BY <1>19 DEF StRebootServer, disk, save, bounds
<1>20. CASE StopServer  BY <1>20 DEF StopServer, disk, bounds, Promise
<1>21. CASE SetNoMoreSave  BY <1>21 DEF SetNoMoreSave, disk, save, bounds
<1>22. CASE StopEnd  BY <1>22 DEF StopEnd, Halted, disk
<1>23. CASE Crash  BY <1>23 DEF Crash, Halted, disk
<1>24. CASE Load
  <2>1. Stored \in Configs \cup {Torn, NoConfig}  BY DEF Stored, Read, Chosen
  <2>2. QED  BY <1>24, <2>1 DEF Load, save, bounds
<1>25. ASSUME NEW t \in Threads, BeginSave(t) PROVE ValuesOK'
  BY <1>25 DEF BeginSave, disk, process, bounds, Stored, Read, Chosen
<1>26. QED  BY Zenon, <1>1, <1>2, <1>3, <1>4, <1>5, <1>6, <1>7, <1>8, <1>9,
     <1>10, <1>11, <1>12, <1>13, <1>14, <1>15, <1>16, <1>17, <1>18, <1>19,
     <1>20, <1>21, <1>22, <1>23, <1>24, <1>25 DEF Next, SaveSteps

\* What the files hold at each place of the save.
LEMMA FilesStep ==
  ASSUME IInv, TypeOK', [Next]_vars PROVE FilesInSave'
<1> USE TypeSplit, BoundsAreNat DEF ValuesOK, IInv, FilesInSave, HashInSave
<1>1. CASE UNCHANGED vars
  BY <1>1 DEF vars, disk, process, save, bounds
<1>2. CASE CheckNoMoreSave  BY <1>2 DEF CheckNoMoreSave, bounds, disk, process, save
<1>3. CASE CopyCreate  BY <1>3 DEF CopyCreate, Fault, NoFault, RenameBack, SaveStep
<1>4. CASE CopyPart  BY <1>4 DEF CopyPart, Fault, NoFault, RenameBack, SaveStep
<1>5. CASE CopyEnd  BY <1>5 DEF CopyEnd, Fault, NoFault, RenameBack, SaveStep
<1>6. CASE CopyFail  BY <1>6 DEF CopyFail, Fault, NoFault, RenameBack, SaveStep
<1>7. CASE Create  BY <1>7 DEF Create, Fault, NoFault, RenameBack, SaveStep
<1>8. CASE CreateFail  BY <1>8 DEF CreateFail, Fault, NoFault, RenameBack, SaveStep
<1>9. CASE WritePart  BY <1>9 DEF WritePart, Fault, NoFault, RenameBack, SaveStep
<1>10. CASE WriteEnd  BY <1>10 DEF WriteEnd, Fault, NoFault, RenameBack, SaveStep
<1>11. CASE WriteFail  BY <1>11 DEF WriteFail, Fault, NoFault, RenameBack, SaveStep
<1>12. CASE Undo  BY <1>12 DEF Undo, Fault, NoFault, RenameBack, SaveStep
<1>13. CASE Rename  BY <1>13 DEF Rename, Fault, NoFault, RenameBack, SaveStep
<1>14. CASE Clean  BY <1>14 DEF Clean, Fault, NoFault, RenameBack, SaveStep
<1>15. CASE Change  BY <1>15 DEF Change, disk, save
<1>16. CASE UploadCreate  BY <1>16 DEF UploadCreate, UploadStep, save
<1>17. CASE UploadPart  BY <1>17 DEF UploadPart, UploadStep, save
<1>18. CASE UploadEnd  BY <1>18 DEF UploadEnd, Fault, UploadStep, save
<1>19. CASE StRebootServer  BY <1>19 DEF StRebootServer, bounds, disk, save
<1>20. CASE StopServer  BY <1>20 DEF StopServer, Promise, bounds, disk, save
<1>21. CASE SetNoMoreSave  BY <1>21 DEF SetNoMoreSave, bounds, disk, save
<1>22. CASE StopEnd  BY <1>22 DEF StopEnd, Halted, disk, save
<1>23. CASE Crash  BY <1>23 DEF Crash, Halted, disk, save
<1>24. CASE Load  BY <1>24 DEF Load, bounds, disk, save
<1>25. ASSUME NEW t \in Threads, BeginSave(t) PROVE FilesInSave'
  BY <1>25 DEF BeginSave, disk, process, bounds
<1>26. QED  BY Zenon, <1>1, <1>2, <1>3, <1>4, <1>5, <1>6, <1>7, <1>8, <1>9,
     <1>10, <1>11, <1>12, <1>13, <1>14, <1>15, <1>16, <1>17, <1>18, <1>19,
     <1>20, <1>21, <1>22, <1>23, <1>24, <1>25 DEF Next, SaveSteps

\* The copy to fall back on.
LEMMA GoodCopyStep ==
  ASSUME IInv, TypeOK', [Next]_vars PROVE GoodCopy'
<1> USE TypeSplit, BoundsAreNat DEF ValuesOK, IInv, FilesInSave, GoodCopy, HashInSave, Stored, Read, Chosen
<1>1. CASE UNCHANGED vars
  BY <1>1 DEF vars, disk, process, save, bounds
<1>2. CASE CheckNoMoreSave  BY <1>2 DEF CheckNoMoreSave, bounds, disk, process, save
<1>3. CASE CopyCreate  BY <1>3 DEF CopyCreate, Fault, NoFault, RenameBack, SaveStep
<1>4. CASE CopyPart  BY <1>4 DEF CopyPart, Fault, NoFault, RenameBack, SaveStep
<1>5. CASE CopyEnd  BY <1>5 DEF CopyEnd, Fault, NoFault, RenameBack, SaveStep
<1>6. CASE CopyFail  BY <1>6 DEF CopyFail, Fault, NoFault, RenameBack, SaveStep
<1>7. CASE Create  BY <1>7 DEF Create, Fault, NoFault, RenameBack, SaveStep
<1>8. CASE CreateFail  BY <1>8 DEF CreateFail, Fault, NoFault, RenameBack, SaveStep
<1>9. CASE WritePart  BY <1>9 DEF WritePart, Fault, NoFault, RenameBack, SaveStep
<1>10. CASE WriteEnd  BY <1>10 DEF WriteEnd, Fault, NoFault, RenameBack, SaveStep
<1>11. CASE WriteFail  BY <1>11 DEF WriteFail, Fault, NoFault, RenameBack, SaveStep
<1>12. CASE Undo  BY <1>12 DEF Undo, Fault, NoFault, RenameBack, SaveStep
<1>13. CASE Rename  BY <1>13 DEF Rename, Fault, NoFault, RenameBack, SaveStep
<1>14. CASE Clean  BY <1>14 DEF Clean, Fault, NoFault, RenameBack, SaveStep
<1>15. CASE Change  BY <1>15 DEF Change, disk, save
<1>16. CASE UploadCreate  BY <1>16 DEF UploadCreate, UploadStep, save
<1>17. CASE UploadPart  BY <1>17 DEF UploadPart, UploadStep, save
<1>18. CASE UploadEnd  BY <1>18 DEF UploadEnd, Fault, UploadStep, save
<1>19. CASE StRebootServer  BY <1>19 DEF StRebootServer, bounds, disk, save
<1>20. CASE StopServer  BY <1>20 DEF StopServer, Promise, bounds, disk, save
<1>21. CASE SetNoMoreSave  BY <1>21 DEF SetNoMoreSave, bounds, disk, save
<1>22. CASE StopEnd  BY <1>22 DEF StopEnd, Halted, disk, save
<1>23. CASE Crash  BY <1>23 DEF Crash, Halted, disk, save
<1>24. CASE Load  BY <1>24 DEF Load, bounds, disk, save
<1>25. ASSUME NEW t \in Threads, BeginSave(t) PROVE GoodCopy'
  <2>1. Stored # Stub  OBVIOUS
  <2>2. CASE hash = mem /\ ~unix
    BY <1>25, <2>2 DEF BeginSave, disk, process, bounds
  <2>3. CASE ~(hash = mem /\ ~unix)
    BY <1>25, <2>1, <2>3 DEF BeginSave, disk, process, bounds
  <2>4. QED  BY <2>2, <2>3
<1>26. QED  BY Zenon, <1>1, <1>2, <1>3, <1>4, <1>5, <1>6, <1>7, <1>8, <1>9,
     <1>10, <1>11, <1>12, <1>13, <1>14, <1>15, <1>16, <1>17, <1>18, <1>19,
     <1>20, <1>21, <1>22, <1>23, <1>24, <1>25 DEF Next, SaveSteps

\* Whose hash is remembered.
LEMMA HashInSaveStep ==
  ASSUME IInv, TypeOK', [Next]_vars PROVE HashInSave'
<1> USE TypeSplit, BoundsAreNat DEF ValuesOK, IInv, HashInSave
<1>1. CASE UNCHANGED vars
  BY <1>1 DEF vars, disk, process, save, bounds
<1>2. CASE CheckNoMoreSave  BY <1>2 DEF CheckNoMoreSave, bounds, disk, process, save
<1>3. CASE CopyCreate  BY <1>3 DEF CopyCreate, Fault, NoFault, RenameBack, SaveStep
<1>4. CASE CopyPart  BY <1>4 DEF CopyPart, Fault, NoFault, RenameBack, SaveStep
<1>5. CASE CopyEnd  BY <1>5 DEF CopyEnd, Fault, NoFault, RenameBack, SaveStep
<1>6. CASE CopyFail  BY <1>6 DEF CopyFail, Fault, NoFault, RenameBack, SaveStep
<1>7. CASE Create  BY <1>7 DEF Create, Fault, NoFault, RenameBack, SaveStep
<1>8. CASE CreateFail  BY <1>8 DEF CreateFail, Fault, NoFault, RenameBack, SaveStep
<1>9. CASE WritePart  BY <1>9 DEF WritePart, Fault, NoFault, RenameBack, SaveStep
<1>10. CASE WriteEnd  BY <1>10 DEF WriteEnd, Fault, NoFault, RenameBack, SaveStep
<1>11. CASE WriteFail  BY <1>11 DEF WriteFail, Fault, NoFault, RenameBack, SaveStep
<1>12. CASE Undo  BY <1>12 DEF Undo, Fault, NoFault, RenameBack, SaveStep
<1>13. CASE Rename  BY <1>13 DEF Rename, Fault, NoFault, RenameBack, SaveStep
<1>14. CASE Clean  BY <1>14 DEF Clean, Fault, NoFault, RenameBack, SaveStep
<1>15. CASE Change  BY <1>15 DEF Change, disk, save
<1>16. CASE UploadCreate  BY <1>16 DEF UploadCreate, UploadStep, save
<1>17. CASE UploadPart  BY <1>17 DEF UploadPart, UploadStep, save
<1>18. CASE UploadEnd  BY <1>18 DEF UploadEnd, Fault, UploadStep, save
<1>19. CASE StRebootServer  BY <1>19 DEF StRebootServer, bounds, disk, save
<1>20. CASE StopServer  BY <1>20 DEF StopServer, Promise, bounds, disk, save
<1>21. CASE SetNoMoreSave  BY <1>21 DEF SetNoMoreSave, bounds, disk, save
<1>22. CASE StopEnd  BY <1>22 DEF StopEnd, Halted, disk, save
<1>23. CASE Crash  BY <1>23 DEF Crash, Halted, disk, save
<1>24. CASE Load  BY <1>24 DEF Load, bounds, disk, save
<1>25. ASSUME NEW t \in Threads, BeginSave(t) PROVE HashInSave'
  BY <1>25 DEF BeginSave, disk, process, bounds
<1>26. QED  BY Zenon, <1>1, <1>2, <1>3, <1>4, <1>5, <1>6, <1>7, <1>8, <1>9,
     <1>10, <1>11, <1>12, <1>13, <1>14, <1>15, <1>16, <1>17, <1>18, <1>19,
     <1>20, <1>21, <1>22, <1>23, <1>24, <1>25 DEF Next, SaveSteps

\* The hash is that of what a start would read.
LEMMA HashHonestStep ==
  ASSUME IInv, TypeOK', [Next]_vars PROVE HashHonest'
<1> USE TypeSplit, BoundsAreNat DEF ValuesOK, IInv, FilesInSave, HashInSave, HashHonest, Stored, Read, Chosen
<1>1. CASE UNCHANGED vars
  BY <1>1 DEF vars, disk, process, save, bounds
<1>2. CASE CheckNoMoreSave  BY <1>2 DEF CheckNoMoreSave, bounds, disk, process, save
<1>3. CASE CopyCreate  BY <1>3 DEF CopyCreate, Fault, NoFault, RenameBack, SaveStep
<1>4. CASE CopyPart  BY <1>4 DEF CopyPart, Fault, NoFault, RenameBack, SaveStep
<1>5. CASE CopyEnd  BY <1>5 DEF CopyEnd, Fault, NoFault, RenameBack, SaveStep
<1>6. CASE CopyFail  BY <1>6 DEF CopyFail, Fault, NoFault, RenameBack, SaveStep
<1>7. CASE Create  BY <1>7 DEF Create, Fault, NoFault, RenameBack, SaveStep
<1>8. CASE CreateFail  BY <1>8 DEF CreateFail, Fault, NoFault, RenameBack, SaveStep
<1>9. CASE WritePart  BY <1>9 DEF WritePart, Fault, NoFault, RenameBack, SaveStep
<1>10. CASE WriteEnd  BY <1>10 DEF WriteEnd, Fault, NoFault, RenameBack, SaveStep
<1>11. CASE WriteFail  BY <1>11 DEF WriteFail, Fault, NoFault, RenameBack, SaveStep
<1>12. CASE Undo  BY <1>12 DEF Undo, Fault, NoFault, RenameBack, SaveStep
<1>13. CASE Rename  BY <1>13 DEF Rename, Fault, NoFault, RenameBack, SaveStep
<1>14. CASE Clean  BY <1>14 DEF Clean, Fault, NoFault, RenameBack, SaveStep
<1>15. CASE Change  BY <1>15 DEF Change, disk, save
<1>16. CASE UploadCreate  BY <1>16 DEF UploadCreate, UploadStep, save
<1>17. CASE UploadPart  BY <1>17 DEF UploadPart, UploadStep, save
<1>18. CASE UploadEnd  BY <1>18 DEF UploadEnd, Fault, UploadStep, save
<1>19. CASE StRebootServer  BY <1>19 DEF StRebootServer, bounds, disk, save
<1>20. CASE StopServer  BY <1>20 DEF StopServer, Promise, bounds, disk, save
<1>21. CASE SetNoMoreSave  BY <1>21 DEF SetNoMoreSave, bounds, disk, save
<1>22. CASE StopEnd  BY <1>22 DEF StopEnd, Halted, disk, save
<1>23. CASE Crash  BY <1>23 DEF Crash, Halted, disk, save
<1>24. CASE Load  BY <1>24 DEF Load, bounds, disk, save
<1>25. ASSUME NEW t \in Threads, BeginSave(t) PROVE HashHonest'
  BY <1>25 DEF BeginSave, disk, process, bounds
<1>26. QED  BY Zenon, <1>1, <1>2, <1>3, <1>4, <1>5, <1>6, <1>7, <1>8, <1>9,
     <1>10, <1>11, <1>12, <1>13, <1>14, <1>15, <1>16, <1>17, <1>18, <1>19,
     <1>20, <1>21, <1>22, <1>23, <1>24, <1>25 DEF Next, SaveSteps

\* Versions grow.
LEMMA VersionsStep ==
  ASSUME IInv, TypeOK', [Next]_vars PROVE Versions'
<1> USE TypeSplit, BoundsAreNat DEF ValuesOK, IInv, Versions, Stored, Read, Chosen
<1>1. CASE UNCHANGED vars
  BY <1>1 DEF vars, disk, process, save, bounds
<1>2. CASE CheckNoMoreSave  BY <1>2 DEF CheckNoMoreSave, bounds, disk, process, save
<1>3. CASE CopyCreate  BY <1>3 DEF CopyCreate, Fault, NoFault, RenameBack, SaveStep
<1>4. CASE CopyPart  BY <1>4 DEF CopyPart, Fault, NoFault, RenameBack, SaveStep
<1>5. CASE CopyEnd  BY <1>5 DEF CopyEnd, Fault, NoFault, RenameBack, SaveStep
<1>6. CASE CopyFail  BY <1>6 DEF CopyFail, Fault, NoFault, RenameBack, SaveStep
<1>7. CASE Create  BY <1>7 DEF Create, Fault, NoFault, RenameBack, SaveStep
<1>8. CASE CreateFail  BY <1>8 DEF CreateFail, Fault, NoFault, RenameBack, SaveStep
<1>9. CASE WritePart  BY <1>9 DEF WritePart, Fault, NoFault, RenameBack, SaveStep
<1>10. CASE WriteEnd  BY <1>10 DEF WriteEnd, Fault, NoFault, RenameBack, SaveStep
<1>11. CASE WriteFail  BY <1>11 DEF WriteFail, Fault, NoFault, RenameBack, SaveStep
<1>12. CASE Undo  BY <1>12 DEF Undo, Fault, NoFault, RenameBack, SaveStep
<1>13. CASE Rename  BY <1>13 DEF Rename, Fault, NoFault, RenameBack, SaveStep
<1>14. CASE Clean  BY <1>14 DEF Clean, Fault, NoFault, RenameBack, SaveStep
<1>15. CASE Change  BY <1>15 DEF Change, disk, save
<1>16. CASE UploadCreate  BY <1>16 DEF UploadCreate, UploadStep, save
<1>17. CASE UploadPart  BY <1>17 DEF UploadPart, UploadStep, save
<1>18. CASE UploadEnd  BY <1>18 DEF UploadEnd, Fault, UploadStep, save
<1>19. CASE StRebootServer  BY <1>19 DEF StRebootServer, bounds, disk, save
<1>20. CASE StopServer  BY <1>20 DEF StopServer, Promise, bounds, disk, save
<1>21. CASE SetNoMoreSave  BY <1>21 DEF SetNoMoreSave, bounds, disk, save
<1>22. CASE StopEnd  BY <1>22 DEF StopEnd, Halted, disk, save
<1>23. CASE Crash  BY <1>23 DEF Crash, Halted, disk, save
<1>24. CASE Load  BY <1>24 DEF Load, bounds, disk, save
<1>25. ASSUME NEW t \in Threads, BeginSave(t) PROVE Versions'
  BY <1>25 DEF BeginSave, disk, process, bounds
<1>26. QED  BY Zenon, <1>1, <1>2, <1>3, <1>4, <1>5, <1>6, <1>7, <1>8, <1>9,
     <1>10, <1>11, <1>12, <1>13, <1>14, <1>15, <1>16, <1>17, <1>18, <1>19,
     <1>20, <1>21, <1>22, <1>23, <1>24, <1>25 DEF Next, SaveSteps

\* Nothing that was promised is lost.
LEMMA KeptStep ==
  ASSUME IInv, TypeOK', [Next]_vars PROVE Kept'
<1> USE TypeSplit, BoundsAreNat DEF ValuesOK, IInv, FilesInSave, HashInSave, HashHonest, Versions, Kept, Stored, Read, Chosen
<1>1. CASE UNCHANGED vars
  BY <1>1 DEF vars, disk, process, save, bounds
<1>2. CASE CheckNoMoreSave  BY <1>2 DEF CheckNoMoreSave, bounds, disk, process, save
<1>3. CASE CopyCreate  BY <1>3 DEF CopyCreate, Fault, NoFault, RenameBack, SaveStep
<1>4. CASE CopyPart  BY <1>4 DEF CopyPart, Fault, NoFault, RenameBack, SaveStep
<1>5. CASE CopyEnd  BY <1>5 DEF CopyEnd, Fault, NoFault, RenameBack, SaveStep
<1>6. CASE CopyFail  BY <1>6 DEF CopyFail, Fault, NoFault, RenameBack, SaveStep
<1>7. CASE Create  BY <1>7 DEF Create, Fault, NoFault, RenameBack, SaveStep
<1>8. CASE CreateFail  BY <1>8 DEF CreateFail, Fault, NoFault, RenameBack, SaveStep
<1>9. CASE WritePart  BY <1>9 DEF WritePart, Fault, NoFault, RenameBack, SaveStep
<1>10. CASE WriteEnd  BY <1>10 DEF WriteEnd, Fault, NoFault, RenameBack, SaveStep
<1>11. CASE WriteFail  BY <1>11 DEF WriteFail, Fault, NoFault, RenameBack, SaveStep
<1>12. CASE Undo  BY <1>12 DEF Undo, Fault, NoFault, RenameBack, SaveStep
<1>13. CASE Rename  BY <1>13 DEF Rename, Fault, NoFault, RenameBack, SaveStep
<1>14. CASE Clean  BY <1>14 DEF Clean, Fault, NoFault, RenameBack, SaveStep
<1>15. CASE Change  BY <1>15 DEF Change, disk, save
<1>16. CASE UploadCreate  BY <1>16 DEF UploadCreate, UploadStep, save
<1>17. CASE UploadPart  BY <1>17 DEF UploadPart, UploadStep, save
<1>18. CASE UploadEnd
  <2>1. CASE promised' = NoPromise  BY <2>1
  <2>2. CASE newf' = Holding(uploading) /\ up = "stopping" /\ promised' = uploading
    BY <1>18, <2>2 DEF UploadEnd, UploadStep, save
  <2>3. CASE up # "stopping" /\ promised' = promised
    BY <1>18, <2>3 DEF UploadEnd, UploadStep, save
  <2>4. QED  BY <1>18, <2>1, <2>2, <2>3 DEF UploadEnd, Fault
<1>19. CASE StRebootServer  BY <1>19 DEF StRebootServer, bounds, disk, save
<1>20. CASE StopServer
  <2>1. CASE newf = NoFile \/ uploading # Initial
    BY <1>20, <2>1 DEF StopServer, Promise, disk
  <2>2. CASE newf # NoFile /\ uploading = Initial
    BY <1>20, <2>2 DEF StopServer, Promise, disk
  <2>3. QED  BY <2>1, <2>2
<1>21. CASE SetNoMoreSave  BY <1>21 DEF SetNoMoreSave, bounds, disk, save
<1>22. CASE StopEnd  BY <1>22 DEF StopEnd, Halted, disk, save
<1>23. CASE Crash  BY <1>23 DEF Crash, Halted, disk, save
<1>24. CASE Load  BY <1>24 DEF Load, bounds, disk, save
<1>25. ASSUME NEW t \in Threads, BeginSave(t) PROVE Kept'
  BY <1>25 DEF BeginSave, disk, process, bounds
<1>26. QED  BY Zenon, <1>1, <1>2, <1>3, <1>4, <1>5, <1>6, <1>7, <1>8, <1>9,
     <1>10, <1>11, <1>12, <1>13, <1>14, <1>15, <1>16, <1>17, <1>18, <1>19,
     <1>20, <1>21, <1>22, <1>23, <1>24, <1>25 DEF Next, SaveSteps

THEOREM Inductive == Spec => []IInv
<1>1. Init => IInv  BY InitIInv
<1>2. IInv /\ [Next]_vars => IInv'
  <2> SUFFICES ASSUME IInv, [Next]_vars PROVE IInv'  OBVIOUS
  <2>1. FlagsOK' /\ ValuesOK'  BY FlagsStep, ValuesStep DEF IInv
  <2>2. TypeOK'  BY <2>1, Zenon DEF TypeOK, FlagsOK, ValuesOK
  <2>3. QED  BY <2>2, FilesStep, GoodCopyStep, HashInSaveStep, HashHonestStep, VersionsStep,
                KeptStep DEF IInv
<1>3. QED  BY <1>1, <1>2, PTL DEF Spec

\* TypeOK
THEOREM TypeCorrect == Spec => []TypeOK
BY Inductive, PTL DEF IInv

\* A save that is skipped because nothing changed would have changed nothing: a
\* start would find what rw->LashHash is the hash of.
THEOREM HashHonestCorrect == Spec => []HashHonest
BY Inductive, PTL DEF IInv

\* The configuration a start would find changes at one step of a save, if at all,
\* and becomes the one that is being saved.
THEOREM SavedAtOnceCorrect == Spec => SavedAtOnce
<1> DEFINE Atomic ==
      sound' /\ newf = NoFile /\ newf' = NoFile /\ ~Load
      /\ ~(pc = "copying" /\ Stub \in {tmp.cfg, tmp'.cfg})
        => Stored' = Stored \/ (pc # "idle" /\ Stored' = saving)
<1>1. ASSUME IInv, IInv', [Next]_vars PROVE [Atomic]_vars
  <2> USE <1>1 DEF IInv, TypeOK, FilesInSave, GoodCopy, Stored, Read, Chosen
  <2>1. CASE UNCHANGED vars  BY <2>1
  <2>2. CASE CheckNoMoreSave  BY <2>2 DEF CheckNoMoreSave, disk
  <2>3. CASE CopyCreate  BY <2>3 DEF CopyCreate, SaveStep, RenameBack
  <2>4. CASE CopyPart  BY <2>4 DEF CopyPart, SaveStep, RenameBack
  <2>5. CASE CopyEnd  BY <2>5 DEF CopyEnd, SaveStep, RenameBack
  <2>6. CASE CopyFail  BY <2>6 DEF CopyFail, SaveStep, RenameBack
  <2>7. CASE Create  BY <2>7 DEF Create, SaveStep, RenameBack
  <2>8. CASE CreateFail  BY <2>8 DEF CreateFail, SaveStep, RenameBack
  <2>9. CASE WritePart  BY <2>9 DEF WritePart, SaveStep, RenameBack
  <2>10. CASE WriteEnd  BY <2>10 DEF WriteEnd, SaveStep, RenameBack
  <2>11. CASE WriteFail  BY <2>11 DEF WriteFail, SaveStep, RenameBack
  <2>12. CASE Undo  BY <2>12 DEF Undo, SaveStep, RenameBack
  <2>13. CASE Rename  BY <2>13 DEF Rename, SaveStep, RenameBack
  <2>14. CASE Clean  BY <2>14 DEF Clean, SaveStep, RenameBack
  <2>15. CASE Change  BY <2>15 DEF Change, disk
  <2>16. CASE UploadCreate  BY <2>16 DEF UploadCreate, UploadStep
  <2>17. CASE UploadPart  BY <2>17 DEF UploadPart, UploadStep
  <2>18. CASE UploadEnd  BY <2>18 DEF UploadEnd, UploadStep
  <2>19. CASE StRebootServer  BY <2>19 DEF StRebootServer, disk
  <2>20. CASE StopServer  BY <2>20 DEF StopServer, disk
  <2>21. CASE SetNoMoreSave  BY <2>21 DEF SetNoMoreSave, disk
  <2>22. CASE StopEnd  BY <2>22 DEF StopEnd, Halted, disk
  <2>23. CASE Crash  BY <2>23 DEF Crash, Halted, disk
  <2>24. CASE Load  BY <2>24
  <2>25. ASSUME NEW t \in Threads, BeginSave(t) PROVE Atomic
    BY <2>25 DEF BeginSave, disk
  <2>26. QED  BY Zenon, <1>1, <2>1, <2>2, <2>3, <2>4, <2>5, <2>6, <2>7,
       <2>8, <2>9, <2>10, <2>11, <2>12, <2>13, <2>14, <2>15, <2>16, <2>17,
       <2>18, <2>19, <2>20, <2>21, <2>22, <2>23, <2>24, <2>25 DEF Next,
       SaveSteps
<1>2. QED  BY <1>1, Inductive, PTL DEF Spec, SavedAtOnce

\* What was in force, or uploaded, when an orderly stop began is in force again
\* after the start, or a later change is.
THEOREM OrderlyRestartCorrect == Spec => OrderlyRestart
<1> DEFINE Kept1 == Load /\ promised # NoPromise /\ ~resetSetting => mem' >= promised
<1>1. ASSUME IInv, [Next]_vars PROVE [Kept1]_vars
  <2> SUFFICES ASSUME Load, promised # NoPromise, ~resetSetting PROVE mem' >= promised
    OBVIOUS
  <2>1. Stored >= promised
    BY <1>1 DEF IInv, TypeOK, HashInSave, FilesInSave, Kept, Load, Stored, Read, Chosen
  <2>2. promised \in Configs \cup {Torn}  BY <1>1 DEF IInv, TypeOK
  <2>3. QED  BY <2>1, <2>2, BoundsAreNat DEF Load
<1>2. QED  BY <1>1, Inductive, PTL DEF Spec, OrderlyRestart
=============================================================================
