-------------------------- MODULE SourceMirrorProofs --------------------------
(***************************************************************************)
(* Theorems about SourceMirror, for any files, edits and builds.           *)
(***************************************************************************)
EXTENDS SourceMirror, TLAPS

\* A module in a file outside the directory of the crate root stays in it.
OutsideAlone == \A f \in Outside, g \in Files : SlotOf[f] = SlotOf[g] => f = g

-----------------------------------------------------------------------------
(* The inductive invariant *)

\* Every module is in exactly one source file.
SlotsHeld == \A s \in Slots : \E f \in Files : Holders(original, s) = {f}

\* Nothing is younger than the clock.
PastOK ==
  /\ \A f \in Files : original[f] # Absent => original[f].version <= clock + 1
  /\ \A f \in Files : mirror[f] \notin {Absent, Partial} => mirror[f].mtime <= clock + 1
  /\ wrapper.at <= clock + 1
  /\ artifact # NoArtifact => artifact.at <= clock + 1

\* What each phase of the wrapper has left to do.
PhaseOK ==
  /\ pc # "idle" => artifact = NoArtifact
  /\ pc = "idle" => wrapper = Idle
  /\ \A f \in Files : f \in wrapper.todo \cup Reported => original[f] # Absent
  /\ pc # "rustc" => wrapper.tree = "original"
  /\ pc = "scan" => wrapper.todo \subseteq Scanned
  /\ pc = "outside" => wrapper.todo \subseteq Outside
  /\ pc = "rustc" => wrapper.todo = {}
  /\ pc = "writing" => /\ wrapper.target \in wrapper.todo
                       /\ wrapper.todo \subseteq Scanned \/ wrapper.todo \subseteq Outside

Mirroring ==
  \/ pc \in {"scan", "writing", "outside"}
  \/ pc = "rustc" /\ wrapper.tree = "mirror"

\* A scanned file that was not edited since the build started has its text in the
\* mirror, and if no file was, it is there as the build wants it.
Copied(f) ==
  /\ original[f].version <= wrapper.at =>
       mirror[f] \notin {Absent, Partial} /\ mirror[f].version = original[f].version
  /\ wrapper.at = clock + 1 =>
       mirror[f] \notin {Absent, Partial} /\ SameBytes(mirror[f], Wanted(f))
CopiedOK ==
  Mirroring => \A f \in Scanned :
    original[f] # Absent => f \in wrapper.todo \/ Copied(f)

\* What Cargo has recorded of a unit.
ArtifactOK ==
  artifact # NoArtifact => \A s \in Slots :
    LET read == artifact.files[s] IN
    /\ SlotOf[read] = s
    /\ artifact.watch = "mirror" => mirror[read] # Absent
    /\ artifact.at = clock + 1 => original[read] # Absent
    /\ \A f \in Scanned :
         /\ original[f] # Absent
         /\ SlotOf[f] = s
         /\ original[f].version <= artifact.at
         => artifact.built[s] = original[f].version

IInv == TypeOK /\ SlotsHeld /\ PastOK /\ PhaseOK /\ CopiedOK /\ ArtifactOK

USE MirrorAssumption, NullAssumption, ArtifactAssumption
    DEF MirrorAssumption, NullAssumption, ArtifactAssumption, Files

-----------------------------------------------------------------------------
(* Operators *)

LEMMA DepInfoReads ==
  ASSUME NEW tree, \A s \in Slots : \E f \in Files : Holders(tree, s) = {f}
  PROVE  /\ DepInfo(tree) \in [Slots -> Files]
         /\ \A s \in Slots : /\ Holders(tree, s) = {DepInfo(tree)[s]}
                             /\ SlotOf[DepInfo(tree)[s]] = s
                             /\ tree[DepInfo(tree)[s]] # Absent
<1>1. ASSUME NEW s \in Slots
      PROVE  /\ DepInfo(tree)[s] \in Files
             /\ Holders(tree, s) = {DepInfo(tree)[s]}
  <2>1. PICK f \in Files : Holders(tree, s) = {f}
    OBVIOUS
  <2>2. DepInfo(tree)[s] = f
    BY <2>1 DEF DepInfo
  <2> QED
    BY <2>1, <2>2
<1>2. \A s \in Slots : SlotOf[DepInfo(tree)[s]] = s /\ tree[DepInfo(tree)[s]] # Absent
  BY <1>1 DEF Holders
<1> QED
  BY <1>1, <1>2 DEF DepInfo

LEMMA WantedIsCopy ==
  ASSUME TypeOK, NEW f \in Files, original[f] # Absent
  PROVE  Wanted(f) \in Copies
  BY DEF TypeOK, Wanted, Texts, Copies, Locals, Reported

\* Copies with the same bytes differ in their time at most.
LEMMA SameBytesSameCopy ==
  ASSUME NEW a \in Copies, NEW b \in Copies, SameBytes(a, b)
  PROVE  [a EXCEPT !.mtime = 0] = [b EXCEPT !.mtime = 0]
  BY DEF Copies, SameBytes

LEMMA IdleIsTyped == Idle \in Locals /\ Idle.target = NoFile /\ Idle.at = 0
  BY DEF Idle, Locals, NoReport, Forms

-----------------------------------------------------------------------------
(* The steps *)

LEMMA EditKeeps ==
  ASSUME IInv, NEW f \in Files, NEW candidates \in BOOLEAN, Edit(f, candidates)
  PROVE  IInv'
<1>1. TypeOK'
  BY IdleIsTyped DEF IInv, Edit, TypeOK, Texts, Copies, Artifacts, Locals, Forms
<1>2. SlotsHeld'
  <2>1. [version |-> clock + 2, candidates |-> candidates] # Absent
    BY DEF IInv, TypeOK, Texts
  <2>2. \A h \in Files : original'[h] # Absent <=> original[h] # Absent
    BY <2>1 DEF IInv, TypeOK, Edit
  <2> QED
    BY <2>2 DEF IInv, SlotsHeld, Holders
<1>3. PastOK'
  BY IdleIsTyped DEF IInv, Edit, PastOK, TypeOK, Texts, Copies, Artifacts, Locals, Forms
<1>4. PhaseOK'
  BY IdleIsTyped DEF IInv, Edit, PhaseOK, TypeOK, Reported, Texts, Copies, Artifacts, Locals, Forms
<1>5. CopiedOK'
  BY IdleIsTyped DEF IInv, Edit, CopiedOK, Copied, Mirroring, SameBytes, Wanted, Reported, TypeOK, PhaseOK, PastOK, Texts, Copies, Artifacts, Locals, Forms
<1>6. ArtifactOK'
  BY IdleIsTyped DEF IInv, Edit, ArtifactOK, TypeOK, PastOK, PhaseOK, Texts, Copies, Artifacts, Locals, Forms
<1> QED
  BY <1>1, <1>2, <1>3, <1>4, <1>5, <1>6 DEF IInv

LEMMA MoveKeeps ==
  ASSUME IInv, OutsideAlone, NEW f \in Files, NEW g \in Files, Move(f, g)
  PROVE  IInv'
<1>1. TypeOK'
  BY IdleIsTyped DEF IInv, Move, TypeOK, Texts, Copies, Artifacts, Locals, Forms
<1>2. SlotsHeld'
  <2> SUFFICES ASSUME NEW s \in Slots
               PROVE  \E h \in Files : Holders(original', s) = {h}
    BY DEF SlotsHeld
  <2>0. f # g /\ original[f] # Absent /\ original[g] = Absent /\ SlotOf[f] = SlotOf[g]
    BY DEF Move
  <2>1. \A h \in Files : original'[h] # Absent <=> (h = g \/ (h # f /\ original[h] # Absent))
    <3>1. original' = [h \in Files |-> IF h = f THEN Absent ELSE IF h = g THEN original[f]
                                                             ELSE original[h]]
      BY <2>0 DEF IInv, TypeOK, Move
    <3> QED
      BY <2>0, <3>1
  <2>2. PICK h \in Files : Holders(original, s) = {h}
    BY DEF IInv, SlotsHeld
  <2>3. CASE SlotOf[f] = s
    <3>1. h = f
      BY <2>0, <2>2, <2>3 DEF Holders
    <3>2. \A k \in Files : SlotOf[k] = s /\ original[k] # Absent => k = f
      BY <2>2, <3>1 DEF Holders
    <3>3. \A k \in Files : (SlotOf[k] = s /\ original'[k] # Absent) <=> k = g
      BY <2>0, <2>1, <2>3, <3>2
    <3>4. Holders(original', s) = {g}
      BY <3>3 DEF Holders
    <3> QED
      BY <3>4
  <2>4. CASE SlotOf[f] # s
    <3>1. Holders(original', s) = Holders(original, s)
      BY <2>0, <2>1, <2>4 DEF Holders
    <3> QED
      BY <2>2, <3>1
  <2> QED
    BY <2>3, <2>4
<1>3. PastOK'
  BY IdleIsTyped DEF IInv, Move, PastOK, TypeOK, Texts, Copies, Artifacts, Locals, Forms
<1>4. PhaseOK'
  <2>1. wrapper = Idle /\ UNCHANGED <<pc, wrapper, artifact>>
    BY DEF IInv, PhaseOK, Move
  <2>2. \A h \in Files : h \notin wrapper.todo \cup Reported
    BY <2>1 DEF Idle, NoReport, Reported
  <2> QED
    BY <2>1, <2>2 DEF IInv, PhaseOK, Reported
<1>5. CopiedOK'
  BY IdleIsTyped DEF IInv, Move, CopiedOK, Copied, Mirroring, SameBytes, Wanted, Reported, TypeOK, PhaseOK, PastOK, Texts, Copies, Artifacts, Locals, Forms
<1>6. ArtifactOK'
  <2> SUFFICES ASSUME artifact # NoArtifact, NEW s \in Slots
               PROVE  LET read == artifact.files[s] IN
                      /\ SlotOf[read] = s
                      /\ artifact.watch = "mirror" => mirror[read] # Absent
                      /\ artifact.at = clock' + 1 => original'[read] # Absent
                      /\ \A h \in Scanned :
                           /\ original'[h] # Absent
                           /\ SlotOf[h] = s
                           /\ original'[h].version <= artifact.at
                           => artifact.built[s] = original'[h].version
    <3>1. UNCHANGED <<artifact, mirror>>
      BY DEF Move
    <3> QED
      BY <3>1 DEF ArtifactOK
  <2>1. artifact.at # clock' + 1
    BY DEF IInv, TypeOK, Artifacts, PastOK, Move
  <2>2. ASSUME NEW h \in Scanned, original'[h] # Absent, SlotOf[h] = s,
               original'[h].version <= artifact.at
        PROVE  artifact.built[s] = original'[h].version
    <3>1. CASE h = g
      <4>1. f \in Scanned
        BY <3>1 DEF Move, OutsideAlone
      <4>2. original'[h] = original[f] /\ SlotOf[f] = s
        BY <2>2, <3>1 DEF Move, IInv, TypeOK
      <4> QED
        BY <2>2, <4>1, <4>2 DEF IInv, ArtifactOK, Move
    <3>2. CASE h # g
      <4>1. original'[h] = original[h]
        BY <2>2, <3>2 DEF Move, IInv, TypeOK
      <4> QED
        BY <2>2, <4>1 DEF IInv, ArtifactOK
    <3> QED
      BY <3>1, <3>2
  <2> QED
    BY <2>1, <2>2 DEF IInv, ArtifactOK
<1> QED
  BY <1>1, <1>2, <1>3, <1>4, <1>5, <1>6 DEF IInv

LEMMA CleanPackageKeeps ==
  ASSUME IInv, CleanPackage
  PROVE  IInv'
<1>1. TypeOK'
  BY IdleIsTyped DEF IInv, CleanPackage, TypeOK, Texts, Copies, Artifacts, Locals, Forms
<1>2. SlotsHeld'
  BY IdleIsTyped DEF IInv, CleanPackage, SlotsHeld, Holders
<1>3. PastOK'
  BY IdleIsTyped DEF IInv, CleanPackage, PastOK, TypeOK, Texts, Copies, Artifacts, Locals, Forms
<1>4. PhaseOK'
  BY IdleIsTyped DEF IInv, CleanPackage, PhaseOK, TypeOK, Reported, Texts, Copies, Artifacts, Locals, Forms
<1>5. CopiedOK'
  BY IdleIsTyped DEF IInv, CleanPackage, CopiedOK, Copied, Mirroring, SameBytes, Wanted, Reported, TypeOK, PhaseOK, PastOK, Texts, Copies, Artifacts, Locals, Forms
<1>6. ArtifactOK'
  BY IdleIsTyped DEF IInv, CleanPackage, ArtifactOK, TypeOK, PastOK, PhaseOK, Texts, Copies, Artifacts, Locals, Forms
<1> QED
  BY <1>1, <1>2, <1>3, <1>4, <1>5, <1>6 DEF IInv

LEMMA CleanAllKeeps ==
  ASSUME IInv, CleanAll
  PROVE  IInv'
<1>1. TypeOK'
  BY IdleIsTyped DEF IInv, CleanAll, TypeOK, Texts, Copies, Artifacts, Locals, Forms
<1>2. SlotsHeld'
  BY IdleIsTyped DEF IInv, CleanAll, SlotsHeld, Holders
<1>3. PastOK'
  BY IdleIsTyped DEF IInv, CleanAll, PastOK, TypeOK, Texts, Copies, Artifacts, Locals, Forms
<1>4. PhaseOK'
  BY IdleIsTyped DEF IInv, CleanAll, PhaseOK, TypeOK, Reported, Texts, Copies, Artifacts, Locals, Forms
<1>5. CopiedOK'
  BY IdleIsTyped DEF IInv, CleanAll, CopiedOK, Copied, Mirroring, SameBytes, Wanted, Reported, TypeOK, PhaseOK, PastOK, Texts, Copies, Artifacts, Locals, Forms
<1>6. ArtifactOK'
  BY IdleIsTyped DEF IInv, CleanAll, ArtifactOK, TypeOK, PastOK, PhaseOK, Texts, Copies, Artifacts, Locals, Forms
<1> QED
  BY <1>1, <1>2, <1>3, <1>4, <1>5, <1>6 DEF IInv

LEMMA StartUnitKeeps ==
  ASSUME IInv, StartUnit
  PROVE  IInv'
<1>1. TypeOK'
  BY IdleIsTyped DEF IInv, StartUnit, TypeOK, Texts, Copies, Artifacts, Locals, Forms, Idle, NoReport
<1>2. SlotsHeld'
  BY IdleIsTyped DEF IInv, StartUnit, SlotsHeld, Holders, Idle, NoReport
<1>3. PastOK'
  BY IdleIsTyped DEF IInv, StartUnit, PastOK, TypeOK, Texts, Copies, Artifacts, Locals, Forms, Idle, NoReport
<1>4. PhaseOK'
  BY IdleIsTyped DEF IInv, StartUnit, PhaseOK, TypeOK, Reported, Texts, Copies, Artifacts, Locals, Forms, Idle, NoReport
<1>5. CopiedOK'
  BY IdleIsTyped DEF IInv, StartUnit, CopiedOK, Copied, Mirroring, SameBytes, Wanted, Reported, TypeOK, PhaseOK, PastOK, Texts, Copies, Artifacts, Locals, Forms, Idle, NoReport
<1>6. ArtifactOK'
  BY IdleIsTyped DEF IInv, StartUnit, ArtifactOK, TypeOK, PastOK, PhaseOK, Texts, Copies, Artifacts, Locals, Forms, Idle, NoReport
<1> QED
  BY <1>1, <1>2, <1>3, <1>4, <1>5, <1>6 DEF IInv

LEMMA AnalyzeKeeps ==
  ASSUME IInv, NEW form \in Forms, Analyze(form)
  PROVE  IInv'
<1>1. TypeOK'
  <2> DEFINE report == [f \in Files |->
                          IF original[f] # Absent /\ original[f].candidates
                          THEN original[f].version ELSE 0]
  <2>1. report \in [Files -> Nat]
    BY DEF IInv, TypeOK, Texts
  <2>2. \A r \in [Files -> Nat] : [wrapper EXCEPT !.form = form, !.report = r] \in Locals
    BY DEF IInv, TypeOK, Locals
  <2>3. wrapper' \in Locals
    BY <2>1, <2>2 DEF Analyze
  <2>4. wrapper'.target = wrapper.target
    BY DEF Analyze, IInv, TypeOK, Locals
  <2> QED
    BY <2>3, <2>4 DEF IInv, Analyze, TypeOK
<1>2. SlotsHeld'
  BY IdleIsTyped DEF IInv, Analyze, SlotsHeld, Holders
<1>3. PastOK'
  BY IdleIsTyped DEF IInv, Analyze, PastOK, TypeOK, Texts, Copies, Artifacts, Locals, Forms
<1>4. PhaseOK'
  BY IdleIsTyped DEF IInv, Analyze, PhaseOK, TypeOK, Reported, Texts, Copies, Artifacts, Locals, Forms
<1>5. CopiedOK'
  BY IdleIsTyped DEF IInv, Analyze, CopiedOK, Copied, Mirroring, SameBytes, Wanted, Reported, TypeOK, PhaseOK, PastOK, Texts, Copies, Artifacts, Locals, Forms
<1>6. ArtifactOK'
  BY IdleIsTyped DEF IInv, Analyze, ArtifactOK, TypeOK, PastOK, PhaseOK, Texts, Copies, Artifacts, Locals, Forms
<1> QED
  BY <1>1, <1>2, <1>3, <1>4, <1>5, <1>6 DEF IInv

LEMMA StartMirrorKeeps ==
  ASSUME IInv, StartMirror
  PROVE  IInv'
<1>1. TypeOK'
  BY IdleIsTyped DEF IInv, StartMirror, TypeOK, Texts, Copies, Artifacts, Locals, Forms
<1>2. SlotsHeld'
  BY IdleIsTyped DEF IInv, StartMirror, SlotsHeld, Holders
<1>3. PastOK'
  BY IdleIsTyped DEF IInv, StartMirror, PastOK, TypeOK, Texts, Copies, Artifacts, Locals, Forms
<1>4. PhaseOK'
  BY IdleIsTyped DEF IInv, StartMirror, PhaseOK, TypeOK, Reported, Texts, Copies, Artifacts, Locals, Forms
<1>5. CopiedOK'
  BY IdleIsTyped DEF IInv, StartMirror, CopiedOK, Copied, Mirroring, SameBytes, Wanted, Reported, TypeOK, PhaseOK, PastOK, Texts, Copies, Artifacts, Locals, Forms
<1>6. ArtifactOK'
  BY IdleIsTyped DEF IInv, StartMirror, ArtifactOK, TypeOK, PastOK, PhaseOK, Texts, Copies, Artifacts, Locals, Forms
<1> QED
  BY <1>1, <1>2, <1>3, <1>4, <1>5, <1>6 DEF IInv

LEMMA CompileUnmodifiedKeeps ==
  ASSUME IInv, CompileUnmodified
  PROVE  IInv'
<1>1. TypeOK'
  BY IdleIsTyped DEF IInv, CompileUnmodified, TypeOK, Texts, Copies, Artifacts, Locals, Forms
<1>2. SlotsHeld'
  BY IdleIsTyped DEF IInv, CompileUnmodified, SlotsHeld, Holders
<1>3. PastOK'
  BY IdleIsTyped DEF IInv, CompileUnmodified, PastOK, TypeOK, Texts, Copies, Artifacts, Locals, Forms
<1>4. PhaseOK'
  BY IdleIsTyped DEF IInv, CompileUnmodified, PhaseOK, TypeOK, Reported, Texts, Copies, Artifacts, Locals, Forms
<1>5. CopiedOK'
  BY IdleIsTyped DEF IInv, CompileUnmodified, CopiedOK, Copied, Mirroring, SameBytes, Wanted, Reported, TypeOK, PhaseOK, PastOK, Texts, Copies, Artifacts, Locals, Forms
<1>6. ArtifactOK'
  BY IdleIsTyped DEF IInv, CompileUnmodified, ArtifactOK, TypeOK, PastOK, PhaseOK, Texts, Copies, Artifacts, Locals, Forms
<1> QED
  BY <1>1, <1>2, <1>3, <1>4, <1>5, <1>6 DEF IInv

LEMMA SkipKeeps ==
  ASSUME IInv, NEW f \in Files, Skip(f)
  PROVE  IInv'
<1>1. TypeOK'
  BY IdleIsTyped DEF IInv, Skip, TypeOK, Texts, Copies, Artifacts, Locals, Forms, MustWrite
<1>2. SlotsHeld'
  BY IdleIsTyped DEF IInv, Skip, SlotsHeld, Holders, MustWrite
<1>3. PastOK'
  BY IdleIsTyped DEF IInv, Skip, PastOK, TypeOK, Texts, Copies, Artifacts, Locals, Forms, MustWrite
<1>4. PhaseOK'
  BY IdleIsTyped DEF IInv, Skip, PhaseOK, TypeOK, Reported, Texts, Copies, Artifacts, Locals, Forms, MustWrite
<1>5. CopiedOK'
  BY IdleIsTyped DEF IInv, Skip, CopiedOK, Copied, Mirroring, SameBytes, Wanted, Reported, TypeOK, PhaseOK, PastOK, Texts, Copies, Artifacts, Locals, Forms, MustWrite
<1>6. ArtifactOK'
  BY IdleIsTyped DEF IInv, Skip, ArtifactOK, TypeOK, PastOK, PhaseOK, Texts, Copies, Artifacts, Locals, Forms, MustWrite
<1> QED
  BY <1>1, <1>2, <1>3, <1>4, <1>5, <1>6 DEF IInv

LEMMA WriteByRenameKeeps ==
  ASSUME IInv, NEW f \in Files, WriteByRename(f)
  PROVE  IInv'
<1>1. TypeOK'
  <2>1. Wanted(f) \in Copies
    BY WantedIsCopy DEF IInv, PhaseOK, WriteByRename
  <2>2. mirror' \in [Files -> Copies \cup {Absent, Partial}]
    BY <2>1 DEF IInv, WriteByRename, TypeOK
  <2>3. wrapper' \in Locals /\ wrapper'.target = wrapper.target
    BY DEF IInv, WriteByRename, TypeOK, Locals
  <2> QED
    BY <2>2, <2>3 DEF IInv, WriteByRename, TypeOK
<1>2. SlotsHeld'
  BY IdleIsTyped DEF IInv, WriteByRename, SlotsHeld, Holders
<1>3. PastOK'
  <2>1. Wanted(f).mtime = original[f].version /\ original[f] # Absent
    BY DEF IInv, PhaseOK, WriteByRename, Wanted
  <2>2. wrapper'.at = wrapper.at
    BY DEF IInv, WriteByRename, TypeOK, Locals
  <2>3. \A h \in Files : mirror'[h] \in {mirror[h], Wanted(f)}
                          /\ (mirror'[h] # mirror[h] => mirror'[h] = Wanted(f))
    BY DEF IInv, WriteByRename, TypeOK
  <2> QED
    BY <2>1, <2>2, <2>3 DEF IInv, PastOK, WriteByRename
<1>4. PhaseOK'
  BY IdleIsTyped DEF IInv, WriteByRename, PhaseOK, TypeOK, Reported, Texts, Copies, Artifacts, Locals, Forms
<1>5. CopiedOK'
  BY IdleIsTyped DEF IInv, WriteByRename, CopiedOK, Copied, Mirroring, SameBytes, Wanted, Reported, TypeOK, PhaseOK, PastOK, Texts, Copies, Artifacts, Locals, Forms
<1>6. ArtifactOK'
  BY IdleIsTyped DEF IInv, WriteByRename, ArtifactOK, TypeOK, PastOK, PhaseOK, Texts, Copies, Artifacts, Locals, Forms
<1> QED
  BY <1>1, <1>2, <1>3, <1>4, <1>5, <1>6 DEF IInv

LEMMA WriteInPlaceKeeps ==
  ASSUME IInv, NEW f \in Files, WriteInPlace(f)
  PROVE  IInv'
<1>1. TypeOK'
  BY IdleIsTyped DEF IInv, WriteInPlace, TypeOK, Texts, Copies, Artifacts, Locals, Forms
<1>2. SlotsHeld'
  BY IdleIsTyped DEF IInv, WriteInPlace, SlotsHeld, Holders
<1>3. PastOK'
  BY IdleIsTyped DEF IInv, WriteInPlace, PastOK, TypeOK, Texts, Copies, Artifacts, Locals, Forms
<1>4. PhaseOK'
  BY IdleIsTyped DEF IInv, WriteInPlace, PhaseOK, TypeOK, Reported, Texts, Copies, Artifacts, Locals, Forms
<1>5. CopiedOK'
  BY IdleIsTyped DEF IInv, WriteInPlace, CopiedOK, Copied, Mirroring, SameBytes, Wanted, Reported, TypeOK, PhaseOK, PastOK, Texts, Copies, Artifacts, Locals, Forms
<1>6. ArtifactOK'
  BY IdleIsTyped DEF IInv, WriteInPlace, ArtifactOK, TypeOK, PastOK, PhaseOK, Texts, Copies, Artifacts, Locals, Forms
<1> QED
  BY <1>1, <1>2, <1>3, <1>4, <1>5, <1>6 DEF IInv

LEMMA FinishInPlaceKeeps ==
  ASSUME IInv, FinishInPlace
  PROVE  IInv'
<1>1. TypeOK'
  <2>0. wrapper.target \in Files /\ original[wrapper.target] # Absent
    BY DEF IInv, PhaseOK, FinishInPlace, TypeOK, Locals
  <2>1. Wanted(wrapper.target) \in Copies
    BY <2>0, WantedIsCopy DEF IInv
  <2>2. mirror' \in [Files -> Copies \cup {Absent, Partial}]
    BY <2>1 DEF IInv, FinishInPlace, TypeOK
  <2>3. wrapper' \in Locals /\ wrapper'.target = NoFile
    BY DEF IInv, FinishInPlace, TypeOK, Locals
  <2> QED
    BY <2>2, <2>3 DEF IInv, FinishInPlace, TypeOK
<1>2. SlotsHeld'
  BY IdleIsTyped DEF IInv, FinishInPlace, SlotsHeld, Holders
<1>3. PastOK'
  <2> DEFINE f == wrapper.target
  <2>1. Wanted(f).mtime = original[f].version /\ f \in Files /\ original[f] # Absent
    BY DEF IInv, PhaseOK, FinishInPlace, TypeOK, Locals, Wanted
  <2>2. wrapper'.at = wrapper.at
    BY DEF IInv, FinishInPlace, TypeOK, Locals
  <2>3. \A h \in Files : mirror'[h] \in {mirror[h], Wanted(f)}
    BY DEF IInv, FinishInPlace, TypeOK
  <2> QED
    BY <2>1, <2>2, <2>3 DEF IInv, PastOK, FinishInPlace
<1>4. PhaseOK'
  BY IdleIsTyped DEF IInv, FinishInPlace, PhaseOK, TypeOK, Reported, Texts, Copies, Artifacts, Locals, Forms
<1>5. CopiedOK'
  BY IdleIsTyped DEF IInv, FinishInPlace, CopiedOK, Copied, Mirroring, SameBytes, Wanted, Reported, TypeOK, PhaseOK, PastOK, Texts, Copies, Artifacts, Locals, Forms
<1>6. ArtifactOK'
  BY IdleIsTyped DEF IInv, FinishInPlace, ArtifactOK, TypeOK, PastOK, PhaseOK, Texts, Copies, Artifacts, Locals, Forms
<1> QED
  BY <1>1, <1>2, <1>3, <1>4, <1>5, <1>6 DEF IInv

LEMMA ScanDoneKeeps ==
  ASSUME IInv, ScanDone
  PROVE  IInv'
<1>1. TypeOK'
  BY IdleIsTyped DEF IInv, ScanDone, TypeOK, Texts, Copies, Artifacts, Locals, Forms
<1>2. SlotsHeld'
  BY IdleIsTyped DEF IInv, ScanDone, SlotsHeld, Holders
<1>3. PastOK'
  BY IdleIsTyped DEF IInv, ScanDone, PastOK, TypeOK, Texts, Copies, Artifacts, Locals, Forms
<1>4. PhaseOK'
  BY IdleIsTyped DEF IInv, ScanDone, PhaseOK, TypeOK, Reported, Texts, Copies, Artifacts, Locals, Forms
<1>5. CopiedOK'
  BY IdleIsTyped DEF IInv, ScanDone, CopiedOK, Copied, Mirroring, SameBytes, Wanted, Reported, TypeOK, PhaseOK, PastOK, Texts, Copies, Artifacts, Locals, Forms
<1>6. ArtifactOK'
  BY IdleIsTyped DEF IInv, ScanDone, ArtifactOK, TypeOK, PastOK, PhaseOK, Texts, Copies, Artifacts, Locals, Forms
<1> QED
  BY <1>1, <1>2, <1>3, <1>4, <1>5, <1>6 DEF IInv

LEMMA MirrorDoneKeeps ==
  ASSUME IInv, MirrorDone
  PROVE  IInv'
<1>1. TypeOK'
  BY IdleIsTyped DEF IInv, MirrorDone, TypeOK, Texts, Copies, Artifacts, Locals, Forms
<1>2. SlotsHeld'
  BY IdleIsTyped DEF IInv, MirrorDone, SlotsHeld, Holders
<1>3. PastOK'
  BY IdleIsTyped DEF IInv, MirrorDone, PastOK, TypeOK, Texts, Copies, Artifacts, Locals, Forms
<1>4. PhaseOK'
  BY IdleIsTyped DEF IInv, MirrorDone, PhaseOK, TypeOK, Reported, Texts, Copies, Artifacts, Locals, Forms
<1>5. CopiedOK'
  BY IdleIsTyped DEF IInv, MirrorDone, CopiedOK, Copied, Mirroring, SameBytes, Wanted, Reported, TypeOK, PhaseOK, PastOK, Texts, Copies, Artifacts, Locals, Forms
<1>6. ArtifactOK'
  BY IdleIsTyped DEF IInv, MirrorDone, ArtifactOK, TypeOK, PastOK, PhaseOK, Texts, Copies, Artifacts, Locals, Forms
<1> QED
  BY <1>1, <1>2, <1>3, <1>4, <1>5, <1>6 DEF IInv

LEMMA RustcSucceedsKeeps ==
  ASSUME IInv, OutsideAlone, NEW remapped \in BOOLEAN, RustcSucceeds(remapped)
  PROVE  IInv'
<1>1. TypeOK'
  <2>1. artifact' \in Artifacts
    <3>1. CASE wrapper.tree = "original"
      <4> DEFINE files == DepInfo(original)
                 built == [s \in Slots |-> original[files[s]].version]
      <4>1. files \in [Slots -> Files] /\ \A s \in Slots : original[files[s]] # Absent
        BY DepInfoReads DEF IInv, SlotsHeld
      <4>2. built \in [Slots -> Nat]
        BY <4>1 DEF IInv, TypeOK, Texts
      <4>3. artifact' = Recorded(files, built, remapped)
        BY <3>1 DEF RustcSucceeds
      <4> QED
        BY <4>1, <4>2, <4>3 DEF Recorded, Artifacts, IInv, TypeOK, Locals
    <3>2. CASE wrapper.tree # "original"
      <4> DEFINE files == DepInfo(mirror)
                 built == [s \in Slots |-> IF mirror[files[s]] = Partial THEN 0
                                           ELSE mirror[files[s]].version]
      <4>1. files \in [Slots -> Files] /\ \A s \in Slots : mirror[files[s]] # Absent
        BY <3>2, DepInfoReads DEF RustcSucceeds, Rejected
      <4>2. built \in [Slots -> Nat]
        BY <4>1 DEF IInv, TypeOK, Copies
      <4>3. artifact' = Recorded(files, built, remapped)
        BY <3>2 DEF RustcSucceeds
      <4> QED
        BY <4>1, <4>2, <4>3 DEF Recorded, Artifacts, IInv, TypeOK, Locals
    <3> QED
      BY <3>1, <3>2
  <2> QED
    BY <2>1, IdleIsTyped DEF IInv, RustcSucceeds, TypeOK
<1>2. SlotsHeld'
  BY IdleIsTyped DEF IInv, RustcSucceeds, SlotsHeld, Holders, Recorded, Idle, NoReport
<1>3. PastOK'
  BY IdleIsTyped DEF IInv, RustcSucceeds, PastOK, TypeOK, Texts, Copies, Artifacts, Locals, Forms, Recorded, Idle, NoReport
<1>4. PhaseOK'
  BY IdleIsTyped DEF IInv, RustcSucceeds, PhaseOK, TypeOK, Reported, Texts, Copies, Artifacts, Locals, Forms, Recorded, Idle, NoReport
<1>5. CopiedOK'
  BY IdleIsTyped DEF IInv, RustcSucceeds, CopiedOK, Copied, Mirroring, SameBytes, Wanted, Reported, TypeOK, PhaseOK, PastOK, Texts, Copies, Artifacts, Locals, Forms, Recorded, Idle, NoReport
<1>6. ArtifactOK'
  <2>0. /\ UNCHANGED <<original, mirror, clock>>
        /\ wrapper.todo = {}
        /\ wrapper.at \in Nat /\ clock \in Nat
    BY DEF IInv, PhaseOK, RustcSucceeds, TypeOK, Locals
  <2>1. CASE wrapper.tree = "original"
    <3> DEFINE files == DepInfo(original)
               built == [s \in Slots |-> original[files[s]].version]
    <3>1. \A s \in Slots : /\ Holders(original, s) = {files[s]}
                           /\ SlotOf[files[s]] = s
                           /\ original[files[s]] # Absent
      BY DepInfoReads DEF IInv, SlotsHeld
    <3>2. /\ artifact'.files = files
          /\ artifact'.built = built
          /\ artifact'.watch = "original"
      BY <2>1 DEF RustcSucceeds, Recorded
    <3>3. ASSUME NEW s \in Slots, NEW f \in Scanned, original[f] # Absent, SlotOf[f] = s
          PROVE  built[s] = original[f].version
      BY <3>1, <3>3 DEF Holders
    <3> QED
      BY <2>0, <3>1, <3>2, <3>3 DEF ArtifactOK
  <2>2. CASE wrapper.tree # "original"
    <3> DEFINE files == DepInfo(mirror)
               built == [s \in Slots |-> IF mirror[files[s]] = Partial THEN 0
                                         ELSE mirror[files[s]].version]
    <3>1. \A s \in Slots : /\ files[s] \in Files
                           /\ Holders(mirror, s) = {files[s]}
                           /\ SlotOf[files[s]] = s
                           /\ mirror[files[s]] # Absent
      BY <2>2, DepInfoReads DEF RustcSucceeds, Rejected
    <3>2. /\ artifact'.files = files
          /\ artifact'.built = built
          /\ artifact'.at = wrapper.at
      BY <2>2 DEF RustcSucceeds, Recorded
    <3>3. \A f \in Scanned : original[f] # Absent => Copied(f)
      BY <2>0, <2>2 DEF IInv, CopiedOK, Mirroring, RustcSucceeds
    <3>4. ASSUME NEW s \in Slots, NEW f \in Scanned, original[f] # Absent, SlotOf[f] = s,
                 original[f].version <= wrapper.at
          PROVE  built[s] = original[f].version
      <4>1. mirror[f] \notin {Absent, Partial} /\ mirror[f].version = original[f].version
        BY <3>3, <3>4 DEF Copied
      <4>2. files[s] = f
        BY <3>1, <3>4, <4>1 DEF Holders
      <4> QED
        BY <4>1, <4>2
    <3>5. ASSUME NEW s \in Slots, wrapper.at = clock + 1
          PROVE  original[files[s]] # Absent
      <4>1. PICK g \in Files : Holders(original, s) = {g}
        BY DEF IInv, SlotsHeld
      <4>2. original[g] # Absent /\ SlotOf[g] = s
        BY <4>1 DEF Holders
      <4>3. CASE g \in Scanned
        <5>1. mirror[g] # Absent
          BY <3>3, <3>5, <4>2, <4>3 DEF Copied
        <5>2. files[s] = g
          BY <3>1, <4>2, <5>1 DEF Holders
        <5> QED
          BY <4>2, <5>2
      <4>4. CASE g \in Outside
        <5>1. files[s] = g
          BY <3>1, <4>2, <4>4 DEF OutsideAlone
        <5> QED
          BY <4>2, <5>1
      <4> QED
        BY <4>3, <4>4
    <3>6. /\ \A s \in Slots : SlotOf[artifact'.files[s]] = s /\ mirror[artifact'.files[s]] # Absent
          /\ \A s \in Slots : wrapper.at = clock + 1 => original[artifact'.files[s]] # Absent
          /\ \A s \in Slots, f \in Scanned :
               (/\ original[f] # Absent
                /\ SlotOf[f] = s
                /\ original[f].version <= wrapper.at)
               => artifact'.built[s] = original[f].version
      BY <3>1, <3>2, <3>4, <3>5
    <3> QED
      BY <2>0, <3>2, <3>6 DEF ArtifactOK
  <2> QED
    BY <2>1, <2>2
<1> QED
  BY <1>1, <1>2, <1>3, <1>4, <1>5, <1>6 DEF IInv

LEMMA RustcFailsKeeps ==
  ASSUME IInv, RustcFails
  PROVE  IInv'
<1>1. TypeOK'
  BY IdleIsTyped DEF IInv, RustcFails, TypeOK, Texts, Copies, Artifacts, Locals, Forms, Idle, NoReport
<1>2. SlotsHeld'
  BY IdleIsTyped DEF IInv, RustcFails, SlotsHeld, Holders, Idle, NoReport
<1>3. PastOK'
  BY IdleIsTyped DEF IInv, RustcFails, PastOK, TypeOK, Texts, Copies, Artifacts, Locals, Forms, Idle, NoReport
<1>4. PhaseOK'
  BY IdleIsTyped DEF IInv, RustcFails, PhaseOK, TypeOK, Reported, Texts, Copies, Artifacts, Locals, Forms, Idle, NoReport
<1>5. CopiedOK'
  BY IdleIsTyped DEF IInv, RustcFails, CopiedOK, Copied, Mirroring, SameBytes, Wanted, Reported, TypeOK, PhaseOK, PastOK, Texts, Copies, Artifacts, Locals, Forms, Idle, NoReport
<1>6. ArtifactOK'
  BY IdleIsTyped DEF IInv, RustcFails, ArtifactOK, TypeOK, PastOK, PhaseOK, Texts, Copies, Artifacts, Locals, Forms, Idle, NoReport
<1> QED
  BY <1>1, <1>2, <1>3, <1>4, <1>5, <1>6 DEF IInv

LEMMA KillKeeps ==
  ASSUME IInv, Kill
  PROVE  IInv'
<1>1. TypeOK'
  BY IdleIsTyped DEF IInv, Kill, TypeOK, Texts, Copies, Artifacts, Locals, Forms, Idle, NoReport
<1>2. SlotsHeld'
  BY IdleIsTyped DEF IInv, Kill, SlotsHeld, Holders, Idle, NoReport
<1>3. PastOK'
  BY IdleIsTyped DEF IInv, Kill, PastOK, TypeOK, Texts, Copies, Artifacts, Locals, Forms, Idle, NoReport
<1>4. PhaseOK'
  BY IdleIsTyped DEF IInv, Kill, PhaseOK, TypeOK, Reported, Texts, Copies, Artifacts, Locals, Forms, Idle, NoReport
<1>5. CopiedOK'
  BY IdleIsTyped DEF IInv, Kill, CopiedOK, Copied, Mirroring, SameBytes, Wanted, Reported, TypeOK, PhaseOK, PastOK, Texts, Copies, Artifacts, Locals, Forms, Idle, NoReport
<1>6. ArtifactOK'
  BY IdleIsTyped DEF IInv, Kill, ArtifactOK, TypeOK, PastOK, PhaseOK, Texts, Copies, Artifacts, Locals, Forms, Idle, NoReport
<1> QED
  BY <1>1, <1>2, <1>3, <1>4, <1>5, <1>6 DEF IInv

LEMMA StepsKeepInvariant == OutsideAlone /\ IInv /\ [Next]_vars => IInv'
<1> SUFFICES ASSUME OutsideAlone, IInv, [Next]_vars PROVE IInv'
  OBVIOUS
<1>1. CASE Developer
  BY <1>1, EditKeeps, MoveKeeps, CleanPackageKeeps, CleanAllKeeps DEF Developer
<1>2. CASE Wrapper
  BY <1>2, StartUnitKeeps, AnalyzeKeeps, StartMirrorKeeps, CompileUnmodifiedKeeps, SkipKeeps,
     WriteByRenameKeeps, WriteInPlaceKeeps, FinishInPlaceKeeps, ScanDoneKeeps, MirrorDoneKeeps,
     RustcSucceedsKeeps, RustcFailsKeeps DEF Wrapper
<1>3. CASE Kill
  BY <1>3, KillKeeps
<1>4. CASE UNCHANGED vars
  BY <1>4 DEF vars, IInv, TypeOK, SlotsHeld, Holders, PastOK, PhaseOK, Reported, CopiedOK,
     Mirroring, Copied, SameBytes, Wanted, ArtifactOK
<1> QED
  BY <1>1, <1>2, <1>3, <1>4 DEF Next

LEMMA InitHolds == Init => IInv
<1> SUFFICES ASSUME Init PROVE IInv
  OBVIOUS
<1>1. TypeOK
  BY IdleIsTyped DEF Init, TypeOK, Texts
<1>2. SlotsHeld
  <2> SUFFICES ASSUME NEW s \in Slots PROVE \E f \in Files : Holders(original, s) = {f}
    BY DEF SlotsHeld
  <2>1. PICK f \in InitialFiles :
          SlotOf[f] = s /\ \A g \in InitialFiles : SlotOf[g] = s => g = f
    OBVIOUS
  <2>2. [version |-> 1, candidates |-> TRUE] # Absent
    <3>1. [version |-> 1, candidates |-> TRUE] \in Texts
      BY DEF Texts
    <3> QED
      BY <3>1
  <2>3. \A g \in Files : original[g] # Absent <=> g \in InitialFiles
    BY <2>2 DEF Init
  <2> QED
    BY <2>1, <2>3 DEF Holders
<1>3. PastOK
  <2>1. \A f \in Files : original[f] # Absent => original[f].version = 1
    BY DEF Init
  <2>2. clock = 0 /\ artifact = NoArtifact /\ wrapper.at = 0
    BY IdleIsTyped DEF Init
  <2>3. \A f \in Files : mirror[f] = Absent
    BY DEF Init
  <2> QED
    BY <2>1, <2>2, <2>3 DEF PastOK
<1>4. PhaseOK
  BY DEF Init, PhaseOK, Idle, NoReport, Reported
<1>5. CopiedOK /\ ArtifactOK
  BY DEF Init, CopiedOK, Mirroring, ArtifactOK
<1> QED
  BY <1>1, <1>2, <1>3, <1>4, <1>5 DEF IInv

LEMMA InvariantImplies == IInv => ScanIsExact /\ ScannedFilesAreCurrent /\ RepeatIsFresh
<1> SUFFICES ASSUME IInv PROVE ScanIsExact /\ ScannedFilesAreCurrent /\ RepeatIsFresh
  OBVIOUS
<1>1. ScanIsExact
  <2> SUFFICES ASSUME pc = "rustc", wrapper.tree = "mirror", wrapper.at = clock + 1,
                      NEW f \in Scanned, original[f] # Absent
               PROVE  /\ mirror[f] \notin {Absent, Partial}
                      /\ [mirror[f] EXCEPT !.mtime = 0] = [Wanted(f) EXCEPT !.mtime = 0]
    BY DEF ScanIsExact
  <2>1. mirror[f] \notin {Absent, Partial} /\ SameBytes(mirror[f], Wanted(f))
    BY DEF IInv, PhaseOK, CopiedOK, Mirroring, Copied
  <2>2. mirror[f] \in Copies /\ Wanted(f) \in Copies
    BY <2>1, WantedIsCopy DEF IInv, TypeOK
  <2> QED
    BY <2>1, <2>2, SameBytesSameCopy
<1>2. ScannedFilesAreCurrent
  <2> SUFFICES ASSUME Fresh, artifact.watch = "original", NEW s \in Slots,
                      artifact.files[s] \in Scanned
               PROVE  artifact.built[s] = original[artifact.files[s]].version
    BY DEF ScannedFilesAreCurrent
  <2> QED
    BY DEF Fresh, IInv, ArtifactOK
<1>3. RepeatIsFresh
  <2> SUFFICES ASSUME artifact # NoArtifact, artifact.at = clock + 1 PROVE Fresh
    BY DEF RepeatIsFresh
  <2>1. ASSUME NEW s \in Slots
        PROVE  LET f == artifact.files[s] IN
               /\ f \in Files
               /\ artifact.watch = "original" =>
                    original[f] # Absent /\ original[f].version <= artifact.at
               /\ artifact.watch # "original" =>
                    /\ mirror[f] # Absent
                    /\ mirror[f] # Partial => mirror[f].mtime <= artifact.at
    BY DEF IInv, TypeOK, Artifacts, ArtifactOK, PastOK
  <2> QED
    BY <2>1 DEF Fresh
<1> QED
  BY <1>1, <1>2, <1>3

LEMMA InvariantAlways ==
  ASSUME OutsideAlone
  PROVE  Spec => []IInv
<1>1. IInv /\ [Next]_vars => IInv'
  BY StepsKeepInvariant
<1> QED
  BY <1>1, InitHolds, PTL DEF Spec

\* Every variable has the values the code can give it.
THEOREM MirrorTypeOK ==
  ASSUME OutsideAlone
  PROVE  Spec => []TypeOK
<1>1. IInv => TypeOK
  BY DEF IInv
<1> QED
  BY <1>1, InvariantAlways, PTL

\* What rustc is started on is what the build wants.
THEOREM MirrorScanIsExact ==
  ASSUME OutsideAlone
  PROVE  Spec => []ScanIsExact
<1>1. IInv => ScanIsExact
  BY InvariantImplies
<1> QED
  BY <1>1, InvariantAlways, PTL

\* A unit Cargo takes for up to date was compiled from the present text of its
\* scanned files.
THEOREM MirrorScannedFilesAreCurrent ==
  ASSUME OutsideAlone
  PROVE  Spec => []ScannedFilesAreCurrent
<1>1. IInv => ScannedFilesAreCurrent
  BY InvariantImplies
<1> QED
  BY <1>1, InvariantAlways, PTL

\* A repeat build without an edit compiles nothing.
THEOREM MirrorRepeatIsFresh ==
  ASSUME OutsideAlone
  PROVE  Spec => []RepeatIsFresh
<1>1. IInv => RepeatIsFresh
  BY InvariantImplies
<1> QED
  BY <1>1, InvariantAlways, PTL
=============================================================================
