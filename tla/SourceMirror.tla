----------------------------- MODULE SourceMirror -----------------------------
(***************************************************************************)
(* The mirror of one unit's sources, through several builds                *)
(* (wrapper.rs: mirror_and_transform_crate_sources, mirror_dir_recursive,  *)
(* remap_dep_info_files; transform.rs: the writing of a transformed file). *)
(*                                                                         *)
(* A mirror directory belongs to one unit and is never cleared by the      *)
(* wrapper.  The wrapper copies or transforms every file under the         *)
(* directory of the crate root (Scanned), then the files found through     *)
(* #[path] elsewhere (Outside), and lets rustc read the mirror.            *)
(*                                                                         *)
(* A slot is a module of the crate.  It is in one of the files that may    *)
(* hold it (foo.rs or foo/mod.rs), with the number of its last edit as its *)
(* text and its modification time.                                         *)
(***************************************************************************)
EXTENDS Naturals

CONSTANTS Scanned,      \* files under the directory of the crate root
          Outside,      \* files of the crate elsewhere
          Slots,        \* the modules of the crate
          SlotOf,       \* the module a file holds
          InitialFiles, \* the files that exist at first, one for each slot
          MaxEdits,     \* bound: edits and moves of sources
          MaxBuilds,    \* bound: compilations of the unit
          Faults,       \* TRUE: builds are killed, and renames fail
          Absent, Partial, NoArtifact, NoFile

Files == Scanned \cup Outside

ASSUME MirrorAssumption ==
  /\ Scanned \cap Outside = {}
  /\ SlotOf \in [Files -> Slots]
  /\ InitialFiles \subseteq Files
  /\ \A s \in Slots : \E f \in InitialFiles :
       /\ SlotOf[f] = s
       /\ \A g \in InitialFiles : SlotOf[g] = s => g = f
  /\ MaxEdits \in Nat
  /\ MaxBuilds \in Nat
  /\ Faults \in BOOLEAN
  /\ NoFile \notin Files

\* The emitters that transform, and the files they leave alone.
Forms == {"native", "fallback"}

Texts == [version : Nat, candidates : BOOLEAN]
\* What is in a mirrored file: the text it comes from, the text its spans were
\* found in (0: copied as it is), and the modification time given to it.
Copies == [version : Nat, spans : Nat, form : Forms \cup {"plain"}, mtime : Nat]

ASSUME NullAssumption ==
  /\ Absent \notin Texts \cup Copies
  /\ Partial \notin Copies
  /\ Partial # Absent

VARIABLES original,  \* original[f]: the source file, or Absent
          clock,     \* edits and moves so far
          mirror,    \* mirror[f]: its counterpart, Absent, or Partial
          artifact,  \* what Cargo has recorded for the unit
          pc,        \* where the wrapper is
          wrapper,   \* its locals
          builds     \* for the bound

vars == <<original, clock, mirror, artifact, pc, wrapper, builds>>

Artifacts ==
  [files : [Slots -> Files],   \* the dep-info: the file each module was read from
   built : [Slots -> Nat],     \* auxiliary: the text that was in it
   at : Nat,                   \* when Cargo started the compilation
   watch : {"original", "mirror"}]  \* the tree the dep-info names
Locals ==
  [at : Nat, form : Forms,
   report : [Files -> Nat],    \* the text in which candidates were found, 0: none
   tree : {"original", "mirror"},
   todo : SUBSET Files,        \* files still to be mirrored
   target : Files \cup {NoFile}]  \* the file being written in place
ASSUME ArtifactAssumption == NoArtifact \notin Artifacts

NoReport == [f \in Files |-> 0]
Idle == [at |-> 0, form |-> "native", report |-> NoReport, tree |-> "original",
         todo |-> {}, target |-> NoFile]

-----------------------------------------------------------------------------
(* What the wrapper writes *)

Reported == {f \in Files : wrapper.report[f] # 0}

\* The copy of a file: transformed at the spans of the report, or as it is.
Wanted_NewTime(f) ==
  [version |-> original[f].version,
   spans |-> wrapper.report[f],
   form |-> IF f \in Reported THEN wrapper.form ELSE "plain",
   mtime |-> clock + 2]
Wanted(f) ==
  [version |-> original[f].version,
   spans |-> wrapper.report[f],
   form |-> IF f \in Reported THEN wrapper.form ELSE "plain",
   mtime |-> original[f].version]

\* Equal bytes: the file is left alone, with the time it has.
SameBytes_TextOnly(a, b) == a \notin {Absent, Partial} /\ a.version = b.version
SameBytes(a, b) ==
  /\ a \notin {Absent, Partial}
  /\ a.version = b.version
  /\ a.spans = b.spans
  /\ a.form = b.form

\* An edit between the analysis and the copy: the spans belong to another text.
Garbled(copy) ==
  IF copy \in {Absent, Partial} THEN copy = Partial
                               ELSE copy.spans \notin {0, copy.version}

-----------------------------------------------------------------------------
(* What rustc and Cargo do with the files *)

\* The files that hold slot s in a tree.
Holders(tree, s) == {f \in Files : SlotOf[f] = s /\ tree[f] # Absent}

\* A module in no file, or in two, is an error of the compiler; so is native
\* code without the extern, which goes with the emitter of this build.
Rejected(tree) ==
  \/ \E s \in Slots : \A f \in Files : Holders(tree, s) # {f}
  \/ \E f \in Files : /\ tree[f] \notin {Absent, Partial}
                      /\ tree[f].form = "native"
                      /\ wrapper.form # "native"

DepInfo(tree) == [s \in Slots |-> CHOOSE f \in Files : f \in Holders(tree, s)]

\* Cargo compiles again when a file of the dep-info is gone or was changed
\* after the compilation started.
Fresh ==
  /\ artifact # NoArtifact
  /\ \A s \in Slots :
       LET f == artifact.files[s] IN
       IF artifact.watch = "original"
       THEN original[f] # Absent /\ original[f].version <= artifact.at
       ELSE /\ mirror[f] # Absent
            /\ mirror[f] # Partial => mirror[f].mtime <= artifact.at

-----------------------------------------------------------------------------
(* The developer *)

\* An editor saves a file, at any time: before, during or after a build.
Edit(f, candidates) ==
  /\ original[f] # Absent
  /\ clock < MaxEdits
  /\ clock' = clock + 1
  /\ original' = [original EXCEPT ![f] = [version |-> clock + 2, candidates |-> candidates]]
  /\ UNCHANGED <<mirror, artifact, pc, wrapper, builds>>

\* A module moves to the other file that may hold it, and keeps its time.
Move(f, g) ==
  /\ pc = "idle"
  /\ original[f] # Absent
  /\ original[g] = Absent
  /\ SlotOf[f] = SlotOf[g]
  /\ clock < MaxEdits
  /\ clock' = clock + 1
  /\ original' = [original EXCEPT ![g] = original[f], ![f] = Absent]
  /\ UNCHANGED <<mirror, artifact, pc, wrapper, builds>>

\* `cargo clean -p` leaves the mirror, which is no artifact of the package.
CleanPackage ==
  /\ pc = "idle"
  /\ artifact # NoArtifact
  /\ artifact' = NoArtifact
  /\ UNCHANGED <<original, clock, mirror, pc, wrapper, builds>>

CleanAll ==
  /\ pc = "idle"
  /\ artifact' = NoArtifact
  /\ mirror' = [f \in Files |-> Absent]
  /\ UNCHANGED <<original, clock, pc, wrapper, builds>>

-----------------------------------------------------------------------------
(* The wrapper *)

\* Cargo forgets the former artifact before it starts the compilation.
StartUnit ==
  /\ pc = "idle"
  /\ ~Fresh
  /\ builds < MaxBuilds
  /\ builds' = builds + 1
  /\ artifact' = NoArtifact
  /\ wrapper' = [Idle EXCEPT !.at = clock + 1]
  /\ pc' = "analyze"
  /\ UNCHANGED <<original, clock, mirror>>

\* analyze_source_file and the choice of an emitter: without candidates, or
\* without an emitter, rustc compiles the originals.
Analyze(form) ==
  /\ pc = "analyze"
  /\ wrapper' = [wrapper EXCEPT
       !.form = form,
       !.report = [f \in Files |->
          IF original[f] # Absent /\ original[f].candidates
          THEN original[f].version ELSE 0]]
  /\ pc' = "decide"
  /\ UNCHANGED <<original, clock, mirror, artifact, builds>>

StartMirror ==
  /\ pc = "decide"
  /\ Reported # {}
  /\ wrapper' = [wrapper EXCEPT !.todo = {f \in Scanned : original[f] # Absent}]
  /\ pc' = "scan"
  /\ UNCHANGED <<original, clock, mirror, artifact, builds>>

\* Nothing to transform, no emitter, or a failure at any step (a file outside the
\* crate, unreadable, not UTF-8, spans that do not fit): S11, compile the originals.
CompileUnmodified ==
  /\ pc \in {"decide", "scan", "outside", "writing"}
  /\ wrapper' = [wrapper EXCEPT !.tree = "original", !.todo = {}, !.target = NoFile]
  /\ pc' = "rustc"
  /\ UNCHANGED <<original, clock, mirror, artifact, builds>>

\* In mirror_dir_recursive a file is written unless the bytes are the same; a
\* file outside is written only if the mirror has none.
MustWrite_IfMissing(f) == mirror[f] = Absent
MustWrite(f) ==
  IF pc = "scan" THEN ~SameBytes(mirror[f], Wanted(f)) ELSE mirror[f] = Absent

Skip(f) ==
  /\ pc \in {"scan", "outside"}
  /\ f \in wrapper.todo
  /\ ~MustWrite(f)
  /\ wrapper' = [wrapper EXCEPT !.todo = @ \ {f}]
  /\ UNCHANGED <<original, clock, mirror, artifact, pc, builds>>

\* A temporary file, its time set, renamed into place.
WriteByRename(f) ==
  /\ pc \in {"scan", "outside"}
  /\ f \in wrapper.todo
  /\ MustWrite(f)
  /\ mirror' = [mirror EXCEPT ![f] = Wanted(f)]
  /\ wrapper' = [wrapper EXCEPT !.todo = @ \ {f}]
  /\ UNCHANGED <<original, clock, artifact, pc, builds>>

\* The rename fails: the file is written where it is.
WriteInPlace(f) ==
  /\ Faults
  /\ pc \in {"scan", "outside"}
  /\ f \in wrapper.todo
  /\ MustWrite(f)
  /\ mirror' = [mirror EXCEPT ![f] = Partial]
  /\ wrapper' = [wrapper EXCEPT !.target = f]
  /\ pc' = "writing"
  /\ UNCHANGED <<original, clock, artifact, builds>>

FinishInPlace_TargetKept ==
  LET f == wrapper.target IN
  /\ pc = "writing"
  /\ mirror' = [mirror EXCEPT ![f] = Wanted(f)]
  /\ wrapper' = [wrapper EXCEPT !.todo = @ \ {f}]
  /\ pc' = IF f \in Scanned THEN "scan" ELSE "outside"
  /\ UNCHANGED <<original, clock, artifact, builds>>
FinishInPlace ==
  LET f == wrapper.target IN
  /\ pc = "writing"
  /\ mirror' = [mirror EXCEPT ![f] = Wanted(f)]
  /\ wrapper' = [wrapper EXCEPT !.todo = @ \ {f}, !.target = NoFile]
  /\ pc' = IF f \in Scanned THEN "scan" ELSE "outside"
  /\ UNCHANGED <<original, clock, artifact, builds>>

\* Step 4: of the files elsewhere, those with candidates.
ScanDone ==
  /\ pc = "scan"
  /\ wrapper.todo = {}
  /\ wrapper' = [wrapper EXCEPT !.todo = Reported \cap Outside]
  /\ pc' = "outside"
  /\ UNCHANGED <<original, clock, mirror, artifact, builds>>

MirrorDone ==
  /\ pc = "outside"
  /\ wrapper.todo = {}
  /\ wrapper' = [wrapper EXCEPT !.tree = "mirror"]
  /\ pc' = "rustc"
  /\ UNCHANGED <<original, clock, mirror, artifact, builds>>

-----------------------------------------------------------------------------
(* rustc, the dep-info and Cargo's record *)

\* remap_dep_info_files has the dep-info of a mirrored unit name the originals,
\* unless it cannot read, match or write the file, which it does not report.
Recorded(files, built, remapped) ==
  [files |-> files, built |-> built, at |-> wrapper.at,
   watch |-> IF wrapper.tree = "original" \/ remapped THEN "original" ELSE "mirror"]

RustcSucceeds(remapped) ==
  /\ pc = "rustc"
  /\ \/ /\ wrapper.tree = "original"
        /\ artifact' =
             LET files == DepInfo(original) IN
             Recorded(files, [s \in Slots |-> original[files[s]].version], remapped)
     \/ /\ wrapper.tree = "mirror"
        /\ ~Rejected(mirror)
        /\ artifact' =
             LET files == DepInfo(mirror) IN
             Recorded(files,
                      [s \in Slots |-> IF mirror[files[s]] = Partial THEN 0
                                       ELSE mirror[files[s]].version],
                      remapped)
  /\ pc' = "idle"
  /\ wrapper' = Idle
  /\ UNCHANGED <<original, clock, mirror, builds>>

\* The compiler's errors are those of the mirror; the unit is not tried again
\* from its originals.
RustcFails ==
  /\ pc = "rustc"
  /\ wrapper.tree = "mirror"
  /\ \/ Rejected(mirror)
     \/ \E f \in Files : Garbled(mirror[f])
  /\ pc' = "idle"
  /\ wrapper' = Idle
  /\ UNCHANGED <<original, clock, mirror, artifact, builds>>

Kill ==
  /\ Faults
  /\ pc # "idle"
  /\ pc' = "idle"
  /\ wrapper' = Idle
  /\ UNCHANGED <<original, clock, mirror, artifact, builds>>

-----------------------------------------------------------------------------
Init ==
  /\ original = [f \in Files |-> IF f \in InitialFiles
                                 THEN [version |-> 1, candidates |-> TRUE] ELSE Absent]
  /\ clock = 0
  /\ mirror = [f \in Files |-> Absent]
  /\ artifact = NoArtifact
  /\ pc = "idle"
  /\ wrapper = Idle
  /\ builds = 0

Developer ==
  \/ \E f \in Files, candidates \in BOOLEAN : Edit(f, candidates)
  \/ \E f, g \in Files : Move(f, g)
  \/ CleanPackage
  \/ CleanAll

Wrapper ==
  \/ StartUnit
  \/ \E form \in Forms : Analyze(form)
  \/ StartMirror
  \/ CompileUnmodified
  \/ \E f \in Files : Skip(f) \/ WriteByRename(f) \/ WriteInPlace(f)
  \/ FinishInPlace
  \/ ScanDone
  \/ MirrorDone
  \/ \E remapped \in BOOLEAN : RustcSucceeds(remapped)
  \/ RustcFails

Next == Developer \/ Wrapper \/ Kill

Spec == Init /\ [][Next]_vars

-----------------------------------------------------------------------------
(* Properties *)

\* Every variable has the values the code can give it; a file is being written in
\* place exactly while the wrapper is at it.
TypeOK ==
  /\ original \in [Files -> Texts \cup {Absent}]
  /\ clock \in Nat
  /\ mirror \in [Files -> Copies \cup {Absent, Partial}]
  /\ artifact \in Artifacts \cup {NoArtifact}
  /\ pc \in {"idle", "analyze", "decide", "scan", "writing", "outside", "rustc"}
  /\ wrapper \in Locals
  /\ pc = "writing" <=> wrapper.target # NoFile
  /\ builds \in Nat

\* Whatever killed builds, failed renames, moves and other emitters have left in
\* the mirror, when rustc is started on it every file under the crate root's
\* directory is there as this build wants it (mirror_dir_recursive), unless a
\* source was edited meanwhile.
ScanIsExact ==
  (pc = "rustc" /\ wrapper.tree = "mirror" /\ wrapper.at = clock + 1)
    => \A f \in Scanned :
         original[f] # Absent =>
           /\ mirror[f] \notin {Absent, Partial}
           /\ [mirror[f] EXCEPT !.mtime = 0] = [Wanted(f) EXCEPT !.mtime = 0]

\* A unit that Cargo takes for up to date was compiled from the present text of
\* every file it read under the crate root's directory, even if files were
\* edited between the analysis, the copies and rustc.
ScannedFilesAreCurrent ==
  (pc = "idle" /\ Fresh /\ artifact.watch = "original")
    => \A s \in Slots :
         artifact.files[s] \in Scanned
           => artifact.built[s] = original[artifact.files[s]].version

\* The same for every file of the crate: an edited file is mirrored again.
FreshArtifactIsCurrent ==
  (pc = "idle" /\ Fresh /\ artifact.watch = "original")
    => \A s \in Slots : artifact.built[s] = original[artifact.files[s]].version

\* A repeat build without an edit compiles nothing (A13), even when the dep-info
\* still names the mirror: mirrored files carry the times of their originals.
RepeatIsFresh ==
  (pc = "idle" /\ artifact # NoArtifact /\ artifact.at = clock + 1) => Fresh
=============================================================================
