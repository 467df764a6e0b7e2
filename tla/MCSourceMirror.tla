---------------------------- MODULE MCSourceMirror ----------------------------
(* A crate with a root, a module in foo.rs or foo/mod.rs, and a file reached   *)
(* by #[path] outside the directory of the root.                               *)
EXTENDS SourceMirror

CONSTANTS root, flat, nested, shared

MCScanned == {root, flat, nested}
MCOutside == {shared}
MCSlots == {"root", "foo", "shared"}
MCSlotOf == [f \in {root, flat, nested, shared} |->
               IF f = root THEN "root" ELSE IF f = shared THEN "shared" ELSE "foo"]
MCInitialFiles == {root, flat, shared}
=============================================================================
