------------------------ MODULE MCBuildOrchestration ------------------------
(***************************************************************************)
(* Instances of BuildOrchestration for TLC.                                *)
(***************************************************************************)
EXTENDS BuildOrchestration

CONSTANTS app, lib, base, otel, debug, release

\* The application needs every package, and nothing else needs any.
MCFlat == {app} \X (Packages \ {app})
\* opentelemetry is built on base, which the application also uses.
MCOverlap == MCFlat \cup {<<otel, base>>}

\* No flag; --release; -r.
MCPlain == {[profile |-> debug, named |-> {}]}
MCRelease == {[profile |-> release, named |-> {release}]}
MCShort == {[profile |-> release, named |-> {}]}
MCReleaseOrShort == MCRelease \cup MCShort
MCDevOrRelease == MCPlain \cup MCRelease

\* Each package's stamps have a prefix of their own, or lib's begins that of app.
MCOwnStamp == {<<p, p>> : p \in Packages}
MCSharedPrefix == MCOwnStamp \cup {<<lib, app>>}
=============================================================================
