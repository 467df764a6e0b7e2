------------------------ MODULE MCInstrumentedBuild ------------------------
(* A workspace whose root package app has tool and lib below its directory, *)
(* and the packages they may need.                                          *)
EXTENDS InstrumentedBuild, TLC

CONSTANTS app, tool, lib, reg, mac, otel, otel2, otlp, shim, tok, fake

MCPackages == {app, tool, lib, reg, mac, otel, otel2, otlp, shim, tok, fake}
MCName ==
  app :> "app" @@ tool :> "tool" @@ lib :> "lib" @@ reg :> "reg" @@ mac :> "mac"
    @@ otel :> "opentelemetry" @@ otel2 :> "opentelemetry"
    @@ otlp :> "opentelemetry_otlp" @@ shim :> "otel_shim"
    @@ tok :> "tokio" @@ fake :> "fake_runtime"
MCOtelFamily == {otel, otel2, otlp}
MCMembers == {app, tool, lib}
MCInside == {<<tool, app>>, <<lib, app>>}
MCFromRegistry == MCPackages \ MCMembers
MCInvocations ==
  {[request |-> {app}, named |-> TRUE, command |-> "build"],
   [request |-> {tool}, named |-> TRUE, command |-> "build"],
   [request |-> MCMembers, named |-> FALSE, command |-> "build"],
   [request |-> {tool}, named |-> FALSE, command |-> "test"]}

\* An edge under the name of the crate.
Edge(p, q, kind, built) ==
  [from |-> p, to |-> q, binding |-> MCName[q], kind |-> kind, built |-> built]
Normal(p, q) == Edge(p, q, "normal", TRUE)
Maybe(p, q) == {{}, {Normal(p, q)}}
Tokio(p, q, built) ==
  [from |-> p, to |-> q, binding |-> "tokio", kind |-> "normal", built |-> built]

Fixed == {Normal(app, lib), Normal(app, reg), Normal(shim, otel)}

Debug == [opt |-> "0", debug |-> TRUE, overflow |-> TRUE]
Release == [opt |-> "3", debug |-> FALSE, overflow |-> FALSE]
Default ==
  [edges |-> {}, renamed |-> {}, profile |-> [s \in Sides |-> Debug],
   explicit |-> FALSE, trace |-> Sides, rt |-> TRUE, mode |-> "registry",
   enforced |-> FALSE, limit |-> 1]

\* Who links the shim.
LinkWorlds ==
  {[Default EXCEPT !.edges = Fixed \cup {Normal(tool, reg)} \cup a \cup t \cup l \cup m,
                   !.renamed = r, !.mode = mode] :
     a \in {{}, {Normal(app, shim)}, {Edge(app, shim, "dev", TRUE)},
            {Edge(app, shim, "normal", FALSE)}},
     t \in Maybe(tool, shim), l \in Maybe(lib, shim),
     m \in {{}, {Normal(app, mac), Normal(mac, reg)}, {Edge(app, reg, "build", TRUE)}},
     r \in {{}, {reg}}, mode \in Modes}

\* Which OpenTelemetry the roots and the dependencies see.
AllOtelWorlds ==
  {[Default EXCEPT !.edges = Fixed \cup {Normal(tool, reg)} \cup a \cup t \cup d \cup m,
                   !.profile = s, !.explicit = x, !.trace = f, !.mode = mode] :
     a \in Maybe(app, otel) \cup {{Edge(app, otel, "dev", TRUE)}, {Normal(app, shim)}},
     t \in {{}, {Normal(tool, otel)}, {Normal(tool, otel2)}},
     d \in {{}, {Normal(reg, otel)}, {Normal(otel, reg)}},
     m \in {{}, {Normal(app, mac), Normal(mac, reg), Normal(mac, otel)}},
     s \in {[side \in Sides |-> Debug],
            [side \in Sides |-> IF side = "host" THEN Debug ELSE Release]},
     x \in BOOLEAN, f \in {Sides, {"target"}, {"host"}},
     mode \in {"registry", "dependencies"}}

\* The host's side only matters where mac puts something there.
OtelWorlds ==
  {w \in AllOtelWorlds :
     \/ Normal(app, mac) \in w.edges
     \/ w.profile["host"] = w.profile["target"] /\ w.trace # {"target"}}

\* What the name tokio stands for, and a package of the family with a hyphen.
TokioWorlds ==
  {[Default EXCEPT !.edges = Fixed \cup {Normal(app, otel), Normal(app, otlp),
                                         Normal(otlp, otel)} \cup k,
                   !.rt = rt, !.mode = mode, !.enforced = e] :
     k \in {{Tokio(reg, tok, TRUE)}, {Tokio(reg, fake, TRUE)},
            {Tokio(reg, tok, TRUE), Tokio(reg, fake, FALSE)},
            {Tokio(reg, tok, FALSE), Tokio(reg, fake, TRUE)}},
     rt \in BOOLEAN, e \in BOOLEAN, mode \in {"registry", "dependencies"}}

\* Those of them that are built twice.
Again ==
  {w \in LinkWorlds : /\ w.mode = "registry" /\ w.renamed = {}
                      /\ Normal(lib, shim) \notin w.edges}
    \cup {w \in OtelWorlds : /\ w.mode = "dependencies" /\ w.trace = Sides
                             /\ w.profile["host"] = w.profile["target"]
                             /\ ~w.explicit
                             /\ Normal(app, mac) \notin w.edges}

MCWorlds ==
  (LinkWorlds \cup OtelWorlds \cup TokioWorlds \cup {[w EXCEPT !.limit = 2] : w \in Again})
    \ Again
=============================================================================
