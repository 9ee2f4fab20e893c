----------------------------- MODULE Baselines ------------------------------
(***************************************************************************)
(* The systems the experiments compare (baslines/systems.py).  A system    *)
(* decides a case and writes destinations to its shadow outbox.  Most of   *)
(* them read nothing but the text of the source; the others submit the     *)
(* cell to a CVM of their own, with some of its layers switched off.       *)
(***************************************************************************)
EXTENDS Families

SOCKET_PAT == {"socket", "__import__", "eval", "exec", "open", "getattr"}
DOMAIN_BLOCKLIST == {Evil}
DOMAIN_ALLOWLIST == {Partner}

Mentions(c, words) == c.words \cap words # {}

Allow(writes) == [decision |-> "ALLOW", writes |-> writes]
Block(writes) == [decision |-> "BLOCK", writes |-> writes]

\* Of the destinations in the text, those on the one list or not on the other.
Denied(c)  == ToSet(c.dests) \cap DOMAIN_BLOCKLIST
Foreign(c) == ToSet(c.dests) \ DOMAIN_ALLOWLIST

\* The loop over the destinations in the text: it writes them one by one
\* and returns at the first that is refused.  What is written stays written.
Mediate(c, refused) ==
    LET k == SelectInSeq(c.dests, LAMBDA dst : dst \in refused) IN
    IF k = 0 THEN Allow(c.dests) ELSE Block(SubSeq(c.dests, 1, k - 1))

Screen(c, words, otherwise) == IF Mentions(c, words) THEN Block(<<>>) ELSE otherwise

\* A raw profile field, a send, and no declassifier anywhere in the text.
RawProfileSent(c) ==
    {"profile[", "broker.send_http"} \subseteq c.words /\ "declassify" \notin c.words

NativeBaseline(c)   == Allow(c.dests)
GVisorBaseline(c)   == Screen(c, SOCKET_PAT \cup {"setattr", "hasattr"}, Mediate(c, Denied(c)))
IsolateGPTBaseline(c) == Screen(c, SOCKET_PAT, Mediate(c, Foreign(c)))

AgentSpecBaseline(c) ==
    Screen(c, SOCKET_PAT, IF RawProfileSent(c) THEN Block(<<>>) ELSE Mediate(c, Foreign(c)))

ShieldAgentBaseline(c) ==
    Screen(c, SOCKET_PAT \cup {"/leak", "/vipflag", "/normalflag"}, Mediate(c, Foreign(c)))

\* The keywords and the flow are looked at when the writes are done.
AgentSentinelBaseline(c) ==
    LET mediated == Mediate(c, Foreign(c)) IN
    IF Mentions(c, SOCKET_PAT) THEN Block(<<>>)
    ELSE IF Mentions(c, {"/leak", "/vipflag", "/normalflag"}) \/ RawProfileSent(c)
         THEN Block(mediated.writes) ELSE mediated

ProgentEquivalentBaseline(c) ==
    Screen(c, SOCKET_PAT \cup {"/leak", "/vipflag"}, Mediate(c, Foreign(c)))

SandboxOnlyBaseline(c) == Screen(c, SOCKET_PAT, Allow(c.dests))

PolicyOnlyBaseline(c) ==
    Screen(c, SOCKET_PAT, Mediate(c, Denied(c) \cup Foreign(c)))

-----------------------------------------------------------------------------
(* The systems that own a CVM *)

\* The cell runs without any layer, and its destinations are written as well.
StrictSeccompBaseline(c) == Screen(c, SOCKET_PAT, Allow(c.dests))

\* Only a syntax error stops it: a rejection by the verifier does not.
StaticManifestOnlyBaseline(c, outcome) ==
    IF outcome = "SYNTAX_REJECT" THEN Block(<<>>) ELSE Allow(c.dests)

PcaWFull(outcome) == IF outcome = "OK" THEN Allow(<<>>) ELSE Block(<<>>)

NotDecl(x) == x.kind # "Decl"

\* PcaWNoDecl: the declassifier calls are cut out of the source and their
\* arguments left in their place, so that the send carries the raw value.
Strip(cell) ==
    IF \A i \in DOMAIN cell.calls : NotDecl(cell.calls[i]) THEN cell
    ELSE LET Raw(e) == IF e.kind = "Mut" THEN [e EXCEPT !.label = HIGH] ELSE e
             kept == SelectSeq(cell.verdict[BOTTOM].effects, NotDecl) IN
         Plain(cell.source \o ", stripped", [i \in DOMAIN kept |-> Raw(kept[i])],
               SelectSeq(cell.calls, NotDecl))

Layers(static, auto, kernel, ifc, envelope, capability) ==
    [static |-> static, auto |-> auto, kernel |-> kernel, ifc |-> ifc,
     envelope |-> envelope, capability |-> capability]

AllLayers == Layers(TRUE, TRUE, TRUE, TRUE, TRUE, TRUE)

\* The layers of the CVM a system owns, for those that own one; the last four
\* are PcaWFull(**kwargs) as the ablation builds it.
LayersOf ==
    [s \in {"ESCar_full", "ESCar_no_decl", "B2_strict_seccomp", "Sandbox_only",
            "Policy_only_no_manifest", "StaticManifest_only_no_broker", "- HighWater IFC",
            "- Capability token binding", "- Broker (frontend only)",
            "- seccomp/eBPF fallback"} |->
        CASE s = "B2_strict_seccomp"       -> Layers(FALSE, FALSE, FALSE, FALSE, FALSE, FALSE)
          [] s = "Sandbox_only"            -> Layers(FALSE, FALSE, TRUE, FALSE, FALSE, FALSE)
          [] s = "Policy_only_no_manifest" -> Layers(FALSE, TRUE, TRUE, FALSE, FALSE, TRUE)
          [] s = "StaticManifest_only_no_broker" ->
                                              Layers(TRUE, FALSE, FALSE, TRUE, FALSE, FALSE)
          [] s = "- HighWater IFC"         -> [AllLayers EXCEPT !.ifc = FALSE]
          [] s = "- Capability token binding" -> [AllLayers EXCEPT !.capability = FALSE]
          [] s = "- Broker (frontend only)" -> Layers(TRUE, FALSE, TRUE, TRUE, FALSE, FALSE)
          [] s = "- seccomp/eBPF fallback" -> [AllLayers EXCEPT !.kernel = FALSE]
          [] OTHER                         -> AllLayers]

HasCvm(s) == s \in DOMAIN LayersOf

\* decide() calls submit_cell.
Submits(s, c) ==
    /\ HasCvm(s) /\ s \notin {"Sandbox_only", "Policy_only_no_manifest"}
    /\ s = "B2_strict_seccomp" => ~Mentions(c, SOCKET_PAT)

CellGiven(s, c) == IF s = "ESCar_no_decl" THEN Strip(c.cell) ELSE c.cell

\* decide(), given how the submission ended if there was one.
decide(s, c, outcome) ==
    CASE s = "B1_no_defense"           -> NativeBaseline(c)
      [] s = "B2_strict_seccomp"       -> StrictSeccompBaseline(c)
      [] s = "B3_gvisor"               -> GVisorBaseline(c)
      [] s = "B4_isolategpt"           -> IsolateGPTBaseline(c)
      [] s = "B5_agentspec"            -> AgentSpecBaseline(c)
      [] s = "B6_shieldagent"          -> ShieldAgentBaseline(c)
      [] s = "B6_agentsentinel"        -> AgentSentinelBaseline(c)
      [] s = "Progent_equivalent"      -> ProgentEquivalentBaseline(c)
      [] s = "Sandbox_only"            -> SandboxOnlyBaseline(c)
      [] s = "Policy_only_no_manifest" -> PolicyOnlyBaseline(c)
      [] s = "StaticManifest_only_no_broker" -> StaticManifestOnlyBaseline(c, outcome)
      [] OTHER                         -> PcaWFull(outcome)
=============================================================================
