------------------------------ MODULE MCHarness ------------------------------
(***************************************************************************)
(* Systems and cases for Harness: every system that owns a CVM, those that *)
(* read the source only, and cases for every way the two can go.           *)
(***************************************************************************)
EXTENDS Harness

CONSTANTS w1

MCSystems == DOMAIN LayersOf \cup {"B1_no_defense", "B5_agentspec"}

\* One case of every shape: a wrong destination, a call the kernel stops,
\* source that is no cell, a leak and what is tried after it is refused, a
\* primitive the proxy does not have; and benign work with a read and with a
\* declassifier.
MCCases ==
    {c \in build_unified_attack_suite \cup build_native_codebench :
        /\ c.family # "net_attack"
        /\ c.cell.source \in {"rebinding", "raw socket", "eval", "desync",
                              "file_export", "risk bin", "kv state"}}

\* The theorems about the full system ask this of the cases.
Suites == build_unified_attack_suite \cup build_native_codebench

ASSUME SuitesFit == AttacksShow(Suites) /\ \A c \in Suites : OneDestination(c)

AllManifests ==
    UNION {{c.cell.verdict[lb], Strip(c.cell).verdict[lb]} :
             c \in MCCases, lb \in Label} \ {Rejected}

MCManifests == AllManifests \cup {PermissiveManifest}
MCIRHash    == {m.ir_hash : m \in MCManifests} \cup {"forged"}
MCPrimitive == {"http_get", "send_http", "kv_get", "kv_put", "declassify_bucket", "declassify_hash",
                "declassify_redact", "raw_socket", "db_read", "db_write", "fs_write", "x"}
MCTarget    == {"*", "crm", "seen", "alert", "audit", "evil", Partner, Evil, "logs.partner.com",
                "/tmp", "payments"}
MCPolicy     == default_automaton
MCRegistered == {"declassify_bucket", "declassify_hash", "declassify_redact"}
OneWorker    == {w1}
NoEntries    == {}
=============================================================================
