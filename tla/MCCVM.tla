------------------------------- MODULE MCCVM -------------------------------
(***************************************************************************)
(* Small cells for CVM, one for every way a submission can end, and for    *)
(* every way two submissions can meet in the caches and in the mark.       *)
(***************************************************************************)
EXTENDS CVM, Families

CONSTANTS w1, w2

MCPrimitive == ProxyPrimitive \cup SENSITIVE_SYSCALLS \cup {"db_read", "db_write"}
MCTarget    == {"*", "crm", "seen", "other", "alert", Partner, Evil}

\* Sends what it got in state_in: low or high with the session's mark.
Forward(source) ==
    LET sent == [mark \in Label |-> <<DPost(mark)>>] IN
    [Continued("ir_forward", sent, <<Post(1)>>) EXCEPT !.source = source]

Observe == Plain("observe", <<DGet>>, <<Get(1)>>)
Leak    == Plain("leak", <<DGet, DPost(HIGH)>>, <<Get(1), Post(2)>>)
Bucketed ==
    Plain("bucketed", <<DGet, Declare("Decl", "declassify_bucket", "alert", BOTTOM),
                        DPost(BOTTOM)>>, <<Get(1), Bucket(2), Post(3)>>)
\* A declaration that is low, and a higher one of another primitive behind it.
Refresh == Plain("refresh", <<DPost(BOTTOM), DGet>>, <<Post(1), Get(2)>>)
\* One call site that is low and one that is high, on one target.
TwoSites == Plain("twosites", <<DPost(BOTTOM), DGet, DPost(HIGH)>>,
                  <<Post(1), Get(2), Post(3)>>)
\* A loop whose key changes after the first round: the verifier walks it once.
KvLoop   == Plain("kvloop", <<Declare("Obs", "kv_get", "seen", BOTTOM)>>,
                  <<KvGet("seen", 1), KvGet("other", 0)>>)
\* A destination the policy does not know.
Stray == Plain("stray", <<Declare("Mut", "send_http", "other", BOTTOM)>>,
               <<Site("Mut", "send_http", "other", 1)>>)
RawSocket == Plain("socket", <<Declare("Mut", "raw_socket", Evil, HIGH)>>, <<Socket(1)>>)
Exhausts == Cell("exhausts", "exhausts", "pycap", Rejected, Rejected, <<>>)
Imports  == Cell("imports", "imports", "python", Rejected, Rejected, <<Get(0)>>)

\* Too deep for the recursion of the filter.
Deep     == Cell("deep", "deep", "deep", Rejected, Rejected, <<>>)

ForwardCells  == {Forward("forward"), Forward("forward, reformatted")}
SessionCells  == ForwardCells \cup {Observe, Refresh, Leak, KvLoop}
AllCells      == SessionCells \cup {Bucketed, TwoSites, Stray, RawSocket,
                                   Exhausts, Imports, Deep}
RaceCells     == {Forward("forward"), Leak, RawSocket, Exhausts, Imports, Deep}
StaleCells    == {Forward("forward"), Observe}
SiteCells     == {TwoSites}
KvCells       == {KvLoop}
DeepCells     == {Deep, Observe}
BlameCells    == {Leak, Observe}

ManifestsOf(cells) ==
    (UNION {{c.verdict[lb] : lb \in Label} : c \in cells} \ {Rejected})
        \cup {PermissiveManifest}

MCManifests == ManifestsOf(AllCells)
MCIRHash    == {m.ir_hash : m \in MCManifests}
MCEffects   == [kind : {"Obs", "Mut", "Decl"}, primitive : MCPrimitive,
                target : MCTarget, label : Label]

MCPolicy     == default_automaton
MCRegistered == {"declassify_bucket", "declassify_hash", "declassify_redact"}
OneWorker    == {w1}
TwoWorkers   == {w1, w2}
NoTokens     == {}
=============================================================================
