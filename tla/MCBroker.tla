------------------------------ MODULE MCBroker ------------------------------
(***************************************************************************)
(* Small values for Broker: two cells with the same effects but different  *)
(* IR hashes, a wildcard declaration, a declared but unregistered          *)
(* declassifier, and submissions on both sides of every check.             *)
(***************************************************************************)
EXTENDS Broker

MCPrimitive == {"http_get", "db_read", "send_http", "declassify_bucket", "declassify_mask"}
MCTarget    == {"*", "crm", "alerts.partner.com", "alert"}
MCIRHash    == {"ir1", "ir2"}

Obs      == [kind |-> "Obs", primitive |-> "http_get", target |-> "*", label |-> HIGH]

\* The policy would let it pass, no manifest declares it.
Undeclared == [kind |-> "Obs", primitive |-> "db_read", target |-> "crm", label |-> BOTTOM]
Send(lb) == [kind |-> "Mut", primitive |-> "send_http",
             target |-> "alerts.partner.com", label |-> lb]
Decl(p)  == [kind |-> "Decl", primitive |-> p, target |-> "alert", label |-> BOTTOM]

Declared == << Obs, Send(HIGH), Decl("declassify_bucket"), Decl("declassify_mask") >>

MCManifests ==
    {[ir_hash |-> ir, effects |-> Declared, label_ceiling |-> HIGH] : ir \in MCIRHash}

MCEffects ==
    { [Obs EXCEPT !.target = "crm"], Send(BOTTOM), Send(HIGH),
      Undeclared, Decl("declassify_bucket"), Decl("declassify_mask") }

\* One cell is enough where tokens are not the question.
OneManifest == {m \in MCManifests : m.ir_hash = "ir1"}

\* One admissible and one blocked effect are enough where the policy is not.
TwoEffects == { [Obs EXCEPT !.target = "crm"], Send(HIGH) }

MCRegistered == {"declassify_bucket"}

MCPolicy == default_automaton

\* A policy that remembers a declassification, where the default one stays.
MovingPolicy ==
    [transitions |-> << [src |-> "init", pred |-> is_decl, dst |-> "released"] >>
                        \o TransitionsFrom("init") \o TransitionsFrom("released")
                        \o TransitionsFrom("obs") \o TransitionsFrom("mut"),
     initial     |-> "init",
     accepting   |-> {"init", "released", "obs", "mut"}]

\* A token another broker signed for the first cell, at its own genesis.
MCForeignTokens ==
    {[sign_token(m, GENESIS, "other key", 1, 0) EXCEPT !.nonce = 99] :
        m \in OneManifest}
=============================================================================
