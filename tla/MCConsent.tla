------------------------------ MODULE MCConsent -----------------------------
(* Consent for TLC: one workspace, two platforms, one job of each kind.    *)
EXTENDS Consent, TLC

Job(kind, verdict, trust) == [kind |-> kind, verdict |-> verdict, trust |-> trust, ws |-> "w1"]

Allow == Job("command", "allow", "ask")
Confirm == Job("command", "confirm", "ask")
Disclose == Job("command", "disclose", "ask")
Block == Job("command", "block", "ask")
Trusted == Job("proxy", "allow", "workspace")
Untrusted == Job("proxy", "allow", "ask")
Agent == Job("agent", "allow", "ask")
Snapshot == Job("snapshot", "allow", "ask")

MCJobs == {Allow, Confirm, Disclose, Block, Trusted, Untrusted, Agent, Snapshot}
MCInstallations == 
  {{Allow, Disclose}, {Trusted, Block}, {Untrusted}, {Confirm}, {Agent}, {Snapshot}}

Perms == Permutations(Callers)
=============================================================================
