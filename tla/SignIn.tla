------------------------------- MODULE SignIn -------------------------------
(***************************************************************************)
(* Signing in to a tunnel provider and out again (tunnelproc/setup.go,     *)
(* connect.go SignOut), and the zone its certificate names (authorize.go). *)
(*                                                                         *)
(* One provider whose credential can be read and removed.  A certificate   *)
(* is the number of the sign-in that wrote it, 0 when there is none.       *)
(***************************************************************************)
EXTENDS Naturals, FiniteSets

CONSTANTS
  Logins,     \* bound: runs of the provider's login command
  MaxCerts,   \* bound: certificates written
  NoOne

ASSUME SignInAssumption == MaxCerts \in Nat /\ NoOne \notin Logins

VARIABLES
  login,      \* per login: where run is, and what became of its command
  setup,      \* Setups.state and .cancel: [phase, holder]
  cert,       \* the certificate on disk
  certs,      \* how many were written
  signOut,    \* a sign-out: "idle", under way with the certificate "removed", or
              \* "failed" after that, until the next one or the next sign-in's verdict
  zone,       \* zoneState: [key, name, busy]
  lookup      \* resolveZone under way: [key, read]

signInVars == <<login, setup, cert, certs, signOut, zone, lookup>>

NewLogin == [pc |-> "new", cancelled |-> FALSE, ok |-> FALSE]

SignInInit ==
  /\ login = [l \in Logins |-> NewLogin] /\ setup = [phase |-> "idle", holder |-> NoOne]
  /\ cert = 0 /\ certs = 0 /\ signOut = "idle"
  /\ zone = [key |-> 0, name |-> 0, busy |-> FALSE] /\ lookup = {}

----------------------------------------------------------------------------
(* Setups.                                                                 *)

zoneVars == <<zone, lookup>>

StartSetup(l) ==
  /\ login[l].pc = "new" /\ setup.holder = NoOne
  /\ setup' = [phase |-> "starting", holder |-> l]
  /\ login' = [login EXCEPT ![l].pc = "running"]
  /\ UNCHANGED <<cert, certs, signOut, zoneVars>>

\* setWaiting: the page's address is out.
SetWaiting(l) ==
  /\ login[l].pc = "running" /\ setup.phase \in {"starting", "waiting"}
  /\ setup' = [setup EXCEPT !.phase = "waiting"]
  /\ UNCHANGED <<login, cert, certs, signOut, zoneVars>>

CancelSetup ==
  /\ setup' = [phase |-> IF setup.phase \in {"starting", "waiting"} THEN "idle" ELSE setup.phase, holder |-> NoOne]
  /\ login' = IF setup.holder = NoOne THEN login ELSE [login EXCEPT ![setup.holder].cancelled = TRUE]
  /\ UNCHANGED <<cert, certs, signOut, zoneVars>>

\* The user approves: the command writes the certificate ...
LoginWrites(l) ==
  /\ login[l].pc = "running" /\ certs < MaxCerts
  /\ certs' = certs + 1 /\ cert' = certs + 1
  /\ login' = [login EXCEPT ![l].pc = "signed"]
  /\ UNCHANGED <<setup, signOut, zoneVars>>

\* ... and returns 0; it also does when the page is closed.  Otherwise it fails,
\* times out or is killed.
LoginReturns(l, ok) ==
  /\ login[l].pc \in {"running", "signed"}
  /\ login' = [login EXCEPT ![l].pc = "returned", ![l].ok = ok]
  /\ UNCHANGED <<setup, cert, certs, signOut, zoneVars>>

\* Exit code zero taken for proof.
VerdictByExitCode(l) == IF login[l].ok THEN "ready" ELSE "failed"

\* Exit code zero is not proof: what is on disk is.
Verdict(l) == IF login[l].ok /\ cert # 0 THEN "ready" ELSE "failed"

\* The end of run, under the lock: whoever's cancel it is, it is cleared.
SetupEnds(l) ==
  /\ login[l].pc = "returned"
  /\ login' = [login EXCEPT ![l].pc = "done"]
  /\ setup' = [phase |-> IF setup.phase = "idle" THEN "idle" ELSE Verdict(l), holder |-> NoOne]
  /\ signOut' = IF signOut = "failed" THEN "idle" ELSE signOut
  /\ UNCHANGED <<cert, certs, zoneVars>>

\* SignOut: the tunnel is stopped, the certificate removed; an error of either ends it
\* with nothing changed ...
SignOutRemoves ==
  /\ signOut # "removed" /\ signOut' = "removed"
  /\ cert' = 0
  /\ UNCHANGED <<login, setup, certs, zoneVars>>

\* ... then the stored token is deleted, and an error of the keychain ends it there ...
SignOutFails ==
  /\ signOut = "removed" /\ signOut' = "failed"
  /\ UNCHANGED <<login, setup, cert, certs, zoneVars>>

\* ... or it is forgotten: a finished sign-in leaves the screen.
ForgetLogin ==
  /\ signOut = "removed" /\ signOut' = "idle"
  /\ setup' = [setup EXCEPT !.phase = IF @ \in {"ready", "failed"} THEN "idle" ELSE @]
  /\ UNCHANGED <<login, cert, certs, zoneVars>>

----------------------------------------------------------------------------
(* The zone.                                                               *)

\* cloudflareZone, from every snapshot of the screen.  A failed lookup may be
\* repeated once its minute is over.
AsksZone ==
  /\ cert # 0 /\ ~(zone.key = cert /\ (zone.busy \/ zone.name # 0))
  /\ zone' = [key |-> cert, name |-> 0, busy |-> TRUE]
  /\ lookup' = lookup \cup {[key |-> cert, read |-> 0]}
  /\ UNCHANGED <<login, setup, cert, certs, signOut>>

\* lookupZoneName reads the certificate that is there by now.
LookupReads(k) ==
  /\ k.read = 0 /\ cert # 0
  /\ lookup' = (lookup \ {k}) \cup {[k EXCEPT !.read = cert]}
  /\ UNCHANGED <<login, setup, cert, certs, signOut, zone>>

\* A late answer about another certificate is dropped.
TakesAnswer(k) == zone.key = k.key

\* resolveZone: the answer, or an error.
LookupReturns(k, ok) ==
  /\ ok => k.read # 0
  /\ lookup' = lookup \ {k}
  /\ zone' = IF ~TakesAnswer(k) THEN zone
             ELSE [zone EXCEPT !.busy = FALSE, !.name = IF ok THEN k.read ELSE @]
  /\ UNCHANGED <<login, setup, cert, certs, signOut>>

SignInNext ==
  \/ \E l \in Logins : \/ StartSetup(l) \/ SetWaiting(l) \/ LoginWrites(l) \/ SetupEnds(l)
                       \/ \E ok \in BOOLEAN : LoginReturns(l, ok)
  \/ CancelSetup \/ SignOutRemoves \/ SignOutFails \/ ForgetLogin
  \/ AsksZone \/ \E k \in lookup : LookupReads(k) \/ \E ok \in BOOLEAN : LookupReturns(k, ok)

SignInSpec == SignInInit /\ [][SignInNext]_signInVars

----------------------------------------------------------------------------
\* The panel says what is so.  A sign-in shown as finished has its certificate on
\* disk, however cancelled sign-ins, late exit codes and sign-outs overlap, unless a
\* sign-out is just removing it or has failed after that, when Forget is not reached; and a zone that is offered was
\* named by the certificate that is there now, not by one signed out since.
PanelIsTrue ==
  /\ setup.phase = "ready" => cert # 0 \/ signOut \in {"removed", "failed"}
  /\ (cert # 0 /\ zone.key = cert /\ zone.name # 0) => zone.name = cert
=============================================================================
