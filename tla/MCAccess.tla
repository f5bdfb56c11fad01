------------------------------ MODULE MCAccess ------------------------------
(***************************************************************************)
(* The ways in, for TLC: the approval service, the terminal and the paired *)
(* devices that answer for it, the pairing page and the tokens of          *)
(* shared/authsrv, and the tunnel their traffic comes through.  They share *)
(* no variable, so each is explored alone: scene says which.               *)
(***************************************************************************)
EXTENDS MCApproval, Terminal, ApproverAnswers, ApproverInbox, Pairing, Tokens, Tunnel

VARIABLE scene

accessVars == <<vars, terminalVars, answersVars, inboxVars, pvars, tvars, tunnelVars, scene>>

AccessInit ==
  /\ Init /\ TerminalInit /\ AnswersInit /\ InboxInit /\ PairingInit /\ TokensInit /\ TunnelInit
  /\ scene \in {"approval", "terminal", "answers", "inbox", "pairing", "tokens", "tunnel"}
  /\ scene # "approval" => mode = "safe"

AccessNext ==
  /\ UNCHANGED scene
  /\ \/ /\ scene = "approval" /\ Next
        /\ UNCHANGED <<terminalVars, answersVars, inboxVars, pvars, tvars, tunnelVars>>
     \/ /\ scene = "terminal" /\ TerminalNext
        /\ UNCHANGED <<vars, answersVars, inboxVars, pvars, tvars, tunnelVars>>
     \/ /\ scene = "answers" /\ AnswersNext
        /\ UNCHANGED <<vars, terminalVars, inboxVars, pvars, tvars, tunnelVars>>
     \/ /\ scene = "inbox" /\ InboxNext
        /\ UNCHANGED <<vars, terminalVars, answersVars, pvars, tvars, tunnelVars>>
     \/ /\ scene = "pairing" /\ PairingNext
        /\ UNCHANGED <<vars, terminalVars, answersVars, inboxVars, tvars, tunnelVars>>
     \/ /\ scene = "tokens" /\ TokensNext
        /\ UNCHANGED <<vars, terminalVars, answersVars, inboxVars, pvars, tunnelVars>>
     \/ /\ scene = "tunnel" /\ TunnelNext
        /\ UNCHANGED <<vars, terminalVars, answersVars, inboxVars, pvars, tvars>>

AccessSpec == AccessInit /\ [][AccessNext]_accessVars
=============================================================================
