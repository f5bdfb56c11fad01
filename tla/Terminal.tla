------------------------------ MODULE Terminal ------------------------------
(***************************************************************************)
(* Answering prompts from a terminal (termapprove) and saying that one has *)
(* arrived (app/notify.go).                                                *)
(*                                                                         *)
(* Each prompt has an Ask goroutine of its own; the Prompter's mutex lets  *)
(* one of them show its prompt at a time.  The scanner goroutine hands     *)
(* lines over through a channel without a buffer, so it holds one line     *)
(* until somebody takes it.                                                *)
(***************************************************************************)
EXTENDS Naturals, FiniteSets

CONSTANTS
  Shown,     \* prompts that reach the terminal
  Strict,    \* those that need the whole word (needsFullYes)
  NoPrompt

ASSUME TerminalAssumption == Strict \subseteq Shown /\ NoPrompt \notin Shown

VARIABLES
  verdict,   \* what became of each prompt
  asker,     \* the Ask goroutines
  screen,    \* the prompt on the screen; its Ask holds p.mu
  line,      \* what the scanner holds: a word, or that input ended
  waiting,   \* notifier.waiting
  timer      \* notifier.timer

terminalVars == <<verdict, asker, screen, line, waiting, timer>>

Words == {"y", "yes", "other"}
NoLine == "none"
ClosedLine == "closed"

TerminalInit ==
  /\ verdict = [p \in Shown |-> "none"]
  /\ asker = [p \in Shown |-> "none"]
  /\ screen = NoPrompt
  /\ line = NoLine
  /\ waiting = {} /\ timer = "nil"

\* notifier.Approval: the first of a burst starts the timer.
Announce(p) ==
  /\ waiting' = waiting \cup {p}
  /\ timer' = IF timer = "nil" THEN "armed" ELSE timer

\* onRequest: a prompt was raised; the notifier hears of it and an Ask is started.
PromptArrives(p) ==
  /\ verdict[p] = "none"
  /\ verdict' = [verdict EXCEPT ![p] = "open"]
  /\ asker' = [asker EXCEPT ![p] = "queued"]
  /\ Announce(p)
  /\ UNCHANGED <<screen, line>>

\* The window has passed: flush is on its way to the lock.
TimerFires ==
  /\ timer = "armed" /\ timer' = "fired"
  /\ UNCHANGED <<verdict, asker, screen, line, waiting>>

\* A flush that leaves the spent timer in place.
ResetKeepsTimer == waiting' = {} /\ timer' = "spent"

\* What has arrived is taken off the list and the timer forgotten, under the lock.
Reset == waiting' = {} /\ timer' = "nil"

\* notifier.flush: what has arrived is said in one sentence.
Flush ==
  /\ timer = "fired"
  /\ Reset
  /\ UNCHANGED <<verdict, asker, screen, line>>

\* Another surface answers.
SettledElsewhere(p) ==
  /\ verdict[p] = "open"
  /\ \E v \in {"yes", "no"} : verdict' = [verdict EXCEPT ![p] = v]
  /\ UNCHANGED <<asker, screen, line, waiting, timer>>

\* The person types a line, or input ends.
TypeLine ==
  /\ line = NoLine
  /\ line' \in Words \cup {ClosedLine}
  /\ UNCHANGED <<verdict, asker, screen, waiting, timer>>

\* Ask has the mutex: a prompt already settled is not shown.
AskStarts(p) ==
  /\ asker[p] = "queued" /\ screen = NoPrompt
  /\ IF verdict[p] = "open"
     THEN screen' = p /\ asker' = [asker EXCEPT ![p] = "shown"]
     ELSE asker' = [asker EXCEPT ![p] = "done"] /\ UNCHANGED screen
  /\ UNCHANGED <<verdict, line, waiting, timer>>

AskEnds(p) == screen' = NoPrompt /\ asker' = [asker EXCEPT ![p] = "done"]

\* The select takes pend.Done; a line that is there stays there.
AskSeesDone(p) ==
  /\ asker[p] = "shown" /\ verdict[p] # "open"
  /\ AskEnds(p)
  /\ UNCHANGED <<verdict, line, waiting, timer>>

\* decide.
Approves(p, w) == IF p \in Strict THEN w = "yes" ELSE w \in {"y", "yes"}

\* The select takes a line: Resolve, which refuses when the prompt was answered
\* elsewhere.  Input that is gone ends the Ask and leaves the prompt to others.
AskTakesLine(p) ==
  /\ asker[p] = "shown" /\ line # NoLine
  /\ AskEnds(p)
  /\ IF line = ClosedLine THEN UNCHANGED <<verdict, line>>
     ELSE /\ line' = NoLine
          /\ IF verdict[p] = "open"
             THEN verdict' = [verdict EXCEPT ![p] = IF Approves(p, line) THEN "yes" ELSE "no"]
             ELSE UNCHANGED verdict
  /\ UNCHANGED <<waiting, timer>>

TerminalNext ==
  \/ \E p \in Shown : \/ PromptArrives(p) \/ SettledElsewhere(p) \/ AskStarts(p)
                      \/ AskSeesDone(p) \/ AskTakesLine(p)
  \/ TimerFires \/ Flush \/ TypeLine

TerminalSpec == TerminalInit /\ [][TerminalNext]_terminalVars

----------------------------------------------------------------------------
\* Whoever waits is announced: as long as somebody is on the notifier's list a
\* flush is still to come, however arrivals and flushes interleave.
NobodyWaitsUnannounced == waiting # {} => timer \in {"armed", "fired"}

=============================================================================
