-------------------------- MODULE TerminalHandoff --------------------------
(***************************************************************************)
(* Who owns the terminal: TerminalSession with the modes it has acquired,  *)
(* the run loop's suspended flag and input gate, App's                     *)
(* interactive_handoff_active, and the interactive children (tailscale     *)
(* login, logout, ssh and nc, and the policy editor) that inherit the      *)
(* terminal.  Terminal operations may fail.                                *)
(***************************************************************************)
EXTENDS Naturals, FiniteSets

CONSTANTS Mouse,       \* ui.mouse
          Slots,       \* bound: children at a time
          Bounds       \* bounds on handoffs, faults and what else a scenario counts

ASSUME HandoffAssumption ==
    /\ Mouse \in BOOLEAN
    /\ \A b \in Bounds : b.handoffs \in Nat /\ b.faults \in Nat

VARIABLES held,        \* modes the terminal is in (external)
          acquired,    \* TerminalSession.acquired
          suspended,   \* run loop: terminal_suspended
          gate,        \* run loop: handoff_input_gate
          active,      \* App.interactive_handoff_active
          child,       \* of each slot: its child and the event that ends it
          phase,       \* "running", "failing" (TerminalResumeFailed sent) or "stopped"
          bound,       \* the scenario
          handoffs,    \* children the user has opened so far, the editor aside
          faults,      \* history: terminal operations that failed so far
          refused      \* history: a child was refused the terminal

terminalVars == <<held, acquired, suspended, gate, active, child, phase, bound, handoffs, faults, refused>>

\* Raw mode, alternate screen, bracketed paste, mouse capture, hidden cursor.
Modes == {"raw", "alternate", "paste", "mouse", "cursor"}
Wanted(mouse) == IF mouse THEN Modes ELSE Modes \ {"mouse"}

\* A child is idle, running, or its end is on its way to update: "ended" or "refused".
Idle == [kind |-> "none", status |-> "idle"]

TerminalInit ==
    /\ held = Wanted(Mouse)
    /\ acquired = Wanted(Mouse)
    /\ suspended = FALSE
    /\ gate = TRUE
    /\ active = FALSE
    /\ child = [s \in Slots |-> Idle]
    /\ phase = "running"
    /\ bound \in Bounds
    /\ handoffs = 0
    /\ faults = 0
    /\ refused = FALSE

Running  == {s \in Slots : child[s].status = "running"}
Free     == {s \in Slots : child[s] = Idle}
\* Keys reach update: read while the gate is open, and not dropped by update_input.
UserActs == phase # "stopped" /\ gate /\ ~active

Fault == faults < bound.faults /\ faults' = faults + 1

-----------------------------------------------------------------------------
(* TerminalSession *)

\* What is given back in reverse order; a mode whose operation fails stays on
\* although the session forgets it.
Release(modes) == held' = held \ modes /\ acquired' = {}

ReleaseFails(modes) ==
    /\ \E kept \in SUBSET modes \ {{}} : held' = (held \ modes) \cup kept
    /\ acquired' = {}

\* Modes are taken in order until one fails; then what was taken is released.
TakenBefore(mode) ==
    CASE mode = "raw"       -> {}
      [] mode = "alternate" -> {"raw"}
      [] mode = "paste"     -> {"raw", "alternate"}
      [] mode = "cursor"    -> {"raw", "alternate", "paste"}

AcquireFails == \E mode \in Wanted(FALSE) : Release(TakenBefore(mode))

-----------------------------------------------------------------------------
(* dispatch_effect: StartTerminalHandoff, StartPolicyEditor, ResumeTerminal *)

\* Mutant: the input task is not told to leave the terminal alone.
Start_KeepsReading(c) ==
    /\ Free # {} /\ ~suspended
    /\ Release(acquired)
    /\ suspended' = TRUE
    /\ child' = [child EXCEPT ![CHOOSE slot \in Free : TRUE] = c]
    /\ UNCHANGED <<gate, faults, refused>>

\* A child c that is to run is refused while another one has the terminal, or when the
\* terminal cannot be released; its end is reported without running it.
Start(c) ==
    /\ Free # {}
    /\ LET s == CHOOSE slot \in Free : TRUE IN
        \/ /\ suspended
           /\ child' = [child EXCEPT ![s] = [c EXCEPT !.status = "refused"]]
           /\ refused' = TRUE
           /\ UNCHANGED <<held, acquired, suspended, gate, faults>>
        \/ /\ ~suspended
           /\ Fault
           /\ ReleaseFails(acquired)
           /\ child' = [child EXCEPT ![s] = [c EXCEPT !.status = "refused"]]
           /\ refused' = TRUE
           /\ UNCHANGED <<suspended, gate>>
        \/ /\ ~suspended
           /\ Release(acquired)
           /\ suspended' = TRUE
           /\ gate' = FALSE
           /\ child' = [child EXCEPT ![s] = c]
           /\ UNCHANGED <<faults, refused>>

\* Mouse capture is not asked for again: resume(false).
Resume ==
    \/ /\ ~suspended
       /\ UNCHANGED <<held, acquired, suspended, gate, phase, faults>>
    \/ /\ suspended
       /\ held' = held \cup Wanted(FALSE)
       /\ acquired' = Wanted(FALSE)
       /\ suspended' = FALSE
       /\ gate' = TRUE
       /\ UNCHANGED <<phase, faults>>
    \/ /\ suspended
       /\ Fault
       /\ \/ AcquireFails
          \/ held' = held \cup Wanted(FALSE) /\ acquired' = Wanted(FALSE)  \* clear failed
       /\ gate' = TRUE
       /\ phase' = "failing"
       /\ UNCHANGED suspended

\* LocalEvent::TerminalResumeFailed asks for the shutdown: see Stop.

\* Mutant: the end of an editor does not give the terminal back.
GiveBack_NotFromEditor(s) ==
    /\ child[s].status \in {"ended", "refused"}
    /\ child' = [child EXCEPT ![s] = Idle]
    /\ active' = FALSE
    /\ UNCHANGED <<bound, handoffs, refused>>
    /\ IF child[s].kind = "handoff" THEN Resume ELSE UNCHANGED <<held, acquired, suspended, gate, phase, faults>>

\* LocalEvent::HandoffFinished and PolicyEvent::EditorFinished begin alike.
GiveBack(s) ==
    /\ child[s].status \in {"ended", "refused"}
    /\ child' = [child EXCEPT ![s] = Idle]
    /\ active' = FALSE
    /\ UNCHANGED <<bound, handoffs, refused>>
    /\ Resume

-----------------------------------------------------------------------------
(* tailscale login, logout, ssh and nc *)

\* accept_confirmation: the user confirmed an interactive child.
OpenHandoff ==
    /\ UserActs
    /\ handoffs < bound.handoffs /\ handoffs' = handoffs + 1
    /\ active' = TRUE
    /\ Start([kind |-> "handoff", status |-> "running"])
    /\ UNCHANGED <<phase, bound>>

HandoffExits(s) ==
    /\ phase # "stopped"
    /\ child[s].kind = "handoff" /\ child[s].status = "running"
    /\ child' = [child EXCEPT ![s].status = "ended"]
    /\ UNCHANGED <<held, acquired, suspended, gate, active, phase, bound, handoffs, faults, refused>>

HandoffFinished(s) ==
    /\ phase # "stopped"
    /\ child[s].kind = "handoff"
    /\ GiveBack(s)

\* The end of run_with_driver_and_queue: children are killed with their tasks,
\* then the session cleans up.
Stop ==
    /\ phase' = "stopped"
    /\ child' = [s \in Slots |-> Idle]
    /\ \/ Release(acquired) /\ UNCHANGED faults
       \/ Fault /\ ReleaseFails(acquired)
    /\ UNCHANGED <<suspended, gate, active, bound, handoffs, refused>>

-----------------------------------------------------------------------------
(* What is promised *)

\* While a child runs, Tale neither draws nor reads keys and holds no mode of
\* the terminal - unless the end of a refused child took the terminal back.
ChildOwnsTerminal ==
    Running # {} /\ ~refused => suspended /\ ~gate /\ acquired = {} /\ (faults = 0 => held = {})

\* Tale itself never draws on a terminal it has released, and leaves no mode
\* behind when it ends.
ScreenIsTales ==
    faults = 0 => /\ phase = "running" /\ ~suspended => Wanted(FALSE) \subseteq acquired
                  /\ held = acquired
                  /\ phase = "stopped" => held = {}

\* Whoever uses the terminal has it to himself: the child, or Tale.
TerminalIsOwned == ChildOwnsTerminal /\ ScreenIsTales

\* Once the child is gone, its end gives the terminal back or Tale stops.
TerminalReturns == suspended /\ Running = {} ~> ~suspended \/ phase = "stopped"
=============================================================================
