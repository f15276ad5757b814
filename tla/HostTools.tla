----------------------------- MODULE HostTools -----------------------------
(***************************************************************************)
(* The one-shot tools of the host, side by side: the budget of a           *)
(* preparation attempt (LifecycleBudget), the controller of the virtual    *)
(* machine (VmControl), the public clarification (Clarification), the      *)
(* licence review (LicenseReview) and the monitor of a bounded run         *)
(* (RunMonitor).  None of them shares state with another; a behaviour is a *)
(* behaviour of the one that `tool` names, and the others stay where they  *)
(* start.                                                                  *)
(***************************************************************************)
EXTENDS LifecycleBudget, VmControl, Clarification, LicenseReview, RunMonitor

SmallCaps ==
    [c \in Caps |-> CASE c \in {"shutdown"} -> 5
                      [] c \in {"active", "start"} -> 2
                      [] OTHER -> 1]

\* Two commits; q and r have their licence text only in a file their manifest
\* refers to, and q shares the commit and its manifest with p.
TwoCommits == <<"older", "newer">>
ThreePackages == [older |-> {"p", "q"}, newer |-> {"r"}]
OwnFiles == [p |-> {"Cargo.toml", "p/LICENSE"}, q |-> {"Cargo.toml"}, r |-> {"Cargo.toml"}]
ReferredFiles == [p |-> {}, q |-> {"q/README"}, r |-> {"LICENSE"}]
Expressions == [p |-> {"MIT"}, q |-> {"MIT"}, r |-> {"MIT", "Apache-2.0"}]
PossibleTexts ==
    [path \in {"Cargo.toml", "p/LICENSE", "q/README", "LICENSE"} |->
        CASE path = "Cargo.toml" -> {{}}
          [] path = "LICENSE" -> {{"MIT"}, {"MIT", "Apache-2.0"}}
          [] OTHER -> {{}, {"MIT"}}]

VARIABLE tool

----------------------------------------------------------------------------
hostVars == <<vars, tool, vmVars, clarificationVars, reviewVars, monitorVars>>

HostInit ==
    /\ tool \in {"budget", "vm", "clarification", "review", "monitor"}
    /\ Init /\ VmInit /\ ClarificationInit /\ ReviewInit /\ MonitorInit

HostNext ==
    \/ tool = "budget" /\ Next /\ UNCHANGED <<tool, vmVars, clarificationVars, reviewVars, monitorVars>>
    \/ tool = "vm" /\ VmNext /\ UNCHANGED <<tool, vars, clarificationVars, reviewVars, monitorVars>>
    \/ tool = "clarification" /\ ClarificationNext /\ UNCHANGED <<tool, vars, vmVars, reviewVars, monitorVars>>
    \/ tool = "review" /\ ReviewNext /\ UNCHANGED <<tool, vars, vmVars, clarificationVars, monitorVars>>
    \/ tool = "monitor" /\ MonitorNext /\ UNCHANGED <<tool, vars, vmVars, clarificationVars, reviewVars>>

\* The monitor and the runner's cleanup keep running, in the behaviours that are
\* theirs; the work need not end.
HostFairSpec ==
    /\ HostInit /\ [][HostNext]_hostVars
    /\ WF_hostVars(tool = "monitor" /\ Monitor /\ UNCHANGED <<tool, vars, vmVars, clarificationVars, reviewVars>>)
    /\ WF_hostVars(tool = "monitor" /\ Cleanup /\ UNCHANGED <<tool, vars, vmVars, clarificationVars, reviewVars>>)

=============================================================================
