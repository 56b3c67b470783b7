------------------------------- MODULE MCHost -------------------------------
(* What the program does to the host: downloads, the tools that change     *)
(* files, and the shell.  They share no state, so a behaviour is about one *)
(* of them.                                                                *)
EXTENDS HubDownload

CONSTANTS Mutators, Target, MaxRacers, MaxKids, MaxToolFaults, Symbols, MaxText

(* A change of the file is named by its mutation, or numbered.             *)
ASSUME ToolsAssumption ==
    /\ IsFiniteSet(Mutators) /\ Target \notin Mutators /\ Mutators \cap Nat = {}
    /\ MaxRacers \in Nat /\ MaxKids \in Nat /\ MaxToolFaults \in Nat

VARIABLES scene, entry, text, mut, caller, racers, deleted, exposed, sh, failures

Tools == INSTANCE Workspace

toolVars == <<entry, text, mut, caller, racers, deleted, exposed, sh, failures>>
hostVars == <<vars, toolVars, scene>>

HostInit == Init /\ Tools!Init /\ scene \in {"hub", "files", "shell"}

InHub == scene = "hub" /\ UNCHANGED <<toolVars, scene>>
InFiles == scene = "files" /\ UNCHANGED <<vars, scene>>
InShell == scene = "shell" /\ UNCHANGED <<vars, scene>>

HubStep(f) == InHub /\ FileStep(f)
ToolStep(m) == InFiles /\ Tools!MutatorStep(m)

HostNext ==
    \/ \E f \in Files : HubStep(f)
    \/ InHub /\ Begin
    \/ InHub /\ Return
    \/ InHub /\ Discard
    \/ InHub /\ (CallerCancels \/ DropFuture \/ Die)
    \/ InFiles /\ Tools!FileNext
    \/ InShell /\ Tools!ShellNext

HostSpec ==
    /\ HostInit /\ [][HostNext]_hostVars
    /\ WF_vars(InHub /\ Begin) /\ WF_vars(InHub /\ Return) /\ WF_vars(InHub /\ Discard)
    /\ \A f \in Files : WF_vars(HubStep(f))
    /\ WF_toolVars(InShell /\ Tools!ShellStep)
    /\ \A m \in Mutators : WF_toolVars(ToolStep(m))

HubCompletes == scene = "hub" => DownloadCompletes
MutationsAreSafe == Tools!MutationsAreSafe
ShellIsContained == Tools!ShellIsContained
ToolTextIsExact == scene = "shell" => Tools!ToolTextIsExact
ToolsEnd == Tools!ToolsEnd
=============================================================================
