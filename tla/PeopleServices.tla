----------------------------- MODULE PeopleServices -----------------------------
(***************************************************************************)
(* What surrounds the members of a workspace, side by side: who belongs to *)
(* it (WorkspaceAccess), its skills (SkillLibrary) and projects            *)
(* (ProjectBoard), who is told of what happens to an issue (IssueInbox)    *)
(* and what a tab of the web application shows of that (WebInbox).         *)
(*                                                                         *)
(* As in AgentServices they share no variable, and one of them works while *)
(* the others are in a first state.                                        *)
(***************************************************************************)
EXTENDS WorkspaceAccess, SkillLibrary, ProjectBoard, IssueInbox, WebInbox

ServicesInit == AccessInit /\ LibraryInit /\ BoardInit /\ Init /\ WebInit

\* The policy is the one part of a first state that is chosen; any will do for the others.
AccessRests ==
    AccessInit /\ policy = [signupDisabled |-> FALSE, creationDisabled |-> FALSE]

ServicesNext ==
    \/ /\ LibraryInit /\ BoardInit /\ Init /\ WebInit
       /\ AccessNext
       /\ UNCHANGED <<libraryVars, boardVars, vars, webVars>>
    \/ /\ AccessRests /\ BoardInit /\ Init /\ WebInit
       /\ LibraryNext
       /\ UNCHANGED <<accessVars, boardVars, vars, webVars>>
    \/ /\ AccessRests /\ LibraryInit /\ Init /\ WebInit
       /\ BoardNext
       /\ UNCHANGED <<accessVars, libraryVars, vars, webVars>>
    \/ /\ AccessRests /\ LibraryInit /\ BoardInit /\ WebInit
       /\ Next
       /\ UNCHANGED <<accessVars, libraryVars, boardVars, webVars>>
    \/ /\ AccessRests /\ LibraryInit /\ BoardInit /\ Init
       /\ WebNext
       /\ UNCHANGED <<accessVars, libraryVars, boardVars, vars>>

servicesVars == <<accessVars, libraryVars, boardVars, vars, webVars>>

ServicesSpec == ServicesInit /\ [][ServicesNext]_servicesVars
=============================================================================
