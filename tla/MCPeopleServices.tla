--------------------------- MODULE MCPeopleServices ---------------------------
(* Two users, their homes and a shared workspace; two skills, and two      *)
(* requests of each kind; two projects of one workspace, and an issue of   *)
(* each of two workspaces; of an issue that two                            *)
(* requests are about: one member and an agent who act, another member who *)
(* is written about, and comes and goes as a subscriber; one tab, and one  *)
(* item it shows.                                                          *)
EXTENDS PeopleServices, TLC
CONSTANTS hu, hv, w1, u1, u2, a1, r1, r2, e1, e2, todo, done

MCHomeOf == u1 :> hu @@ u2 :> hv
MCPathOf == [z \in {"p1", "p2", "b1", "b2"} |-> IF z = "b2" THEN w1 ELSE hu]

MCDraft == {[assignee |-> u2, status |-> todo, named |-> {Everyone}]}
Patched(who, what, to, several) ==
    [by |-> who, field |-> what, value |-> to, batch |-> several]
MCPatch == {Patched(u1, "assignee", a1, FALSE), Patched(u1, "assignee", None, FALSE),
            Patched(u1, "status", done, FALSE), Patched(u1, "status", done, TRUE),
            Patched(a1, "named", {u2}, FALSE), Patched(a1, "named", {u2}, TRUE)}
MCNaming == {{Everyone}}

\* The requests about the issue are alike, and so are those that edit a skill.
Alike == Permutations({r1, r2}) \union Permutations({e1, e2})
=============================================================================
