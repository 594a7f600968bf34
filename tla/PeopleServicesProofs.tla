-------------------------- MODULE PeopleServicesProofs --------------------------
(***************************************************************************)
(* What surrounds the members of a workspace: that a workspace keeps an    *)
(* owner and who signs in for the first time is served, that what a        *)
(* request replaces of a skill or of an agent it replaces as a whole, that *)
(* an issue leaves its project only for a reason, that whoever is involved *)
(* in an issue is told, and that a tab catches up with the rows.           *)
(*                                                                         *)
(* Each part has an invariant of its own.  While another part moves it     *)
(* rests, as the last section shows, so what is proved of a part alone is  *)
(* proved of the services.                                                 *)
(***************************************************************************)
EXTENDS PeopleServices, FiniteSetTheorems, SequenceTheorems, TLAPS

-----------------------------------------------------------------------------
(* The workspaces.                                                         *)

MemberCall == [at : {"counting", "writing"}, ws : Workspace, target : Account,
               to : Role \union {"none"}, behind : BOOLEAN, gone : BOOLEAN]
SignIn == [at : {"finding", "creating", "joining", "looking", "again", "home", "taken",
                 "served", "failed"}, user : Account]

AccessType ==
    /\ member \in [Workspace -> [Account -> Role \union {"none"}]]
    /\ call \in [Call -> {Done} \union MemberCall \union SignIn]
    /\ live \subseteq Workspace /\ claimed \subseteq live /\ removed \subseteq Account

Belongs(w, u) == member[w][u] # "none"

\* Who has no workspace lost it.
HomeKept(u) == Belongs(HomeOf[u], u) \/ u \in removed

\* What a request that changes a membership may rely on: the row is there, unless the
\* request knows better, and while nobody came between it does not remove the last owner.
Judged(r) ==
    r.at \in {"counting", "writing"} /\ ~r.gone =>
        /\ r.ws \in live /\ Belongs(r.ws, r.target)
        /\ r.at = "writing" /\ ~r.behind =>
              r.ws \in overtaken \/ r.to = "owner" \/ Owners(r.ws) \ {r.target} # {}

AccessInv ==
    /\ AccessType
    /\ OwnerRemains
    /\ \A w \in Workspace \ live : \A u \in Account : ~Belongs(w, u)
    /\ \A u \in Account : HomeOf[u] \in live => HomeKept(u)
    /\ \A q \in Call : call[q].at = "taken" => HomeKept(call[q].user)
    /\ \A q \in Call : Judged(call[q])

\* What a sign-in that fails is due to.
ServedWell ==
    \A q \in Call : call'[q].at = "failed" /\ call[q].at # "failed" =>
        LET u == call[q].user
        IN  \/ At(q, "creating")
            \/ policy.creationDisabled /\ ListWorkspaces(u) = {}
            \/ u \in removed

LEMMA CallsAre ==
    /\ Done.at = "done" /\ Done \notin MemberCall /\ Done \notin SignIn
    /\ \A r \in MemberCall : r.at \in {"counting", "writing"}
    /\ \A r \in SignIn : r.at \notin {"counting", "writing", "done"}
  BY DEF Done, MemberCall, SignIn

LEMMA AccessStarts ==
    ASSUME AccessInit
    PROVE  AccessInv
  BY CallsAre DEF AccessInit, AccessInv, AccessType, OwnerRemains, Judged, Belongs, Done

\* Where there are two owners there is another one.
LEMMA AnotherOne ==
    ASSUME NEW S, NEW x, ~(Cardinality(S) <= 1)
    PROVE  S \ {x} # {}
<1>1. ASSUME S \ {x} = {} PROVE FALSE
  <2>1. S = {} \/ S = {x}
    BY <1>1
  <2>2. Cardinality({}) = 0 /\ Cardinality({x}) = 1
    BY FS_EmptySet, FS_Singleton
  <2> QED BY <2>1, <2>2
<1> QED BY <1>1

\* Rows are only added, to workspaces that are there, and the requests go on as they may.
LEMMA RowsAreAdded ==
    ASSUME AccessInv, member' \in [Workspace -> [Account -> Role \union {"none"}]],
           \A w \in Workspace, u \in Account : member'[w][u] = member[w][u] \/ ~Belongs(w, u),
           \A w \in Workspace, u \in Account : member'[w][u] # "none" => w \in live',
           live \subseteq live', live' \subseteq Workspace,
           \A w \in live' \ live : \E u \in Account : member'[w][u] = "owner",
           \A u \in Account : HomeOf[u] \in live' \ live => member'[HomeOf[u]][u] # "none",
           claimed' \subseteq live', UNCHANGED <<overtaken, removed>>,
           call' \in [Call -> {Done} \union MemberCall \union SignIn],
           \A q \in Call : \/ call'[q] = call[q]
                           \/ call'[q] = Done
                           \/ call'[q] \in SignIn /\ call'[q].at # "taken"
                           \/ call'[q] \in SignIn /\ call'[q].user \in Account
                              /\ HomeOf[call'[q].user] \in live
                           \/ call'[q] \in MemberCall /\ Judged(call'[q])
    PROVE  AccessInv'
<1>0. /\ member \in [Workspace -> [Account -> Role \union {"none"}]] /\ live \subseteq Workspace
      /\ call \in [Call -> {Done} \union MemberCall \union SignIn]
      /\ HomeOf \in [Account -> Workspace] /\ removed \subseteq Account
  BY AccessAssumption DEF AccessInv, AccessType
<1>1. AccessType'
  BY <1>0 DEF AccessType
<1>2. /\ \A w \in Workspace, u \in Account : Belongs(w, u) => Belongs(w, u)'
      /\ \A w \in Workspace : Owners(w) \subseteq Owners(w)'
  BY DEF Belongs, Owners
<1>3. OwnerRemains'
  <2> SUFFICES ASSUME NEW w \in live' \ overtaken' PROVE Owners(w)' # {}
    BY DEF OwnerRemains
  <2>1. CASE w \in live
    BY <1>0, <1>2, <2>1 DEF AccessInv, OwnerRemains
  <2>2. CASE w \notin live
    BY <2>2 DEF Owners
  <2> QED BY <2>1, <2>2
<1>4. \A w \in Workspace \ live' : \A u \in Account : ~(Belongs(w, u)')
  BY DEF Belongs
<1>5. \A u \in Account : HomeKept(u) => HomeKept(u)'
  BY <1>0, <1>2 DEF HomeKept
<1>6. \A u \in Account : HomeOf[u] \in live' => HomeKept(u)'
  BY <1>0, <1>5 DEF AccessInv, HomeKept, Belongs
<1>7. ASSUME NEW r \in MemberCall, Judged(r) PROVE Judged(r)'
  BY <1>2, <1>7 DEF Judged, MemberCall
<1>8. ASSUME NEW q \in Call
      PROVE  \E s \in {Done} \union MemberCall \union SignIn :
                 call'[q] = s /\ Judged(s)' /\ (s.at = "taken" => HomeKept(s.user)')
  <2> DEFINE s == call'[q]
  <2>1. PICK s1 \in {Done} \union MemberCall \union SignIn : s1 = call'[q]
    OBVIOUS
  <2>2. PICK s0 \in {Done} \union MemberCall \union SignIn : s0 = call[q]
    BY <1>0
  <2>3. Judged(s0) /\ (s0.at = "taken" => HomeKept(s0.user))
    BY <2>2 DEF AccessInv
  <2>4. CASE s1 \in MemberCall
    <3>1. Judged(s1) /\ s1.at # "taken"
      BY <2>1, <2>2, <2>3, <2>4, CallsAre
    <3> QED BY <1>7, <2>1, <2>4, <3>1
  <2>5. CASE s1 \in SignIn
    <3>1. Judged(s1)'
      BY <2>5, CallsAre DEF Judged
    <3>2. s1.user \in Account
      BY <2>5 DEF SignIn
    <3>3. s1.at = "taken" => HomeKept(s1.user)
      BY <2>1, <2>2, <2>3, <2>5, <3>2, CallsAre DEF AccessInv
    <3> QED BY <1>5, <2>1, <3>1, <3>2, <3>3
  <2>6. CASE s1 = Done
    BY <2>1, <2>6, CallsAre DEF Judged
  <2> QED BY <2>4, <2>5, <2>6
<1>9. \A q \in Call : Judged(call[q])' /\ (call'[q].at = "taken" => HomeKept(call[q].user)')
  <2> SUFFICES ASSUME NEW q \in Call
               PROVE  Judged(call[q])' /\ (call'[q].at = "taken" => HomeKept(call[q].user)')
    OBVIOUS
  <2>1. PICK s \in {Done} \union MemberCall \union SignIn :
            call'[q] = s /\ Judged(s)' /\ (s.at = "taken" => HomeKept(s.user)')
    BY <1>8
  <2>2. Judged(call[q])'
    BY <2>1 DEF Judged, Owners, Belongs
  <2>3. call'[q].at = "taken" => HomeKept(call[q].user)'
    BY <2>1 DEF HomeKept, Belongs
  <2> QED BY <2>2, <2>3
<1> QED BY <1>1, <1>3, <1>4, <1>6, <1>9 DEF AccessInv

\* A sign-in goes on.
LEMMA SignInMoves ==
    ASSUME AccessInv, NEW q \in Call, call[q].at \notin {"done", "counting", "writing"},
           NEW x \in {"joining", "creating", "looking", "again", "home", "taken", "served", "failed"},
           call' = [call EXCEPT ![q].at = x]
    PROVE  /\ call[q] \in SignIn /\ call[q].user \in Account
           /\ call' \in [Call -> {Done} \union MemberCall \union SignIn]
           /\ call'[q] \in SignIn /\ call'[q].at = x /\ call'[q].user = call[q].user
           /\ \A p \in Call \ {q} : call'[p] = call[p]
<1>1. call \in [Call -> {Done} \union MemberCall \union SignIn]
  BY DEF AccessInv, AccessType
<1>2. call[q] \in SignIn
  BY <1>1, CallsAre
<1> DEFINE s == [call[q] EXCEPT !.at = x]
<1>3. s \in SignIn /\ s.at = x /\ s.user = call[q].user /\ call[q].user \in Account
  BY <1>2 DEF SignIn
<1>4. call' = [call EXCEPT ![q] = s]
  BY <1>1
<1> HIDE DEF s
<1> QED BY <1>1, <1>2, <1>3, <1>4

\* A sign-in goes on, and nothing else happens to the workspaces.
LEMMA SignInLooks ==
    ASSUME AccessInv, NEW q \in Call, call[q].at \notin {"done", "counting", "writing"},
           NEW x \in {"joining", "creating", "looking", "again", "home", "served", "failed"},
           call' = [call EXCEPT ![q].at = x],
           UNCHANGED <<member, live, claimed, overtaken, removed>>,
           LET u == call[q].user
           IN  x = "failed" =>
                   \/ At(q, "creating")
                   \/ policy.creationDisabled /\ ListWorkspaces(u) = {}
                   \/ u \in removed
    PROVE  AccessInv' /\ ServedWell
<1>1. /\ call' \in [Call -> {Done} \union MemberCall \union SignIn]
      /\ call'[q] \in SignIn /\ call'[q].at = x
      /\ \A p \in Call \ {q} : call'[p] = call[p]
  BY SignInMoves
<1>2. AccessInv'
  <2>1. \A p \in Call : call'[p] = call[p] \/ (call'[p] \in SignIn /\ call'[p].at # "taken")
    BY <1>1
  <2>2. /\ member \in [Workspace -> [Account -> Role \union {"none"}]]
        /\ live \subseteq Workspace /\ claimed \subseteq live
        /\ \A w \in Workspace, u \in Account : member[w][u] # "none" => w \in live
    BY DEF AccessInv, AccessType, Belongs
  <2> QED BY <1>1, <2>1, <2>2, RowsAreAdded
<1>3. ServedWell
  BY <1>1 DEF ServedWell
<1> QED BY <1>2, <1>3

LEMMA SignInSteps ==
    ASSUME AccessInv, NEW q \in Call,
           \/ FindUser(q) \/ CreateUser(q) \/ JoinsClaimed(q) \/ Looks(q) \/ CreatesHome(q)
           \/ SlugTaken(q) \/ Replies(q) \/ \E u \in Account : VerifyCode(q, u)
    PROVE  AccessInv' /\ ServedWell
<1>0. /\ call \in [Call -> {Done} \union MemberCall \union SignIn]
      /\ member \in [Workspace -> [Account -> Role \union {"none"}]]
      /\ live \subseteq Workspace /\ claimed \subseteq live /\ removed \subseteq Account
      /\ \A w \in Workspace, u \in Account : member[w][u] # "none" => w \in live
      /\ HomeOf \in [Account -> Workspace]
  BY AccessAssumption DEF AccessInv, AccessType, Belongs
<1>1. CASE FindUser(q)
  <2>1. CASE call[q].user \in users
    BY <1>1, <2>1, SignInLooks DEF FindUser, At, Moves
  <2>2. CASE call[q].user \notin users
    BY <1>1, <2>2, SignInLooks DEF FindUser, At, Moves
  <2> QED BY <2>1, <2>2
<1>2. CASE CreateUser(q)
  <2>1. CASE call[q].user \in users
    BY <1>2, <2>1, SignInLooks DEF CreateUser, At, SignInEnds
  <2>2. CASE call[q].user \notin users
    BY <1>2, <2>2, SignInLooks DEF CreateUser, At, Moves
  <2> QED BY <2>1, <2>2
<1>3. CASE JoinsClaimed(q)
  <2>1. /\ call[q].at = "joining" /\ call' = [call EXCEPT ![q].at = "looking"]
        /\ UNCHANGED <<live, claimed, overtaken, removed>>
    BY <1>3 DEF JoinsClaimed, At, Moves
  <2>2. /\ call' \in [Call -> {Done} \union MemberCall \union SignIn]
        /\ call'[q] \in SignIn /\ call'[q].at = "looking" /\ call[q].user \in Account
        /\ \A p \in Call \ {q} : call'[p] = call[p]
    BY <2>1, SignInMoves
  <2>3. /\ member' \in [Workspace -> [Account -> Role \union {"none"}]]
        /\ \A w \in Workspace, u \in Account : member'[w][u] = member[w][u]
                                               \/ (~Belongs(w, u) /\ w \in live)
    <3>1. CASE UNCHANGED member
      BY <1>0, <3>1
    <3>2. ASSUME NEW w \in claimed, AddMember(w, call[q].user, "member"), member[w][call[q].user] = "none"
          PROVE  /\ member' \in [Workspace -> [Account -> Role \union {"none"}]]
                 /\ \A v \in Workspace, u \in Account : member'[v][u] = member[v][u]
                                                        \/ (~Belongs(v, u) /\ v \in live)
      <4>1. member' = [member EXCEPT ![w][call[q].user] = "member"] /\ w \in live /\ w \in Workspace
        BY <1>0, <3>2 DEF AddMember
      <4> QED BY <1>0, <2>2, <3>2, <4>1 DEF Belongs, Role
    <3> QED BY <1>3, <3>1, <3>2 DEF JoinsClaimed, AddMember
  <2>4. \A w \in Workspace, u \in Account : member'[w][u] # "none" => w \in live
    BY <1>0, <2>3
  <2>5. \A p \in Call : call'[p] = call[p] \/ (call'[p] \in SignIn /\ call'[p].at # "taken")
    BY <2>2
  <2>6. AccessInv'
    BY <1>0, <2>1, <2>2, <2>3, <2>4, <2>5, RowsAreAdded
  <2>7. ServedWell
    BY <2>2 DEF ServedWell
  <2> QED BY <2>6, <2>7
<1>4. CASE Looks(q)
  <2>1. /\ call[q].at \in {"looking", "again"}
        /\ UNCHANGED <<member, live, claimed, overtaken, removed>>
    BY <1>4 DEF Looks, At
  <2>2. CASE ListWorkspaces(call[q].user) # {}
    BY <1>4, <2>1, <2>2, SignInLooks DEF Looks, SignInEnds
  <2>3. CASE ListWorkspaces(call[q].user) = {} /\ policy.creationDisabled
    BY <1>4, <2>1, <2>3, SignInLooks DEF Looks, SignInEnds
  <2>4. CASE ListWorkspaces(call[q].user) = {} /\ ~policy.creationDisabled
    <3>1. CASE call[q].at = "looking"
      BY <1>4, <2>1, <2>4, <3>1, SignInLooks DEF Looks, Moves, At
    <3>2. CASE call[q].at # "looking"
      BY <1>4, <2>1, <2>4, <3>2, SignInLooks DEF Looks, Moves, At
    <3> QED BY <3>1, <3>2
  <2> QED BY <2>2, <2>3, <2>4
<1>5. CASE CreatesHome(q)
  <2> DEFINE u == call[q].user
             h == HomeOf[u]
  <2>1. call[q].at = "home" /\ UNCHANGED <<claimed, overtaken, removed>>
    BY <1>5 DEF CreatesHome, At
  <2>2. CASE h \in live
    <3>1. call' = [call EXCEPT ![q].at = "taken"] /\ UNCHANGED <<live, member>>
      BY <1>5, <2>2 DEF CreatesHome, Moves
    <3>2. /\ call' \in [Call -> {Done} \union MemberCall \union SignIn]
          /\ call'[q] \in SignIn /\ call'[q].at = "taken" /\ call'[q].user = u /\ u \in Account
          /\ \A p \in Call \ {q} : call'[p] = call[p]
      BY <2>1, <3>1, SignInMoves
    <3>3. \A p \in Call : \/ call'[p] = call[p]
                          \/ call'[p] \in SignIn /\ call'[p].user \in Account
                             /\ HomeOf[call'[p].user] \in live
      BY <2>2, <3>2
    <3>4. AccessInv'
      BY <1>0, <2>1, <3>1, <3>2, <3>3, RowsAreAdded
    <3>5. ServedWell
      BY <3>2 DEF ServedWell
    <3> QED BY <3>4, <3>5
  <2>3. CASE h \notin live
    <3>1. /\ call' = [call EXCEPT ![q].at = "served"] /\ live' = live \union {h}
          /\ AddMember(h, u, "owner")
      BY <1>5, <2>3 DEF CreatesHome, SignInEnds
    <3>2. /\ call' \in [Call -> {Done} \union MemberCall \union SignIn]
          /\ call'[q] \in SignIn /\ call'[q].at = "served" /\ u \in Account
          /\ \A p \in Call \ {q} : call'[p] = call[p]
      BY <2>1, <3>1, SignInMoves
    <3>3. h \in Workspace /\ member[h][u] = "none"
      BY <1>0, <2>3, <3>2
    <3> HIDE DEF u, h
    <3>4. member' = [member EXCEPT ![h][u] = "owner"]
      BY <3>1, <3>3 DEF AddMember
    <3>5. /\ member' \in [Workspace -> [Account -> Role \union {"none"}]] /\ member'[h][u] = "owner"
          /\ \A w \in Workspace, v \in Account : member'[w][v] = member[w][v] \/ (w = h /\ v = u)
      BY <1>0, <3>2, <3>3, <3>4 DEF Role
    <3>6. /\ \A w \in Workspace, v \in Account : member'[w][v] = member[w][v] \/ ~Belongs(w, v)
          /\ \A w \in Workspace, v \in Account : member'[w][v] # "none" => w \in live'
          /\ \A w \in live' \ live : \E v \in Account : member'[w][v] = "owner"
          /\ live \subseteq live' /\ live' \subseteq Workspace /\ claimed' \subseteq live'
      BY <1>0, <2>1, <3>1, <3>2, <3>3, <3>5 DEF Belongs
    <3>7. \A v \in Account : HomeOf[v] \in live' \ live => member'[HomeOf[v]][v] # "none"
      <4>1. \A v \in Account : HomeOf[v] \in live' \ live => v = u
        BY <3>1, <3>2, AccessAssumption DEF h
      <4> QED BY <3>5, <4>1 DEF h
    <3>8. \A p \in Call : call'[p] = call[p] \/ (call'[p] \in SignIn /\ call'[p].at # "taken")
      BY <3>2
    <3>9. AccessInv'
      BY <2>1, <3>2, <3>5, <3>6, <3>7, <3>8, RowsAreAdded
    <3>10. ServedWell
      BY <3>2 DEF ServedWell
    <3> QED BY <3>9, <3>10
  <2> QED BY <2>2, <2>3
<1>6. CASE SlugTaken(q)
  <2>1. /\ call[q].at = "taken" /\ UNCHANGED <<member, live, claimed, overtaken, removed>>
    BY <1>6 DEF SlugTaken, At
  <2>2. call[q].user \in Account
    BY <1>0, <2>1, CallsAre DEF SignIn
  <2>3. ListWorkspaces(call[q].user) # {} \/ call[q].user \in removed
    BY <2>1, <2>2, <1>0 DEF AccessInv, HomeKept, Belongs, ListWorkspaces
  <2>4. CASE ListWorkspaces(call[q].user) # {}
    BY <1>6, <2>1, <2>4, SignInLooks DEF SlugTaken, SignInEnds
  <2>5. CASE ListWorkspaces(call[q].user) = {}
    BY <1>6, <2>1, <2>3, <2>5, SignInLooks DEF SlugTaken, SignInEnds
  <2> QED BY <2>4, <2>5
<1>7. CASE Replies(q) \/ \E u \in Account : VerifyCode(q, u)
  <2>1. /\ \A p \in Call : \/ call'[p] = call[p] \/ call'[p] = Done
                           \/ call'[p] \in SignIn /\ call'[p].at = "finding"
        /\ call' \in [Call -> {Done} \union MemberCall \union SignIn]
        /\ UNCHANGED <<member, live, claimed, overtaken, removed>>
    <3>1. CASE Replies(q)
      BY <1>0, <3>1 DEF Replies, Returns
    <3>2. ASSUME NEW u \in Account, VerifyCode(q, u)
          PROVE  /\ \A p \in Call : call'[p] = call[p] \/ (call'[p] \in SignIn /\ call'[p].at = "finding")
                 /\ call' \in [Call -> {Done} \union MemberCall \union SignIn]
                 /\ UNCHANGED <<member, live, claimed, overtaken, removed>>
      <4> DEFINE s == [at |-> "finding", user |-> u]
      <4>1. s \in SignIn /\ s.at = "finding"
        BY DEF SignIn
      <4>2. call' = [call EXCEPT ![q] = s] /\ UNCHANGED <<member, live, claimed, overtaken, removed>>
        BY <3>2 DEF VerifyCode, Arrives
      <4> HIDE DEF s
      <4> QED BY <1>0, <4>1, <4>2
    <3> QED BY <1>7, <3>1, <3>2
  <2>2. \A p \in Call : \/ call'[p] = call[p] \/ call'[p] = Done
                        \/ call'[p] \in SignIn /\ call'[p].at # "taken"
    BY <2>1
  <2>3. AccessInv'
    BY <1>0, <2>1, <2>2, RowsAreAdded
  <2>4. ServedWell
    BY <2>1, CallsAre DEF ServedWell
  <2> QED BY <2>3, <2>4
<1> QED BY <1>1, <1>2, <1>3, <1>4, <1>5, <1>6, <1>7

-----------------------------------------------------------------------------
\* The requests about workspaces and memberships that only add or only judge.
LEMMA AddingSteps ==
    ASSUME AccessInv, NEW w \in Workspace, NEW by \in Account,
           \/ CreateWorkspace(w, by)
           \/ \E claims \in BOOLEAN : SetSSOConfig(w, by, claims)
           \/ \E u \in Account, role \in Role : CreateMember(w, by, u, role)
    PROVE  AccessInv' /\ ServedWell
<1>0. /\ call \in [Call -> {Done} \union MemberCall \union SignIn]
      /\ member \in [Workspace -> [Account -> Role \union {"none"}]]
      /\ live \subseteq Workspace /\ claimed \subseteq live
      /\ \A v \in Workspace, u \in Account : member[v][u] # "none" => v \in live
  BY DEF AccessInv, AccessType, Belongs
<1>1. call' = call /\ UNCHANGED <<overtaken, removed>>
  BY DEF CreateWorkspace, SetSSOConfig, CreateMember
<1>2. ServedWell
  BY <1>1 DEF ServedWell
<1>3. ASSUME CreateWorkspace(w, by) PROVE AccessInv'
  <2>1. /\ w \notin live /\ member[w][by] = "none" /\ live' = live \union {w} /\ claimed' = claimed
        /\ member' = [member EXCEPT ![w][by] = "owner"]
        /\ w \notin Homes
    BY <1>0, <1>3 DEF CreateWorkspace, AddMember
  <2>2. /\ member' \in [Workspace -> [Account -> Role \union {"none"}]] /\ member'[w][by] = "owner"
        /\ \A v \in Workspace, u \in Account : member'[v][u] = member[v][u] \/ (v = w /\ u = by)
    BY <1>0, <2>1 DEF Role
  <2>3. /\ \A v \in Workspace, u \in Account : member'[v][u] = member[v][u] \/ ~Belongs(v, u)
        /\ \A v \in Workspace, u \in Account : member'[v][u] # "none" => v \in live'
        /\ \A v \in live' \ live : \E u \in Account : member'[v][u] = "owner"
        /\ live \subseteq live' /\ live' \subseteq Workspace /\ claimed' \subseteq live'
    BY <1>0, <2>1, <2>2 DEF Belongs
  <2>4. \A u \in Account : HomeOf[u] \in live' \ live => member'[HomeOf[u]][u] # "none"
    BY <2>1 DEF Homes
  <2> QED BY <1>0, <1>1, <2>2, <2>3, <2>4, RowsAreAdded
<1>4. ASSUME NEW claims \in BOOLEAN, SetSSOConfig(w, by, claims) PROVE AccessInv'
  <2>1. UNCHANGED <<member, live>> /\ claimed' \subseteq claimed \union {w} /\ w \in live
    BY <1>0, <1>4 DEF SetSSOConfig
  <2> QED BY <1>0, <1>1, <2>1, RowsAreAdded
<1>5. ASSUME NEW u \in Account, NEW role \in Role, CreateMember(w, by, u, role) PROVE AccessInv'
  <2>1. /\ w \in live /\ UNCHANGED <<live, claimed>>
        /\ member' = IF member[w][u] = "none" THEN [member EXCEPT ![w][u] = role] ELSE member
    BY <1>0, <1>5 DEF CreateMember, AddMember
  <2>2. /\ member' \in [Workspace -> [Account -> Role \union {"none"}]]
        /\ \A v \in Workspace, x \in Account : \/ member'[v][x] = member[v][x]
                                               \/ v = w /\ member[v][x] = "none"
    BY <1>0, <2>1
  <2>3. /\ \A v \in Workspace, x \in Account : member'[v][x] = member[v][x] \/ ~Belongs(v, x)
        /\ \A v \in Workspace, x \in Account : member'[v][x] # "none" => v \in live'
    BY <1>0, <2>1, <2>2 DEF Belongs
  <2> QED BY <1>0, <1>1, <2>1, <2>2, <2>3, RowsAreAdded
<1> QED BY <1>2, <1>3, <1>4, <1>5

LEMMA JudgingSteps ==
    ASSUME AccessInv, NEW q \in Call, NEW w \in Workspace, NEW u \in Account,
           \/ LeaveWorkspace(q, w, u)
           \/ \E v \in Account, to \in Role \union {"none"} : UpdateMember(q, w, u, v, to)
    PROVE  AccessInv' /\ ServedWell
<1>0. /\ call \in [Call -> {Done} \union MemberCall \union SignIn]
      /\ member \in [Workspace -> [Account -> Role \union {"none"}]]
      /\ live \subseteq Workspace /\ claimed \subseteq live
      /\ \A v \in Workspace, x \in Account : member[v][x] # "none" => v \in live
  BY DEF AccessInv, AccessType, Belongs
<1>1. PICK v \in Account, to \in Role \union {"none"}, at \in {"counting", "writing"} :
          /\ member[w][v] # "none"
          /\ call' = [call EXCEPT ![q] = [at |-> at, ws |-> w, target |-> v, to |-> to,
                                          behind |-> FALSE, gone |-> FALSE]]
          /\ at = "writing" => member[w][v] # "owner" \/ to = "owner"
  <2>1. CASE LeaveWorkspace(q, w, u)
    <3>1. CASE member[w][u] = "owner"
      BY <2>1, <3>1 DEF LeaveWorkspace, Arrives
    <3>2. CASE member[w][u] # "owner"
      BY <2>1, <3>2 DEF LeaveWorkspace, Arrives
    <3> QED BY <3>1, <3>2
  <2>2. ASSUME NEW v \in Account, NEW to \in Role \union {"none"}, UpdateMember(q, w, u, v, to)
        PROVE  \E at \in {"counting", "writing"} :
                   /\ member[w][v] # "none"
                   /\ call' = [call EXCEPT ![q] = [at |-> at, ws |-> w, target |-> v, to |-> to,
                                                   behind |-> FALSE, gone |-> FALSE]]
                   /\ at = "writing" => member[w][v] # "owner" \/ to = "owner"
    <3>1. CASE member[w][v] = "owner" /\ to # "owner"
      BY <2>2, <3>1 DEF UpdateMember, Arrives
    <3>2. CASE ~(member[w][v] = "owner" /\ to # "owner")
      BY <2>2, <3>2 DEF UpdateMember, Arrives
    <3> QED BY <3>1, <3>2
  <2> QED BY <2>1, <2>2
<1> DEFINE r == [at |-> at, ws |-> w, target |-> v, to |-> to, behind |-> FALSE, gone |-> FALSE]
<1>2. /\ r \in MemberCall /\ r.at = at /\ r.ws = w /\ r.target = v /\ r.to = to
  BY DEF MemberCall
<1>3. call' = [call EXCEPT ![q] = r]
  BY <1>1
<1> HIDE DEF r
<1>4. UNCHANGED <<member, live, claimed, overtaken, removed>>
  BY DEF LeaveWorkspace, UpdateMember
<1>5. Judged(r)
  <2>1. w \in live /\ Belongs(w, v)
    BY <1>0, <1>1 DEF Belongs
  <2>2. ASSUME at = "writing", w \notin overtaken, to # "owner" PROVE Owners(w) \ {v} # {}
    <3>1. Owners(w) # {} /\ v \notin Owners(w)
      BY <1>1, <2>1, <2>2 DEF AccessInv, OwnerRemains, Owners
    <3> QED BY <3>1
  <2> QED BY <1>2, <2>1, <2>2 DEF Judged
<1>6. /\ call' \in [Call -> {Done} \union MemberCall \union SignIn]
      /\ \A p \in Call : call'[p] = call[p] \/ (call'[p] \in MemberCall /\ call'[p] = r)
  BY <1>0, <1>2, <1>3
<1>7. \A p \in Call : call'[p] = call[p] \/ (call'[p] \in MemberCall /\ Judged(call'[p]))
  BY <1>5, <1>6
<1>8. AccessInv'
  BY <1>0, <1>4, <1>6, <1>7, RowsAreAdded
<1>9. ServedWell
  BY <1>6, CallsAre DEF ServedWell
<1> QED BY <1>8, <1>9

LEMMA CountingStep ==
    ASSUME AccessInv, NEW q \in Call, CountsOwners(q)
    PROVE  AccessInv' /\ ServedWell
<1>0. /\ call \in [Call -> {Done} \union MemberCall \union SignIn]
      /\ member \in [Workspace -> [Account -> Role \union {"none"}]]
      /\ live \subseteq Workspace /\ claimed \subseteq live
      /\ \A v \in Workspace, x \in Account : member[v][x] # "none" => v \in live
      /\ call[q].at = "counting" /\ UNCHANGED <<member, live, claimed, overtaken, removed>>
  BY DEF AccessInv, AccessType, Belongs, CountsOwners
<1>1. call[q] \in MemberCall
  BY <1>0, CallsAre
<1> DEFINE r == [call[q] EXCEPT !.at = "writing"]
<1>2. /\ r \in MemberCall /\ r.at = "writing" /\ r.ws = call[q].ws /\ r.target = call[q].target
      /\ r.gone = call[q].gone
  BY <1>1 DEF MemberCall
<1> HIDE DEF r
<1>3. CASE Cardinality(Owners(call[q].ws)) <= 1
  <2>1. call' \in [Call -> {Done} \union MemberCall \union SignIn]
        /\ \A p \in Call : call'[p] = call[p] \/ call'[p] = Done
    BY <1>0, <1>3 DEF CountsOwners, Returns
  <2> QED BY <1>0, <2>1, CallsAre, RowsAreAdded DEF ServedWell
<1>4. CASE ~(Cardinality(Owners(call[q].ws)) <= 1)
  <2>1. call' = [call EXCEPT ![q] = r]
    BY <1>0, <1>4 DEF CountsOwners, Moves, r
  <2>2. Judged(r)
    BY <1>0, <1>2, <1>4, AnotherOne DEF AccessInv, Judged
  <2>3. /\ call' \in [Call -> {Done} \union MemberCall \union SignIn]
        /\ \A p \in Call : call'[p] = call[p] \/ (call'[p] \in MemberCall /\ call'[p] = r)
    BY <1>0, <1>2, <2>1
  <2>4. \A p \in Call : call'[p] = call[p] \/ (call'[p] \in MemberCall /\ Judged(call'[p]))
    BY <2>2, <2>3
  <2>5. AccessInv'
    BY <1>0, <2>3, <2>4, RowsAreAdded
  <2> QED BY <1>2, <2>3, <2>5 DEF ServedWell
<1> QED BY <1>3, <1>4

-----------------------------------------------------------------------------
\* A membership is written: the requests about the same row or workspace find it changed.
LEMMA WritingStep ==
    ASSUME AccessInv, NEW q \in Call, WritesMember(q)
    PROVE  AccessInv' /\ ServedWell
<1>0. /\ call \in [Call -> {Done} \union MemberCall \union SignIn]
      /\ member \in [Workspace -> [Account -> Role \union {"none"}]]
      /\ live \subseteq Workspace /\ claimed \subseteq live /\ removed \subseteq Account
      /\ call[q].at = "writing" /\ UNCHANGED <<live, claimed>>
      /\ HomeOf \in [Account -> Workspace]
  BY AccessAssumption DEF AccessInv, AccessType, WritesMember
<1>1. PICK r \in MemberCall : r = call[q]
  BY <1>0, CallsAre
<1>2. /\ r.at = "writing" /\ Judged(r) /\ r.ws \in Workspace /\ r.target \in Account
      /\ r.to \in Role \union {"none"}
  BY <1>0, <1>1 DEF AccessInv, MemberCall
<1>3. CASE r.gone
  <2>1. /\ call' \in [Call -> {Done} \union MemberCall \union SignIn]
        /\ \A p \in Call : call'[p] = call[p] \/ call'[p] = Done
        /\ UNCHANGED <<member, overtaken, removed>>
    BY <1>0, <1>1, <1>3 DEF WritesMember, Returns
  <2>2. \A v \in Workspace, x \in Account : member[v][x] # "none" => v \in live
    BY DEF AccessInv, Belongs
  <2> QED BY <1>0, <2>1, <2>2, CallsAre, RowsAreAdded DEF ServedWell
<1>4. CASE ~r.gone
  <2> DEFINE w == r.ws
             t == r.target
  <2>1. /\ member' = [member EXCEPT ![w][t] = r.to]
        /\ call' = [p \in Call |-> IF p = q THEN Done ELSE Seen(call[p], w, t, r.to)]
        /\ overtaken' = IF r.behind THEN overtaken \union {w} ELSE overtaken
        /\ removed' = IF r.to = "none" THEN removed \union {t} ELSE removed
    BY <1>1, <1>4 DEF WritesMember
  <2>2. /\ w \in live /\ Belongs(w, t)
        /\ ~r.behind => w \in overtaken \/ r.to = "owner" \/ Owners(w) \ {t} # {}
    BY <1>2, <1>4 DEF Judged
  <2>3. w \in Workspace /\ t \in Account
    BY <1>2
  <2> HIDE DEF w, t
  <2>4. /\ member' \in [Workspace -> [Account -> Role \union {"none"}]] /\ member'[w][t] = r.to
        /\ \A v \in Workspace, x \in Account : member'[v][x] = member[v][x] \/ (v = w /\ x = t)
        /\ removed' \subseteq Account /\ removed \subseteq removed'
        /\ r.to = "none" => t \in removed'
    BY <1>0, <1>2, <2>1, <2>3
  <2>5. OwnerRemains'
    <3> SUFFICES ASSUME NEW v \in live' \ overtaken' PROVE Owners(v)' # {}
      BY DEF OwnerRemains
    <3>1. CASE v # w
      <4>1. Owners(v) # {}
        BY <1>0, <2>1, <3>1 DEF AccessInv, OwnerRemains
      <4>2. Owners(v) \subseteq Owners(v)'
        BY <1>0, <2>4, <3>1 DEF Owners
      <4> QED BY <4>1, <4>2
    <3>2. CASE v = w
      <4>1. ~r.behind /\ w \notin overtaken
        BY <2>1, <3>2
      <4>2. CASE r.to = "owner"
        BY <2>3, <2>4, <3>2, <4>2 DEF Owners
      <4>3. CASE Owners(w) \ {t} # {}
        <5>1. Owners(w) \ {t} \subseteq Owners(w)'
          BY <2>3, <2>4 DEF Owners
        <5> QED BY <3>2, <4>3, <5>1
      <4> QED BY <2>2, <4>1, <4>2, <4>3
    <3> QED BY <3>1, <3>2
  <2>6. \A v \in Workspace \ live' : \A x \in Account : ~(Belongs(v, x)')
    <3> SUFFICES ASSUME NEW v \in Workspace \ live', NEW x \in Account PROVE ~(Belongs(v, x)')
      OBVIOUS
    <3>1. v \in Workspace \ live
      BY <1>0
    <3>2. member[v][x] = "none" /\ v # w
      BY <2>2, <3>1 DEF AccessInv, Belongs
    <3>3. member'[v][x] = "none"
      BY <2>4, <3>1, <3>2
    <3> QED BY <3>3 DEF Belongs
  <2>7. \A x \in Account : HomeKept(x) => HomeKept(x)'
    <3> SUFFICES ASSUME NEW x \in Account, HomeKept(x) PROVE HomeKept(x)'
      OBVIOUS
    <3>1. HomeOf[x] \in Workspace
      BY <1>0
    <3>2. member'[HomeOf[x]][x] = member[HomeOf[x]][x] \/ (HomeOf[x] = w /\ x = t)
      BY <2>4, <3>1
    <3>3. member'[HomeOf[x]][x] # "none" \/ x \in removed' \/ member'[HomeOf[x]][x] = member[HomeOf[x]][x]
      BY <2>4, <3>2
    <3> QED BY <2>4, <3>3 DEF HomeKept, Belongs
  \* A request that has judged sees the change.
  <2>8. ASSUME NEW p \in Call
        PROVE  \E s \in {Done} \union MemberCall \union SignIn :
                   /\ call'[p] = s /\ Judged(s)' /\ (s.at = "taken" => HomeKept(s.user)')
                   /\ s.at = "failed" => call[p].at = "failed"
    <3>1. PICK c \in {Done} \union MemberCall \union SignIn : c = call[p]
      BY <1>0
    <3>2. Judged(c) /\ (c.at = "taken" => HomeKept(c.user))
      BY <3>1 DEF AccessInv
    <3>3. CASE p = q
      <4>1. call'[p] = Done
        BY <2>1, <3>3
      <4> QED BY <4>1, CallsAre DEF Judged
    <3>4. CASE p # q /\ ~Open(c, w)
      <4>1. call'[p] = c
        BY <2>1, <3>1, <3>4 DEF Seen
      <4>2. c \in SignIn => c.user \in Account
        BY DEF SignIn
      <4>3. c.at = "taken" => HomeKept(c.user)'
        BY <2>7, <3>2, <4>2, CallsAre
      <4>4. Judged(c)'
        <5>1. CASE c \notin MemberCall
          BY <5>1, CallsAre DEF Judged
        <5>2. CASE c \in MemberCall
          <6>1. c.ws # w /\ c.ws \in Workspace /\ c.target \in Account
            BY <3>4, <5>2, CallsAre DEF Open, MemberCall
          <6>2. /\ Belongs(c.ws, c.target) => Belongs(c.ws, c.target)'
                /\ Owners(c.ws) \subseteq Owners(c.ws)'
                /\ c.ws \in overtaken => c.ws \in overtaken'
            BY <2>1, <2>4, <6>1 DEF Belongs, Owners
          <6> QED BY <1>0, <3>2, <6>2 DEF Judged
        <5> QED BY <5>1, <5>2
      <4> QED BY <3>1, <4>1, <4>3, <4>4
    <3>5. CASE p # q /\ Open(c, w)
      <4>1. c \in MemberCall
        BY <3>5, CallsAre DEF Open
      <4> DEFINE behind == c.behind \/ c.at = "writing"
                 gone == c.gone \/ (r.to = "none" /\ c.target = t)
                 s == [c EXCEPT !.behind = behind, !.gone = gone]
      <4>2. call'[p] = s
        BY <2>1, <3>1, <3>5 DEF Seen
      <4>3. /\ s \in MemberCall /\ s.at = c.at /\ s.ws = c.ws /\ s.target = c.target
            /\ s.gone = gone /\ s.behind = behind /\ c.ws = w /\ c.target \in Account
            /\ c.at \in {"counting", "writing"}
        <5>1. behind \in BOOLEAN /\ gone \in BOOLEAN
          BY <4>1 DEF MemberCall
        <5> HIDE DEF behind, gone
        <5> QED BY <3>5, <4>1, <5>1 DEF MemberCall, Open
      <4>4. PICK n \in MemberCall : n = s
        BY <4>3
      <4> HIDE DEF s
      <4>5. ASSUME ~n.gone PROVE n.ws \in live /\ member'[n.ws][n.target] # "none"
        <5>1. ~c.gone /\ ~(r.to = "none" /\ c.target = t)
          BY <4>3, <4>4, <4>5
        <5>2. member[w][c.target] # "none"
          BY <3>2, <4>3, <5>1 DEF Judged, Belongs
        <5> QED BY <2>2, <2>3, <2>4, <4>3, <4>4, <5>1, <5>2
      <4>6. n.at = "writing" => n.behind
        BY <4>3, <4>4
      <4>7. Judged(n)'
        BY <1>0, <4>5, <4>6 DEF Judged, Belongs
      <4> QED BY <4>2, <4>3, <4>4, <4>7
    <3> QED BY <3>3, <3>4, <3>5
  <2>9. call' \in [Call -> {Done} \union MemberCall \union SignIn]
    BY <2>1, <2>8
  <2>10. AccessType'
    BY <1>0, <2>4, <2>9 DEF AccessType
  <2>11. \A p \in Call : Judged(call[p])' /\ (call'[p].at = "taken" => HomeKept(call[p].user)')
    <3> SUFFICES ASSUME NEW p \in Call
                 PROVE  Judged(call[p])' /\ (call'[p].at = "taken" => HomeKept(call[p].user)')
      OBVIOUS
    <3>1. PICK s \in {Done} \union MemberCall \union SignIn :
              call'[p] = s /\ Judged(s)' /\ (s.at = "taken" => HomeKept(s.user)')
      BY <2>8
    <3>2. Judged(call[p])'
      BY <3>1 DEF Judged, Owners, Belongs
    <3>3. call'[p].at = "taken" => HomeKept(call[p].user)'
      BY <3>1 DEF HomeKept, Belongs
    <3> QED BY <3>2, <3>3
  <2>12. \A x \in Account : HomeOf[x] \in live' => HomeKept(x)'
    BY <1>0, <2>7 DEF AccessInv
  <2>13. AccessInv'
    BY <2>5, <2>6, <2>10, <2>11, <2>12 DEF AccessInv
  <2>14. ServedWell
    BY <2>8 DEF ServedWell
  <2> QED BY <2>13, <2>14
<1> QED BY <1>3, <1>4

LEMMA DeletingStep ==
    ASSUME AccessInv, NEW w \in Workspace, NEW by \in Account, DeleteWorkspace(w, by)
    PROVE  AccessInv' /\ ServedWell
<1>0. /\ call \in [Call -> {Done} \union MemberCall \union SignIn]
      /\ member \in [Workspace -> [Account -> Role \union {"none"}]]
      /\ live \subseteq Workspace /\ claimed \subseteq live /\ removed \subseteq Account
      /\ HomeOf \in [Account -> Workspace]
  BY AccessAssumption DEF AccessInv, AccessType
<1>1. /\ live' = live \ {w} /\ claimed' = claimed \ {w} /\ overtaken' = overtaken \ {w}
      /\ removed' = removed \union {u \in Account : member[w][u] # "none"}
      /\ member' = [member EXCEPT ![w] = [u \in Account |-> "none"]]
      /\ call' = [q \in Call |->
            IF Open(call[q], w) THEN [call[q] EXCEPT !.gone = TRUE] ELSE call[q]]
  BY DEF DeleteWorkspace
<1>2. /\ member' \in [Workspace -> [Account -> Role \union {"none"}]]
      /\ \A v \in Workspace, x \in Account : v # w => member'[v][x] = member[v][x]
      /\ \A x \in Account : member'[w][x] = "none"
  BY <1>0, <1>1
<1>3. OwnerRemains'
  <2> SUFFICES ASSUME NEW v \in live' \ overtaken' PROVE Owners(v)' # {}
    BY DEF OwnerRemains
  <2>1. v \in live \ overtaken /\ v # w
    BY <1>1
  <2>2. Owners(v) \subseteq Owners(v)'
    BY <1>0, <1>2, <2>1 DEF Owners
  <2> QED BY <2>1, <2>2 DEF AccessInv, OwnerRemains
<1>4. \A v \in Workspace \ live' : \A x \in Account : ~(Belongs(v, x)')
  BY <1>1, <1>2 DEF AccessInv, Belongs
<1>5. \A x \in Account : HomeKept(x) => HomeKept(x)'
  BY <1>0, <1>1, <1>2 DEF HomeKept, Belongs
<1>6. \A x \in Account : HomeOf[x] \in live' => HomeKept(x)'
  BY <1>1, <1>5 DEF AccessInv
<1>7. ASSUME NEW p \in Call
      PROVE  \E s \in {Done} \union MemberCall \union SignIn :
                 /\ call'[p] = s /\ Judged(s)' /\ (s.at = "taken" => HomeKept(s.user)')
                 /\ s.at = "failed" => call[p].at = "failed"
  <2>1. PICK c \in {Done} \union MemberCall \union SignIn : c = call[p]
    BY <1>0
  <2>2. Judged(c) /\ (c.at = "taken" => HomeKept(c.user))
    BY <2>1 DEF AccessInv
  <2>3. CASE Open(c, w)
    <3>1. c \in MemberCall
      BY <2>3, CallsAre DEF Open
    <3> DEFINE s == [c EXCEPT !.gone = TRUE]
    <3>2. s \in MemberCall /\ s.gone /\ s.at = c.at
      BY <3>1 DEF MemberCall
    <3>3. s = [c EXCEPT !.gone = TRUE]
      OBVIOUS
    <3> HIDE DEF s
    <3>4. PICK n \in MemberCall : n = [c EXCEPT !.gone = TRUE] /\ n.gone /\ n.at = c.at
      BY <3>2, <3>3
    <3>5. call'[p] = n
      BY <1>1, <2>1, <2>3, <3>4
    <3> QED BY <2>3, <3>4, <3>5 DEF Judged, Open
  <2>4. CASE ~Open(c, w)
    <3>1. call'[p] = c
      BY <1>1, <2>1, <2>4
    <3>2. c \in SignIn => c.user \in Account
      BY DEF SignIn
    <3>3. c.at = "taken" => HomeKept(c.user)'
      BY <1>5, <2>2, <3>2, CallsAre
    <3>4. Judged(c)'
      <4>1. CASE c \notin MemberCall
        BY <4>1, CallsAre DEF Judged
      <4>2. CASE c \in MemberCall
        <5>1. c.ws # w /\ c.ws \in Workspace /\ c.target \in Account
          BY <2>4, <4>2, CallsAre DEF Open, MemberCall
        <5>2. /\ Belongs(c.ws, c.target) => Belongs(c.ws, c.target)'
              /\ Owners(c.ws) \subseteq Owners(c.ws)'
              /\ c.ws \in overtaken => c.ws \in overtaken'
              /\ c.ws \in live => c.ws \in live'
          BY <1>1, <1>2, <5>1 DEF Belongs, Owners
        <5> QED BY <2>2, <5>2 DEF Judged
      <4> QED BY <4>1, <4>2
    <3> QED BY <2>1, <3>1, <3>3, <3>4
  <2> QED BY <2>3, <2>4
<1>8. call' \in [Call -> {Done} \union MemberCall \union SignIn]
  BY <1>1, <1>7
<1>9. AccessType'
  BY <1>0, <1>1, <1>2, <1>8 DEF AccessType
<1>10. \A p \in Call : Judged(call[p])' /\ (call'[p].at = "taken" => HomeKept(call[p].user)')
  <2> SUFFICES ASSUME NEW p \in Call
               PROVE  Judged(call[p])' /\ (call'[p].at = "taken" => HomeKept(call[p].user)')
    OBVIOUS
  <2>1. PICK s \in {Done} \union MemberCall \union SignIn :
            call'[p] = s /\ Judged(s)' /\ (s.at = "taken" => HomeKept(s.user)')
    BY <1>7
  <2>2. Judged(call[p])'
    BY <2>1 DEF Judged, Owners, Belongs
  <2>3. call'[p].at = "taken" => HomeKept(call[p].user)'
    BY <2>1 DEF HomeKept, Belongs
  <2> QED BY <2>2, <2>3
<1>11. AccessInv'
  BY <1>3, <1>4, <1>6, <1>9, <1>10 DEF AccessInv
<1>12. ServedWell
  BY <1>7 DEF ServedWell
<1> QED BY <1>11, <1>12

LEMMA AccessIsKept ==
    ASSUME AccessInv, [AccessNext]_accessVars
    PROVE  AccessInv' /\ ServedWell
<1>1. CASE UNCHANGED accessVars
  <2>1. AccessInv'
    BY <1>1 DEF accessVars, AccessInv, AccessType, OwnerRemains, Owners, HomeKept, Belongs, Judged
  <2>2. ServedWell
    BY <1>1 DEF accessVars, ServedWell
  <2> QED BY <2>1, <2>2
<1>2. ASSUME NEW w \in Workspace, NEW u \in Account,
             \/ CreateWorkspace(w, u) \/ DeleteWorkspace(w, u)
             \/ \E claims \in BOOLEAN : SetSSOConfig(w, u, claims)
             \/ \E q \in Call : LeaveWorkspace(q, w, u)
             \/ \E v \in Account, role \in Role : CreateMember(w, u, v, role)
             \/ \E q \in Call, v \in Account, to \in Role \union {"none"} :
                   UpdateMember(q, w, u, v, to)
      PROVE  AccessInv' /\ ServedWell
  BY <1>2, AddingSteps, JudgingSteps, DeletingStep
<1> QED BY <1>1, <1>2, SignInSteps, CountingStep, WritingStep DEF AccessNext

-----------------------------------------------------------------------------
(* The skills.                                                             *)

Author == Edit \union {"none", "earlier", "alone"}
FileRow == [skill : Skill, path : SkillPath, by : Author]
EditRow ==
    [at : {"new", "ended"}] \union
    [at : {"fetching"}, skill : Skill, left : SUBSET SkillPath, got : SUBSET SkillPath] \union
    [at : {"clearing", "filling", "committing"}, skill : Skill, paths : SUBSET SkillPath,
     gone : SUBSET FileRow]
AssignRow ==
    [at : {"new", "failed", "over"}] \union
    [at : {"adding"}, asked : SUBSET Skill, removed : SUBSET Skill, added : SUBSET Skill] \union
    [at : {"done"}, asked : SUBSET Skill]

Replacing == {"clearing", "filling", "committing"}

LibraryType ==
    /\ skill \in [Skill -> Edit \union {"none", "earlier"}]
    /\ skillFile \subseteq FileRow
    /\ agentSkill \subseteq Skill
    /\ edit \in [Edit -> EditRow]
    /\ assign \in [Assign -> AssignRow]

\* A skill that is not there has no files.  The transaction that replaces one holds it
\* alone, and clears every file but those written singly since.
ReplacesAll ==
    /\ \A f \in skillFile : skill[f.skill] # "none"
    /\ \A e \in Edit : edit[e].at \in Replacing =>
           /\ skill[edit[e].skill] # "none"
           /\ \A d \in Edit \ {e} : edit[d].at \in Replacing => edit[d].skill # edit[e].skill
           /\ edit[e].at # "clearing" =>
                 \A f \in skillFile : f.skill = edit[e].skill => (f \in edit[e].gone \/ f.by = "alone")

\* A request for the agent that none overlapped removes all the agent has.
AssignsAll ==
    \A a \in Assign : assign[a].at = "adding" /\ a \notin crossed =>
        /\ \A b \in Assign \ {a} : assign[b].at # "adding"
        /\ agentSkill \subseteq assign[a].removed

LibraryInv == LibraryType /\ LibraryIsWhole /\ ReplacesAll /\ AssignsAll

LEMMA LibraryStarts ==
    ASSUME LibraryInit
    PROVE  LibraryInv
<1>1. LibraryType
  BY DEF LibraryInit, LibraryType, EditRow, AssignRow
<1>2. \A e \in Edit : edit[e].at = "new"
  BY DEF LibraryInit
<1>3. \A a \in Assign : assign[a].at = "new"
  BY DEF LibraryInit
<1>4. skillFile = {}
  BY DEF LibraryInit
<1> QED BY <1>1, <1>2, <1>3, <1>4
        DEF LibraryInv, LibraryIsWhole, SkillIsWhole, AgentHasWhatWasAsked, ReplacesAll, AssignsAll,
            Replacing

\* The skills change, or the agents' do.
LEMMA SkillsMove ==
    ASSUME LibraryInv, skill' \in [Skill -> Edit \union {"none", "earlier"}],
           skillFile' \subseteq FileRow, edit' \in [Edit -> EditRow],
           SkillIsWhole', ReplacesAll', UNCHANGED <<agentSkill, assign, crossed>>
    PROVE  LibraryInv'
  BY DEF LibraryInv, LibraryType, LibraryIsWhole, AgentHasWhatWasAsked, AssignsAll

LEMMA AgentsMove ==
    ASSUME LibraryInv, agentSkill' \subseteq Skill, assign' \in [Assign -> AssignRow],
           AgentHasWhatWasAsked', AssignsAll', UNCHANGED <<skill, skillFile, edit>>
    PROVE  LibraryInv'
  BY DEF LibraryInv, LibraryType, LibraryIsWhole, SkillIsWhole, ReplacesAll

\* A request that holds no skill goes on, and holds none.
LEMMA HoldsStill ==
    ASSUME LibraryInv, NEW e \in Edit, NEW line \in EditRow, edit' = [edit EXCEPT ![e] = line],
           line.at \notin Replacing, UNCHANGED <<skill, skillFile, agentSkill, assign, crossed>>
    PROVE  LibraryInv'
<1>1. edit \in [Edit -> EditRow]
  BY DEF LibraryInv, LibraryType
<1>2. /\ edit' \in [Edit -> EditRow] /\ edit'[e] = line
      /\ \A d \in Edit \ {e} : edit'[d] = edit[d]
  BY <1>1
<1>3. ReplacesAll'
  BY <1>2 DEF LibraryInv, ReplacesAll
<1>4. SkillIsWhole'
  BY DEF LibraryInv, LibraryIsWhole, SkillIsWhole
<1> QED BY <1>2, <1>3, <1>4, SkillsMove DEF LibraryInv, LibraryType

\* A skill that is not there is created, with its files, or one that is is not.
LEMMA CreatingKeeps ==
    ASSUME LibraryInv, NEW e \in Edit, NEW s \in Skill, NEW paths \in SUBSET SkillPath,
           edit[e].at \notin Replacing, Creates(e, s, paths),
           edit' = [edit EXCEPT ![e] = [at |-> "ended"]],
           UNCHANGED <<agentSkill, assign, crossed>>
    PROVE  LibraryInv'
<1> DEFINE line == [at |-> "ended"]
<1>1. line \in EditRow /\ line.at \notin Replacing
  BY DEF EditRow, Replacing
<1>2. edit' = [edit EXCEPT ![e] = line]
  OBVIOUS
<1> HIDE DEF line
<1>3. CASE skill[s] # "none"
  BY <1>1, <1>2, <1>3, HoldsStill DEF Creates
<1>4. CASE skill[s] = "none"
  <2>0. /\ edit \in [Edit -> EditRow] /\ skill \in [Skill -> Edit \union {"none", "earlier"}]
        /\ skillFile \subseteq FileRow /\ e \notin {"none", "earlier", "alone"}
    BY LibraryAssumption DEF LibraryInv, LibraryType
  <2>1. /\ skill' = [skill EXCEPT ![s] = e] /\ skillFile' = skillFile \union Written(s, paths, e)
    BY <1>4 DEF Creates
  <2>2. \A f \in Written(s, paths, e) : f \in FileRow /\ f.skill = s /\ f.by = e
    BY DEF Written, FileRow, Author
  <2>3. \A f \in skillFile : f.skill # s /\ f.skill \in Skill
    BY <1>4, <2>0 DEF LibraryInv, ReplacesAll, FileRow
  <2>4. /\ edit' \in [Edit -> EditRow] /\ edit'[e].at \notin Replacing
        /\ \A d \in Edit \ {e} : edit'[d] = edit[d]
    BY <1>1, <1>2, <2>0
  <2>5. /\ skill' \in [Skill -> Edit \union {"none", "earlier"}] /\ skill'[s] = e
        /\ \A t \in Skill \ {s} : skill'[t] = skill[t]
    BY <2>0, <2>1
  <2>6. SkillIsWhole'
    <3> SUFFICES ASSUME NEW f \in skillFile' PROVE f.by \in {skill'[f.skill], "alone"}
      BY DEF SkillIsWhole
    <3> QED BY <2>1, <2>2, <2>3, <2>5 DEF LibraryInv, LibraryIsWhole, SkillIsWhole
  <2>7. ReplacesAll'
    <3>1. \A f \in skillFile' : skill'[f.skill] # "none"
      BY <2>0, <2>1, <2>2, <2>3, <2>5 DEF LibraryInv, ReplacesAll
    <3>2. ASSUME NEW d \in Edit, edit'[d].at \in Replacing
          PROVE  /\ d # e /\ edit'[d] = edit[d] /\ edit[d].skill \in Skill \ {s}
                 /\ skill[edit[d].skill] # "none"
      <4>1. d # e /\ edit'[d] = edit[d]
        BY <2>4, <3>2
      <4>2. skill[edit[d].skill] # "none"
        BY <3>2, <4>1 DEF LibraryInv, ReplacesAll
      <4>3. edit[d].skill \in Skill
        BY <2>0, <3>2, <4>1 DEF EditRow, Replacing
      <4> QED BY <1>4, <4>1, <4>2, <4>3
    <3>3. ASSUME NEW d \in Edit, edit'[d].at \in Replacing
          PROVE  /\ skill'[edit'[d].skill] # "none"
                 /\ \A c \in Edit \ {d} : edit'[c].at \in Replacing => edit'[c].skill # edit'[d].skill
                 /\ edit'[d].at # "clearing" =>
                       \A f \in skillFile' : f.skill = edit'[d].skill => (f \in edit'[d].gone \/ f.by = "alone")
      <4>1. skill'[edit[d].skill] # "none"
        BY <2>5, <3>2, <3>3
      <4>2. \A c \in Edit \ {d} : edit'[c].at \in Replacing => edit'[c].skill # edit'[d].skill
        BY <3>2, <3>3 DEF LibraryInv, ReplacesAll
      <4>3. edit[d].at # "clearing" =>
              \A f \in skillFile : f.skill = edit[d].skill => (f \in edit[d].gone \/ f.by = "alone")
        BY <3>2, <3>3 DEF LibraryInv, ReplacesAll
      <4>4. \A f \in skillFile' : f.skill = edit[d].skill => f \in skillFile
        BY <2>1, <2>2, <3>2, <3>3
      <4> QED BY <3>2, <3>3, <4>1, <4>2, <4>3, <4>4
    <3> QED BY <3>1, <3>3 DEF ReplacesAll
  <2>8. skillFile' \subseteq FileRow
    BY <2>0, <2>1, <2>2
  <2> QED BY <2>4, <2>5, <2>6, <2>7, <2>8, SkillsMove
<1> QED BY <1>3, <1>4

\* A transaction that replaces a skill takes its line, or goes on with it.
LEMMA ReplacingGoesOn ==
    ASSUME LibraryInv, NEW e \in Edit, NEW line \in EditRow, edit' = [edit EXCEPT ![e] = line],
           line.at \in Replacing, skill[line.skill] # "none",
           \A d \in Edit \ {e} : edit[d].at \in Replacing => edit[d].skill # line.skill,
           line.at # "clearing" =>
               \A f \in skillFile : f.skill = line.skill => (f \in line.gone \/ f.by = "alone"),
           UNCHANGED <<skill, skillFile, agentSkill, assign, crossed>>
    PROVE  LibraryInv'
<1>1. edit \in [Edit -> EditRow]
  BY DEF LibraryInv, LibraryType
<1>2. /\ edit' \in [Edit -> EditRow] /\ edit'[e] = line
      /\ \A d \in Edit \ {e} : edit'[d] = edit[d]
  BY <1>1
<1>3. ReplacesAll'
  <2>1. \A f \in skillFile' : skill'[f.skill] # "none"
    BY DEF LibraryInv, ReplacesAll
  <2>2. ASSUME NEW d \in Edit, edit'[d].at \in Replacing
        PROVE  /\ skill'[edit'[d].skill] # "none"
               /\ \A c \in Edit \ {d} : edit'[c].at \in Replacing => edit'[c].skill # edit'[d].skill
               /\ edit'[d].at # "clearing" =>
                     \A f \in skillFile' : f.skill = edit'[d].skill => (f \in edit'[d].gone \/ f.by = "alone")
    <3>1. CASE d = e
      BY <1>2, <2>2, <3>1
    <3>2. CASE d # e
      BY <1>2, <2>2, <3>2 DEF LibraryInv, ReplacesAll
    <3> QED BY <3>1, <3>2
  <2> QED BY <2>1, <2>2 DEF ReplacesAll
<1>4. SkillIsWhole'
  BY DEF LibraryInv, LibraryIsWhole, SkillIsWhole
<1> QED BY <1>2, <1>3, <1>4, SkillsMove DEF LibraryInv, LibraryType

LEMMA UpdatingKeeps ==
    ASSUME LibraryInv, NEW e \in Edit, NEW s \in Skill, NEW paths \in SUBSET SkillPath,
           UpdateSkill(e, s, paths)
    PROVE  LibraryInv'
<1> DEFINE line == IF skill[s] = "none" THEN [at |-> "ended"]
                  ELSE [at |-> "clearing", skill |-> s, paths |-> paths, gone |-> {}]
<1>1. edit' = [edit EXCEPT ![e] = line] /\ UNCHANGED <<skill, skillFile, agentSkill, assign, crossed>>
  BY DEF UpdateSkill
<1>2. CASE skill[s] = "none"
  <2>1. line \in EditRow /\ line.at \notin Replacing
    BY <1>2 DEF EditRow, Replacing
  <2> HIDE DEF line
  <2> QED BY <1>1, <2>1, HoldsStill
<1>3. CASE skill[s] # "none"
  <2>1. line \in EditRow /\ line.at = "clearing" /\ line.skill = s
    BY <1>3 DEF EditRow
  <2> HIDE DEF line
  <2>2. \A d \in Edit \ {e} : edit[d].at \in Replacing => edit[d].skill # line.skill
    BY <2>1 DEF UpdateSkill, Held, Holds, Replacing
  <2>3. line.at \in Replacing
    BY <2>1 DEF Replacing
  <2>4. skill[line.skill] # "none"
    BY <1>3, <2>1
  <2> QED BY <1>1, <2>1, <2>2, <2>3, <2>4, ReplacingGoesOn
<1> QED BY <1>2, <1>3

\* What is known of a request by where it is.
LEMMA RowOfARequest ==
    ASSUME LibraryInv, NEW e \in Edit
    PROVE  /\ edit[e].at = "fetching" =>
                  edit[e] \in [at : {"fetching"}, skill : Skill, left : SUBSET SkillPath,
                               got : SUBSET SkillPath]
           /\ edit[e].at \in Replacing =>
                  edit[e] \in [at : Replacing, skill : Skill, paths : SUBSET SkillPath,
                               gone : SUBSET FileRow]
  BY DEF LibraryInv, LibraryType, EditRow, Replacing

LEMMA FetchingKeeps ==
    ASSUME LibraryInv, NEW e \in Edit, NEW p \in SkillPath, NEW ok \in BOOLEAN, FetchFile(e, p, ok)
    PROVE  LibraryInv'
<1>1. PICK old \in [at : {"fetching"}, skill : Skill, left : SUBSET SkillPath, got : SUBSET SkillPath] :
        old = edit[e]
  BY RowOfARequest DEF FetchFile
<1> DEFINE line == [old EXCEPT !.left = old.left \ {p}, !.got = IF ok THEN old.got \union {p} ELSE old.got]
<1>2. line \in EditRow /\ line.at \notin Replacing
  BY DEF EditRow, Replacing
<1>3. edit' = [edit EXCEPT ![e] = line]
  BY <1>1 DEF FetchFile
<1> HIDE DEF line
<1> QED BY <1>2, <1>3, HoldsStill DEF FetchFile

LEMMA ClearingKeeps ==
    ASSUME LibraryInv, NEW e \in Edit, DeleteSkillFilesBySkill(e) \/ UpsertSkillFiles(e)
    PROVE  LibraryInv'
<1>1. edit[e].at \in {"clearing", "filling"} /\ edit[e].at \in Replacing
  BY DEF DeleteSkillFilesBySkill, UpsertSkillFiles, Replacing
<1>2. PICK old \in [at : Replacing, skill : Skill, paths : SUBSET SkillPath, gone : SUBSET FileRow] :
        old = edit[e]
  BY <1>1, RowOfARequest
<1>3. /\ skill[old.skill] # "none"
      /\ \A d \in Edit \ {e} : edit[d].at \in Replacing => edit[d].skill # old.skill
      /\ old.at # "clearing" =>
            \A f \in skillFile : f.skill = old.skill => (f \in old.gone \/ f.by = "alone")
  BY <1>1, <1>2 DEF LibraryInv, ReplacesAll
<1>4. skillFile \subseteq FileRow /\ UNCHANGED <<skill, skillFile, agentSkill, assign, crossed>>
  BY DEF LibraryInv, LibraryType, DeleteSkillFilesBySkill, UpsertSkillFiles
<1>5. CASE DeleteSkillFilesBySkill(e)
  <2> DEFINE line == [old EXCEPT !.at = "filling", !.gone = FilesOf(old.skill)]
  <2>1. /\ line \in EditRow /\ line.at = "filling" /\ line.at \in Replacing
        /\ line.skill = old.skill /\ line.gone = FilesOf(old.skill)
    BY <1>4 DEF EditRow, Replacing, FilesOf
  <2>2. edit' = [edit EXCEPT ![e] = line]
    BY <1>2, <1>5 DEF DeleteSkillFilesBySkill
  <2>3. \A f \in skillFile : f.skill = line.skill => f \in line.gone
    BY <2>1 DEF FilesOf
  <2> HIDE DEF line
  <2>4. skill[line.skill] # "none"
    BY <1>3, <2>1
  <2>5. \A d \in Edit \ {e} : edit[d].at \in Replacing => edit[d].skill # line.skill
    BY <1>3, <2>1
  <2>6. line \in EditRow /\ line.at \in Replacing
    BY <2>1
  <2> QED BY ONLY LibraryInv, e \in Edit, <1>4, <2>2, <2>3, <2>4, <2>5, <2>6, ReplacingGoesOn
<1>6. CASE UpsertSkillFiles(e)
  <2> DEFINE line == [old EXCEPT !.at = "committing"]
  <2>1. /\ line \in EditRow /\ line.at = "committing" /\ line.at \in Replacing
        /\ line.skill = old.skill /\ line.gone = old.gone
    BY DEF EditRow, Replacing
  <2>2. edit' = [edit EXCEPT ![e] = line] /\ old.at # "clearing"
    BY <1>2, <1>6 DEF UpsertSkillFiles
  <2> HIDE DEF line
  <2>3. \A f \in skillFile : f.skill = line.skill => (f \in line.gone \/ f.by = "alone")
    BY <1>3, <2>1, <2>2
  <2>4. skill[line.skill] # "none"
    BY <1>3, <2>1
  <2>5. \A d \in Edit \ {e} : edit[d].at \in Replacing => edit[d].skill # line.skill
    BY <1>3, <2>1
  <2>6. line \in EditRow /\ line.at \in Replacing
    BY <2>1
  <2> QED BY ONLY LibraryInv, e \in Edit, <1>4, <2>2, <2>3, <2>4, <2>5, <2>6, ReplacingGoesOn
<1> QED BY <1>5, <1>6

\* What stays of the files of a skill after the commit was written singly.
LEMMA CommittingKeeps ==
    ASSUME LibraryInv, NEW e \in Edit, CommitSkill(e)
    PROVE  LibraryInv'
<1>0. edit[e].at = "committing" /\ edit[e].at \in Replacing
  BY DEF CommitSkill, Replacing
<1>1. PICK old \in [at : Replacing, skill : Skill, paths : SUBSET SkillPath, gone : SUBSET FileRow] :
        old = edit[e]
  BY <1>0, RowOfARequest
<1>2. PICK s \in Skill : s = old.skill
  OBVIOUS
<1> DEFINE line == [at |-> "ended"]
<1>3. /\ edit \in [Edit -> EditRow] /\ skill \in [Skill -> Edit \union {"none", "earlier"}]
      /\ skillFile \subseteq FileRow /\ e \notin {"none", "earlier", "alone"}
  BY LibraryAssumption DEF LibraryInv, LibraryType
<1>4. /\ skill' = [skill EXCEPT ![s] = e] /\ edit' = [edit EXCEPT ![e] = line]
      /\ UNCHANGED <<agentSkill, assign, crossed>>
  BY <1>1, <1>2 DEF CommitSkill
<1>5. \A f \in skillFile' : (f \in skillFile /\ f \notin old.gone) \/ f \in Written(s, old.paths, e)
  BY <1>1, <1>2 DEF CommitSkill
<1>6. \A f \in Written(s, old.paths, e) : f \in FileRow /\ f.skill = s /\ f.by = e
  BY DEF Written, FileRow, Author
<1>7. /\ \A d \in Edit \ {e} : edit[d].at \in Replacing => edit[d].skill # s
      /\ \A f \in skillFile : f.skill = s => (f \in old.gone \/ f.by = "alone")
  BY <1>0, <1>1, <1>2 DEF LibraryInv, ReplacesAll
<1>8. line \in EditRow /\ line.at \notin Replacing
  BY DEF EditRow, Replacing
<1> HIDE DEF line
<1>9. /\ edit' \in [Edit -> EditRow] /\ edit'[e].at \notin Replacing
      /\ \A d \in Edit \ {e} : edit'[d] = edit[d]
  BY <1>3, <1>4, <1>8
<1>10. /\ skill' \in [Skill -> Edit \union {"none", "earlier"}] /\ skill'[s] = e
       /\ \A t \in Skill \ {s} : skill'[t] = skill[t]
  BY <1>3, <1>4
<1>11. SkillIsWhole'
  <2> SUFFICES ASSUME NEW f \in skillFile' PROVE f.by \in {skill'[f.skill], "alone"}
    BY DEF SkillIsWhole
  <2>1. CASE f \in Written(s, old.paths, e)
    BY <1>6, <1>10, <2>1
  <2>2. CASE f \in skillFile /\ f \notin old.gone
    <3>1. f.skill \in Skill /\ f.by \in {skill[f.skill], "alone"}
      BY <1>3, <2>2 DEF FileRow, LibraryInv, LibraryIsWhole, SkillIsWhole
    <3> QED BY <1>7, <1>10, <2>2, <3>1
  <2> QED BY <1>5, <2>1, <2>2
<1>12. ReplacesAll'
  <2>1. \A f \in skillFile' : skill'[f.skill] # "none"
    <3> SUFFICES ASSUME NEW f \in skillFile' PROVE skill'[f.skill] # "none"
      OBVIOUS
    <3>1. CASE f \in Written(s, old.paths, e)
      BY <1>3, <1>6, <1>10, <3>1
    <3>2. CASE f \in skillFile
      <4>1. f.skill \in Skill /\ skill[f.skill] # "none"
        BY <1>3, <3>2 DEF FileRow, LibraryInv, ReplacesAll
      <4> QED BY <1>3, <1>10, <4>1
    <3> QED BY <1>5, <3>1, <3>2
  <2>2. ASSUME NEW d \in Edit, edit'[d].at \in Replacing
        PROVE  /\ skill'[edit'[d].skill] # "none"
               /\ \A c \in Edit \ {d} : edit'[c].at \in Replacing => edit'[c].skill # edit'[d].skill
               /\ edit'[d].at # "clearing" =>
                     \A f \in skillFile' : f.skill = edit'[d].skill => (f \in edit'[d].gone \/ f.by = "alone")
    <3>1. d # e /\ edit'[d] = edit[d] /\ edit[d].skill # s
      BY <1>7, <1>9, <2>2
    <3>2. edit[d].skill \in Skill
      BY <2>2, <3>1, RowOfARequest
    <3>3. /\ skill[edit[d].skill] # "none"
          /\ \A c \in Edit \ {d} : edit[c].at \in Replacing => edit[c].skill # edit[d].skill
          /\ edit[d].at # "clearing" =>
                \A f \in skillFile : f.skill = edit[d].skill => (f \in edit[d].gone \/ f.by = "alone")
      BY <2>2, <3>1 DEF LibraryInv, ReplacesAll
    <3>4. skill'[edit[d].skill] # "none"
      BY <1>10, <3>1, <3>2, <3>3
    <3>5. \A c \in Edit \ {d} : edit'[c].at \in Replacing => edit'[c].skill # edit[d].skill
      BY <1>9, <3>3
    <3>6. \A f \in skillFile' : f.skill = edit[d].skill => f \in skillFile
      BY <1>5, <1>6, <3>1
    <3> QED BY <3>1, <3>3, <3>4, <3>5, <3>6
  <2> QED BY <2>1, <2>2 DEF ReplacesAll
<1>13. skillFile' \subseteq FileRow
  BY <1>3, <1>5, <1>6
<1> QED BY <1>4, <1>9, <1>10, <1>11, <1>12, <1>13, SkillsMove

\* Single files.
LEMMA TouchingKeeps ==
    ASSUME LibraryInv, UNCHANGED <<skill, agentSkill, edit, assign, crossed>>,
           skillFile' \subseteq FileRow,
           \A f \in skillFile' : f \in skillFile \/ (f.by = "alone" /\ skill[f.skill] # "none")
    PROVE  LibraryInv'
<1>1. SkillIsWhole'
  BY DEF LibraryInv, LibraryIsWhole, SkillIsWhole
<1>2. ReplacesAll'
  BY DEF LibraryInv, ReplacesAll
<1> QED BY <1>1, <1>2, SkillsMove DEF LibraryInv, LibraryType

LEMMA SingleFilesKeep ==
    ASSUME LibraryInv,
           \/ \E s \in Skill, p \in SkillPath : UpsertSkillFile(s, p)
           \/ \E f \in skillFile : DeleteSkillFile(f)
    PROVE  LibraryInv'
<1>0. skillFile \subseteq FileRow
  BY DEF LibraryInv, LibraryType
<1>1. ASSUME NEW s \in Skill, NEW p \in SkillPath, UpsertSkillFile(s, p) PROVE LibraryInv'
  <2>1. \A f \in Written(s, {p}, "alone") : f \in FileRow /\ f.skill = s /\ f.by = "alone"
    BY DEF Written, FileRow, Author
  <2>2. /\ skill[s] # "none" /\ UNCHANGED <<skill, agentSkill, edit, assign, crossed>>
        /\ \A f \in skillFile' : f \in skillFile \/ f \in Written(s, {p}, "alone")
    BY <1>1 DEF UpsertSkillFile
  <2> QED BY <1>0, <2>1, <2>2, TouchingKeeps
<1>2. ASSUME NEW f \in skillFile, DeleteSkillFile(f) PROVE LibraryInv'
  BY <1>0, <1>2, TouchingKeeps DEF DeleteSkillFile
<1> QED BY <1>1, <1>2

\* What is deleted with a skill.
LEMMA DeletingKeeps ==
    ASSUME LibraryInv, NEW s \in Skill, DeleteSkill(s)
    PROVE  LibraryInv'
<1>0. /\ skill \in [Skill -> Edit \union {"none", "earlier"}] /\ skillFile \subseteq FileRow
      /\ agentSkill \subseteq Skill /\ assign \in [Assign -> AssignRow] /\ edit \in [Edit -> EditRow]
  BY DEF LibraryInv, LibraryType
<1>1. /\ skill' = [skill EXCEPT ![s] = "none"] /\ skillFile' = skillFile \ FilesOf(s)
      /\ agentSkill' = agentSkill \ {s} /\ UNCHANGED <<edit, crossed>>
      /\ \A e \in Edit : edit[e].at \in Replacing => edit[e].skill # s
  BY DEF DeleteSkill, Held, Holds, Replacing
<1>2. /\ skill' \in [Skill -> Edit \union {"none", "earlier"}]
      /\ \A t \in Skill \ {s} : skill'[t] = skill[t]
  BY <1>0, <1>1
<1>3. \A f \in skillFile' : f \in skillFile /\ f.skill \in Skill \ {s}
  BY <1>0, <1>1 DEF FilesOf, FileRow
<1>4. ASSUME NEW a \in Assign
      PROVE  /\ assign'[a] \in AssignRow
             /\ assign'[a].at = assign[a].at
             /\ assign[a].at = "done" => assign'[a].asked = assign[a].asked \ {s}
             /\ assign[a].at # "done" => assign'[a] = assign[a]
  <2>1. assign'[a] = IF assign[a].at = "done" THEN [assign[a] EXCEPT !.asked = @ \ {s}] ELSE assign[a]
    BY DEF DeleteSkill
  <2>2. CASE assign[a].at = "done"
    <3>1. PICK old \in [at : {"done"}, asked : SUBSET Skill] : old = assign[a]
      BY <1>0, <2>2 DEF AssignRow
    <3>2. assign'[a] = [at |-> "done", asked |-> old.asked \ {s}]
      BY <2>1, <2>2, <3>1
    <3> QED BY <2>2, <3>1, <3>2 DEF AssignRow
  <2>3. CASE assign[a].at # "done"
    BY <1>0, <2>1, <2>3
  <2> QED BY <2>2, <2>3
<1>5. assign' \in [Assign -> AssignRow]
  <2>1. assign' = [a \in Assign |-> assign'[a]]
    BY DEF DeleteSkill
  <2> QED BY <1>4, <2>1
<1>6. LibraryType'
  BY <1>0, <1>1, <1>2, <1>5 DEF LibraryType
<1>7. SkillIsWhole'
  BY <1>2, <1>3 DEF LibraryInv, LibraryIsWhole, SkillIsWhole
<1>8. ReplacesAll'
  <2>1. \A f \in skillFile' : skill'[f.skill] # "none"
    BY <1>2, <1>3 DEF LibraryInv, ReplacesAll
  <2>2. \A e \in Edit : edit[e].at \in Replacing =>
            edit[e].skill \in Skill \ {s} /\ skill'[edit[e].skill] # "none"
    BY <1>1, <1>2, RowOfARequest DEF LibraryInv, ReplacesAll
  <2> QED BY <1>1, <1>3, <2>1, <2>2 DEF LibraryInv, ReplacesAll
<1>9. AgentHasWhatWasAsked'
  BY <1>1, <1>4 DEF LibraryInv, LibraryIsWhole, AgentHasWhatWasAsked
<1>10. AssignsAll'
  BY <1>1, <1>4 DEF LibraryInv, AssignsAll
<1> QED BY <1>6, <1>7, <1>8, <1>9, <1>10 DEF LibraryInv, LibraryIsWhole

-----------------------------------------------------------------------------
(* The skills of the agent.                                                *)

\* A request that none overlapped begins alone.
LEMMA AskingKeeps ==
    ASSUME LibraryInv, NEW a \in Assign, NEW asked \in SUBSET Skill, SetAgentSkills(a, asked)
    PROVE  LibraryInv'
<1> DEFINE line == [at |-> "adding", asked |-> asked, removed |-> agentSkill, added |-> {}]
<1>0. assign \in [Assign -> AssignRow] /\ agentSkill \subseteq Skill
  BY DEF LibraryInv, LibraryType
<1>1. line \in AssignRow /\ line.at = "adding" /\ line.removed = agentSkill
  BY <1>0 DEF AssignRow
<1>2. /\ assign[a].at = "new" /\ assign' = [assign EXCEPT ![a] = line]
      /\ UNCHANGED <<skill, skillFile, agentSkill, edit>>
      /\ AtWork # {} => crossed' = crossed \union AtWork \union {a}
      /\ AtWork = {} => crossed' = crossed
  BY DEF SetAgentSkills, RemoveAllAgentSkills
<1> HIDE DEF line
<1>3. /\ assign' \in [Assign -> AssignRow] /\ assign'[a] = line
      /\ \A b \in Assign \ {a} : assign'[b] = assign[b]
  BY <1>0, <1>1, <1>2
<1>4. AgentHasWhatWasAsked'
  BY <1>1, <1>2, <1>3 DEF LibraryInv, LibraryIsWhole, AgentHasWhatWasAsked
<1>5. AssignsAll'
  <2> SUFFICES ASSUME NEW b \in Assign, assign'[b].at = "adding", b \notin crossed'
               PROVE  /\ \A c \in Assign \ {b} : assign'[c].at # "adding"
                      /\ agentSkill' \subseteq assign'[b].removed
    BY DEF AssignsAll
  <2>1. AtWork = {}
    BY <1>2, <1>3 DEF AtWork
  <2>2. b = a
    BY <1>3, <2>1 DEF AtWork
  <2> QED BY <1>1, <1>2, <1>3, <2>1, <2>2 DEF AtWork
<1> QED BY <1>0, <1>2, <1>3, <1>4, <1>5, AgentsMove

\* A request that is at work goes on with the rows it removed, or fails.
LEMMA AddingKeeps ==
    ASSUME LibraryInv, NEW a \in Assign, assign[a].at = "adding", NEW line \in AssignRow,
           line.at = "failed" \/ (line.at = "adding" /\ line.removed = assign[a].removed),
           assign' = [assign EXCEPT ![a] = line],
           UNCHANGED <<skill, skillFile, agentSkill, edit, crossed>>
    PROVE  LibraryInv'
<1>0. assign \in [Assign -> AssignRow] /\ agentSkill \subseteq Skill
  BY DEF LibraryInv, LibraryType
<1>1. /\ assign' \in [Assign -> AssignRow] /\ assign'[a] = line
      /\ \A b \in Assign \ {a} : assign'[b] = assign[b]
  BY <1>0
<1>2. AgentHasWhatWasAsked'
  BY <1>1 DEF LibraryInv, LibraryIsWhole, AgentHasWhatWasAsked
<1>3. AssignsAll'
  <2> SUFFICES ASSUME NEW b \in Assign, assign'[b].at = "adding", b \notin crossed
               PROVE  /\ \A c \in Assign \ {b} : assign'[c].at # "adding"
                      /\ agentSkill \subseteq assign'[b].removed
    BY DEF AssignsAll
  <2>1. \A c \in Assign : assign'[c].at = "adding" => assign[c].at = "adding"
    BY <1>1
  <2>2. assign'[b].removed = assign[b].removed
    BY <1>1
  <2> QED BY <2>1, <2>2 DEF LibraryInv, AssignsAll
<1> QED BY <1>0, <1>1, <1>2, <1>3, AgentsMove

\* What a request asked for is there at its commit, and nothing else.
LEMMA CommittingKeepsAgents ==
    ASSUME LibraryInv, NEW a \in Assign, CommitAgentSkills(a)
    PROVE  LibraryInv'
<1>0. assign \in [Assign -> AssignRow] /\ agentSkill \subseteq Skill
  BY DEF LibraryInv, LibraryType
<1>1. PICK old \in [at : {"adding"}, asked : SUBSET Skill, removed : SUBSET Skill, added : SUBSET Skill] :
        old = assign[a]
  BY <1>0 DEF CommitAgentSkills, AssignRow
<1>2. /\ agentSkill' = (agentSkill \ old.removed) \union old.asked
      /\ UNCHANGED <<skill, skillFile, edit, crossed>> /\ assign[a].at = "adding"
  BY <1>1 DEF CommitAgentSkills
<1>3. /\ assign' = [b \in Assign |-> assign'[b]]
      /\ assign'[a] = [at |-> "done", asked |-> old.asked]
      /\ \A b \in Assign \ {a} : IF assign[b].at = "done" THEN assign'[b] = [at |-> "over"]
                                    ELSE assign'[b] = assign[b]
  BY <1>1 DEF CommitAgentSkills
<1>4. \A b \in Assign : assign'[b] \in AssignRow
  BY <1>0, <1>3 DEF AssignRow
<1>5. assign' \in [Assign -> AssignRow] /\ agentSkill' \subseteq Skill
  BY <1>0, <1>2, <1>3, <1>4
<1>6. AgentHasWhatWasAsked'
  <2> SUFFICES ASSUME NEW b \in Assign, assign'[b].at = "done", b \notin crossed
               PROVE  agentSkill' = assign'[b].asked
    BY <1>2 DEF AgentHasWhatWasAsked
  <2>1. b = a
    BY <1>3
  <2>2. agentSkill \subseteq old.removed
    BY <1>1, <1>2, <2>1 DEF LibraryInv, AssignsAll
  <2> QED BY <1>2, <1>3, <2>1, <2>2
<1>7. AssignsAll'
  <2> SUFFICES ASSUME NEW b \in Assign, assign'[b].at = "adding", b \notin crossed PROVE FALSE
    BY <1>2 DEF AssignsAll
  <2>1. b # a /\ assign[b].at = "adding"
    BY <1>3
  <2> QED BY <1>2, <2>1 DEF LibraryInv, AssignsAll
<1> QED BY <1>2, <1>5, <1>6, <1>7, AgentsMove

LEMMA AgentsKeep ==
    ASSUME LibraryInv, NEW a \in Assign,
           \/ \E asked \in SUBSET Skill : SetAgentSkills(a, asked)
           \/ \E s \in Skill : AddAgentSkill(a, s)
           \/ CommitAgentSkills(a) \/ AssignFails(a)
    PROVE  LibraryInv'
<1> DEFINE failed == [at |-> "failed"]
<1>0. failed \in AssignRow /\ failed.at = "failed"
  BY DEF AssignRow
<1>1. ASSUME NEW asked \in SUBSET Skill, SetAgentSkills(a, asked) PROVE LibraryInv'
  BY <1>1, AskingKeeps
<1>2. ASSUME NEW s \in Skill, AddAgentSkill(a, s) PROVE LibraryInv'
  <2>1. PICK old \in [at : {"adding"}, asked : SUBSET Skill, removed : SUBSET Skill, added : SUBSET Skill] :
          old = assign[a]
    BY <1>2 DEF AddAgentSkill, AssignRow, LibraryInv, LibraryType
  <2> DEFINE line == [old EXCEPT !.added = old.added \union {s}]
  <2>2. line \in AssignRow /\ line.at = "adding" /\ line.removed = assign[a].removed
    BY <2>1 DEF AssignRow
  <2>3. /\ assign[a].at = "adding" /\ UNCHANGED <<skill, skillFile, agentSkill, edit, crossed>>
        /\ \/ assign' = [assign EXCEPT ![a] = failed]
           \/ assign' = [assign EXCEPT ![a] = line]
    BY <1>2, <2>1 DEF AddAgentSkill
  <2> HIDE DEF line, failed
  <2> QED BY <1>0, <2>2, <2>3, AddingKeeps
<1>3. CASE CommitAgentSkills(a)
  BY <1>3, CommittingKeepsAgents
<1>4. CASE AssignFails(a)
  <2>1. /\ assign[a].at = "adding" /\ UNCHANGED <<skill, skillFile, agentSkill, edit, crossed>>
        /\ assign' = [assign EXCEPT ![a] = failed]
    BY <1>4 DEF AssignFails
  <2> HIDE DEF failed
  <2> QED BY <1>0, <2>1, AddingKeeps
<1> QED BY <1>1, <1>2, <1>3, <1>4

LEMMA EditsKeep ==
    ASSUME LibraryInv, NEW e \in Edit,
           \/ \E s \in Skill, paths \in SUBSET SkillPath :
                 CreateSkill(e, s, paths) \/ ImportSkill(e, s, paths) \/ UpdateSkill(e, s, paths)
           \/ \E p \in SkillPath, ok \in BOOLEAN : FetchFile(e, p, ok)
           \/ ImportEnds(e) \/ DeleteSkillFilesBySkill(e) \/ UpsertSkillFiles(e)
           \/ CommitSkill(e) \/ EditFails(e)
    PROVE  LibraryInv'
<1> USE DEF Replacing
<1>1. ASSUME NEW s \in Skill, NEW paths \in SUBSET SkillPath, CreateSkill(e, s, paths) PROVE LibraryInv'
  BY <1>1, CreatingKeeps DEF CreateSkill
<1>2. ASSUME NEW s \in Skill, NEW paths \in SUBSET SkillPath, ImportSkill(e, s, paths) PROVE LibraryInv'
  <2> DEFINE line == [at |-> "fetching", skill |-> s, left |-> paths, got |-> {}]
  <2>1. line \in EditRow /\ line.at \notin Replacing
    BY DEF EditRow
  <2>2. edit' = [edit EXCEPT ![e] = line] /\ UNCHANGED <<skill, skillFile, agentSkill, assign, crossed>>
    BY <1>2 DEF ImportSkill
  <2> HIDE DEF line
  <2> QED BY <2>1, <2>2, HoldsStill
<1>3. ASSUME NEW s \in Skill, NEW paths \in SUBSET SkillPath, UpdateSkill(e, s, paths) PROVE LibraryInv'
  BY <1>3, UpdatingKeeps
<1>4. ASSUME NEW p \in SkillPath, NEW ok \in BOOLEAN, FetchFile(e, p, ok) PROVE LibraryInv'
  BY <1>4, FetchingKeeps
<1>5. CASE ImportEnds(e)
  <2>1. PICK old \in [at : {"fetching"}, skill : Skill, left : SUBSET SkillPath, got : SUBSET SkillPath] :
          old = edit[e]
    BY <1>5, RowOfARequest DEF ImportEnds
  <2>2. /\ edit[e].at \notin Replacing /\ Creates(e, old.skill, old.got)
        /\ edit' = [edit EXCEPT ![e] = [at |-> "ended"]]
        /\ UNCHANGED <<agentSkill, assign, crossed>>
    BY <1>5, <2>1 DEF ImportEnds
  <2>3. old.skill \in Skill /\ old.got \in SUBSET SkillPath
    OBVIOUS
  <2> QED BY ONLY LibraryInv, e \in Edit, <2>2, <2>3, CreatingKeeps
<1>6. CASE DeleteSkillFilesBySkill(e) \/ UpsertSkillFiles(e)
  BY <1>6, ClearingKeeps
<1>7. CASE CommitSkill(e)
  BY <1>7, CommittingKeeps
<1>8. CASE EditFails(e)
  <2> DEFINE line == [at |-> "ended"]
  <2>1. line \in EditRow /\ line.at \notin Replacing
    BY DEF EditRow
  <2>2. edit' = [edit EXCEPT ![e] = line] /\ UNCHANGED <<skill, skillFile, agentSkill, assign, crossed>>
    BY <1>8 DEF EditFails
  <2> HIDE DEF line
  <2> QED BY <2>1, <2>2, HoldsStill
<1> QED BY <1>1, <1>2, <1>3, <1>4, <1>5, <1>6, <1>7, <1>8

LEMMA LibraryIsKept ==
    ASSUME LibraryInv, [LibraryNext]_libraryVars
    PROVE  LibraryInv'
<1>1. CASE UNCHANGED libraryVars
  <2>1. /\ UNCHANGED <<skill, skillFile, agentSkill, edit, assign, crossed>>
    BY <1>1 DEF libraryVars
  <2>2. skillFile' \subseteq FileRow
    BY <2>1 DEF LibraryInv, LibraryType
  <2> QED BY <2>1, <2>2, TouchingKeeps
<1>2. CASE LibraryNext
  BY <1>2, EditsKeep, AgentsKeep, DeletingKeeps, SingleFilesKeep DEF LibraryNext
<1> QED BY <1>1, <1>2

-----------------------------------------------------------------------------
(* The projects.                                                           *)

BoardRequest ==
    [at : {"new", "ended"}] \union
    [at : {"checked"}, path : Path, of : Project,
     op : {"update", "delete", "assign", "remove", "plan", "mark"}] \union
    [at : {"found"}, of : Project, issue : BoardIssue]

BoardType ==
    /\ DOMAIN project = Project
    /\ issueProject \in [BoardIssue -> Project \union {NoRow}]
    /\ boardCall \in [BoardCall -> BoardRequest]

\* A request writes to a project of its path; one that is about to remove an issue finds
\* it where it saw it, or nowhere, unless the history tells of a move.
BoardInv ==
    /\ BoardType
    /\ \A c \in BoardCall : boardCall[c].at = "checked" => PathOf[boardCall[c].of] = boardCall[c].path
    /\ \A c \in BoardCall, i \in BoardIssue :
           Found(c, i) => issueProject[i] \in {boardCall[c].of, NoRow} \/ c \in moved

\* What a step does to where the issues are.
StaysWell ==
    \A i \in BoardIssue : issueProject'[i] # issueProject[i] =>
        LET from == issueProject[i]
            to == issueProject'[i]
        IN  IF to # NoRow THEN project'[to] # NoProject /\ PathOf[to] = PathOf[i]
            ELSE \/ project'[from] = NoProject
                 \/ \E c \in BoardCall : /\ Found(c, i) /\ boardCall'[c].at = "ended"
                                         /\ boardCall[c].of = from \/ c \in moved

LEMMA BoardStarts ==
    ASSUME BoardInit
    PROVE  BoardInv
  BY DEF BoardInit, BoardInv, BoardType, BoardRequest, Found

\* A request ends and no issue moves.
LEMMA BoardEnds ==
    ASSUME BoardInv, NEW c \in BoardCall, Ended(c), DOMAIN project' = Project,
           UNCHANGED <<issueProject, moved>>
    PROVE  BoardInv' /\ StaysWell
  BY DEF Ended, BoardInv, BoardType, BoardRequest, Found, StaysWell

LEMMA BoardStep ==
    ASSUME BoardInv, NEW c \in BoardCall,
           \/ \E p \in Project :
                 \/ \E s \in Slug : CreateProject(c, p, s)
                 \/ \E w \in Path, op \in {"update", "delete", "assign", "remove", "plan", "mark"} :
                       RequireProject(c, w, p, op)
           \/ \E s \in Slug, dated \in BOOLEAN : UpdateProject(c, s, dated)
           \/ DeleteProject(c) \/ CreateMilestone(c)
           \/ \E i \in BoardIssue :
                 AssignIssueToProject(c, i) \/ LooksForIssue(c, i) \/ RemoveIssueFromProject(c, i)
           \/ \E m \in milestone, status \in {"completed", "archived"} : UpdateMilestone(c, m, status)
    PROVE  BoardInv' /\ StaysWell
<1>0. /\ DOMAIN project = Project /\ boardCall \in [BoardCall -> BoardRequest]
      /\ issueProject \in [BoardIssue -> Project \union {NoRow}]
  BY DEF BoardInv, BoardType
<1>1. ASSUME NEW p \in Project, NEW s \in Slug, CreateProject(c, p, s)
      PROVE  BoardInv' /\ StaysWell
  BY <1>0, <1>1, BoardEnds DEF CreateProject
<1>2. ASSUME NEW p \in Project, NEW w \in Path,
             NEW op \in {"update", "delete", "assign", "remove", "plan", "mark"},
             RequireProject(c, w, p, op)
      PROVE  BoardInv' /\ StaysWell
  <2>1. CASE ~(Live(p) /\ PathOf[p] = w)
    BY <1>0, <1>2, <2>1, BoardEnds DEF RequireProject
  <2>2. CASE Live(p) /\ PathOf[p] = w
    <3> DEFINE r == [at |-> "checked", path |-> w, of |-> p, op |-> op]
    <3>1. r \in BoardRequest /\ r.at = "checked" /\ r.of = p /\ r.path = w
      BY DEF BoardRequest
    <3>2. /\ boardCall' = [boardCall EXCEPT ![c] = r]
          /\ UNCHANGED <<project, milestone, issueProject, moved>>
      BY <1>2, <2>2 DEF RequireProject
    <3> HIDE DEF r
    <3> QED BY <1>0, <2>2, <3>1, <3>2 DEF BoardInv, BoardType, Found, StaysWell
  <2> QED BY <2>1, <2>2
<1>3. ASSUME NEW s \in Slug, NEW dated \in BOOLEAN, UpdateProject(c, s, dated)
      PROVE  BoardInv' /\ StaysWell
  BY <1>0, <1>3, BoardEnds DEF UpdateProject
<1>4. CASE DeleteProject(c)
  <2> DEFINE p == boardCall[c].of
  <2>1. p \in Project /\ boardCall[c].at = "checked"
    BY <1>0, <1>4 DEF DeleteProject, AskedFor, BoardRequest
  <2>2. /\ project' = [project EXCEPT ![p] = NoProject] /\ moved' = moved
        /\ issueProject' = [i \in BoardIssue |-> IF issueProject[i] = p THEN NoRow ELSE issueProject[i]]
        /\ boardCall' = [boardCall EXCEPT ![c] = [at |-> "ended"]]
    BY <1>4 DEF DeleteProject, Ended
  <2> HIDE DEF p
  <2>3. /\ DOMAIN project' = Project /\ issueProject' \in [BoardIssue -> Project \union {NoRow}]
        /\ boardCall' \in [BoardCall -> BoardRequest] /\ project'[p] = NoProject
    BY <1>0, <2>1, <2>2 DEF BoardRequest
  <2>4. \A d \in BoardCall : boardCall'[d] = boardCall[d] \/ boardCall'[d].at = "ended"
    BY <1>0, <2>2
  <2>5. \A i \in BoardIssue : \/ issueProject'[i] = issueProject[i]
                              \/ issueProject[i] = p /\ issueProject'[i] = NoRow
    BY <2>2
  <2> QED BY <2>2, <2>3, <2>4, <2>5 DEF BoardInv, BoardType, Found, StaysWell
<1>5. CASE CreateMilestone(c)
  BY <1>0, <1>5, BoardEnds DEF CreateMilestone
<1>6. ASSUME NEW m \in milestone, NEW status \in {"completed", "archived"},
             UpdateMilestone(c, m, status)
      PROVE  BoardInv' /\ StaysWell
  BY <1>0, <1>6, BoardEnds DEF UpdateMilestone
<1>7. ASSUME NEW i \in BoardIssue, AssignIssueToProject(c, i)
      PROVE  BoardInv' /\ StaysWell
  <2> DEFINE p == boardCall[c].of
  <2>1. p \in Project /\ PathOf[p] = boardCall[c].path /\ boardCall[c].at = "checked"
    BY <1>0, <1>7 DEF AssignIssueToProject, AskedFor, BoardRequest, BoardInv
  <2>2. CASE ~(PathOf[i] = boardCall[c].path /\ Live(p))
    BY <1>0, <1>7, <2>2, BoardEnds DEF AssignIssueToProject
  <2>3. CASE PathOf[i] = boardCall[c].path /\ Live(p)
    <3>1. /\ issueProject' = [issueProject EXCEPT ![i] = p] /\ project' = project
          /\ moved' = moved \union {d \in BoardCall : Found(d, i)}
          /\ boardCall' = [boardCall EXCEPT ![c] = [at |-> "ended"]]
      BY <1>7, <2>3 DEF AssignIssueToProject, Ended
    <3> HIDE DEF p
    <3>2. /\ issueProject' \in [BoardIssue -> Project \union {NoRow}]
          /\ boardCall' \in [BoardCall -> BoardRequest]
      BY <1>0, <2>1, <3>1 DEF BoardRequest
    <3>3. \A d \in BoardCall : boardCall'[d] = boardCall[d] \/ boardCall'[d].at = "ended"
      BY <1>0, <3>1
    <3>4. \A j \in BoardIssue : \/ issueProject'[j] = issueProject[j]
                                \/ j = i /\ issueProject'[j] = p
      BY <1>0, <3>1
    <3>5. p # NoRow /\ project'[p] # NoProject /\ PathOf[p] = PathOf[i]
      BY <2>1, <2>3, <3>1, BoardAssumption DEF Live
    <3> QED BY <1>0, <3>1, <3>2, <3>3, <3>4, <3>5 DEF BoardInv, BoardType, Found, StaysWell
  <2> QED BY <2>2, <2>3
<1>8. ASSUME NEW i \in BoardIssue, LooksForIssue(c, i)
      PROVE  BoardInv' /\ StaysWell
  <2>1. CASE ~InProject(c, i)
    BY <1>0, <1>8, <2>1, BoardEnds DEF LooksForIssue
  <2>2. CASE InProject(c, i)
    <3> DEFINE p == boardCall[c].of
               r == [at |-> "found", of |-> p, issue |-> i]
    <3>1. p \in Project
      BY <1>0, <1>8 DEF LooksForIssue, AskedFor, BoardRequest
    <3>2. boardCall' = [boardCall EXCEPT ![c] = r] /\ UNCHANGED <<project, issueProject, moved>>
          /\ issueProject[i] = p
      BY <1>8, <2>2 DEF LooksForIssue, InProject
    <3>3. r \in BoardRequest /\ r.at = "found" /\ r.of = p /\ r.issue = i
      BY <3>1 DEF BoardRequest
    <3> HIDE DEF r, p
    <3> QED BY <1>0, <3>2, <3>3 DEF BoardInv, BoardType, Found, StaysWell
  <2> QED BY <2>1, <2>2
<1>9. ASSUME NEW i \in BoardIssue, RemoveIssueFromProject(c, i)
      PROVE  BoardInv' /\ StaysWell
  <2>1. /\ Found(c, i) /\ issueProject' = [issueProject EXCEPT ![i] = NoRow]
        /\ boardCall' = [boardCall EXCEPT ![c] = [at |-> "ended"]]
        /\ UNCHANGED <<project, moved>>
    BY <1>9 DEF RemoveIssueFromProject, Ended
  <2>2. /\ issueProject' \in [BoardIssue -> Project \union {NoRow}]
        /\ boardCall' \in [BoardCall -> BoardRequest] /\ boardCall'[c].at = "ended"
        /\ \A d \in BoardCall : boardCall'[d] = boardCall[d] \/ boardCall'[d].at = "ended"
        /\ \A j \in BoardIssue : issueProject'[j] = issueProject[j] \/ (j = i /\ issueProject'[j] = NoRow)
    BY <1>0, <2>1 DEF BoardRequest
  <2> QED BY <1>0, <2>1, <2>2 DEF BoardInv, BoardType, Found, StaysWell
<1> QED BY <1>1, <1>2, <1>3, <1>4, <1>5, <1>6, <1>7, <1>8, <1>9

LEMMA BoardIsKept ==
    ASSUME BoardInv, [BoardNext]_boardVars
    PROVE  BoardInv' /\ StaysWell
<1>1. CASE UNCHANGED boardVars
  BY <1>1 DEF boardVars, BoardInv, BoardType, Found, StaysWell
<1> QED BY <1>1, BoardStep DEF BoardNext

-----------------------------------------------------------------------------
(* The tabs.                                                               *)

Shown == {"none", "unread", "read", "archived"}
Answer == [Notice -> {"none", "unread", "read"}]
Operation == {"markRead", "archive", "markAllRead", "archiveAll", "archiveAllRead"}

\* The number of a request names it and says nothing.
UseRow(u) ==
    /\ u = [tab |-> u.tab, n |-> u.n, op |-> u.op, of |-> u.of, at |-> u.at]
    /\ u.tab \in Tab /\ u.op \in Operation /\ u.at \in {"sent", "performed"}
    /\ u.op \in {"markRead", "archive"} => u.of \in Notice
FetchRow(f) ==
    /\ f = [n |-> f.n, rows |-> f.rows]
    /\ f.rows = Sent \/ f.rows \in Answer

TabsType ==
    /\ row \in [Notice -> Shown]
    /\ store \in [Tab -> [Notice -> Shown]]
    /\ link \in [Tab -> {"none", "accepted", "registered", "broken"}]
    /\ DOMAIN fetches = Tab /\ \A t \in Tab : \A f \in fetches[t] : FetchRow(f)
    /\ DOMAIN inFlight = Tab /\ DOMAIN excused = Tab
    /\ \A u \in uses : UseRow(u)
    /\ \A t \in open : t \in before
    /\ \A t \in Tab : link[t] = "none" => t \notin open

\* A row is never taken back: what a tab shows or is told of was there, and what it was told
\* is read is not unread.
RowsGoOn ==
    /\ \A t \in Tab, i \in Notice :
           i \in unpublished \/ i \in inFlight[t] \/ store[t][i] # "none" => row[i] # "none"
    /\ \A t \in Tab : \A f \in fetches[t] : f.rows # Sent =>
           \A i \in Notice : /\ f.rows[i] # "none" => row[i] # "none"
                             /\ f.rows[i] = "read" => row[i] # "unread"
    /\ \A u \in uses : u.op = "archive" =>
           /\ row[u.of] # "none"
           /\ u.at = "performed" => row[u.of] = "archived"

\* An answer to come that has the item, for all that is known.
MayBring(t, i) == \E f \in fetches[t] : f.rows = Sent \/ f.rows[i] # "none"
\* What brings an item to a tab that does not show it.
Owed(t, i) ==
    \/ i \in unpublished
    \/ t \in before /\ i \in inFlight[t]
    \/ t \in before /\ (t \notin open \/ link[t] = "broken")
    \/ MayBring(t, i)
ItemsArrive == \A t \in Tab : \A i \in Present \ excused[t] : store[t][i] = "none" => Owed(t, i)

\* A request of the tab that will make the row what the store shows.
Underway(t, i) ==
    \E u \in uses : u.tab = t /\ u.at = "sent" /\ AtOnce(u.op) /\ Becomes(u.op, u.of, "unread", i) # "unread"
NotAhead ==
    \A t \in Tab, i \in Notice :
        row[i] = "unread" /\ store[t][i] \in {"read", "archived"} /\ i \notin excused[t] =>
            fetches[t] # {} \/ Underway(t, i)

TabsInv == TabsType /\ RowsGoOn /\ ItemsArrive /\ NotAhead

LEMMA TabsStart ==
    ASSUME WebInit
    PROVE  TabsInv
<1>1. TabsType
  BY DEF WebInit, TabsType, FetchRow, Empty, Shown
<1>2. \A i \in Notice : row[i] = "none"
  BY DEF WebInit, Empty
<1>3. \A t \in Tab, i \in Notice : store[t][i] = "none"
  BY DEF WebInit, Empty
<1>4. \A t \in Tab : \A f \in fetches[t] : f.rows = Sent
  BY DEF WebInit
<1>5. uses = {} /\ unpublished = {} /\ \A t \in Tab : inFlight[t] = {}
  BY DEF WebInit
<1> QED BY <1>1, <1>2, <1>3, <1>4, <1>5 DEF TabsInv, RowsGoOn, ItemsArrive, NotAhead, Present

LEMMA TabsShowIt ==
    ASSUME TabsInv
    PROVE  TabsCatchUp
<1> SUFFICES ASSUME NEW t \in Tab, AtEase(t), NEW i \in Present \ excused[t]
             PROVE  store[t][i] # "none" /\ (row[i] = "unread" => store[t][i] = "unread")
  BY DEF TabsCatchUp
<1>1. /\ t \in before /\ t \in open /\ link[t] = "registered" /\ inFlight[t] = {}
      /\ fetches[t] = {} /\ unpublished = {} /\ \A u \in uses : u.tab # t
  BY DEF AtEase, TabsInv, TabsType
<1>2. store[t][i] # "none"
  BY <1>1 DEF TabsInv, ItemsArrive, Owed, MayBring
<1>3. i \in Notice /\ store[t][i] \in Shown
  BY DEF Present, TabsInv, TabsType
<1>4. row[i] = "unread" => store[t][i] \notin {"read", "archived"}
  BY <1>1, <1>3 DEF TabsInv, NotAhead, Underway
<1> QED BY <1>2, <1>3, <1>4 DEF Shown

\* What an operation does to an item.
LEMMA WhatItBecomes ==
    ASSUME NEW op \in Operation, NEW of, NEW i \in Notice, NEW s \in Shown
    PROVE  /\ Becomes(op, of, s, i) \in Shown
           /\ s = "none" <=> Becomes(op, of, s, i) = "none"
           /\ s = "archived" => Becomes(op, of, s, i) = "archived"
           /\ Becomes(op, of, s, i) = "unread" => s = "unread"
           /\ s = "read" => Becomes(op, of, s, i) \in {"read", "archived"}
           /\ op = "archive" /\ of = i /\ s # "none" => Becomes(op, of, s, i) = "archived"
  BY DEF Becomes, Operation, Shown

\* Nothing but the socket changes, and events.
LEMMA TheSocketMoves ==
    ASSUME TabsInv, UNCHANGED <<row, store, fetches, uses>>,
           link' \in [Tab -> {"none", "accepted", "registered", "broken"}],
           DOMAIN inFlight' = Tab, DOMAIN excused' = Tab,
           \A t \in Tab : excused[t] \subseteq excused'[t], unpublished' \subseteq unpublished,
           \A t \in Tab : inFlight'[t] \subseteq inFlight[t] \union unpublished,
           \A t \in open' : t \in before',
           \A t \in Tab : link'[t] = "none" => t \notin open',
           \A t \in Tab : \A i \in Present \ excused'[t] :
               store[t][i] = "none" /\ Owed(t, i) => Owed(t, i)'
    PROVE  TabsInv'
<1>1. TabsType'
  BY DEF TabsInv, TabsType
<1>2. RowsGoOn'
  BY DEF TabsInv, RowsGoOn
<1>3. ItemsArrive'
  BY DEF TabsInv, ItemsArrive, Present
<1>4. NotAhead'
  <2> SUFFICES ASSUME NEW t \in Tab, NEW i \in Notice,
                      row[i] = "unread", store[t][i] \in {"read", "archived"}, i \notin excused'[t]
               PROVE  fetches[t] # {} \/ Underway(t, i)'
    BY DEF NotAhead
  <2>1. fetches[t] # {} \/ Underway(t, i)
    BY DEF TabsInv, NotAhead
  <2> QED BY <2>1 DEF Underway
<1> QED BY <1>1, <1>2, <1>3, <1>4 DEF TabsInv

LEMMA PublishingKeeps ==
    ASSUME TabsInv, NEW i \in Notice, PublishInboxNew(i)
    PROVE  TabsInv'
<1>0. /\ DOMAIN inFlight = Tab /\ DOMAIN excused = Tab
      /\ link \in [Tab -> {"none", "accepted", "registered", "broken"}]
      /\ \A t \in open : t \in before
      /\ \A t \in Tab : link[t] = "none" => t \notin open
  BY DEF TabsInv, TabsType
<1>1. /\ unpublished' = unpublished \ {i}
      /\ UNCHANGED <<row, store, link, open, before, fetches, uses>>
      /\ DOMAIN inFlight' = Tab /\ DOMAIN excused' = Tab
      /\ \A t \in Tab : /\ link[t] = "registered" => inFlight'[t] = inFlight[t] \union {i}
                        /\ link[t] # "registered" => inFlight'[t] = inFlight[t]
                        /\ excused[t] \subseteq excused'[t]
                        /\ i \notin excused'[t] =>
                               /\ link[t] # "accepted"
                               /\ t \in before \/ (\E f \in fetches[t] : f.rows = Sent)
  BY DEF PublishInboxNew, Overlooks
<1>2. ASSUME NEW t \in Tab, NEW j \in Present \ excused'[t], Owed(t, j) PROVE Owed(t, j)'
  <2>1. CASE j # i
    BY <1>1, <1>2, <2>1 DEF Owed, MayBring
  <2>2. CASE j = i
    <3>1. link[t] # "accepted" /\ (t \in before \/ (\E f \in fetches[t] : f.rows = Sent))
      BY <1>1, <2>2
    <3>2. CASE t \notin before
      <4>1. \E f \in fetches[t] : f.rows = Sent
        BY <3>1, <3>2
      <4> QED BY <1>1, <4>1 DEF Owed, MayBring
    <3>3. CASE t \in before
      <4>1. link[t] \in {"registered", "broken"} \/ t \notin open
        BY <1>0, <3>1
      <4> QED BY <1>1, <2>2, <3>3, <4>1 DEF Owed
    <3> QED BY <3>2, <3>3
  <2> QED BY <2>1, <2>2
<1>3. /\ \A t \in Tab : excused[t] \subseteq excused'[t]
      /\ \A t \in Tab : inFlight'[t] \subseteq inFlight[t] \union unpublished
  <2>1. i \in unpublished
    BY DEF PublishInboxNew
  <2> QED BY <1>1, <2>1
<1> QED BY <1>0, <1>1, <1>2, <1>3, TheSocketMoves

LEMMA ConnectingKeeps ==
    ASSUME TabsInv, NEW t \in Tab, Upgrades(t) \/ Registers(t) \/ Breaks(t) \/ Closes(t)
    PROVE  TabsInv'
<1>0. /\ DOMAIN inFlight = Tab /\ DOMAIN excused = Tab
      /\ link \in [Tab -> {"none", "accepted", "registered", "broken"}]
      /\ \A s \in open : s \in before
      /\ \A s \in Tab : link[s] = "none" => s \notin open
  BY DEF TabsInv, TabsType
<1>1. /\ UNCHANGED <<row, unpublished, store, before, fetches, uses, excused>>
      /\ DOMAIN inFlight' = Tab
      /\ \A s \in Tab \ {t} : link'[s] = link[s] /\ inFlight'[s] = inFlight[s] /\ (s \in open' <=> s \in open)
      /\ open' \subseteq open
  BY <1>0 DEF Upgrades, Registers, Breaks, Closes
<1>2. link' \in [Tab -> {"none", "accepted", "registered", "broken"}]
  BY <1>0 DEF Upgrades, Registers, Breaks, Closes
<1>3. /\ link'[t] = "none" => t \notin open'
      /\ \/ inFlight'[t] = inFlight[t] /\ (link[t] = "broken" => link'[t] = "broken")
         \/ t \notin open'
      /\ inFlight'[t] \subseteq inFlight[t]
  BY <1>0 DEF Upgrades, Registers, Breaks, Closes
<1>4. ASSUME NEW s \in Tab, NEW i \in Present \ excused'[s], Owed(s, i) PROVE Owed(s, i)'
  <2>1. CASE s # t
    BY <1>1, <1>4, <2>1 DEF Owed, MayBring
  <2>2. CASE s = t
    BY <1>1, <1>3, <1>4, <2>2 DEF Owed, MayBring
  <2> QED BY <2>1, <2>2
<1> QED BY <1>0, <1>1, <1>2, <1>3, <1>4, TheSocketMoves

-----------------------------------------------------------------------------
(* What is fetched.                                                        *)

Asked(t) == [n |-> Fresh(t), rows |-> Sent]

\* A tab asks for the list: more may come.
LEMMA MoreIsAsked ==
    ASSUME TabsType, NEW t \in Tab, fetches' = WithFetch(t) \/ fetches' = fetches
    PROVE  /\ DOMAIN fetches' = Tab
           /\ \A s \in Tab : fetches[s] \subseteq fetches'[s]
           /\ \A s \in Tab : \A f \in fetches'[s] : f \in fetches[s] \/ f = Asked(t)
           /\ FetchRow(Asked(t)) /\ Asked(t).rows = Sent
           /\ fetches' = WithFetch(t) => Asked(t) \in fetches'[t]
<1>1. FetchRow(Asked(t)) /\ Asked(t).rows = Sent
  BY DEF FetchRow, Asked
<1>2. CASE fetches' = fetches
  <2>1. fetches' = WithFetch(t) => Asked(t) \in fetches'[t]
    BY DEF TabsType, WithFetch, Asked
  <2> QED BY <1>1, <1>2, <2>1 DEF TabsType
<1>3. CASE fetches' = WithFetch(t)
  <2>1. fetches' = [fetches EXCEPT ![t] = fetches[t] \union {Asked(t)}]
    BY <1>3 DEF WithFetch, Asked
  <2>2. DOMAIN fetches = Tab
    BY DEF TabsType
  <2> QED BY <1>1, <2>1, <2>2
<1> QED BY <1>2, <1>3

\* What an answer on its way brings it still brings.
LEMMA StillBrought ==
    ASSUME NEW t, NEW i, fetches[t] \subseteq fetches'[t], MayBring(t, i)
    PROVE  MayBring(t, i)'
  BY DEF MayBring

LEMMA OpeningKeeps ==
    ASSUME TabsInv, NEW t \in Tab, Opens(t)
    PROVE  TabsInv'
<1>0. TabsType
  BY DEF TabsInv
<1>1. /\ link[t] # "none" /\ open' = open \union {t} /\ before' = before \union {t} /\ t \notin open
      /\ UNCHANGED <<row, unpublished, store, link, inFlight, uses, excused>>
      /\ t \in before => fetches' = WithFetch(t)
      /\ t \notin before => fetches' = fetches
  BY DEF Opens, Reconnects
<1>2. /\ DOMAIN fetches' = Tab
      /\ \A s \in Tab : fetches[s] \subseteq fetches'[s]
      /\ \A s \in Tab : \A f \in fetches'[s] : f \in fetches[s] \/ f = Asked(t)
      /\ FetchRow(Asked(t)) /\ Asked(t).rows = Sent
      /\ fetches' = WithFetch(t) => Asked(t) \in fetches'[t]
  BY <1>0, <1>1, MoreIsAsked
<1>3. TabsType'
  BY <1>0, <1>1, <1>2 DEF TabsType
<1>4. RowsGoOn'
  BY <1>1, <1>2 DEF TabsInv, RowsGoOn
<1>5. ItemsArrive'
  <2> SUFFICES ASSUME NEW s \in Tab, NEW i \in Present \ excused[s], store[s][i] = "none"
               PROVE  Owed(s, i)'
    BY <1>1 DEF ItemsArrive, Present
  <2>1. Owed(s, i)
    BY DEF TabsInv, ItemsArrive
  <2>2. CASE MayBring(s, i)
    BY <1>2, <2>2, StillBrought DEF Owed
  <2>3. CASE s = t /\ t \in before
    BY <1>1, <1>2, <2>3 DEF Owed, MayBring
  <2>4. CASE ~MayBring(s, i) /\ ~(s = t /\ t \in before)
    BY <1>1, <2>1, <2>4 DEF Owed
  <2> QED BY <2>2, <2>3, <2>4
<1>6. NotAhead'
  <2> SUFFICES ASSUME NEW s \in Tab, NEW i \in Notice,
                      row[i] = "unread", store[s][i] \in {"read", "archived"}, i \notin excused[s]
               PROVE  fetches'[s] # {} \/ Underway(s, i)'
    BY <1>1 DEF NotAhead
  <2>1. fetches[s] # {} \/ Underway(s, i)
    BY DEF TabsInv, NotAhead
  <2> QED BY <1>1, <1>2, <2>1 DEF Underway
<1> QED BY <1>3, <1>4, <1>5, <1>6 DEF TabsInv

LEMMA ShowingKeeps ==
    ASSUME TabsInv, NEW t \in Tab, NEW i \in Notice, AddItem(t, i)
    PROVE  TabsInv'
<1>0. TabsType /\ row[i] # "none"
  BY DEF TabsInv, RowsGoOn, AddItem
<1>1. /\ UNCHANGED <<row, unpublished, link, open, before, fetches, uses, excused>>
      /\ inFlight' = [inFlight EXCEPT ![t] = inFlight[t] \ {i}]
      /\ store' = [store EXCEPT ![t][i] = IF store[t][i] = "none" THEN "unread" ELSE store[t][i]]
  BY DEF AddItem
<1>2. /\ DOMAIN inFlight' = Tab /\ \A s \in Tab \ {t} : inFlight'[s] = inFlight[s]
      /\ inFlight'[t] = inFlight[t] \ {i}
  BY <1>0, <1>1 DEF TabsType
<1>3. /\ store' \in [Tab -> [Notice -> Shown]]
      /\ \A s \in Tab, j \in Notice :
            \/ store'[s][j] = store[s][j]
            \/ s = t /\ j = i /\ store'[s][j] = "unread"
      /\ store'[t][i] # "none"
  BY <1>0, <1>1 DEF TabsType, Shown
<1>4. TabsType'
  BY <1>0, <1>1, <1>2, <1>3 DEF TabsType
<1>5. RowsGoOn'
  <2>1. ASSUME NEW s \in Tab, NEW j \in Notice,
               j \in unpublished \/ j \in inFlight'[s] \/ store'[s][j] # "none"
        PROVE  row[j] # "none"
    <3>1. CASE j = i
      BY <1>0, <3>1
    <3>2. CASE j # i
      <4>1. j \in unpublished \/ j \in inFlight[s] \/ store[s][j] # "none"
        BY <1>2, <1>3, <2>1, <3>2
      <4> QED BY <4>1 DEF TabsInv, RowsGoOn
    <3> QED BY <3>1, <3>2
  <2> QED BY <1>1, <2>1 DEF TabsInv, RowsGoOn
<1>6. ItemsArrive'
  <2> SUFFICES ASSUME NEW s \in Tab, NEW j \in Present \ excused[s], store'[s][j] = "none"
               PROVE  Owed(s, j)'
    BY <1>1 DEF ItemsArrive, Present
  <2>1. j \in Notice
    BY DEF Present
  <2>2. store[s][j] = "none" /\ ~(s = t /\ j = i)
    BY <1>3, <2>1
  <2>3. Owed(s, j)
    BY <2>2 DEF TabsInv, ItemsArrive
  <2>4. j \in inFlight[s] => j \in inFlight'[s]
    BY <1>2, <2>2
  <2> QED BY <1>1, <2>3, <2>4 DEF Owed, MayBring
<1>7. NotAhead'
  <2> SUFFICES ASSUME NEW s \in Tab, NEW j \in Notice,
                      row[j] = "unread", store'[s][j] \in {"read", "archived"}, j \notin excused[s]
               PROVE  fetches[s] # {} \/ Underway(s, j)'
    BY <1>1 DEF NotAhead
  <2>1. fetches[s] # {} \/ Underway(s, j)
    BY <1>3 DEF TabsInv, NotAhead
  <2> QED BY <1>1, <2>1 DEF Underway
<1> QED BY <1>4, <1>5, <1>6, <1>7 DEF TabsInv

LEMMA ListingKeeps ==
    ASSUME TabsInv, NEW t \in Tab, NEW f \in fetches[t], ListInbox(t, f)
    PROVE  TabsInv'
<1> DEFINE g == [f EXCEPT !.rows = Listed]
<1>0. TabsType /\ FetchRow(f) /\ f.rows = Sent
  BY DEF TabsInv, TabsType, ListInbox
<1>1. /\ UNCHANGED <<row, unpublished, store, link, open, before, inFlight, uses, excused>>
      /\ fetches' = [fetches EXCEPT ![t] = (fetches[t] \ {f}) \union {g}]
  BY DEF ListInbox
<1>2. g.rows = Listed /\ g = [n |-> g.n, rows |-> g.rows]
  BY <1>0 DEF FetchRow
<1> HIDE DEF g
<1>3. /\ Listed \in Answer
      /\ \A i \in Notice : /\ Listed[i] # "none" => row[i] # "none"
                           /\ Listed[i] = "read" => row[i] # "unread"
      /\ \A i \in Present : Listed[i] # "none"
  BY <1>0 DEF Listed, Present, Answer, TabsType, Shown
<1>4. /\ DOMAIN fetches' = Tab /\ \A s \in Tab \ {t} : fetches'[s] = fetches[s]
      /\ fetches'[t] = (fetches[t] \ {f}) \union {g}
  BY <1>0, <1>1 DEF TabsType
<1>5. FetchRow(g)
  BY <1>2, <1>3 DEF FetchRow
<1>6. \A s \in Tab : \A h \in fetches'[s] : FetchRow(h)
  BY <1>0, <1>4, <1>5 DEF TabsType
<1>7. TabsType'
  BY <1>0, <1>1, <1>4, <1>6 DEF TabsType
<1>8. RowsGoOn'
  <2>1. ASSUME NEW s \in Tab, NEW h \in fetches'[s], h.rows # Sent, NEW i \in Notice
        PROVE  (h.rows[i] # "none" => row[i] # "none") /\ (h.rows[i] = "read" => row[i] # "unread")
    <3>1. CASE h \in fetches[s]
      BY <2>1, <3>1 DEF TabsInv, RowsGoOn
    <3>2. CASE h = g
      BY <1>2, <1>3, <3>2
    <3> QED BY <1>4, <3>1, <3>2
  <2> QED BY <1>1, <2>1 DEF TabsInv, RowsGoOn
<1>9. ItemsArrive'
  <2> SUFFICES ASSUME NEW s \in Tab, NEW i \in Present \ excused[s], store[s][i] = "none"
               PROVE  Owed(s, i)'
    BY <1>1 DEF ItemsArrive, Present
  <2>1. Owed(s, i)
    BY DEF TabsInv, ItemsArrive
  <2>2. MayBring(s, i) => MayBring(s, i)'
    <3>1. CASE s # t
      BY <1>4, <3>1 DEF MayBring
    <3>2. CASE s = t
      BY <1>2, <1>3, <1>4, <3>2 DEF MayBring
    <3> QED BY <3>1, <3>2
  <2> QED BY <1>1, <2>1, <2>2 DEF Owed
<1>10. NotAhead'
  <2> SUFFICES ASSUME NEW s \in Tab, NEW i \in Notice,
                      row[i] = "unread", store[s][i] \in {"read", "archived"}, i \notin excused[s]
               PROVE  fetches'[s] # {} \/ Underway(s, i)'
    BY <1>1 DEF NotAhead
  <2>1. fetches[s] # {} \/ Underway(s, i)
    BY DEF TabsInv, NotAhead
  <2> QED BY <1>1, <1>4, <2>1 DEF Underway
<1> QED BY <1>7, <1>8, <1>9, <1>10 DEF TabsInv

\* The answer takes from the tab what it does not have, and that is excused.
LEMMA SettingKeeps ==
    ASSUME TabsInv, NEW t \in Tab, NEW f \in fetches[t], SetItems(t, f)
    PROVE  TabsInv'
<1>0. /\ TabsType /\ FetchRow(f) /\ f.rows # Sent /\ f.rows \in Answer
      /\ \A i \in Notice : /\ f.rows[i] # "none" => row[i] # "none"
                           /\ f.rows[i] = "read" => row[i] # "unread"
  BY DEF TabsInv, TabsType, SetItems, FetchRow, RowsGoOn
<1>1. /\ UNCHANGED <<row, unpublished, link, open, before, inFlight, uses>>
      /\ fetches' = [fetches EXCEPT ![t] = fetches[t] \ {f}]
      /\ store' = [store EXCEPT ![t] = f.rows]
      /\ excused' = [excused EXCEPT ![t] = {i \in excused[t] : f.rows[i] = "none"} \union
                        {i \in Notice : store[t][i] # "none" /\ f.rows[i] = "none"}]
  BY DEF SetItems
<1>2. /\ DOMAIN fetches' = Tab /\ fetches'[t] = fetches[t] \ {f}
      /\ DOMAIN excused' = Tab
      /\ \A s \in Tab \ {t} : fetches'[s] = fetches[s] /\ store'[s] = store[s] /\ excused'[s] = excused[s]
      /\ store'[t] = f.rows /\ store' \in [Tab -> [Notice -> Shown]]
      /\ \A i \in Notice : f.rows[i] = "none" /\ (i \in excused[t] \/ store[t][i] # "none") => i \in excused'[t]
  BY <1>0, <1>1 DEF TabsType, Answer, Shown
<1>3. TabsType'
  BY <1>0, <1>1, <1>2 DEF TabsType
<1>4. RowsGoOn'
  <2>1. ASSUME NEW s \in Tab, NEW i \in Notice,
               i \in unpublished \/ i \in inFlight[s] \/ store'[s][i] # "none"
        PROVE  row[i] # "none"
    BY <1>0, <1>2, <2>1 DEF TabsInv, RowsGoOn
  <2>2. \A s \in Tab : fetches'[s] \subseteq fetches[s]
    BY <1>2
  <2> QED BY <1>1, <2>1, <2>2 DEF TabsInv, RowsGoOn
<1>5. ItemsArrive'
  <2> SUFFICES ASSUME NEW s \in Tab, NEW i \in Present, i \notin excused'[s], store'[s][i] = "none"
               PROVE  Owed(s, i)'
    BY <1>1 DEF ItemsArrive, Present
  <2>0. i \in Notice
    BY DEF Present
  <2>1. i \notin excused[s] /\ store[s][i] = "none"
    BY <1>2, <2>0
  <2>2. Owed(s, i)
    BY <2>1 DEF TabsInv, ItemsArrive
  <2>3. MayBring(s, i) => MayBring(s, i)'
    <3>1. CASE s # t
      BY <1>2, <3>1 DEF MayBring
    <3>2. CASE s = t
      <4>1. f.rows[i] = "none"
        BY <1>2, <3>2
      <4> QED BY <1>0, <1>2, <3>2, <4>1 DEF MayBring
    <3> QED BY <3>1, <3>2
  <2> QED BY <1>1, <2>2, <2>3 DEF Owed
<1>6. NotAhead'
  <2> SUFFICES ASSUME NEW s \in Tab, NEW i \in Notice,
                      row[i] = "unread", store'[s][i] \in {"read", "archived"}, i \notin excused'[s]
               PROVE  fetches'[s] # {} \/ Underway(s, i)'
    BY <1>1 DEF NotAhead
  <2>1. s # t
    <3>1. f.rows[i] \in {"none", "unread", "read"}
      BY <1>0 DEF Answer
    <3> QED BY <1>0, <1>2, <3>1
  <2>2. fetches[s] # {} \/ Underway(s, i)
    BY <1>2, <2>1 DEF TabsInv, NotAhead
  <2> QED BY <1>1, <1>2, <2>1, <2>2 DEF Underway
<1> QED BY <1>3, <1>4, <1>5, <1>6 DEF TabsInv

LEMMA FailingKeeps ==
    ASSUME TabsInv, NEW t \in Tab, NEW f \in fetches[t], FetchFails(t, f)
    PROVE  TabsInv'
<1>0. TabsType
  BY DEF TabsInv
<1>1. /\ UNCHANGED <<row, unpublished, store, link, open, before, inFlight, uses>>
      /\ fetches' = [fetches EXCEPT ![t] = fetches[t] \ {f}]
      /\ excused' = [excused EXCEPT ![t] = excused[t] \union {i \in Notice : row[i] # store[t][i]}]
  BY DEF FetchFails
<1>2. /\ DOMAIN fetches' = Tab /\ fetches'[t] = fetches[t] \ {f}
      /\ DOMAIN excused' = Tab /\ excused'[t] = excused[t] \union {i \in Notice : row[i] # store[t][i]}
      /\ \A s \in Tab \ {t} : fetches'[s] = fetches[s] /\ excused'[s] = excused[s]
  BY <1>0, <1>1 DEF TabsType
<1>3. TabsType'
  BY <1>0, <1>1, <1>2 DEF TabsType
<1>4. RowsGoOn'
  <2>1. \A s \in Tab : fetches'[s] \subseteq fetches[s]
    BY <1>2
  <2> QED BY <1>1, <2>1 DEF TabsInv, RowsGoOn
<1>5. ItemsArrive'
  <2> SUFFICES ASSUME NEW s \in Tab, NEW i \in Present, i \notin excused'[s], store[s][i] = "none"
               PROVE  Owed(s, i)'
    BY <1>1 DEF ItemsArrive, Present
  <2>1. s # t /\ i \notin excused[s]
    BY <1>2 DEF Present
  <2>2. Owed(s, i)
    BY <2>1 DEF TabsInv, ItemsArrive
  <2> QED BY <1>1, <1>2, <2>1, <2>2 DEF Owed, MayBring
<1>6. NotAhead'
  <2> SUFFICES ASSUME NEW s \in Tab, NEW i \in Notice,
                      row[i] = "unread", store[s][i] \in {"read", "archived"}, i \notin excused'[s]
               PROVE  fetches'[s] # {} \/ Underway(s, i)'
    BY <1>1 DEF NotAhead
  <2>1. s # t /\ i \notin excused[s]
    BY <1>2
  <2>2. fetches[s] # {} \/ Underway(s, i)
    BY <2>1 DEF TabsInv, NotAhead
  <2> QED BY <1>1, <1>2, <2>1, <2>2 DEF Underway
<1> QED BY <1>3, <1>4, <1>5, <1>6 DEF TabsInv

-----------------------------------------------------------------------------
(* What the user does.                                                     *)

\* Rows go on, the tabs show what they showed, and answers are asked for.
LEMMA RowsMove ==
    ASSUME TabsInv, row' \in [Notice -> Shown],
           \A i \in Notice : row[i] = "none" <=> row'[i] = "none",
           \A i \in Notice : row'[i] = "unread" => row[i] = "unread",
           \A i \in Notice : row[i] = "archived" => row'[i] = "archived",
           UNCHANGED <<unpublished, store, link, open, before, inFlight, excused>>,
           DOMAIN fetches' = Tab, \A t \in Tab : fetches[t] \subseteq fetches'[t],
           \A t \in Tab : \A f \in fetches'[t] : f \in fetches[t] \/ (FetchRow(f) /\ f.rows = Sent),
           \A u \in uses' : UseRow(u),
           \A u \in uses' : u.op = "archive" =>
               row[u.of] # "none" /\ (u.at = "performed" => row'[u.of] = "archived"),
           \A t \in Tab, i \in Notice :
               row'[i] = "unread" /\ Underway(t, i) => fetches'[t] # {} \/ Underway(t, i)'
    PROVE  TabsInv'
<1>0. TabsType
  BY DEF TabsInv
<1>1. TabsType'
  BY <1>0 DEF TabsType
<1>2. RowsGoOn'
  <2>1. ASSUME NEW t \in Tab, NEW i \in Notice,
               i \in unpublished \/ i \in inFlight[t] \/ store[t][i] # "none"
        PROVE  row'[i] # "none"
    BY <2>1 DEF TabsInv, RowsGoOn
  <2>2. ASSUME NEW t \in Tab, NEW f \in fetches'[t], f.rows # Sent, NEW i \in Notice
        PROVE  (f.rows[i] # "none" => row'[i] # "none") /\ (f.rows[i] = "read" => row'[i] # "unread")
    BY <2>2 DEF TabsInv, RowsGoOn
  <2>3. \A u \in uses' : u.op = "archive" =>
            row'[u.of] # "none" /\ (u.at = "performed" => row'[u.of] = "archived")
    BY DEF UseRow
  <2> QED BY <2>1, <2>2, <2>3 DEF RowsGoOn
<1>3. ItemsArrive'
  <2> SUFFICES ASSUME NEW t \in Tab, NEW i \in Notice, row'[i] \in {"unread", "read"},
                      i \notin excused[t], store[t][i] = "none"
               PROVE  Owed(t, i)'
    BY DEF ItemsArrive, Present
  <2>1. i \in Present
    BY <1>0 DEF Present, TabsType, Shown
  <2>2. Owed(t, i)
    BY <2>1 DEF TabsInv, ItemsArrive
  <2> QED BY <2>2, StillBrought DEF Owed
<1>4. NotAhead'
  <2> SUFFICES ASSUME NEW t \in Tab, NEW i \in Notice,
                      row'[i] = "unread", store[t][i] \in {"read", "archived"}, i \notin excused[t]
               PROVE  fetches'[t] # {} \/ Underway(t, i)'
    BY DEF NotAhead
  <2>1. fetches[t] # {} \/ Underway(t, i)
    BY DEF TabsInv, NotAhead
  <2> QED BY <2>1
<1> QED BY <1>1, <1>2, <1>3, <1>4 DEF TabsInv

LEMMA CreatingNoticeKeeps ==
    ASSUME TabsInv, NEW i \in Notice, CreateNotice(i)
    PROVE  TabsInv'
<1>0. TabsType
  BY DEF TabsInv
<1>1. /\ row[i] = "none" /\ row' = [row EXCEPT ![i] = "unread"] /\ unpublished' = unpublished \union {i}
      /\ UNCHANGED <<store, link, open, before, inFlight, fetches, uses, excused>>
  BY DEF CreateNotice
<1>2. /\ row' \in [Notice -> Shown] /\ row'[i] = "unread"
      /\ \A j \in Notice \ {i} : row'[j] = row[j]
  BY <1>0, <1>1 DEF TabsType, Shown
<1>3. TabsType'
  BY <1>0, <1>1, <1>2 DEF TabsType
<1>4. RowsGoOn'
  <2>1. ASSUME NEW t \in Tab, NEW j \in Notice,
               j \in unpublished' \/ j \in inFlight[t] \/ store[t][j] # "none"
        PROVE  row'[j] # "none"
    BY <1>1, <1>2, <2>1 DEF TabsInv, RowsGoOn
  <2>2. ASSUME NEW t \in Tab, NEW f \in fetches[t], f.rows # Sent, NEW j \in Notice
        PROVE  (f.rows[j] # "none" => row'[j] # "none") /\ (f.rows[j] = "read" => row'[j] # "unread")
    BY <1>1, <1>2, <2>2 DEF TabsInv, RowsGoOn
  <2>3. ASSUME NEW u \in uses, u.op = "archive"
        PROVE  row'[u.of] # "none" /\ (u.at = "performed" => row'[u.of] = "archived")
    BY <1>0, <1>1, <1>2, <2>3 DEF TabsType, UseRow, TabsInv, RowsGoOn
  <2> QED BY <1>1, <2>1, <2>2, <2>3 DEF RowsGoOn
<1>5. ItemsArrive'
  <2> SUFFICES ASSUME NEW t \in Tab, NEW j \in Notice, row'[j] \in {"unread", "read"},
                      j \notin excused[t], store[t][j] = "none"
               PROVE  Owed(t, j)'
    BY <1>1 DEF ItemsArrive, Present
  <2>1. CASE j = i
    BY <1>1, <2>1 DEF Owed
  <2>2. CASE j # i
    <3>1. Owed(t, j)
      BY <1>2, <2>2 DEF TabsInv, ItemsArrive, Present
    <3> QED BY <1>1, <3>1 DEF Owed, MayBring
  <2> QED BY <2>1, <2>2
<1>6. NotAhead'
  <2> SUFFICES ASSUME NEW t \in Tab, NEW j \in Notice,
                      row'[j] = "unread", store[t][j] \in {"read", "archived"}, j \notin excused[t]
               PROVE  fetches[t] # {} \/ Underway(t, j)'
    BY <1>1 DEF NotAhead
  <2>1. row[j] # "none"
    BY DEF TabsInv, RowsGoOn
  <2>2. fetches[t] # {} \/ Underway(t, j)
    BY <1>1, <1>2, <2>1 DEF TabsInv, NotAhead
  <2> QED BY <1>1, <2>2 DEF Underway
<1> QED BY <1>3, <1>4, <1>5, <1>6 DEF TabsInv

\* The user does something: what the tab shows at once is underway.
LEMMA UsingKeeps ==
    ASSUME TabsInv, NEW t \in Tab, NEW op \in Operation, NEW i \in Notice, Uses(t, op, i)
    PROVE  TabsInv'
<1> DEFINE u == [tab |-> t, n |-> used, op |-> op, of |-> i, at |-> "sent"]
<1>0. TabsType
  BY DEF TabsInv
<1>1. /\ uses' = uses \union {u}
      /\ AtOnce(op) => store' = [store EXCEPT ![t] = Applied(op, i, store[t])]
      /\ ~AtOnce(op) => store' = store
      /\ UNCHANGED <<row, unpublished, link, open, before, inFlight, fetches, excused>>
      /\ op = "archive" => store[t][i] \in {"unread", "read"}
  BY DEF Uses
<1>2. u.tab = t /\ u.op = op /\ u.of = i /\ u.at = "sent" /\ UseRow(u)
  BY DEF UseRow
<1> HIDE DEF u
<1>3. \A j \in Notice : store[t][j] \in Shown
  BY <1>0 DEF TabsType
<1>4. /\ store' \in [Tab -> [Notice -> Shown]]
      /\ \A s \in Tab \ {t} : store'[s] = store[s]
      /\ \A j \in Notice : \/ store'[t][j] = store[t][j]
                           \/ AtOnce(op) /\ store'[t][j] = Becomes(op, i, store[t][j], j)
  <2>1. CASE AtOnce(op)
    <3>1. Applied(op, i, store[t]) \in [Notice -> Shown]
      BY <1>3, WhatItBecomes DEF Applied
    <3>2. \A j \in Notice : Applied(op, i, store[t])[j] = Becomes(op, i, store[t][j], j)
      BY DEF Applied
    <3>3. store' = [store EXCEPT ![t] = Applied(op, i, store[t])]
      BY <1>1, <2>1
    <3> QED BY <1>0, <2>1, <3>1, <3>2, <3>3 DEF TabsType
  <2>2. CASE ~AtOnce(op)
    BY <1>0, <1>1, <2>2 DEF TabsType
  <2> QED BY <2>1, <2>2
<1>5. ASSUME NEW s \in Tab, NEW j \in Notice
      PROVE  /\ store'[s][j] = "none" <=> store[s][j] = "none"
             /\ store'[s][j] \in {"read", "archived"} =>
                   \/ store[s][j] \in {"read", "archived"}
                   \/ s = t /\ AtOnce(op) /\ Becomes(op, i, "unread", j) # "unread"
  <2>1. CASE store'[s][j] = store[s][j]
    BY <2>1
  <2>2. CASE s = t /\ AtOnce(op) /\ store'[t][j] = Becomes(op, i, store[t][j], j)
    <3>1. /\ store[t][j] \in Shown
          /\ store[t][j] = "none" <=> Becomes(op, i, store[t][j], j) = "none"
      BY <1>3, WhatItBecomes
    <3>2. CASE store[t][j] = "unread"
      BY <2>2, <3>1, <3>2
    <3>3. CASE store[t][j] # "unread"
      BY <2>2, <3>1, <3>3 DEF Shown
    <3> QED BY <3>2, <3>3
  <2> QED BY <1>4, <2>1, <2>2
<1>6. TabsType'
  BY <1>0, <1>1, <1>2, <1>4 DEF TabsType
<1>7. RowsGoOn'
  <2>1. \A s \in Tab, j \in Notice :
            j \in unpublished \/ j \in inFlight[s] \/ store'[s][j] # "none" => row[j] # "none"
    BY <1>5 DEF TabsInv, RowsGoOn
  <2>2. op = "archive" => row[i] # "none"
    BY <1>1 DEF TabsInv, RowsGoOn
  <2>3. ASSUME NEW v \in uses', v.op = "archive"
        PROVE  row[v.of] # "none" /\ (v.at = "performed" => row[v.of] = "archived")
    <3>1. CASE v \in uses
      BY <2>3, <3>1 DEF TabsInv, RowsGoOn
    <3>2. CASE v = u
      BY <1>2, <2>2, <2>3, <3>2
    <3> QED BY <1>1, <3>1, <3>2
  <2> QED BY <1>1, <2>1, <2>3 DEF TabsInv, RowsGoOn
<1>8. ItemsArrive'
  <2> SUFFICES ASSUME NEW s \in Tab, NEW j \in Present \ excused[s], store'[s][j] = "none"
               PROVE  Owed(s, j)'
    BY <1>1 DEF ItemsArrive, Present
  <2>1. Owed(s, j)
    BY <1>5 DEF Present, TabsInv, ItemsArrive
  <2> QED BY <1>1, <2>1 DEF Owed, MayBring
<1>9. NotAhead'
  <2> SUFFICES ASSUME NEW s \in Tab, NEW j \in Notice,
                      row[j] = "unread", store'[s][j] \in {"read", "archived"}, j \notin excused[s]
               PROVE  fetches[s] # {} \/ Underway(s, j)'
    BY <1>1 DEF NotAhead
  <2>1. CASE store[s][j] \in {"read", "archived"}
    <3>1. fetches[s] # {} \/ Underway(s, j)
      BY <2>1 DEF TabsInv, NotAhead
    <3> QED BY <1>1, <3>1 DEF Underway
  <2>2. CASE s = t /\ AtOnce(op) /\ Becomes(op, i, "unread", j) # "unread"
    <3>1. u \in uses'
      BY <1>1
    <3> QED BY <1>2, <2>2, <3>1 DEF Underway
  <2> QED BY <1>5, <2>1, <2>2
<1> QED BY <1>6, <1>7, <1>8, <1>9 DEF TabsInv

LEMMA PerformingKeeps ==
    ASSUME TabsInv, NEW u \in uses, Performs(u)
    PROVE  TabsInv'
<1> DEFINE v == [u EXCEPT !.at = "performed"]
<1>0. TabsType /\ UseRow(u) /\ u.at = "sent" /\ u.op \in Operation
  BY DEF TabsInv, TabsType, Performs, UseRow
<1>1. /\ row' = Applied(u.op, u.of, row) /\ uses' = (uses \ {u}) \union {v}
      /\ UNCHANGED <<unpublished, store, link, open, before, inFlight, fetches, excused>>
  BY DEF Performs
<1>2. v.op = u.op /\ v.of = u.of /\ v.at = "performed" /\ UseRow(v)
  BY <1>0 DEF UseRow
<1> HIDE DEF v
<1>3. \A i \in Notice : row[i] \in Shown /\ row'[i] = Becomes(u.op, u.of, row[i], i)
  BY <1>0, <1>1 DEF TabsType, Applied
<1>4. /\ \A i \in Notice : row'[i] \in Shown
      /\ \A i \in Notice : row[i] = "none" <=> row'[i] = "none"
      /\ \A i \in Notice : row'[i] = "unread" => row[i] = "unread"
      /\ \A i \in Notice : row[i] = "archived" => row'[i] = "archived"
      /\ \A i \in Notice : u.op = "archive" /\ u.of = i /\ row[i] # "none" => row'[i] = "archived"
  BY <1>0, <1>3, WhatItBecomes
<1>5. row' \in [Notice -> Shown]
  <2>1. row' = [i \in Notice |-> row'[i]]
    BY <1>1 DEF Applied
  <2> QED BY <1>4, <2>1
<1>6. \A w \in uses' : UseRow(w)
  BY <1>0, <1>1, <1>2 DEF TabsType
<1>7. ASSUME NEW w \in uses', w.op = "archive"
      PROVE  row[w.of] # "none" /\ (w.at = "performed" => row'[w.of] = "archived")
  <2>1. CASE w \in uses
    <3>1. w.of \in Notice
      BY <1>6, <1>7 DEF UseRow
    <3> QED BY <1>4, <1>7, <2>1, <3>1 DEF TabsInv, RowsGoOn
  <2>2. CASE w = v
    <3>1. u.of \in Notice /\ u.op = "archive" /\ row[u.of] # "none"
      BY <1>0, <1>2, <1>7, <2>2 DEF UseRow, TabsInv, RowsGoOn
    <3> QED BY <1>2, <1>4, <2>2, <3>1
  <2> QED BY <1>1, <2>1, <2>2
<1>8. ASSUME NEW t \in Tab, NEW i \in Notice, row'[i] = "unread", Underway(t, i) PROVE Underway(t, i)'
  <2>1. PICK w \in uses : w.tab = t /\ w.at = "sent" /\ AtOnce(w.op) /\ Becomes(w.op, w.of, "unread", i) # "unread"
    BY <1>8 DEF Underway
  <2>2. w # u
    BY <1>3, <1>4, <1>8, <2>1
  <2>3. w \in uses'
    BY <1>1, <2>2
  <2> QED BY <2>1, <2>3 DEF Underway
<1>9. /\ DOMAIN fetches' = Tab /\ \A t \in Tab : fetches[t] \subseteq fetches'[t]
      /\ \A t \in Tab : \A f \in fetches'[t] : f \in fetches[t] \/ (FetchRow(f) /\ f.rows = Sent)
  BY <1>0, <1>1 DEF TabsType
<1> QED BY <1>1, <1>4, <1>5, <1>6, <1>7, <1>8, <1>9, RowsMove

\* What was performed is shown at last.
LEMMA SucceedingKeeps ==
    ASSUME TabsInv, NEW u \in uses, Succeeds(u)
    PROVE  TabsInv'
<1>0. TabsType /\ UseRow(u) /\ u.at = "performed" /\ u.op \in Operation /\ u.tab \in Tab
  BY DEF TabsInv, TabsType, Succeeds, UseRow
<1>1. /\ uses' = uses \ {u}
      /\ UNCHANGED <<row, unpublished, link, open, before, inFlight, fetches, excused>>
      /\ AtOnce(u.op) => store' = store
      /\ ~AtOnce(u.op) => store' = [store EXCEPT ![u.tab] = Applied(u.op, u.of, store[u.tab])]
  BY DEF Succeeds
<1>2. store' = store \/ (u.op = "archive" /\ row[u.of] = "archived")
  BY <1>0, <1>1 DEF AtOnce, TabsInv, RowsGoOn
<1>3. /\ store' \in [Tab -> [Notice -> Shown]]
      /\ \A t \in Tab, i \in Notice :
            /\ store'[t][i] = "none" <=> store[t][i] = "none"
            /\ store'[t][i] = store[t][i] \/ row[i] = "archived"
  <2>1. CASE store' = store
    BY <1>0, <2>1 DEF TabsType
  <2>2. CASE u.op = "archive" /\ row[u.of] = "archived"
    <3> DEFINE new == Applied(u.op, u.of, store[u.tab])
    <3>1. \A i \in Notice : store[u.tab][i] \in Shown
      BY <1>0 DEF TabsType
    <3>2. ASSUME NEW i \in Notice
          PROVE  /\ new[i] \in Shown
                 /\ new[i] = "none" <=> store[u.tab][i] = "none"
                 /\ new[i] = store[u.tab][i] \/ i = u.of
      <4>1. new[i] = Becomes(u.op, u.of, store[u.tab][i], i)
        BY DEF Applied
      <4>2. i # u.of => new[i] = store[u.tab][i]
        BY <2>2, <4>1 DEF Becomes
      <4> QED BY <1>0, <3>1, <4>1, <4>2, WhatItBecomes
    <3>3. new \in [Notice -> Shown]
      BY <3>2 DEF Applied
    <3>4. store' = [store EXCEPT ![u.tab] = new]
      BY <1>1, <2>2 DEF AtOnce
    <3> HIDE DEF new
    <3> QED BY <1>0, <2>2, <3>2, <3>3, <3>4 DEF TabsType
  <2> QED BY <1>2, <2>1, <2>2
<1>4. TabsType'
  BY <1>0, <1>1, <1>3 DEF TabsType
<1>5. RowsGoOn'
  BY <1>1, <1>3 DEF TabsInv, RowsGoOn
<1>6. ItemsArrive'
  <2> SUFFICES ASSUME NEW t \in Tab, NEW i \in Present \ excused[t], store'[t][i] = "none"
               PROVE  Owed(t, i)'
    BY <1>1 DEF ItemsArrive, Present
  <2>1. Owed(t, i)
    BY <1>3 DEF Present, TabsInv, ItemsArrive
  <2> QED BY <1>1, <2>1 DEF Owed, MayBring
<1>7. NotAhead'
  <2> SUFFICES ASSUME NEW t \in Tab, NEW i \in Notice,
                      row[i] = "unread", store'[t][i] \in {"read", "archived"}, i \notin excused[t]
               PROVE  fetches[t] # {} \/ Underway(t, i)'
    BY <1>1 DEF NotAhead
  <2>1. fetches[t] # {} \/ Underway(t, i)
    BY <1>3 DEF TabsInv, NotAhead
  <2> QED BY <1>0, <1>1, <2>1 DEF Underway
<1> QED BY <1>4, <1>5, <1>6, <1>7 DEF TabsInv

\* A request that fails asks for the truth, and archiving completed issues does, too.
LEMMA AskingAgainKeeps ==
    ASSUME TabsInv, (\E u \in uses : Fails(u)) \/ (\E t \in Tab, of \in SUBSET Notice : ArchiveCompleted(t, of))
    PROVE  TabsInv'
<1>0. TabsType
  BY DEF TabsInv
<1>1. ASSUME NEW u \in uses, Fails(u) PROVE TabsInv'
  <2>1. /\ uses' = uses \ {u} /\ u.tab \in Tab
        /\ UNCHANGED <<row, unpublished, store, link, open, before, inFlight, excused>>
        /\ AtOnce(u.op) => fetches' = WithFetch(u.tab)
        /\ ~AtOnce(u.op) => fetches' = fetches
    BY <1>0, <1>1 DEF Fails, TabsType, UseRow
  <2>2. /\ DOMAIN fetches' = Tab
        /\ \A t \in Tab : fetches[t] \subseteq fetches'[t]
        /\ \A t \in Tab : \A f \in fetches'[t] : f \in fetches[t] \/ f = Asked(u.tab)
        /\ FetchRow(Asked(u.tab)) /\ Asked(u.tab).rows = Sent
        /\ fetches' = WithFetch(u.tab) => Asked(u.tab) \in fetches'[u.tab]
    BY <1>0, <2>1, MoreIsAsked
  <2>3. ASSUME NEW t \in Tab, NEW i \in Notice, Underway(t, i) PROVE fetches'[t] # {} \/ Underway(t, i)'
    <3>1. PICK w \in uses : w.tab = t /\ w.at = "sent" /\ AtOnce(w.op) /\ Becomes(w.op, w.of, "unread", i) # "unread"
      BY <2>3 DEF Underway
    <3>2. CASE w = u
      BY <2>1, <2>2, <3>1, <3>2
    <3>3. CASE w # u
      BY <2>1, <3>1, <3>3 DEF Underway
    <3> QED BY <3>2, <3>3
  <2>4. row' \in [Notice -> Shown] /\ \A w \in uses' : UseRow(w)
    BY <1>0, <2>1 DEF TabsType
  <2>5. \A w \in uses' : w.op = "archive" =>
            row[w.of] # "none" /\ (w.at = "performed" => row'[w.of] = "archived")
    BY <2>1 DEF TabsInv, RowsGoOn
  <2>6. \A t \in Tab : \A f \in fetches'[t] : f \in fetches[t] \/ (FetchRow(f) /\ f.rows = Sent)
    BY <2>2
  <2> QED BY <2>1, <2>2, <2>3, <2>4, <2>5, <2>6, RowsMove
<1>2. ASSUME NEW t \in Tab, NEW of \in SUBSET Notice, ArchiveCompleted(t, of) PROVE TabsInv'
  <2>1. /\ row' = [i \in Notice |-> IF i \in of /\ i \in Present THEN "archived" ELSE row[i]]
        /\ UNCHANGED <<unpublished, store, link, open, before, inFlight, excused, uses>>
        /\ fetches' = WithFetch(t)
    BY <1>2 DEF ArchiveCompleted
  <2>2. /\ DOMAIN fetches' = Tab
        /\ \A s \in Tab : fetches[s] \subseteq fetches'[s]
        /\ \A s \in Tab : \A f \in fetches'[s] : f \in fetches[s] \/ f = Asked(t)
        /\ FetchRow(Asked(t)) /\ Asked(t).rows = Sent
    BY <1>0, <2>1, MoreIsAsked
  <2>3. /\ row' \in [Notice -> Shown]
        /\ \A i \in Notice : row[i] = "none" <=> row'[i] = "none"
        /\ \A i \in Notice : row'[i] = "unread" => row[i] = "unread"
        /\ \A i \in Notice : row[i] = "archived" => row'[i] = "archived"
    BY <1>0, <2>1 DEF TabsType, Shown, Present
  <2>4. \A u \in uses' : UseRow(u)
    BY <1>0, <2>1 DEF TabsType
  <2>5. \A u \in uses' : u.op = "archive" =>
            row[u.of] # "none" /\ (u.at = "performed" => row'[u.of] = "archived")
    BY <2>1, <2>3, <2>4 DEF TabsInv, RowsGoOn, UseRow
  <2>6. \A s \in Tab : \A f \in fetches'[s] : f \in fetches[s] \/ (FetchRow(f) /\ f.rows = Sent)
    BY <2>2
  <2>7. \A s \in Tab, i \in Notice : Underway(s, i) => Underway(s, i)'
    BY <2>1 DEF Underway
  <2> QED BY <2>1, <2>2, <2>3, <2>4, <2>5, <2>6, <2>7, RowsMove
<1> QED BY <1>1, <1>2

LEMMA TabsAreKept ==
    ASSUME TabsInv, [WebNext]_webVars
    PROVE  TabsInv'
<1>1. CASE UNCHANGED webVars
  <2>1. /\ UNCHANGED <<row, store, fetches, uses, link, open, before, inFlight, excused, unpublished>>
    BY <1>1 DEF webVars
  <2>2. TabsType
    BY DEF TabsInv
  <2>3. \A t \in Tab, i \in Notice : Owed(t, i) => Owed(t, i)'
    BY <2>1 DEF Owed, MayBring
  <2> QED BY <2>1, <2>2, <2>3, TheSocketMoves DEF TabsType, Present
<1>2. CASE WebNext
  BY <1>2, CreatingNoticeKeeps, PublishingKeeps, ConnectingKeeps, OpeningKeeps, ShowingKeeps,
     ListingKeeps, SettingKeeps, FailingKeeps, UsingKeeps, PerformingKeeps, SucceedingKeeps,
     AskingAgainKeeps DEF WebNext, Operation
<1> QED BY <1>1, <1>2

-----------------------------------------------------------------------------
(* The issue.                                                              *)

IsEvent(e) ==
    e = [kind |-> e.kind, actor |-> e.actor, n |-> e.n, fields |-> e.fields,
         batch |-> e.batch, new |-> e.new, prev |-> e.prev, names |-> e.names,
         about |-> e.about, before |-> e.before]
IsRequest(q) ==
    q = [at |-> q.at, event |-> q.event, k |-> q.k, todo |-> q.todo, left |-> q.left]

Field == {"assignee", "status", "named"}
Listens(q) == q.at \in {"subscribe", "record", "address", "deliver"}

\* What the rows say of an event.
EventIsTrue(e) ==
    /\ IsEvent(e) /\ e.n \in 1 .. Len(history)
    /\ e.kind \in {"created", "updated", "comment", "reaction"}
    /\ e.kind = "created" => e.actor = creator
    /\ e.kind = "updated" =>
          /\ e.n > 1 /\ e.new = history[e.n]
          /\ \E f \in Field :
                /\ e.fields = {f}
                /\ f # "assignee" => history[e.n].assignee = e.prev.assignee
                /\ f # "named" => history[e.n].named = history[e.n - 1].named
                /\ f # "status" => history[e.n].status = history[e.n - 1].status
          /\ ~raced => e.prev = history[e.n - 1]

\* Whom the event involves is subscribed, or will be.
Subscribing(q) ==
    Involved(q.event) \ q.left \subseteq subscribers \cup (IF q.at = "subscribe" THEN q.todo ELSE {})

\* A comment was told to its followers when the first notice is through.
Telling(q) ==
    q.event.kind = "comment" =>
        /\ q.at # "record" /\ (q.at = "subscribe" => q.k = 1)
        /\ (q.k > 1 \/ q.at = "deliver") =>
              \A u \in (q.event.before \ q.left) \ {q.event.actor} :
                  \/ [to |-> u, type |-> "new_comment", event |-> q.event.n] \in inbox
                  \/ q.at = "deliver" /\ q.k = 1 /\ u \in q.todo

\* The mentions of an update are its last notice.
NewNames(e) == history[e.n].named \ history[e.n - 1].named
ToBeTold(e) == (IF e.batch THEN {}
                ELSE IF Everyone \in NewNames(e) THEN User ELSE NewNames(e) \cap User) \ {e.actor}
MentionedIn(n) == {i.to : i \in {i \in inbox : i.event = n /\ i.type = "mentioned"}}
Mentioning(q) ==
    q.event.kind = "updated" /\ ~raced =>
        LET last == Len(Notices(q.event))
        IN  IF q.at \in {"subscribe", "record"} \/ q.k < last \/ (q.k = last /\ q.at = "address")
            THEN MentionedIn(q.event.n) = {}
            ELSE MentionedIn(q.event.n) \cup (IF q.at = "deliver" /\ q.k = last THEN q.todo ELSE {})
                    = ToBeTold(q.event)

\* The activities are written one after the other, before any notice.
LoggedFor(n) == {a \in activities : a.event = n}
Logging(q) ==
    q.event.kind = "updated" /\ ~raced =>
        \/ /\ q.at \in {"subscribe", "record"} /\ q.k = 1
           /\ LoggedFor(q.event.n) = {}
           /\ q.at = "record" => Records(q.event) # <<>>
        \/ /\ q.at \in {"address", "deliver"}
           /\ LoggedFor(q.event.n) = {Activity(q.event, f) : f \in {f \in Field : Changed(q.event, f)}}

Coursing(q) ==
    /\ EventIsTrue(q.event)
    /\ q.k \in Nat \ {0} /\ (q.at \in {"subscribe", "record"} => q.k = 1)
    /\ q.at = "deliver" => q.k <= Len(Notices(q.event))
    /\ q.event.before \ q.left \subseteq following
    /\ Subscribing(q) /\ Telling(q) /\ Mentioning(q) /\ Logging(q)

\* A request about to write has the one field it was sent, and what it read.
Writing(e) ==
    /\ IsEvent(e) /\ e.kind = "updated" /\ \E f \in Field : e.fields = {f}
    /\ history # <<>>

RequestsRun ==
    \A r \in Request :
        /\ IsRequest(req[r])
        /\ req[r].at \in {"idle", "write"} \/ Listens(req[r])
        /\ req[r].at = "write" => Writing(req[r].event)
        /\ Listens(req[r]) => Coursing(req[r])

\* Every event has a number of its own, which its items and activities bear.
NumbersInv ==
    /\ \A i \in inbox : i.event \in 1 .. Len(history)
    /\ \A a \in activities : a.event \in 1 .. Len(history)
    /\ \A e \in settled : /\ e.n \in 1 .. Len(history)
                          /\ e.kind = "updated" => e.n > 1
    /\ \A r \in Request : Listens(req[r]) =>
          /\ \A s \in Request \ {r} : Listens(req[s]) => req[s].event.n # req[r].event.n
          /\ \A e \in settled : e.n # req[r].event.n

IssueType ==
    /\ DOMAIN req = Request
    /\ history \in Seq({history[n] : n \in DOMAIN history})
    /\ following \subseteq subscribers \cap User
    /\ creator # None <=> history # <<>>
    /\ history # <<>> => issue = history[Len(history)]

InboxInv == IssueType /\ RequestsRun /\ NumbersInv /\ IssueIsTold

LEMMA OnwardIs ==
    ASSUME NEW q, IsRequest(q)
    PROVE  /\ IsRequest(Onward(q)) /\ Onward(q).event = q.event
           /\ Onward(q).todo = q.todo /\ Onward(q).left = q.left
           /\ \/ /\ q.at = "subscribe" /\ q.todo = {} /\ Onward(q).k = q.k
                 /\ Onward(q).at = IF Records(q.event) = <<>> THEN "address" ELSE "record"
              \/ /\ q.at = "record" /\ q.k > Len(Records(q.event))
                 /\ Onward(q).at = "address" /\ Onward(q).k = 1
              \/ /\ q.at = "deliver" /\ q.todo = {}
                 /\ Onward(q).at = "address" /\ Onward(q).k = q.k + 1
              \/ /\ ~(q.at = "subscribe" /\ q.todo = {})
                 /\ ~(q.at = "record" /\ q.k > Len(Records(q.event)))
                 /\ ~(q.at = "deliver" /\ q.todo = {})
                 /\ Onward(q).at = q.at /\ Onward(q).k = q.k
<1> DEFINE recording == IF Records(q.event) = <<>> THEN "address" ELSE "record"
<1>1. CASE q.at = "subscribe" /\ q.todo = {}
  <2>1. Onward(q) = [q EXCEPT !.at = recording]
    BY <1>1 DEF Onward
  <2> QED BY <1>1, <2>1 DEF IsRequest
<1>2. CASE q.at = "record" /\ q.k > Len(Records(q.event))
  <2>1. Onward(q) = [q EXCEPT !.at = "address", !.k = 1]
    BY <1>2 DEF Onward
  <2> QED BY <1>2, <2>1 DEF IsRequest
<1>3. CASE q.at = "deliver" /\ q.todo = {}
  <2>1. Onward(q) = [q EXCEPT !.at = "address", !.k = @ + 1]
    BY <1>3 DEF Onward
  <2> QED BY <1>3, <2>1 DEF IsRequest
<1>4. CASE /\ ~(q.at = "subscribe" /\ q.todo = {})
           /\ ~(q.at = "record" /\ q.k > Len(Records(q.event)))
           /\ ~(q.at = "deliver" /\ q.todo = {})
  <2>1. Onward(q) = q
    BY <1>4 DEF Onward
  <2> QED BY <1>4, <2>1
<1> QED BY <1>1, <1>2, <1>3, <1>4

\* Joining short sequences.
LEMMA Joined ==
    ASSUME NEW S, NEW a \in S
    PROVE  /\ \A s \in Seq(S) : s \o <<>> = s /\ <<>> \o s = s
           /\ \A b \in S : <<b>> \o <<a>> = <<b, a>>
           /\ \A b \in S, c \in S, d \in S : ((<<b>> \o <<c>>) \o <<d>>) \o <<a>> = <<b, c, d, a>>
<1>1. \A s \in Seq(S) : s \o <<>> = s /\ <<>> \o s = s
  BY ConcatEmptySeq
<1>2. \A b \in S : <<b>> \o <<a>> = <<b, a>>
  <2> SUFFICES ASSUME NEW b \in S PROVE <<b>> \o <<a>> = <<b, a>>
    OBVIOUS
  <2>1. /\ <<b>> \o <<a>> \in Seq(S) /\ <<b, a>> \in Seq(S)
        /\ Len(<<b>> \o <<a>>) = 2 /\ Len(<<b, a>>) = 2
    OBVIOUS
  <2>2. \A i \in 1 .. 2 : (<<b>> \o <<a>>)[i] = <<b, a>>[i]
    OBVIOUS
  <2> QED BY <2>1, <2>2, SeqEqual
<1>3. \A b \in S, c \in S, d \in S : ((<<b>> \o <<c>>) \o <<d>>) \o <<a>> = <<b, c, d, a>>
  <2> SUFFICES ASSUME NEW b \in S, NEW c \in S, NEW d \in S
               PROVE  ((<<b>> \o <<c>>) \o <<d>>) \o <<a>> = <<b, c, d, a>>
    OBVIOUS
  <2>1. /\ ((<<b>> \o <<c>>) \o <<d>>) \o <<a>> \in Seq(S) /\ <<b, c, d, a>> \in Seq(S)
        /\ Len(((<<b>> \o <<c>>) \o <<d>>) \o <<a>>) = 4 /\ Len(<<b, c, d, a>>) = 4
    OBVIOUS
  <2>2. \A i \in 1 .. 4 : (((<<b>> \o <<c>>) \o <<d>>) \o <<a>>)[i] = <<b, c, d, a>>[i]
    OBVIOUS
  <2> QED BY <2>1, <2>2, SeqEqual
<1> QED BY <1>1, <1>2, <1>3

\* An update of one field.
LEMMA RecordsAre ==
    ASSUME NEW e, e.kind = "updated", NEW f \in Field, e.fields = {f}
    PROVE  /\ Records(e) = IF Changed(e, f) THEN <<f>> ELSE <<>>
           /\ {g \in Field : Changed(e, g)} = IF Changed(e, f) THEN {f} ELSE {}
           /\ f = "named" => (Changed(e, f) <=> ~e.batch)
           /\ f # "named" =>
                 (Changed(e, f) <=> e.new[f] # e.prev[f] /\ (f = "assignee" => e.new[f] # None))
<1>1. \A g : Changed(e, g) => g = f
  BY DEF Changed
<1>2. /\ f = "named" => (Changed(e, f) <=> ~e.batch)
      /\ f # "named" =>
            (Changed(e, f) <=> e.new[f] # e.prev[f] /\ (f = "assignee" => e.new[f] # None))
  BY DEF Changed
<1>3. CASE Changed(e, f)
  <2>1. <<f>> \in Seq(Field) /\ <<>> \in Seq(Field)
    OBVIOUS
  <2>2. \A s \in Seq(Field) : s \o <<>> = s /\ <<>> \o s = s
    BY Joined
  <2>3. Records(e) = (IF f = "status" THEN <<f>> ELSE <<>>) \o (IF f = "assignee" THEN <<f>> ELSE <<>>)
                       \o (IF f = "named" THEN <<f>> ELSE <<>>)
    <3>1. /\ Changed(e, "status") <=> f = "status"
          /\ Changed(e, "assignee") <=> f = "assignee"
          /\ Changed(e, "named") <=> f = "named"
      BY <1>1, <1>3
    <3> QED BY <3>1 DEF Records
  <2>6. Records(e) = <<f>>
    <3>1. CASE f = "status"
      BY <2>1, <2>2, <2>3, <3>1
    <3>2. CASE f = "assignee"
      BY <2>1, <2>2, <2>3, <3>2
    <3>3. CASE f = "named"
      BY <2>1, <2>2, <2>3, <3>3
    <3> QED BY <3>1, <3>2, <3>3 DEF Field
  <2> QED BY <1>1, <1>2, <1>3, <2>6
<1>4. CASE ~Changed(e, f)
  <2>1. \A g : ~Changed(e, g)
    BY <1>1, <1>4
  <2> QED BY <1>2, <1>4, <2>1 DEF Records
<1> QED BY <1>3, <1>4

Mention(names) ==
    [type |-> "mentioned", skip |-> {}, watchers |-> FALSE,
     to |-> IF Everyone \in names THEN User ELSE names \cap User]

LEMMA NoticesOfComment ==
    ASSUME NEW e, e.kind = "comment"
    PROVE  /\ Len(Notices(e)) = 2
           /\ Notices(e)[1] = [type |-> "new_comment", to |-> {}, skip |-> {}, watchers |-> TRUE]
  BY DEF Notices, CommentNotices, Watchers, Mentioned

LEMMA NoticesOfUpdate ==
    ASSUME NEW e, e.kind = "updated", NEW f \in Field, e.fields = {f}
    PROVE  /\ Len(Notices(e)) \in {1, 2, 4}
           /\ Notices(e)[Len(Notices(e))] = Mention(NewlyNamed(e))
           /\ \A k \in 1 .. Len(Notices(e)) - 1 : Notices(e)[k].type # "mentioned"
<1>1. \A g : Changed(e, g) => g = f
  BY DEF Changed
<1> DEFINE a == [type |-> "issue_assigned", to |-> {e.new.assignee}, skip |-> {}, watchers |-> FALSE]
           b == [type |-> "unassigned", to |-> {Carried(e).assignee} \cap User, skip |-> {}, watchers |-> FALSE]
           c == [type |-> "assignee_changed", to |-> {}, skip |-> {Carried(e).assignee, e.new.assignee},
                 watchers |-> TRUE]
           s == [type |-> "status_changed", to |-> {}, skip |-> {}, watchers |-> TRUE]
           m == Mention(NewlyNamed(e))
           N == {a, b, c, s, m}
<1>2. /\ Mentioned(NewlyNamed(e), {}) = <<m>>
      /\ Direct("issue_assigned", {e.new.assignee}) = <<a>>
      /\ Direct("unassigned", {Carried(e).assignee} \cap User) = <<b>>
      /\ Watchers("assignee_changed", {Carried(e).assignee, e.new.assignee}) = <<c>>
      /\ Watchers("status_changed", {}) = <<s>>
  BY DEF Mentioned, Mention, Direct, Watchers
<1>3. a.type # "mentioned" /\ b.type # "mentioned" /\ c.type # "mentioned" /\ s.type # "mentioned"
  OBVIOUS
<1>4. Notices(e) = UpdatedNotices(e)
  BY DEF Notices
<1>5. a \in N /\ b \in N /\ c \in N /\ s \in N /\ m \in N
  OBVIOUS
<1> HIDE DEF a, b, c, s, m, N
<1>6. /\ \A t \in Seq(N) : t \o <<>> = t /\ <<>> \o t = t
      /\ <<s>> \o <<m>> = <<s, m>>
      /\ ((<<a>> \o <<b>>) \o <<c>>) \o <<m>> = <<a, b, c, m>>
  <2>1. /\ \A t \in Seq(N) : t \o <<>> = t /\ <<>> \o t = t
        /\ \A y \in N : <<y>> \o <<m>> = <<y, m>>
        /\ \A y \in N, z \in N, w \in N : ((<<y>> \o <<z>>) \o <<w>>) \o <<m>> = <<y, z, w, m>>
    BY ONLY <1>5, Joined, Zenon
  <2> QED BY ONLY <1>5, <2>1
<1>7. <<m>> \in Seq(N) /\ ((<<a>> \o <<b>>) \o <<c>>) \in Seq(N) /\ <<s>> \in Seq(N) /\ <<>> \in Seq(N)
  BY <1>5
<1>8. CASE Changed(e, "assignee")
  <2>1. ~Changed(e, "status")
    BY <1>1, <1>8
  <2>2. UpdatedNotices(e) = ((<<a>> \o <<b>>) \o <<c>> \o <<>>) \o <<m>>
    BY <1>2, <1>8, <2>1 DEF UpdatedNotices
  <2>3. Notices(e) = <<a, b, c, m>>
    BY <1>4, <1>6, <1>7, <2>2
  <2> QED BY <1>3, <2>3 DEF m
<1>9. CASE Changed(e, "status")
  <2>1. ~Changed(e, "assignee")
    BY <1>1, <1>9
  <2>2. UpdatedNotices(e) = (<<>> \o <<s>>) \o <<m>>
    BY <1>2, <1>9, <2>1 DEF UpdatedNotices
  <2>3. Notices(e) = <<s, m>>
    BY <1>4, <1>6, <1>7, <2>2
  <2> QED BY <1>3, <2>3 DEF m
<1>10. CASE ~Changed(e, "assignee") /\ ~Changed(e, "status")
  <2>1. UpdatedNotices(e) = (<<>> \o <<>>) \o <<m>>
    BY <1>2, <1>10 DEF UpdatedNotices
  <2>2. Notices(e) = <<m>>
    BY <1>4, <1>6, <1>7, <2>1
  <2> QED BY <1>3, <2>2 DEF m
<1> QED BY <1>8, <1>9, <1>10

-----------------------------------------------------------------------------
\* What a step of one event leaves of the others.
Elsewhere(n) ==
    /\ history \in Seq({history[m] : m \in DOMAIN history})
    /\ Len(history') \in Nat /\ Len(history) <= Len(history')
    /\ \A m \in 1 .. Len(history) : history'[m] = history[m]
    /\ raced => raced'
    /\ history # <<>> => creator' = creator
    /\ \A m \in (1 .. Len(history)) \ {n} :
          /\ {i \in inbox' : i.event = m} = {i \in inbox : i.event = m}
          /\ {a \in activities' : a.event = m} = {a \in activities : a.event = m}

\* The listeners of another request go on as they were.
LEMMA OthersCourse ==
    ASSUME NEW n, Elsewhere(n), NEW q, NEW q2, Coursing(q), q.event.n # n,
           q2.at = q.at, q2.event = q.event, q2.k = q.k, q2.todo = q.todo, q.left \subseteq q2.left,
           following \ q2.left \subseteq following', subscribers \ q2.left \subseteq subscribers'
    PROVE  Coursing(q2)'
<1> DEFINE e == q.event
<1>1. e.n \in 1 .. Len(history) /\ e.n \in 1 .. Len(history') /\ Len(history) \in Nat
  BY DEF Coursing, EventIsTrue, Elsewhere
<1>2. /\ history'[e.n] = history[e.n]
      /\ e.n > 1 => history'[e.n - 1] = history[e.n - 1]
      /\ raced => raced'
      /\ creator' = creator
  BY <1>1 DEF Elsewhere
<1>3. /\ {i \in inbox' : i.event = e.n} = {i \in inbox : i.event = e.n}
      /\ {a \in activities' : a.event = e.n} = {a \in activities : a.event = e.n}
  BY <1>1 DEF Elsewhere
<1>4. EventIsTrue(e)'
  BY <1>1, <1>2 DEF Coursing, EventIsTrue
<1>5. Involved(e)' = Involved(e)
  BY <1>1, <1>2 DEF Involved, Before, Coursing, EventIsTrue
<1>6. Subscribing(q2)'
  BY <1>5 DEF Coursing, Subscribing
<1>7. Telling(q2)'
  <2>1. \A u, t : [to |-> u, type |-> t, event |-> e.n] \in inbox =>
                  [to |-> u, type |-> t, event |-> e.n] \in inbox'
    BY <1>3
  <2> QED BY <2>1 DEF Coursing, Telling
<1>8. Mentioning(q2)'
  <2>1. MentionedIn(e.n)' = MentionedIn(e.n)
    <3>1. \A i : i \in inbox' /\ i.event = e.n <=> i \in inbox /\ i.event = e.n
      BY <1>3
    <3> QED BY <3>1 DEF MentionedIn
  <2>2. e.kind = "updated" => ToBeTold(e)' = ToBeTold(e)
    BY <1>2 DEF ToBeTold, NewNames, Coursing, EventIsTrue
  <2> QED BY <1>2, <2>1, <2>2 DEF Coursing, Mentioning
<1>9. Logging(q2)'
  <2>1. LoggedFor(e.n)' = LoggedFor(e.n)
    BY <1>3 DEF LoggedFor
  <2> QED BY <1>2, <2>1 DEF Coursing, Logging
<1> QED BY <1>4, <1>6, <1>7, <1>8, <1>9 DEF Coursing

\* What was told of an event that is settled stays as it is.
LEMMA SettledStays ==
    ASSUME NEW n, Elsewhere(n), IssueIsTold, NumbersInv, UNCHANGED settled,
           \A e \in settled : e.n # n
    PROVE  IssueIsTold'
<1>1. \A e \in settled :
         /\ e.n \in (1 .. Len(history)) \ {n}
         /\ e.kind = "updated" => e.n - 1 \in 1 .. Len(history)
  BY DEF NumbersInv, Elsewhere
<1>2. \A e \in settled :
         /\ \A i : i \in inbox' /\ i.event = e.n <=> i \in inbox /\ i.event = e.n
         /\ \A a : a \in activities' /\ a.event = e.n <=> a \in activities /\ a.event = e.n
  <2> SUFFICES ASSUME NEW e \in settled
               PROVE  /\ \A i : i \in inbox' /\ i.event = e.n <=> i \in inbox /\ i.event = e.n
                      /\ \A a : a \in activities' /\ a.event = e.n
                                  <=> a \in activities /\ a.event = e.n
    OBVIOUS
  <2>1. /\ {i \in inbox' : i.event = e.n} = {i \in inbox : i.event = e.n}
        /\ {a \in activities' : a.event = e.n} = {a \in activities : a.event = e.n}
    BY <1>1 DEF Elsewhere
  <2> QED BY <2>1
<1>3. FollowersAreTold'
  BY <1>2 DEF IssueIsTold, FollowersAreTold
<1>4. MentionsToldOnce'
  <2> SUFFICES ASSUME ~raced', NEW e \in settled, e.kind = "updated"
               PROVE  LET new == history'[e.n].named \ history'[e.n - 1].named
                          to == IF e.batch THEN {} ELSE IF Everyone \in new THEN User ELSE new \cap User
                      IN  {i.to : i \in {i \in inbox' : i.event = e.n /\ i.type = "mentioned"}}
                            = to \ {e.actor}
    BY DEF MentionsToldOnce
  <2>1. history'[e.n] = history[e.n] /\ history'[e.n - 1] = history[e.n - 1] /\ ~raced
    BY <1>1 DEF Elsewhere
  <2>2. {i \in inbox' : i.event = e.n /\ i.type = "mentioned"}
            = {i \in inbox : i.event = e.n /\ i.type = "mentioned"}
    BY <1>2
  <2> QED BY <2>1, <2>2 DEF IssueIsTold, MentionsToldOnce
<1>5. LogReplays'
  <2> SUFFICES ASSUME ~raced', NEW e \in settled, e.kind = "updated", NEW f \in {"assignee", "status"}
               PROVE  LET was == history'[e.n - 1][f]  is == history'[e.n][f]
                          logged == was # is /\ (f = "assignee" => is # None)
                      IN  {[from |-> a.from, to |-> a.to] :
                              a \in {a \in activities' : a.event = e.n /\ a.action = f}}
                            = IF logged THEN {[from |-> IF e.batch THEN None ELSE was, to |-> is]}
                              ELSE {}
    BY DEF LogReplays
  <2>1. history'[e.n] = history[e.n] /\ history'[e.n - 1] = history[e.n - 1] /\ ~raced
    BY <1>1 DEF Elsewhere
  <2>2. {a \in activities' : a.event = e.n /\ a.action = f}
            = {a \in activities : a.event = e.n /\ a.action = f}
    BY <1>2
  <2> QED BY <2>1, <2>2 DEF IssueIsTold, LogReplays
<1> QED BY <1>3, <1>4, <1>5 DEF IssueIsTold

\* A listener that makes way leaves the request in order.
LEMMA OnwardCourses ==
    ASSUME NEW q, IsRequest(q), Listens(q), Coursing(q)'
    PROVE  Coursing(Onward(q))' /\ Listens(Onward(q)) /\ IsRequest(Onward(q))
<1> PICK p : p = Onward(q)
  OBVIOUS
<1> DEFINE e == q.event
<1>1. /\ IsRequest(p) /\ p.event = e /\ p.todo = q.todo /\ p.left = q.left
      /\ \/ /\ q.at = "subscribe" /\ q.todo = {} /\ p.k = q.k
            /\ p.at = IF Records(e) = <<>> THEN "address" ELSE "record"
         \/ /\ q.at = "record" /\ q.k > Len(Records(e))
            /\ p.at = "address" /\ p.k = 1
         \/ /\ q.at = "deliver" /\ q.todo = {}
            /\ p.at = "address" /\ p.k = q.k + 1
         \/ /\ ~(q.at = "subscribe" /\ q.todo = {})
            /\ ~(q.at = "record" /\ q.k > Len(Records(e)))
            /\ ~(q.at = "deliver" /\ q.todo = {})
            /\ p.at = q.at /\ p.k = q.k
  BY OnwardIs
<1>2. Listens(p)
  BY <1>1 DEF Listens
<1>3. /\ p.k \in Nat \ {0} /\ (p.at \in {"subscribe", "record"} => p.k = 1)
      /\ p.at = "deliver" => p.k <= Len(Notices(e))
  BY <1>1 DEF Coursing, Listens
<1>4. EventIsTrue(e)' /\ e.before \ p.left \subseteq following' /\ Subscribing(p)'
  BY <1>1 DEF Coursing, Subscribing
<1>5. Telling(p)'
  <2> SUFFICES ASSUME e.kind = "comment" PROVE Telling(p)'
    BY <1>1 DEF Telling
  <2>1. Records(e) = <<>>
    BY DEF Records
  <2>2. Telling(q)' /\ (q.at \in {"subscribe", "record"} => q.k = 1)
    BY DEF Coursing
  <2> QED BY <1>1, <2>1, <2>2 DEF Telling
<1>6. CASE e.kind = "updated" /\ ~raced'
  <2>1. Mentioning(q)' /\ Logging(q)' /\ EventIsTrue(e)' /\ q.k \in Nat \ {0}
        /\ (q.at \in {"subscribe", "record"} => q.k = 1)
        /\ (q.at = "deliver" => q.k <= Len(Notices(e)))
    BY DEF Coursing
  <2>2. PICK f \in Field : e.fields = {f}
    BY <1>6, <2>1 DEF EventIsTrue
  <2>3. Len(Notices(e)) \in {1, 2, 4}
    BY <1>6, <2>2, NoticesOfUpdate
  <2>4. /\ Records(e) = IF Changed(e, f) THEN <<f>> ELSE <<>>
        /\ {g \in Field : Changed(e, g)} = IF Changed(e, f) THEN {f} ELSE {}
    BY <1>6, <2>2, RecordsAre
  <2>5. Mentioning(p)'
    <3> DEFINE last == Len(Notices(e))
               M == MentionedIn(e.n)'
               T == ToBeTold(e)'
    <3>1. IF q.at \in {"subscribe", "record"} \/ q.k < last \/ (q.k = last /\ q.at = "address")
          THEN M = {} ELSE M \cup (IF q.at = "deliver" /\ q.k = last THEN q.todo ELSE {}) = T
      BY <1>6, <2>1 DEF Mentioning
    <3>2. last \in {1, 2, 4}
      BY <2>3
    <3> HIDE DEF M, T, last
    <3>3. IF p.at \in {"subscribe", "record"} \/ p.k < last \/ (p.k = last /\ p.at = "address")
          THEN M = {} ELSE M \cup (IF p.at = "deliver" /\ p.k = last THEN p.todo ELSE {}) = T
      <4>1. /\ q.k \in Nat \ {0} /\ (q.at \in {"subscribe", "record"} => q.k = 1)
            /\ q.at = "deliver" => q.k <= last
        BY <2>1 DEF last
      <4>2. CASE q.at = "subscribe" /\ q.todo = {}
        BY <1>1, <3>1, <3>2, <4>1, <4>2
      <4>3. CASE q.at = "record" /\ q.k > Len(Records(e))
        BY <1>1, <3>1, <3>2, <4>1, <4>3
      <4>4. CASE q.at = "deliver" /\ q.todo = {}
        <5>1. p.at = "address" /\ p.k = q.k + 1
          BY <1>1, <4>4
        <5> QED BY <3>1, <3>2, <4>1, <4>4, <5>1
      <4>5. CASE /\ ~(q.at = "subscribe" /\ q.todo = {})
                 /\ ~(q.at = "record" /\ q.k > Len(Records(e)))
                 /\ ~(q.at = "deliver" /\ q.todo = {})
        <5>1. p.at = q.at /\ p.k = q.k /\ p.todo = q.todo
          BY <1>1, <4>5
        <5> QED BY <3>1, <3>2, <4>1, <5>1
      <4> QED BY <4>2, <4>3, <4>4, <4>5
    <3> QED BY <1>1, <3>3 DEF M, T, last, Mentioning
  <2>6. Logging(p)'
    <3> DEFINE L == LoggedFor(e.n)'
               A == {Activity(e, g) : g \in {g \in Field : Changed(e, g)}}
    <3>1. \/ /\ q.at \in {"subscribe", "record"} /\ q.k = 1 /\ L = {}
             /\ q.at = "record" => Records(e) # <<>>
          \/ q.at \in {"address", "deliver"} /\ L = A
      BY <1>6, <2>1 DEF Logging
    <3>2. Records(e) = <<>> => A = {}
      BY <2>4
    <3>3. Records(e) # <<>> => Len(Records(e)) = 1
      BY <2>4
    <3> HIDE DEF L, A
    <3>4. \/ /\ p.at \in {"subscribe", "record"} /\ p.k = 1 /\ L = {}
             /\ p.at = "record" => Records(e) # <<>>
          \/ p.at \in {"address", "deliver"} /\ L = A
      <4>1. q.k \in Nat \ {0} /\ (q.at \in {"subscribe", "record"} => q.k = 1)
        BY <2>1
      <4>2. CASE q.at = "subscribe" /\ q.todo = {}
        BY <1>1, <3>1, <3>2, <4>1, <4>2
      <4>3. CASE q.at = "record" /\ q.k > Len(Records(e))
        BY <1>1, <3>1, <3>3, <4>1, <4>3
      <4>4. CASE q.at = "deliver" /\ q.todo = {}
        BY <1>1, <3>1, <4>1, <4>4
      <4>5. CASE /\ ~(q.at = "subscribe" /\ q.todo = {})
                 /\ ~(q.at = "record" /\ q.k > Len(Records(e)))
                 /\ ~(q.at = "deliver" /\ q.todo = {})
        <5>1. p.at = q.at /\ p.k = q.k
          BY <1>1, <4>5
        <5> QED BY <3>1, <4>1, <5>1
      <4> QED BY <4>2, <4>3, <4>4, <4>5
    <3> QED BY <1>1, <3>4 DEF L, A, Logging
  <2> QED BY <1>1, <1>2, <1>3, <1>4, <1>5, <2>5, <2>6 DEF Coursing
<1>7. CASE ~(e.kind = "updated" /\ ~raced')
  <2>1. Mentioning(p)' /\ Logging(p)'
    BY <1>1, <1>7 DEF Mentioning, Logging
  <2> QED BY <1>1, <1>2, <1>3, <1>4, <1>5, <2>1 DEF Coursing
<1> QED BY <1>1, <1>2, <1>6, <1>7

\* One request goes from one place to another.
LEMMA RequestsGoOn ==
    ASSUME NEW n, Elsewhere(n), InboxInv,
           NEW r \in Request, NEW q, IsRequest(q), req' = [req EXCEPT ![r] = q],
           q.at \in {"idle", "write"} \/ Listens(q),
           q.at = "write" => Writing(q.event)',
           Listens(q) => Coursing(q)',
           \A s \in Request \ {r} : Listens(req[s]) => req[s].event.n # n,
           following \subseteq following', subscribers \subseteq subscribers'
    PROVE  RequestsRun'
<1> SUFFICES ASSUME NEW s \in Request
             PROVE  /\ IsRequest(req[s])'
                    /\ (req[s].at \in {"idle", "write"} \/ Listens(req[s]))'
                    /\ (req[s].at = "write" => Writing(req[s].event))'
                    /\ (Listens(req[s]) => Coursing(req[s]))'
  BY DEF RequestsRun
<1> SUFFICES ASSUME NEW p, p = req'[s]
             PROVE  /\ IsRequest(p)
                    /\ p.at \in {"idle", "write"} \/ Listens(p)
                    /\ p.at = "write" => Writing(p.event)'
                    /\ Listens(p) => Coursing(p)'
  BY Zenon DEF IsRequest, Listens
<1>1. CASE s = r
  <2>1. p = q
    BY <1>1 DEF InboxInv, IssueType
  <2> QED BY <2>1
<1>2. CASE s # r
  <2>2. p = req[s]
    BY <1>2 DEF InboxInv, IssueType
  <2>3. /\ IsRequest(p)
        /\ p.at \in {"idle", "write"} \/ Listens(p)
        /\ p.at = "write" => Writing(p.event)
        /\ Listens(p) => Coursing(p)
    BY <2>2 DEF InboxInv, RequestsRun
  <2>4. Writing(p.event) => Writing(p.event)'
    <3>1. history # <<>> => history' # <<>>
      BY DEF Elsewhere
    <3> QED BY <3>1 DEF Writing
  <2>5. Listens(p) => Coursing(p)'
    <3> SUFFICES ASSUME Listens(p) PROVE Coursing(p)'
      OBVIOUS
    <3>1. Coursing(p) /\ p.event.n # n
      BY <1>2, <2>2, <2>3
    <3>2. following \ p.left \subseteq following' /\ subscribers \ p.left \subseteq subscribers'
      OBVIOUS
    <3> QED BY <3>1, <3>2, OthersCourse
  <2> QED BY <2>3, <2>4, <2>5
<1> QED BY <1>1, <1>2

\* A step of a request that settles nothing.
LEMMA StepKeeps ==
    ASSUME NEW n, Elsewhere(n), InboxInv,
           NEW r \in Request, NEW q, IsRequest(q), req' = [req EXCEPT ![r] = q],
           q.at \in {"idle", "write"} \/ Listens(q),
           q.at = "write" => Writing(q.event)',
           Listens(q) => Coursing(q)' /\ q.event.n = n,
           \A s \in Request \ {r} : Listens(req[s]) => req[s].event.n # n,
           \A e \in settled : e.n # n,
           UNCHANGED <<settled, following>>, subscribers \subseteq subscribers',
           \A i \in inbox' \ inbox : i.event \in 1 .. Len(history'),
           \A a \in activities' \ activities : a.event \in 1 .. Len(history'),
           history' \in Seq({history'[m] : m \in DOMAIN history'}),
           creator' # None <=> history' # <<>>,
           history' # <<>> => issue' = history'[Len(history')]
    PROVE  InboxInv'
<1>1. RequestsRun'
  BY RequestsGoOn
<1>2. IssueType'
  BY DEF InboxInv, IssueType
<1>3. IssueIsTold'
  BY SettledStays DEF InboxInv
<1>4. NumbersInv'
  <2>1. /\ \A s \in Request \ {r} : req'[s] = req[s]
        /\ req'[r] = q
    BY DEF InboxInv, IssueType
  <2>2. \A m \in 1 .. Len(history) : m \in 1 .. Len(history')
    BY DEF Elsewhere
  <2>3. /\ \A i \in inbox' : i.event \in 1 .. Len(history')
        /\ \A a \in activities' : a.event \in 1 .. Len(history')
        /\ \A e \in settled' : /\ e.n \in 1 .. Len(history')
                               /\ e.kind = "updated" => e.n > 1
    BY <2>2 DEF InboxInv, NumbersInv
  <2>4. ASSUME NEW t \in Request, Listens(req'[t])
        PROVE  /\ \A s \in Request \ {t} : Listens(req'[s]) => req'[s].event.n # req'[t].event.n
               /\ \A e \in settled' : e.n # req'[t].event.n
    <3>1. CASE t = r
      BY <2>1, <2>4, <3>1
    <3>2. CASE t # r
      <4>1. Listens(req[t]) /\ req'[t] = req[t] /\ req[t].event.n # n
        BY <2>1, <2>4, <3>2
      <4>2. /\ \A s \in Request \ {t} : Listens(req[s]) => req[s].event.n # req[t].event.n
            /\ \A e \in settled : e.n # req[t].event.n
        BY <4>1 DEF InboxInv, NumbersInv
      <4>3. ASSUME NEW s \in Request \ {t}, Listens(req'[s])
            PROVE  req'[s].event.n # req'[t].event.n
        BY <2>1, <4>1, <4>2, <4>3
      <4> QED BY <4>1, <4>2, <4>3
    <3> QED BY <3>1, <3>2
  <2> QED BY <2>3, <2>4 DEF NumbersInv, Listens
<1> QED BY <1>1, <1>2, <1>3, <1>4 DEF InboxInv

-----------------------------------------------------------------------------
\* A sequence goes on with one more element.
LEMMA Appended ==
    ASSUME NEW s, NEW x, s \in Seq({s[n] : n \in DOMAIN s})
    PROVE  /\ Append(s, x) \in Seq({Append(s, x)[n] : n \in DOMAIN Append(s, x)})
           /\ Len(s) \in Nat /\ Len(Append(s, x)) = Len(s) + 1
           /\ \A n \in 1 .. Len(s) : Append(s, x)[n] = s[n]
           /\ Append(s, x)[Len(s) + 1] = x
           /\ Append(s, x) # <<>>
           /\ s # <<>> <=> Len(s) > 0
<1> DEFINE S == {s[n] : n \in DOMAIN s}
           t == Append(s, x)
<1>1. s \in Seq(S \cup {x}) /\ x \in S \cup {x}
  BY SeqMonotonic
<1>2. /\ t \in Seq(S \cup {x}) /\ Len(s) \in Nat /\ Len(t) = Len(s) + 1
      /\ \A n \in 1 .. Len(s) : t[n] = s[n]
      /\ t[Len(s) + 1] = x
  BY <1>1, AppendProperties
<1> HIDE DEF t, S
<1>3. /\ DOMAIN t = 1 .. Len(t) /\ Len(t) \in Nat /\ t \in [1 .. Len(t) -> S \cup {x}]
  <2> DEFINE T == S \cup {x}
  <2>1. t \in Seq(T)
    BY <1>2
  <2> HIDE DEF T
  <2>2. /\ DOMAIN t = 1 .. Len(t) /\ Len(t) \in Nat /\ t \in [1 .. Len(t) -> T]
    BY <2>1, LenProperties
  <2> QED BY <2>2 DEF T
<1>4. t # <<>> /\ (s # <<>> <=> Len(s) > 0)
  BY <1>1, <1>2, EmptySeq
<1>5. t \in Seq({t[n] : n \in DOMAIN t})
  <2> DEFINE T == {t[n] : n \in DOMAIN t}
  <2>1. t \in [1 .. Len(t) -> T]
    BY <1>3
  <2> HIDE DEF T
  <2>2. t \in Seq(T)
    BY <1>3, <2>1, SeqDef, SMTT(60)
  <2> QED BY <2>2 DEF T
<1> QED BY <1>2, <1>4, <1>5 DEF t

\* What a listener's step may do to the history: nothing.
LEMMA Within ==
    ASSUME InboxInv, NEW n, UNCHANGED <<history, creator, raced>>,
           \A i : i.event # n => (i \in inbox' <=> i \in inbox),
           \A a : a.event # n => (a \in activities' <=> a \in activities)
    PROVE  Elsewhere(n)
<1>1. Len(history) \in Nat
  BY DEF InboxInv, IssueType
<1> QED BY <1>1 DEF InboxInv, IssueType, Elsewhere

-----------------------------------------------------------------------------
\* A listener subscribes whomever the event involves.
LEMMA InvolvedAreSubscribed ==
    ASSUME NEW e, EventIsTrue(e)', e.kind # "created"
    PROVE  Involved(e)' \subseteq Subscribes(e) \cap Who
<1>1. CASE e.kind = "comment"
  BY <1>1 DEF Involved, Subscribes, Who
<1>2. CASE e.kind = "reaction"
  BY <1>2 DEF Involved
<1>3. CASE e.kind = "updated"
  <2>1. PICK f \in Field :
           /\ e.fields = {f}
           /\ f # "assignee" => history'[e.n].assignee = e.prev.assignee
           /\ f # "named" => history'[e.n].named = history'[e.n - 1].named
    BY <1>3 DEF EventIsTrue
  <2>2. e.n > 1 /\ e.new = history'[e.n]
    BY <1>3 DEF EventIsTrue
  <2>3. Involved(e)' = User \cap (({e.new.assignee} \ {history'[e.n - 1].assignee, e.prev.assignee})
                              \cup (IF e.batch THEN {}
                                    ELSE e.new.named \ (history'[e.n - 1].named \cup e.prev.named)))
    BY <1>3, <2>2 DEF Involved, Before
  <2>4. Subscribes(e) = (IF Changed(e, "assignee") THEN {e.new.assignee} ELSE {}) \cup NewlyNamed(e)
    BY <1>3 DEF Subscribes
  <2>5. ASSUME NEW u \in User, u = e.new.assignee, u # e.prev.assignee PROVE u \in Subscribes(e)
    <3>1. f = "assignee"
      BY <2>1, <2>2, <2>5
    <3>2. Changed(e, "assignee")
      BY <2>1, <2>5, <3>1, InboxAssumption DEF Changed
    <3> QED BY <2>4, <2>5, <3>2
  <2>6. ASSUME NEW u \in User, ~e.batch, u \in e.new.named, u \notin e.prev.named, u \notin history'[e.n - 1].named
        PROVE  u \in Subscribes(e)
    <3>1. f = "named"
      BY <2>1, <2>2, <2>6
    <3>2. Changed(e, "named")
      BY <2>1, <2>6, <3>1 DEF Changed
    <3> QED BY <2>4, <2>6, <3>2 DEF NewlyNamed
  <2> QED BY <2>3, <2>5, <2>6 DEF Who
<1> QED BY <1>1, <1>2, <1>3 DEF EventIsTrue

LEMMA PublishKeeps ==
    ASSUME InboxInv, NEW r \in Request, NEW e, NEW now, NEW full, Publish(r, e, now),
           req[r].at \in {"idle", "write"}, history # <<>>, issue' = now, raced => raced',
           UNCHANGED <<creator, subscribers, activities, inbox, settled, following>>,
           full = [e EXCEPT !.n = Len(history) + 1, !.before = following],
           full.before = following, full.n = Len(history) + 1,
           full.kind # "created", EventIsTrue(full)'
    PROVE  InboxInv'
<1> DEFINE n == Len(history) + 1
<1>1. history' = Append(history, now) /\ history \in Seq({history[m] : m \in DOMAIN history})
  BY DEF Publish, InboxInv, IssueType
<1>2. /\ history' \in Seq({history'[m] : m \in DOMAIN history'})
      /\ Len(history) \in Nat /\ Len(history') = n
      /\ \A m \in 1 .. Len(history) : history'[m] = history[m]
      /\ history'[n] = now /\ history' # <<>>
  BY <1>1, Appended
<1>3. Elsewhere(n)
  BY <1>1, <1>2 DEF Elsewhere
<1>4. /\ \A i \in inbox : i.event # n
      /\ \A a \in activities : a.event # n
      /\ \A x \in settled : x.n # n
  BY <1>2 DEF InboxInv, NumbersInv
<1>5. ASSUME NEW s \in Request, Listens(req[s]) PROVE req[s].event.n # n
  <2>1. PICK p : p = req[s]
    OBVIOUS
  <2>2. Listens(p) => Coursing(p)
    BY <2>1 DEF InboxInv, RequestsRun
  <2> QED BY <1>2, <1>5, <2>1, <2>2 DEF Coursing, EventIsTrue
<1> DEFINE q1 == [Idle EXCEPT !.at = "subscribe", !.event = full, !.todo = Subscribes(full) \cap Who]
<1>6. PICK q : q = q1
  OBVIOUS
<1>7. /\ IsRequest(q) /\ q.at = "subscribe" /\ q.event = full /\ q.k = 1
      /\ q.todo = Subscribes(full) \cap Who /\ q.left = {}
  BY <1>6 DEF Idle, IsRequest
<1>8. req' = [req EXCEPT ![r] = Onward(q)]
  BY <1>6 DEF Publish
<1> HIDE DEF q1
<1>9. Coursing(q)'
  <2>1. Subscribing(q)'
    <3>1. Involved(full)' \subseteq Subscribes(full) \cap Who
      BY InvolvedAreSubscribed
    <3>2. Involved(full)' \ q.left \subseteq subscribers' \cup q.todo
      BY <1>7, <3>1
    <3> QED BY <1>7, <3>2 DEF Subscribing
  <2>2. Telling(q)'
    BY <1>7 DEF Telling
  <2>3. Mentioning(q)'
    <3>1. MentionedIn(full.n)' = {}
      BY <1>4 DEF MentionedIn
    <3> QED BY <1>7, <3>1 DEF Mentioning
  <2>4. Logging(q)'
    <3>1. LoggedFor(full.n)' = {}
      BY <1>4 DEF LoggedFor
    <3> QED BY <1>7, <3>1 DEF Logging
  <2> QED BY <1>7, <2>1, <2>2, <2>3, <2>4 DEF Coursing
<1>10. Listens(q)
  BY <1>7 DEF Listens
<1>11. PICK p : p = Onward(q)
  OBVIOUS
<1>12. /\ Coursing(p)' /\ Listens(p) /\ IsRequest(p) /\ p.event.n = n
  BY <1>7, <1>9, <1>10, <1>11, OnwardCourses, OnwardIs
<1>13. p.at # "write"
  BY <1>12 DEF Listens
<1>14. creator' # None
  BY DEF InboxInv, IssueType
<1> QED BY <1>2, <1>3, <1>4, <1>5, <1>8, <1>11, <1>12, <1>13, <1>14, StepKeeps

-----------------------------------------------------------------------------
LEMMA CreatesAnIssue ==
    ASSUME InboxInv, NEW r \in Request, NEW actor \in Acting, NEW draft, CreateIssue(r, actor, draft)
    PROVE  InboxInv'
<1>1. history = <<>> /\ creator = None /\ Len(history) = 0
  BY DEF CreateIssue, InboxInv, IssueType
<1>2. /\ history' \in Seq({history'[m] : m \in DOMAIN history'})
      /\ Len(history') = 1 /\ history'[1] = draft /\ history' # <<>> /\ issue' = draft
      /\ history \in Seq({history[m] : m \in DOMAIN history})
  <2>1. history' = Append(history, draft) /\ history \in Seq({history[m] : m \in DOMAIN history})
    BY DEF CreateIssue, InboxInv, IssueType
  <2>2. Len(history) + 1 = 1
    BY <1>1
  <2> QED BY <1>1, <2>1, <2>2, Appended DEF CreateIssue
<1>3. inbox = {} /\ activities = {} /\ settled = {}
  BY <1>1 DEF InboxInv, NumbersInv
<1>4. ASSUME NEW s \in Request PROVE ~Listens(req[s])
  <2>1. PICK p : p = req[s]
    OBVIOUS
  <2>2. Listens(p) => Coursing(p)
    BY <2>1 DEF InboxInv, RequestsRun
  <2> QED BY <1>1, <2>1, <2>2 DEF Coursing, EventIsTrue
<1>5. Elsewhere(1)
  BY <1>1, <1>2, <1>3 DEF Elsewhere, CreateIssue
<1> DEFINE e0 == [NoEvent EXCEPT !.kind = "created", !.actor = actor, !.n = 1, !.new = draft]
<1>6. PICK e : e = e0
  OBVIOUS
<1>7. /\ IsEvent(e) /\ e.kind = "created" /\ e.actor = actor /\ e.n = 1 /\ e.new = draft
      /\ e.before = {}
  BY <1>6 DEF NoEvent, IsEvent
<1> DEFINE q0 == [Idle EXCEPT !.at = "subscribe", !.event = e,
                              !.todo = ({actor, draft.assignee} \cup draft.named) \cap Who]
<1>8. PICK q : q = q0
  OBVIOUS
<1>9. /\ IsRequest(q) /\ q.at = "subscribe" /\ q.event = e /\ q.k = 1 /\ q.left = {}
      /\ q.todo = ({actor, draft.assignee} \cup draft.named) \cap Who
  BY <1>8 DEF Idle, IsRequest
<1>10. req' = [req EXCEPT ![r] = q]
  BY <1>2, <1>6, <1>8 DEF CreateIssue
<1> HIDE DEF e0, q0
<1>11. Coursing(q)'
  <2>1. EventIsTrue(e)'
    BY <1>2, <1>7 DEF EventIsTrue, CreateIssue
  <2>2. Subscribing(q)'
    <3>1. Involved(e)' \subseteq q.todo
      BY <1>7, <1>9 DEF Involved, Who, CreateIssue
    <3>2. Involved(e)' \ q.left \subseteq subscribers' \cup q.todo
      BY <3>1
    <3> QED BY <1>9, <3>2 DEF Subscribing
  <2>3. Telling(q)' /\ Mentioning(q)' /\ Logging(q)'
    BY <1>7, <1>9 DEF Telling, Mentioning, Logging
  <2> QED BY <1>7, <1>9, <2>1, <2>2, <2>3 DEF Coursing
<1>12. Listens(q) /\ creator' # None
  BY <1>9, InboxAssumption DEF Listens, CreateIssue
<1>13. UNCHANGED <<subscribers, activities, inbox, settled, following>>
  BY DEF CreateIssue
<1>14. /\ q.at \in {"idle", "write"} \/ Listens(q)
       /\ q.at # "write" /\ q.event.n = 1
       /\ \A s \in Request \ {r} : Listens(req[s]) => req[s].event.n # 1
       /\ \A x \in settled : x.n # 1
       /\ UNCHANGED <<settled, following>> /\ subscribers \subseteq subscribers'
       /\ \A i \in inbox' \ inbox : i.event \in 1 .. Len(history')
       /\ \A a \in activities' \ activities : a.event \in 1 .. Len(history')
       /\ creator' # None <=> history' # <<>>
       /\ history' # <<>> => issue' = history'[Len(history')]
  BY <1>2, <1>3, <1>4, <1>7, <1>9, <1>12, <1>13
<1> QED BY <1>2, <1>5, <1>9, <1>10, <1>11, <1>14, StepKeeps

LEMMA LoadsTheIssue ==
    ASSUME InboxInv, NEW r \in Request, NEW p \in Patch, LoadIssue(r, p)
    PROVE  InboxInv'
<1> DEFINE e0 == [NoEvent EXCEPT !.kind = "updated", !.actor = p.by, !.fields = {p.field},
                                 !.batch = p.batch, !.new[p.field] = p.value, !.prev = issue]
           q0 == [Idle EXCEPT !.at = "write", !.event = e0]
<1>1. PICK e : e = e0
  OBVIOUS
<1>2. IsEvent(e) /\ e.kind = "updated" /\ e.fields = {p.field} /\ p.field \in Field
  BY <1>1, InboxAssumption DEF NoEvent, IsEvent, Field
<1>3. PICK q : q = q0
  OBVIOUS
<1>4. IsRequest(q) /\ q.at = "write" /\ q.event = e
  BY <1>1, <1>3 DEF Idle, IsRequest
<1>5. req' = [req EXCEPT ![r] = q]
  BY <1>3 DEF LoadIssue
<1> HIDE DEF e0, q0
<1>6. UNCHANGED <<issue, creator, subscribers, activities, inbox, history, settled, following, raced>>
  BY DEF LoadIssue, ghosts
<1>7. history # <<>>
  BY DEF LoadIssue, InboxInv, IssueType
<1>8. Elsewhere(0)
  BY <1>6, Within
<1>9. Writing(e)' /\ ~Listens(q)
  BY <1>2, <1>4, <1>6, <1>7 DEF Writing, Listens
<1>10. ASSUME NEW s \in Request, Listens(req[s]) PROVE req[s].event.n # 0
  <2>1. PICK x : x = req[s]
    OBVIOUS
  <2>2. Coursing(x)
    BY <1>10, <2>1 DEF InboxInv, RequestsRun
  <2> QED BY <2>1, <2>2 DEF Coursing, EventIsTrue
<1>11. \A x \in settled : x.n # 0
  BY DEF InboxInv, NumbersInv
<1>12. /\ history' \in Seq({history'[m] : m \in DOMAIN history'})
       /\ creator' # None <=> history' # <<>>
       /\ history' # <<>> => issue' = history'[Len(history')]
  BY <1>6 DEF InboxInv, IssueType
<1> QED BY <1>4, <1>5, <1>6, <1>8, <1>9, <1>10, <1>11, <1>12, StepKeeps

LEMMA UpdatesTheIssue ==
    ASSUME InboxInv, NEW r \in Request, UpdateIssue(r)
    PROVE  InboxInv'
<1>1. PICK q : q = req[r]
  OBVIOUS
<1>2. PICK w : w = q.event
  OBVIOUS
<1>3. q.at = "write" /\ Writing(w)
  BY <1>1, <1>2 DEF UpdateIssue, InboxInv, RequestsRun
<1>4. PICK f \in Field : w.fields = {f}
  BY <1>3 DEF Writing
<1>5. IsEvent(w) /\ w.kind = "updated" /\ history # <<>>
  BY <1>3 DEF Writing
<1>6. PICK now : now = Merged(w)
  OBVIOUS
<1>7. /\ f # "assignee" => now.assignee = w.prev.assignee
      /\ f # "named" => now.named = issue.named
      /\ f # "status" => now.status = issue.status
  BY <1>4, <1>6 DEF Merged
<1>8. PICK e : e = [w EXCEPT !.new = now]
  OBVIOUS
<1>9. IsEvent(e) /\ e.kind = "updated" /\ e.fields = {f} /\ e.prev = w.prev /\ e.new = now
  BY <1>4, <1>5, <1>8 DEF IsEvent
<1>10. PICK full : full = [e EXCEPT !.n = Len(history) + 1, !.before = following]
  OBVIOUS
<1>11. /\ IsEvent(full) /\ full.kind = "updated" /\ full.fields = {f} /\ full.prev = w.prev
       /\ full.new = now /\ full.n = Len(history) + 1 /\ full.before = following
  BY <1>9, <1>10 DEF IsEvent
<1>12. /\ Publish(r, e, now) /\ issue' = now /\ raced' = (raced \/ issue # w.prev)
       /\ UNCHANGED <<creator, subscribers, activities, inbox, settled, following>>
  BY <1>1, <1>2, <1>6, <1>8 DEF UpdateIssue
<1>13. /\ Len(history) \in Nat /\ Len(history) > 0 /\ issue = history[Len(history)]
       /\ Len(history') = Len(history) + 1
       /\ history'[Len(history) + 1] = now /\ history'[Len(history)] = history[Len(history)]
  BY <1>5, <1>12, Appended DEF Publish, InboxInv, IssueType
<1>14. EventIsTrue(full)'
  <2>1. full.n \in 1 .. Len(history') /\ full.n > 1 /\ full.n - 1 = Len(history)
    BY <1>11, <1>13
  <2>2. full.new = history'[full.n] /\ history'[full.n - 1] = issue
    BY <1>11, <1>13, <2>1
  <2>3. ~raced' => full.prev = history'[full.n - 1]
    BY <1>11, <1>12, <2>2
  <2>4. /\ f # "assignee" => history'[full.n].assignee = full.prev.assignee
        /\ f # "named" => history'[full.n].named = history'[full.n - 1].named
        /\ f # "status" => history'[full.n].status = history'[full.n - 1].status
    BY <1>7, <1>11, <2>2
  <2> QED BY <1>11, <2>1, <2>2, <2>3, <2>4 DEF EventIsTrue
<1>15. raced => raced'
  BY <1>12
<1>16. req[r].at \in {"idle", "write"} /\ full.kind # "created"
  BY <1>1, <1>3, <1>11
<1> QED BY <1>5, <1>10, <1>11, <1>12, <1>14, <1>15, <1>16, PublishKeeps

\* A comment, or a reaction to the issue or to a comment.
LEMMA SaysSomething ==
    ASSUME InboxInv, NEW r \in Request, NEW e, May(r), creator # None, Publish(r, e, issue),
           IsEvent(e), e.kind \in {"comment", "reaction"},
           UNCHANGED <<issue, creator, subscribers, activities, inbox, settled, following, raced>>
    PROVE  InboxInv'
<1>1. PICK full : full = [e EXCEPT !.n = Len(history) + 1, !.before = following]
  OBVIOUS
<1>2. /\ IsEvent(full) /\ full.kind \in {"comment", "reaction"}
      /\ full.n = Len(history) + 1 /\ full.before = following
  BY <1>1 DEF IsEvent
<1>3. history # <<>> /\ Len(history) \in Nat /\ Len(history') = Len(history) + 1
  BY Appended DEF Publish, InboxInv, IssueType
<1>4. EventIsTrue(full)'
  BY <1>2, <1>3 DEF EventIsTrue
<1>5. req[r].at \in {"idle", "write"} /\ full.kind # "created"
  BY <1>2 DEF May
<1> QED BY <1>1, <1>2, <1>3, <1>4, <1>5, PublishKeeps

LEMMA Speaks ==
    ASSUME InboxInv, NEW r \in Request, NEW actor, NEW author, NEW names,
           \/ CreateComment(r, actor, names) \/ AddIssueReaction(r, actor)
           \/ AddReaction(r, actor, author)
    PROVE  InboxInv'
<1>1. CASE CreateComment(r, actor, names)
  <2>1. PICK e : e = [NoEvent EXCEPT !.kind = "comment", !.actor = actor, !.names = names]
    OBVIOUS
  <2>2. IsEvent(e) /\ e.kind = "comment"
    BY <2>1 DEF NoEvent, IsEvent
  <2> QED BY <1>1, <2>1, <2>2, SaysSomething DEF CreateComment
<1>2. CASE AddIssueReaction(r, actor)
  <2>1. PICK e : e = [NoEvent EXCEPT !.kind = "reaction", !.actor = actor, !.about = creator]
    OBVIOUS
  <2>2. IsEvent(e) /\ e.kind = "reaction"
    BY <2>1 DEF NoEvent, IsEvent
  <2> QED BY <1>2, <2>1, <2>2, SaysSomething DEF AddIssueReaction
<1>3. CASE AddReaction(r, actor, author)
  <2>1. PICK e : e = [NoEvent EXCEPT !.kind = "reaction", !.actor = actor, !.about = author]
    OBVIOUS
  <2>2. IsEvent(e) /\ e.kind = "reaction"
    BY <2>1 DEF NoEvent, IsEvent
  <2>3. creator # None
    <3>1. Len(history) > 0
      <4>1. PICK x \in settled : x.n \in 1 .. Len(history)
        BY <1>3 DEF AddReaction, InboxInv, NumbersInv
      <4> QED BY <4>1 DEF InboxInv, IssueType
    <3> QED BY <3>1, EmptySeq DEF InboxInv, IssueType
  <2> QED BY <1>3, <2>1, <2>2, <2>3, SaysSomething DEF AddReaction
<1> QED BY <1>1, <1>2, <1>3

-----------------------------------------------------------------------------
\* A statement of a listener.
LEMMA ListenerKeeps ==
    ASSUME InboxInv, NEW r \in Request, NEW q, q = req[r], Listens(q),
           NEW q1, IsRequest(q1), Listens(q1), q1.event = q.event, Coursing(q1)',
           req' = [req EXCEPT ![r] = Onward(q1)],
           UNCHANGED <<issue, creator, history, settled, following, raced>>,
           subscribers \subseteq subscribers', inbox \subseteq inbox', activities \subseteq activities',
           \A i \in inbox' \ inbox : i.event = q.event.n,
           \A a \in activities' \ activities : a.event = q.event.n
    PROVE  InboxInv'
<1> DEFINE n == q.event.n
<1>1. Coursing(q) /\ n \in 1 .. Len(history)
  BY DEF InboxInv, RequestsRun, Coursing, EventIsTrue
<1>2. Elsewhere(n)
  BY Within
<1>3. ASSUME NEW s \in Request \ {r}, Listens(req[s]) PROVE req[s].event.n # n
  BY <1>3 DEF InboxInv, NumbersInv
<1>4. \A e \in settled : e.n # n
  BY DEF InboxInv, NumbersInv
<1>5. PICK p : p = Onward(q1)
  OBVIOUS
<1>6. Coursing(p)' /\ Listens(p) /\ IsRequest(p) /\ p.event.n = n
  BY <1>5, OnwardCourses, OnwardIs
<1>7. /\ p.at \in {"idle", "write"} \/ Listens(p)
      /\ p.at # "write"
      /\ \A s \in Request \ {r} : Listens(req[s]) => req[s].event.n # n
      /\ UNCHANGED <<settled, following>>
      /\ \A i \in inbox' \ inbox : i.event \in 1 .. Len(history')
      /\ \A a \in activities' \ activities : a.event \in 1 .. Len(history')
      /\ history' \in Seq({history'[m] : m \in DOMAIN history'})
      /\ creator' # None <=> history' # <<>>
      /\ history' # <<>> => issue' = history'[Len(history')]
  BY <1>1, <1>3, <1>6 DEF InboxInv, IssueType, Listens
<1>8. req' = [req EXCEPT ![r] = p]
  BY <1>5
<1>9. Listens(p) => Coursing(p)' /\ p.event.n = n
  BY <1>6
<1>10. p.at = "write" => Writing(p.event)'
  BY <1>7
<1>11. InboxInv /\ subscribers \subseteq subscribers' /\ r \in Request
  OBVIOUS
<1> HIDE DEF n
<1> QED BY ONLY <1>2, <1>3, <1>4, <1>6, <1>7, <1>8, <1>9, <1>10, <1>11, StepKeeps

\* What a listener has before it.
LEMMA InCourse ==
    ASSUME InboxInv, NEW r \in Request, NEW q, q = req[r],
           q.at \in {"subscribe", "record", "address", "deliver"}
    PROVE  IsRequest(q) /\ Listens(q) /\ Coursing(q)
  BY DEF InboxInv, RequestsRun, Listens

LEMMA AddsASubscriber ==
    ASSUME InboxInv, NEW r \in Request, NEW u, AddSubscriber(r, u)
    PROVE  InboxInv'
<1>1. PICK q : q = req[r]
  OBVIOUS
<1>2. q.at = "subscribe" /\ u \in q.todo
  BY <1>1 DEF AddSubscriber
<1>3. IsRequest(q) /\ Listens(q) /\ Coursing(q)
  BY <1>1, <1>2, InCourse
<1>4. PICK q1 : q1 = [q EXCEPT !.todo = @ \ {u}]
  OBVIOUS
<1>5. /\ IsRequest(q1) /\ q1.at = "subscribe" /\ q1.event = q.event /\ q1.k = q.k
      /\ q1.left = q.left /\ q1.todo = q.todo \ {u}
  BY <1>2, <1>3, <1>4 DEF IsRequest
<1>6. /\ UNCHANGED <<issue, creator, history, settled, following, raced, inbox, activities>>
      /\ subscribers' = subscribers \cup {u}
      /\ req' = [req EXCEPT ![r] = Onward(q1)]
  BY <1>1, <1>4 DEF AddSubscriber, AddIssueSubscriber, ghosts
<1>7. Coursing(q1)'
  <2>1. Involved(q.event)' = Involved(q.event)
    BY <1>6 DEF Involved, Before
  <2>2. Subscribing(q1)'
    <3>1. Involved(q.event) \ q.left \subseteq subscribers \cup q.todo
      BY <1>2, <1>3 DEF Coursing, Subscribing
    <3>2. Involved(q1.event)' \ q1.left \subseteq subscribers' \cup q1.todo
      BY <1>5, <1>6, <2>1, <3>1
    <3> QED BY <1>5, <3>2 DEF Subscribing
  <2>3. Telling(q1)'
    BY <1>2, <1>3, <1>5 DEF Coursing, Telling
  <2>4. Mentioning(q1)'
    <3>1. /\ MentionedIn(q.event.n)' = MentionedIn(q.event.n)
          /\ ToBeTold(q.event)' = ToBeTold(q.event)
      BY <1>6 DEF MentionedIn, ToBeTold, NewNames
    <3> QED BY <1>2, <1>3, <1>5, <1>6, <3>1 DEF Coursing, Mentioning
  <2>5. Logging(q1)'
    <3>1. LoggedFor(q.event.n)' = LoggedFor(q.event.n)
      BY <1>6 DEF LoggedFor
    <3> QED BY <1>2, <1>3, <1>5, <1>6, <3>1 DEF Coursing, Logging
  <2>6. EventIsTrue(q1.event)'
    BY <1>3, <1>5, <1>6 DEF Coursing, EventIsTrue
  <2> QED BY <1>2, <1>3, <1>5, <1>6, <2>2, <2>3, <2>4, <2>5, <2>6 DEF Coursing
<1>8. Listens(q1)
  BY <1>5 DEF Listens
<1> QED BY <1>1, <1>3, <1>5, <1>6, <1>7, <1>8, ListenerKeeps

\* An issue was created, or one field of it was changed: one activity.
LEMMA WritesAnActivity ==
    ASSUME InboxInv, NEW r \in Request, CreateActivity(r)
    PROVE  InboxInv'
<1>1. PICK q : q = req[r]
  OBVIOUS
<1>2. q.at = "record"
  BY <1>1 DEF CreateActivity
<1>3. IsRequest(q) /\ Listens(q) /\ Coursing(q) /\ q.k = 1
  BY <1>1, <1>2, InCourse DEF Coursing
<1>4. PICK e : e = q.event
  OBVIOUS
<1>5. EventIsTrue(e) /\ e.kind # "comment"
  BY <1>2, <1>3, <1>4 DEF Coursing, Telling
<1>6. PICK q1 : q1 = [q EXCEPT !.k = @ + 1]
  OBVIOUS
<1>7. /\ IsRequest(q1) /\ q1.at = "record" /\ q1.event = e /\ q1.k = 2
      /\ q1.left = q.left /\ q1.todo = q.todo
  BY <1>2, <1>3, <1>4, <1>6 DEF IsRequest
<1>8. PICK a : a = Activity(e, Records(e)[q.k])
  OBVIOUS
<1>9. a.event = e.n
  BY <1>8 DEF Activity
<1>10. /\ UNCHANGED <<issue, creator, history, settled, following, raced, inbox, subscribers>>
       /\ activities' = activities \cup {a}
       /\ req' = [req EXCEPT ![r] = Onward(q1)]
  BY <1>1, <1>4, <1>6, <1>8 DEF CreateActivity, ghosts
<1>11. Len(Records(e)) <= 1 /\ Len(Records(e)) \in Nat
  <2>1. CASE e.kind = "updated"
    <3>1. PICK f \in Field : e.fields = {f}
      BY <1>5, <2>1 DEF EventIsTrue
    <3>2. Records(e) = IF Changed(e, f) THEN <<f>> ELSE <<>>
      BY <2>1, <3>1, RecordsAre
    <3> QED BY <3>2
  <2>2. CASE e.kind # "updated"
    BY <2>2 DEF Records
  <2> QED BY <2>1, <2>2
\* So the listener is through, and the request goes on to the notices.
<1>12. PICK p : p = [q EXCEPT !.at = "address"]
  OBVIOUS
<1>13. /\ IsRequest(p) /\ p.at = "address" /\ p.event = e /\ p.k = 1
       /\ p.left = q.left /\ p.todo = q.todo
  BY <1>3, <1>4, <1>12 DEF IsRequest
<1>14. Onward(q1) = p
  <2>1. /\ IsRequest(Onward(q1)) /\ Onward(q1).event = e /\ Onward(q1).todo = q.todo
        /\ Onward(q1).left = q.left /\ Onward(q1).at = "address" /\ Onward(q1).k = 1
    BY <1>7, <1>11, OnwardIs
  <2> QED BY <1>13, <2>1 DEF IsRequest
<1>15. Onward(p) = p
  BY <1>13 DEF Onward
<1>16. Coursing(p)'
  <2>1. Involved(e)' = Involved(e)
    BY <1>10 DEF Involved, Before
  <2>2. Subscribing(p)'
    <3>1. Involved(e) \ q.left \subseteq subscribers
      BY <1>2, <1>3, <1>4 DEF Coursing, Subscribing
    <3>2. Involved(p.event)' \ p.left \subseteq subscribers'
      BY <1>10, <1>13, <2>1, <3>1
    <3> QED BY <1>13, <3>2 DEF Subscribing
  <2>3. Telling(p)'
    BY <1>5, <1>13 DEF Telling
  <2>4. Mentioning(p)'
    <3>1. /\ MentionedIn(e.n)' = MentionedIn(e.n)
          /\ ToBeTold(e)' = ToBeTold(e)
      BY <1>10 DEF MentionedIn, ToBeTold, NewNames
    <3>2. ASSUME e.kind = "updated", ~raced
          PROVE  /\ MentionedIn(e.n) = {}
                 /\ Len(Notices(e)) \in {1, 2, 4}
      <4>1. PICK f \in Field : e.fields = {f}
        BY <1>5, <3>2 DEF EventIsTrue
      <4>2. Len(Notices(e)) \in {1, 2, 4}
        BY <3>2, <4>1, NoticesOfUpdate
      <4> QED BY <1>2, <1>3, <1>4, <3>2, <4>2 DEF Coursing, Mentioning
    <3>3. e.kind = "updated" /\ ~raced =>
             MentionedIn(e.n)' = {} /\ (p.k < Len(Notices(e)) \/ p.k = Len(Notices(e)))
      <4> SUFFICES ASSUME e.kind = "updated", ~raced
                   PROVE  MentionedIn(e.n)' = {} /\ (p.k < Len(Notices(e)) \/ p.k = Len(Notices(e)))
        OBVIOUS
      <4>1. Len(Notices(e)) \in {1, 2, 4} /\ MentionedIn(e.n) = {}
        BY <3>2
      <4>2. MentionedIn(e.n)' = {}
        BY <3>1, <4>1
      <4>3. p.k < Len(Notices(e)) \/ p.k = Len(Notices(e))
        <5>1. PICK last \in {1, 2, 4} : last = Len(Notices(e))
          BY <4>1
        <5>2. p.k < last \/ p.k = last
          BY <1>13
        <5> QED BY <5>1, <5>2
      <4> QED BY <4>2, <4>3
    <3> QED BY <1>10, <1>13, <3>3 DEF Mentioning
  <2>5. Logging(p)'
    <3> SUFFICES ASSUME e.kind = "updated", ~raced
                 PROVE  LoggedFor(e.n)' = {Activity(e, f) : f \in {f \in Field : Changed(e, f)}}
      BY <1>10, <1>13 DEF Logging
    <3>1. LoggedFor(e.n) = {} /\ Records(e) # <<>>
      BY <1>2, <1>3, <1>4 DEF Coursing, Logging
    <3>2. PICK f \in Field : e.fields = {f}
      BY <1>5 DEF EventIsTrue
    <3>3. /\ Records(e) = IF Changed(e, f) THEN <<f>> ELSE <<>>
          /\ {g \in Field : Changed(e, g)} = IF Changed(e, f) THEN {f} ELSE {}
      BY <3>2, RecordsAre
    <3>4. a = Activity(e, f) /\ {g \in Field : Changed(e, g)} = {f}
      BY <1>3, <1>8, <3>1, <3>3
    <3>5. LoggedFor(e.n)' = {a}
      BY <1>9, <1>10, <3>1 DEF LoggedFor
    <3> QED BY <3>4, <3>5
  <2>6. EventIsTrue(e)'
    BY <1>5, <1>10 DEF EventIsTrue
  <2> QED BY <1>3, <1>4, <1>10, <1>13, <2>2, <2>3, <2>4, <2>5, <2>6 DEF Coursing
<1>17. Listens(p)
  BY <1>13 DEF Listens
<1>18. \A b \in activities' \ activities : b.event = q.event.n
  BY <1>4, <1>9, <1>10
<1>19. req' = [req EXCEPT ![r] = Onward(p)]
  BY <1>10, <1>14, <1>15
<1> QED BY <1>1, <1>3, <1>4, <1>10, <1>13, <1>16, <1>17, <1>18, <1>19, ListenerKeeps

LEMMA ListsTheRecipients ==
    ASSUME InboxInv, NEW r \in Request, ListRecipients(r)
    PROVE  InboxInv'
<1>1. PICK q : q = req[r]
  OBVIOUS
<1>2. q.at = "address" /\ q.k <= Len(Notices(q.event))
  BY <1>1 DEF ListRecipients
<1>3. IsRequest(q) /\ Listens(q) /\ Coursing(q)
  BY <1>1, <1>2, InCourse
<1>4. PICK e : e = q.event
  OBVIOUS
<1>5. EventIsTrue(e) /\ q.k \in Nat \ {0}
  BY <1>3, <1>4 DEF Coursing
<1>6. PICK notice : notice = Notices(e)[q.k]
  OBVIOUS
<1>7. PICK to : to = (IF notice.watchers THEN subscribers \cap User ELSE notice.to)
                       \ (notice.skip \cup {e.actor, None})
  OBVIOUS
<1>8. PICK q1 : q1 = [q EXCEPT !.at = "deliver", !.todo = to]
  OBVIOUS
<1>9. /\ IsRequest(q1) /\ q1.at = "deliver" /\ q1.event = e /\ q1.k = q.k
      /\ q1.left = q.left /\ q1.todo = to
  BY <1>3, <1>4, <1>8 DEF IsRequest
<1>10. /\ UNCHANGED <<issue, creator, history, settled, following, raced, inbox, subscribers, activities>>
       /\ req' = [req EXCEPT ![r] = Onward(q1)]
  BY <1>1, <1>4, <1>6, <1>7, <1>8 DEF ListRecipients, ghosts
<1>11. Coursing(q1)'
  <2>1. Involved(e)' = Involved(e)
    BY <1>10 DEF Involved, Before
  <2>2. Subscribing(q1)'
    <3>1. Involved(e) \ q.left \subseteq subscribers
      BY <1>2, <1>3, <1>4 DEF Coursing, Subscribing
    <3>2. Involved(q1.event)' \ q1.left \subseteq subscribers'
      BY <1>9, <1>10, <2>1, <3>1
    <3> QED BY <1>9, <3>2 DEF Subscribing
  <2>3. Telling(q1)'
    <3> SUFFICES ASSUME e.kind = "comment"
                 PROVE  \A u \in (e.before \ q.left) \ {e.actor} :
                            \/ [to |-> u, type |-> "new_comment", event |-> e.n] \in inbox
                            \/ q.k = 1 /\ u \in to
      BY <1>9, <1>10 DEF Telling
    <3>1. CASE q.k = 1
      <4>1. to = (subscribers \cap User) \ {e.actor, None}
        BY <1>6, <1>7, <3>1, NoticesOfComment
      <4>2. e.before \ q.left \subseteq subscribers \cap User
        BY <1>3, <1>4 DEF Coursing, InboxInv, IssueType
      <4> QED BY <3>1, <4>1, <4>2, InboxAssumption
    <3>2. CASE q.k # 1
      <4>1. q.k > 1
        BY <1>5, <3>2
      <4> QED BY <1>2, <1>3, <1>4, <4>1 DEF Coursing, Telling
    <3> QED BY <3>1, <3>2
  <2>4. Mentioning(q1)'
    <3>1. /\ MentionedIn(e.n)' = MentionedIn(e.n)
          /\ ToBeTold(e)' = ToBeTold(e)
      BY <1>10 DEF MentionedIn, ToBeTold, NewNames
    <3> SUFFICES ASSUME e.kind = "updated", ~raced
                 PROVE  IF q.k < Len(Notices(e)) THEN MentionedIn(e.n) = {}
                        ELSE MentionedIn(e.n) \cup (IF q.k = Len(Notices(e)) THEN to ELSE {}) = ToBeTold(e)
      BY <1>9, <1>10, <3>1 DEF Mentioning
    <3>2. PICK f \in Field :
             /\ e.fields = {f}
             /\ f # "named" => history[e.n].named = history[e.n - 1].named
      BY <1>5 DEF EventIsTrue
    <3>3. e.new = history[e.n] /\ e.prev = history[e.n - 1]
      BY <1>5 DEF EventIsTrue
    <3>4. PICK last \in {1, 2, 4} : last = Len(Notices(e))
      BY <3>2, NoticesOfUpdate
    <3>5. Notices(e)[last] = Mention(NewlyNamed(e))
      BY <3>2, <3>4, NoticesOfUpdate
    <3>6. q.k <= last /\ MentionedIn(e.n) = {}
      <4>1. q.k <= last
        BY <1>2, <1>4, <3>4
      <4>2. q.k < last \/ (q.k = last /\ q.at = "address")
        BY <1>2, <1>5, <4>1
      <4>3. Mentioning(q)
        BY <1>3 DEF Coursing
      <4> QED BY <1>4, <3>4, <4>1, <4>2, <4>3 DEF Mentioning
    <3>7. NewlyNamed(e) = IF e.batch THEN {} ELSE NewNames(e)
      <4>1. f = "named" => (Changed(e, "named") <=> ~e.batch)
        BY <3>2 DEF Changed
      <4>2. f # "named" => ~Changed(e, "named") /\ NewNames(e) = {}
        BY <3>2 DEF Changed, NewNames
      <4> QED BY <3>3, <4>1, <4>2 DEF NewlyNamed, NewNames
    <3>8. CASE q.k = last
      <4>1. to = (IF e.batch THEN {}
                  ELSE IF Everyone \in NewNames(e) THEN User ELSE NewNames(e) \cap User) \ {e.actor, None}
        BY <1>6, <1>7, <3>5, <3>7, <3>8 DEF Mention
      <4>2. to = ToBeTold(e)
        BY <4>1, InboxAssumption DEF ToBeTold
      <4> QED BY <3>4, <3>6, <3>8, <4>2
    <3>9. CASE q.k # last
      BY <1>5, <3>4, <3>6, <3>9
    <3> QED BY <3>8, <3>9
  <2>5. Logging(q1)'
    <3>1. LoggedFor(e.n)' = LoggedFor(e.n)
      BY <1>10 DEF LoggedFor
    <3> QED BY <1>2, <1>3, <1>4, <1>9, <1>10, <3>1 DEF Coursing, Logging
  <2>6. EventIsTrue(e)'
    BY <1>5, <1>10 DEF EventIsTrue
  <2> QED BY <1>2, <1>3, <1>4, <1>9, <1>10, <2>2, <2>3, <2>4, <2>5, <2>6 DEF Coursing
<1>12. Listens(q1)
  BY <1>9 DEF Listens
<1> QED BY <1>1, <1>3, <1>4, <1>9, <1>10, <1>11, <1>12, ListenerKeeps

LEMMA DeliversAnItem ==
    ASSUME InboxInv, NEW r \in Request, NEW u, CreateInboxItem(r, u)
    PROVE  InboxInv'
<1>1. PICK q : q = req[r]
  OBVIOUS
<1>2. q.at = "deliver" /\ u \in q.todo
  BY <1>1 DEF CreateInboxItem
<1>3. IsRequest(q) /\ Listens(q) /\ Coursing(q)
  BY <1>1, <1>2, InCourse
<1>4. PICK e : e = q.event
  OBVIOUS
<1>5. EventIsTrue(e) /\ q.k \in Nat \ {0} /\ q.k <= Len(Notices(e))
  BY <1>2, <1>3, <1>4 DEF Coursing
<1>6. PICK item : item = [to |-> u, type |-> Notices(e)[q.k].type, event |-> e.n]
  OBVIOUS
<1>7. PICK q1 : q1 = [q EXCEPT !.todo = @ \ {u}]
  OBVIOUS
<1>8. /\ IsRequest(q1) /\ q1.at = "deliver" /\ q1.event = e /\ q1.k = q.k
      /\ q1.left = q.left /\ q1.todo = q.todo \ {u}
  BY <1>2, <1>3, <1>4, <1>7 DEF IsRequest
<1>9. /\ UNCHANGED <<issue, creator, history, settled, following, raced, subscribers, activities>>
      /\ inbox' = inbox \cup {item}
      /\ req' = [req EXCEPT ![r] = Onward(q1)]
  BY <1>1, <1>4, <1>6, <1>7 DEF CreateInboxItem, InboxItem, ghosts
<1>10. Coursing(q1)'
  <2>1. Involved(e)' = Involved(e)
    BY <1>9 DEF Involved, Before
  <2>2. Subscribing(q1)'
    <3>1. Involved(e) \ q.left \subseteq subscribers
      BY <1>2, <1>3, <1>4 DEF Coursing, Subscribing
    <3>2. Involved(q1.event)' \ q1.left \subseteq subscribers'
      BY <1>8, <1>9, <2>1, <3>1
    <3> QED BY <1>8, <3>2 DEF Subscribing
  <2>3. Telling(q1)'
    <3> SUFFICES ASSUME e.kind = "comment", NEW v \in (e.before \ q.left) \ {e.actor}
                 PROVE  \/ [to |-> v, type |-> "new_comment", event |-> e.n] \in inbox'
                        \/ q.k = 1 /\ v \in q.todo \ {u}
      BY <1>8, <1>9 DEF Telling
    <3>1. \/ [to |-> v, type |-> "new_comment", event |-> e.n] \in inbox
          \/ q.k = 1 /\ v \in q.todo
      BY <1>2, <1>3, <1>4 DEF Coursing, Telling
    <3>2. CASE q.k = 1 /\ v = u
      <4>1. item = [to |-> v, type |-> "new_comment", event |-> e.n]
        BY <1>6, <3>2, NoticesOfComment
      <4> QED BY <1>9, <4>1
    <3>3. CASE ~(q.k = 1 /\ v = u)
      BY <1>9, <3>1, <3>3
    <3> QED BY <3>2, <3>3
  <2>4. Mentioning(q1)'
    <3>1. ToBeTold(e)' = ToBeTold(e)
      BY <1>9 DEF ToBeTold, NewNames
    <3> SUFFICES ASSUME e.kind = "updated", ~raced
                 PROVE  IF q.k < Len(Notices(e)) THEN MentionedIn(e.n)' = {}
                        ELSE MentionedIn(e.n)' \cup (IF q.k = Len(Notices(e)) THEN q.todo \ {u} ELSE {})
                                = ToBeTold(e)
      BY <1>8, <1>9, <3>1 DEF Mentioning
    <3>2. PICK f \in Field : e.fields = {f}
      BY <1>5 DEF EventIsTrue
    <3>3. PICK last \in {1, 2, 4} : last = Len(Notices(e))
      BY <3>2, NoticesOfUpdate
    <3>4. /\ Notices(e)[last].type = "mentioned"
          /\ \A k \in 1 .. last - 1 : Notices(e)[k].type # "mentioned"
      <4>1. /\ Notices(e)[last] = Mention(NewlyNamed(e))
            /\ \A k \in 1 .. last - 1 : Notices(e)[k].type # "mentioned"
        BY <3>2, <3>3, NoticesOfUpdate
      <4>2. Mention(NewlyNamed(e)).type = "mentioned"
        BY DEF Mention
      <4> QED BY <4>1, <4>2
    <3>5. Mentioning(q) /\ q.k <= last
      BY <1>3, <1>5, <3>3 DEF Coursing
    <3>6. MentionedIn(e.n)' = IF item.type = "mentioned" THEN MentionedIn(e.n) \cup {u} ELSE MentionedIn(e.n)
      <4>1. item.to = u /\ item.event = e.n
        BY <1>6
      <4> QED BY <1>9, <4>1 DEF MentionedIn
    <3>7. CASE q.k = last
      <4>1. item.type = "mentioned"
        BY <1>6, <3>4, <3>7
      <4>2. MentionedIn(e.n) \cup q.todo = ToBeTold(e)
        BY <1>2, <1>4, <3>3, <3>5, <3>7 DEF Mentioning
      <4>3. MentionedIn(e.n)' \cup (q.todo \ {u}) = ToBeTold(e)
        BY <1>2, <3>6, <4>1, <4>2
      <4> QED BY <3>3, <3>7, <4>3
    <3>8. CASE q.k # last
      <4>1. q.k < last /\ q.k \in 1 .. last - 1
        BY <1>5, <3>5, <3>8
      <4>2. item.type # "mentioned"
        BY <1>6, <3>4, <4>1
      <4>3. MentionedIn(e.n) = {}
        BY <1>4, <3>3, <3>5, <4>1 DEF Mentioning
      <4> QED BY <3>3, <3>6, <4>1, <4>2, <4>3
    <3> QED BY <3>7, <3>8
  <2>5. Logging(q1)'
    <3>1. LoggedFor(e.n)' = LoggedFor(e.n)
      BY <1>9 DEF LoggedFor
    <3> QED BY <1>2, <1>3, <1>4, <1>8, <1>9, <3>1 DEF Coursing, Logging
  <2>6. EventIsTrue(e)'
    BY <1>5, <1>9 DEF EventIsTrue
  <2> QED BY <1>3, <1>4, <1>5, <1>8, <1>9, <2>2, <2>3, <2>4, <2>5, <2>6 DEF Coursing
<1>11. Listens(q1)
  BY <1>8 DEF Listens
<1>12. \A i \in inbox' \ inbox : i.event = q.event.n
  BY <1>4, <1>6, <1>9
<1> QED BY <1>1, <1>3, <1>4, <1>8, <1>9, <1>10, <1>11, <1>12, ListenerKeeps

\* A request whose last listener is through.
LEMMA Finishes ==
    ASSUME InboxInv, NEW r \in Request, Finish(r)
    PROVE  InboxInv'
<1>1. PICK q : q = req[r]
  OBVIOUS
<1>2. q.at = "address" /\ q.k > Len(Notices(q.event))
  BY <1>1 DEF Finish
<1>3. IsRequest(q) /\ Listens(q) /\ Coursing(q)
  BY <1>1, <1>2, InCourse
<1>4. PICK e : e = q.event
  OBVIOUS
<1>5. EventIsTrue(e) /\ q.k \in Nat \ {0}
  BY <1>3, <1>4 DEF Coursing
<1>6. PICK done : done = [kind |-> e.kind, actor |-> e.actor, n |-> e.n, batch |-> e.batch,
                         before |-> e.before \ q.left]
  OBVIOUS
<1>7. /\ done.kind = e.kind /\ done.actor = e.actor /\ done.n = e.n /\ done.batch = e.batch
      /\ done.before = e.before \ q.left
  BY <1>6
<1>8. /\ settled' = settled \cup {done}
      /\ following' = following \cup (Involved(e) \ q.left)
      /\ req' = [req EXCEPT ![r] = Idle]
      /\ UNCHANGED <<issue, creator, subscribers, activities, inbox, history, raced>>
  BY <1>1, <1>4, <1>6 DEF Finish
<1>9. Elsewhere(0)
  BY <1>8, Within
<1>10. \A t \in Request : req'[t] = IF t = r THEN Idle ELSE req[t]
  BY <1>8 DEF InboxInv, IssueType
<1>11. IsRequest(Idle) /\ Idle.at = "idle" /\ ~Listens(Idle)
  BY DEF IsRequest, Idle, Listens
<1>12. ASSUME NEW t \in Request, Listens(req[t]) PROVE req[t].event.n # 0
  <2>1. PICK x : x = req[t]
    OBVIOUS
  <2>2. Coursing(x)
    BY <1>12, <2>1 DEF InboxInv, RequestsRun
  <2> QED BY <2>1, <2>2 DEF Coursing, EventIsTrue
<1>13. RequestsRun'
  <2> DEFINE idle == Idle
  <2>1. /\ IsRequest(idle) /\ idle.at \in {"idle", "write"} /\ idle.at # "write" /\ ~Listens(idle)
        /\ req' = [req EXCEPT ![r] = idle]
    BY <1>8, <1>11
  <2>2. following \subseteq following' /\ subscribers \subseteq subscribers'
    BY <1>8
  <2> HIDE DEF idle
  <2> QED BY <1>9, <1>12, <2>1, <2>2, RequestsGoOn
<1>14. IssueType'
  <2>1. Involved(e) \ q.left \subseteq subscribers
    BY <1>2, <1>3, <1>4 DEF Coursing, Subscribing
  <2>2. Involved(e) \subseteq User
    BY DEF Involved
  <2> QED BY <1>8, <2>1, <2>2 DEF InboxInv, IssueType
<1>15. NumbersInv'
  <2>1. \A x \in settled' : /\ x.n \in 1 .. Len(history')
                            /\ x.kind = "updated" => x.n > 1
    BY <1>5, <1>7, <1>8 DEF InboxInv, NumbersInv, EventIsTrue
  <2>2. ASSUME NEW t \in Request, Listens(req'[t])
        PROVE  /\ \A s \in Request \ {t} : Listens(req'[s]) => req'[s].event.n # req'[t].event.n
               /\ \A x \in settled' : x.n # req'[t].event.n
    <3>1. t # r /\ req'[t] = req[t] /\ Listens(req[t])
      BY <1>10, <1>11, <2>2
    <3>2. /\ \A s \in Request \ {t} : Listens(req[s]) => req[s].event.n # req[t].event.n
          /\ \A x \in settled : x.n # req[t].event.n
      BY <3>1 DEF InboxInv, NumbersInv
    <3>3. done.n # req[t].event.n
      BY <1>1, <1>3, <1>4, <1>7, <3>1, <3>2
    <3>4. ASSUME NEW s \in Request \ {t}, Listens(req'[s]) PROVE req'[s].event.n # req'[t].event.n
      <4>1. req'[s] = req[s]
        BY <1>10, <1>11, <3>4
      <4> QED BY <3>1, <3>2, <3>4, <4>1
    <3> QED BY <1>8, <3>1, <3>2, <3>3, <3>4
  <2> QED BY <1>8, <2>1, <2>2 DEF InboxInv, NumbersInv, Listens
<1>16. e.kind = "comment" =>
          \A u \in done.before \ {e.actor} : [to |-> u, type |-> "new_comment", event |-> e.n] \in inbox
  <2> SUFFICES ASSUME e.kind = "comment"
               PROVE  \A u \in done.before \ {e.actor} :
                          [to |-> u, type |-> "new_comment", event |-> e.n] \in inbox
    OBVIOUS
  <2>1. q.k > 1
    BY <1>2, <1>4, <1>5, NoticesOfComment
  <2> QED BY <1>2, <1>3, <1>4, <1>7, <2>1 DEF Coursing, Telling
<1>17. ASSUME e.kind = "updated", ~raced
       PROVE  /\ MentionedIn(e.n) = ToBeTold(e)
              /\ LoggedFor(e.n) = {Activity(e, f) : f \in {f \in Field : Changed(e, f)}}
  <2>1. PICK f \in Field : e.fields = {f}
    BY <1>5, <1>17 DEF EventIsTrue
  <2>2. PICK last \in {1, 2, 4} : last = Len(Notices(e))
    BY <1>17, <2>1, NoticesOfUpdate
  <2>3. q.k > last /\ Mentioning(q) /\ Logging(q)
    BY <1>2, <1>3, <1>4, <2>2 DEF Coursing
  <2>4. ~(q.k < last) /\ ~(q.k = last)
    BY <1>5, <2>3
  <2> QED BY <1>2, <1>4, <1>17, <2>2, <2>3, <2>4 DEF Mentioning, Logging
<1>18. FollowersAreTold'
  BY <1>7, <1>8, <1>16 DEF InboxInv, IssueIsTold, FollowersAreTold
<1>19. MentionsToldOnce'
  <2> SUFFICES ASSUME ~raced, NEW x \in settled', x.kind = "updated"
               PROVE  LET new == history[x.n].named \ history[x.n - 1].named
                          to == IF x.batch THEN {} ELSE IF Everyone \in new THEN User ELSE new \cap User
                      IN  {i.to : i \in {i \in inbox : i.event = x.n /\ i.type = "mentioned"}}
                            = to \ {x.actor}
    BY <1>8 DEF MentionsToldOnce
  <2>1. CASE x = done
    <3>1. MentionedIn(e.n) = ToBeTold(e)
      BY <1>7, <1>17, <2>1
    <3> QED BY <1>7, <2>1, <3>1 DEF MentionedIn, ToBeTold, NewNames
  <2>2. CASE x \in settled
    BY <2>2 DEF InboxInv, IssueIsTold, MentionsToldOnce
  <2> QED BY <1>8, <2>1, <2>2
<1>20. LogReplays'
  <2> SUFFICES ASSUME ~raced, NEW x \in settled', x.kind = "updated", NEW f \in {"assignee", "status"}
               PROVE  LET was == history[x.n - 1][f]  is == history[x.n][f]
                          logged == was # is /\ (f = "assignee" => is # None)
                      IN  {[from |-> a.from, to |-> a.to] :
                              a \in {a \in activities : a.event = x.n /\ a.action = f}}
                            = IF logged THEN {[from |-> IF x.batch THEN None ELSE was, to |-> is]}
                              ELSE {}
    BY <1>8 DEF LogReplays
  <2>1. CASE x = done
    <3>1. PICK g \in Field :
             /\ e.fields = {g}
             /\ g # "assignee" => history[e.n].assignee = e.prev.assignee
             /\ g # "status" => history[e.n].status = history[e.n - 1].status
      BY <1>5, <1>7, <2>1 DEF EventIsTrue
    <3>2. e.new = history[e.n] /\ e.prev = history[e.n - 1]
      BY <1>5, <1>7, <2>1 DEF EventIsTrue
    <3>3. /\ {h \in Field : Changed(e, h)} = IF Changed(e, g) THEN {g} ELSE {}
          /\ g # "named" =>
                (Changed(e, g) <=> e.new[g] # e.prev[g] /\ (g = "assignee" => e.new[g] # None))
      BY <1>7, <2>1, <3>1, RecordsAre
    <3>4. LoggedFor(e.n) = {Activity(e, h) : h \in {h \in Field : Changed(e, h)}}
      BY <1>7, <1>17, <2>1
    <3>5. f # g => history[e.n - 1][f] = history[e.n][f]
      BY <3>1, <3>2
    <3>6. LoggedFor(e.n) = IF Changed(e, g) THEN {Activity(e, g)} ELSE {}
      BY <3>3, <3>4
    <3>7. /\ Activity(e, f).from = IF e.batch THEN None ELSE e.prev[f]
          /\ Activity(e, f).to = e.new[f] /\ Activity(e, g).action = g
      BY DEF Activity, Carried, NoIssue
    <3>8. {a \in activities : a.event = e.n /\ a.action = f} = {a \in LoggedFor(e.n) : a.action = f}
      BY DEF LoggedFor
    <3>9. CASE g = f /\ Changed(e, f)
      <4>1. {a \in activities : a.event = e.n /\ a.action = f} = {Activity(e, f)}
        BY <3>6, <3>7, <3>8, <3>9
      <4>2. history[e.n - 1][f] # history[e.n][f] /\ (f = "assignee" => history[e.n][f] # None)
        BY <3>2, <3>3, <3>9
      <4> QED BY <1>7, <2>1, <3>2, <3>7, <4>1, <4>2
    <3>10. CASE ~(g = f /\ Changed(e, f))
      <4>1. {a \in activities : a.event = e.n /\ a.action = f} = {}
        BY <3>6, <3>7, <3>8, <3>10
      <4>2. \/ history[e.n - 1][f] = history[e.n][f]
            \/ f = "assignee" /\ history[e.n][f] = None
        BY <3>2, <3>3, <3>5, <3>10
      <4> QED BY <1>7, <2>1, <4>1, <4>2
    <3> QED BY <3>9, <3>10
  <2>2. CASE x \in settled
    BY <2>2 DEF InboxInv, IssueIsTold, LogReplays
  <2> QED BY <1>8, <2>1, <2>2
<1> QED BY <1>13, <1>14, <1>15, <1>18, <1>19, <1>20 DEF InboxInv, IssueIsTold

\* A member comes or goes while the listeners of others are at work.
LEMMA SubscribersChange ==
    ASSUME InboxInv, NEW u \in Fickle, SubscribeToIssue(u) \/ UnsubscribeFromIssue(u)
    PROVE  InboxInv'
<1>1. UNCHANGED <<issue, creator, activities, inbox, history, settled, raced>>
  BY DEF SubscribeToIssue, UnsubscribeFromIssue
<1>2. Elsewhere(0)
  BY <1>1, Within
<1>3. IssueType'
  <2>1. DOMAIN req' = Request /\ following' \subseteq subscribers' \cap User
    BY InboxAssumption DEF InboxInv, IssueType, SubscribeToIssue, UnsubscribeFromIssue, AddIssueSubscriber
  <2> QED BY <1>1, <2>1 DEF InboxInv, IssueType
<1>4. ASSUME NEW s \in Request
      PROVE  /\ IsRequest(req'[s]) /\ req'[s].at = req[s].at /\ req'[s].event = req[s].event
             /\ req'[s].k = req[s].k /\ req'[s].todo = req[s].todo
             /\ req[s].left \subseteq req'[s].left
             /\ req[s].at # "idle" =>
                   /\ following \ req'[s].left \subseteq following'
                   /\ subscribers \ req'[s].left \subseteq subscribers'
  <2>1. PICK q : q = req[s]
    OBVIOUS
  <2>2. IsRequest(q)
    BY <2>1 DEF InboxInv, RequestsRun
  <2>3. CASE SubscribeToIssue(u)
    BY <2>1, <2>2, <2>3 DEF SubscribeToIssue, AddIssueSubscriber
  <2>4. CASE UnsubscribeFromIssue(u) /\ q.at = "idle"
    BY <2>1, <2>2, <2>4 DEF UnsubscribeFromIssue
  <2>5. CASE UnsubscribeFromIssue(u) /\ q.at # "idle"
    <3>1. PICK p : p = [q EXCEPT !.left = @ \cup {u}]
      OBVIOUS
    <3>2. /\ IsRequest(p) /\ p.at = q.at /\ p.event = q.event /\ p.k = q.k /\ p.todo = q.todo
          /\ p.left = q.left \cup {u}
      BY <2>2, <3>1 DEF IsRequest
    <3>3. /\ req'[s] = p /\ following' = following \ {u} /\ subscribers' = subscribers \ {u}
      BY <2>1, <2>5, <3>1 DEF UnsubscribeFromIssue
    <3> QED BY <2>1, <3>2, <3>3
  <2> QED BY <2>3, <2>4, <2>5
<1>5. ASSUME NEW s \in Request, Listens(req[s]) PROVE req[s].event.n # 0
  <2>1. PICK x : x = req[s]
    OBVIOUS
  <2>2. Coursing(x)
    BY <1>5, <2>1 DEF InboxInv, RequestsRun
  <2> QED BY <2>1, <2>2 DEF Coursing, EventIsTrue
<1>6. RequestsRun'
  <2> SUFFICES ASSUME NEW s \in Request
               PROVE  /\ IsRequest(req[s])'
                      /\ (req[s].at \in {"idle", "write"} \/ Listens(req[s]))'
                      /\ (req[s].at = "write" => Writing(req[s].event))'
                      /\ (Listens(req[s]) => Coursing(req[s]))'
    BY DEF RequestsRun
  <2> SUFFICES ASSUME NEW p, p = req'[s]
               PROVE  /\ IsRequest(p)
                      /\ p.at \in {"idle", "write"} \/ Listens(p)
                      /\ p.at = "write" => Writing(p.event)'
                      /\ Listens(p) => Coursing(p)'
    BY Zenon DEF IsRequest, Listens
  <2>1. PICK q : q = req[s]
    OBVIOUS
  <2>2. /\ IsRequest(p) /\ p.at = q.at /\ p.event = q.event /\ p.k = q.k /\ p.todo = q.todo
        /\ q.left \subseteq p.left
        /\ q.at # "idle" =>
              /\ following \ p.left \subseteq following'
              /\ subscribers \ p.left \subseteq subscribers'
    BY <1>4, <2>1
  <2>3. /\ q.at \in {"idle", "write"} \/ Listens(q)
        /\ q.at = "write" => Writing(q.event)
        /\ Listens(q) => Coursing(q)
    BY <2>1 DEF InboxInv, RequestsRun
  <2>4. Listens(p) => Coursing(p)'
    <3> SUFFICES ASSUME Listens(p) PROVE Coursing(p)'
      OBVIOUS
    <3>1. Listens(q) /\ q.at # "idle" /\ q.event.n # 0
      BY <1>5, <2>1, <2>2 DEF Listens
    <3> QED BY <1>2, <2>2, <2>3, <3>1, OthersCourse
  <2>5. p.at = "write" => Writing(p.event)'
    BY <1>1, <2>2, <2>3 DEF Writing
  <2> QED BY <2>2, <2>3, <2>4, <2>5 DEF Listens
<1>7. NumbersInv'
  <2>1. ASSUME NEW t \in Request, Listens(req'[t])
        PROVE  /\ \A s \in Request \ {t} : Listens(req'[s]) => req'[s].event.n # req'[t].event.n
               /\ \A e \in settled' : e.n # req'[t].event.n
    <3>1. \A s \in Request : (Listens(req'[s]) => Listens(req[s])) /\ req'[s].event = req[s].event
      BY <1>4 DEF Listens
    <3>2. /\ \A s \in Request \ {t} : Listens(req[s]) => req[s].event.n # req[t].event.n
          /\ \A e \in settled : e.n # req[t].event.n
      BY <2>1, <3>1 DEF InboxInv, NumbersInv
    <3> QED BY <1>1, <3>1, <3>2
  <2> QED BY <1>1, <2>1 DEF InboxInv, NumbersInv, Listens
<1>8. IssueIsTold'
  BY <1>1 DEF InboxInv, IssueIsTold, FollowersAreTold, MentionsToldOnce, LogReplays
<1> QED BY <1>3, <1>6, <1>7, <1>8 DEF InboxInv

LEMMA InboxStart ==
    ASSUME Init PROVE InboxInv
<1>1. IsRequest(Idle) /\ Idle.at = "idle" /\ ~Listens(Idle)
  BY DEF IsRequest, Idle, Listens
<1>2. DOMAIN req = Request /\ \A r \in Request : req[r] = Idle
  BY DEF Init
<1>3. IssueType
  <2>1. <<>> \in Seq({<<>>[n] : n \in DOMAIN <<>>})
    OBVIOUS
  <2> QED BY <2>1 DEF Init, IssueType
<1>4. RequestsRun
  BY <1>1, <1>2, Zenon DEF RequestsRun
<1>5. NumbersInv
  BY <1>1, <1>2 DEF Init, NumbersInv
<1>6. IssueIsTold
  BY DEF Init, IssueIsTold, FollowersAreTold, MentionsToldOnce, LogReplays
<1> QED BY <1>3, <1>4, <1>5, <1>6 DEF InboxInv

LEMMA InboxStep ==
    ASSUME InboxInv, [Next]_vars PROVE InboxInv'
<1>1. ASSUME NEW r \in Request, Asking(r) PROVE InboxInv'
  <2>1. CASE \E p \in Patch : LoadIssue(r, p)
    BY <2>1, LoadsTheIssue
  <2>2. CASE \E actor \in Acting :
           \/ \E draft \in Draft : CreateIssue(r, actor, draft)
           \/ \E names \in Naming : CreateComment(r, actor, names)
           \/ AddIssueReaction(r, actor)
           \/ \E author \in Who : AddReaction(r, actor, author)
    BY <2>2, CreatesAnIssue, Speaks
  <2> QED BY <1>1, <2>1, <2>2 DEF Asking
<1>2. ASSUME NEW r \in Request, Listening(r) PROVE InboxInv'
  BY <1>2, UpdatesTheIssue, WritesAnActivity, ListsTheRecipients, Finishes, AddsASubscriber,
     DeliversAnItem DEF Listening
<1>3. ASSUME NEW u \in Fickle, SubscribeToIssue(u) \/ UnsubscribeFromIssue(u) PROVE InboxInv'
  BY <1>3, SubscribersChange
<1>4. CASE UNCHANGED vars
  <2>1. IssueType' /\ IssueIsTold'
    <3>1. UNCHANGED <<issue, creator, subscribers, activities, inbox, req, history, settled, following, raced>>
      BY <1>4 DEF vars
    <3>2. IssueType'
      BY <3>1 DEF InboxInv, IssueType
    <3>3. FollowersAreTold' /\ MentionsToldOnce'
      BY <3>1 DEF InboxInv, IssueIsTold, FollowersAreTold, MentionsToldOnce
    <3>4. LogReplays'
      BY <3>1 DEF InboxInv, IssueIsTold, LogReplays
    <3> QED BY <3>2, <3>3, <3>4 DEF IssueIsTold
  <2>2. NumbersInv'
    BY <1>4 DEF vars, ghosts, InboxInv, NumbersInv, Listens
  <2>3. RequestsRun'
    <3>1. UNCHANGED <<issue, creator, subscribers, activities, inbox, req, history, settled, following, raced>>
      BY <1>4 DEF vars
    <3>2. Elsewhere(0)
      BY <3>1, Within
    <3> SUFFICES ASSUME NEW s \in Request
                 PROVE  /\ IsRequest(req[s])'
                        /\ (req[s].at \in {"idle", "write"} \/ Listens(req[s]))'
                        /\ (req[s].at = "write" => Writing(req[s].event))'
                        /\ (Listens(req[s]) => Coursing(req[s]))'
      BY DEF RequestsRun
    <3> SUFFICES ASSUME NEW p, p = req'[s]
                 PROVE  /\ IsRequest(p)
                        /\ p.at \in {"idle", "write"} \/ Listens(p)
                        /\ p.at = "write" => Writing(p.event)'
                        /\ Listens(p) => Coursing(p)'
      BY Zenon DEF IsRequest, Listens
    <3>3. p = req[s]
      BY <3>1
    <3>4. /\ IsRequest(p)
          /\ p.at \in {"idle", "write"} \/ Listens(p)
          /\ p.at = "write" => Writing(p.event)
          /\ Listens(p) => Coursing(p)
      BY <3>3 DEF InboxInv, RequestsRun
    <3>5. Coursing(p) => p.event.n # 0
      BY DEF Coursing, EventIsTrue
    <3>6. following \ p.left \subseteq following' /\ subscribers \ p.left \subseteq subscribers'
      BY <3>1
    <3>7. p.at = "write" => Writing(p.event)'
      BY <3>1, <3>4 DEF Writing
    <3> QED BY <3>2, <3>4, <3>5, <3>6, <3>7, OthersCourse
  <2> QED BY <2>1, <2>2, <2>3 DEF InboxInv
<1> QED BY <1>1, <1>2, <1>3, <1>4 DEF Next

-----------------------------------------------------------------------------
(* The services.                                                          *)

\* A step of the services is one of a part, or leaves that part alone.
LEMMA PartsStep ==
    ASSUME [ServicesNext]_servicesVars
    PROVE  /\ [Next]_vars
           /\ [AccessNext]_accessVars
           /\ [LibraryNext]_libraryVars
           /\ [BoardNext]_boardVars
           /\ [WebNext]_webVars
<1>1. CASE UNCHANGED servicesVars
  BY <1>1 DEF servicesVars
<1>2. CASE ServicesNext
  BY <1>2 DEF ServicesNext
<1> QED BY <1>1, <1>2

\* workspace.go, "workspace must have at least one owner": a workspace that is there has an
\* owner, unless a request wrote a membership that another one had changed since it judged.
\* The invariant says of each request that is about to write, and was not overtaken, that
\* another owner remains.
THEOREM WorkspacesKeepAnOwner == ServicesSpec => []OwnerRemains
<1>1. ServicesInit => AccessInv
  BY AccessStarts DEF ServicesInit
<1>2. AccessInv /\ [ServicesNext]_servicesVars => AccessInv'
  BY AccessIsKept, PartsStep
<1>3. AccessInv => OwnerRemains
  BY DEF AccessInv
<1> QED BY <1>1, <1>2, <1>3, PTL DEF ServicesSpec

\* auth.go, the first sign-in of a user, also twice at once: it fails only where another
\* request made the user at that moment, where creation is disabled and the user belongs
\* nowhere, or where the user was in a workspace and lost it.  Of every other user whose
\* workspace is there the invariant says that they belong to it.
THEOREM FirstSignInIsServed == ServicesSpec => LoginsAreServed
<1>1. ServicesInit => AccessInv
  BY AccessStarts DEF ServicesInit
<1>2. AccessInv /\ [ServicesNext]_servicesVars => AccessInv' /\ [ServedWell]_accessVars
  BY AccessIsKept, PartsStep
<1> QED BY <1>1, <1>2, PTL DEF ServicesSpec, LoginsAreServed, ServedWell

\* skill.go UpdateSkill, CreateSkill, ImportSkill and SetAgentSkills: the files of a skill come
\* from the request that wrote its content, and an agent has what the last request asked for.
\* The invariant says that a transaction holds its skill alone and clears every file but
\* those written singly, and that a request for an agent that none overlaps removes all it has.
THEOREM ReplacedAsAWhole == ServicesSpec => []LibraryIsWhole
<1>1. ServicesInit => LibraryInv
  BY LibraryStarts DEF ServicesInit
<1>2. LibraryInv /\ [ServicesNext]_servicesVars => LibraryInv'
  BY LibraryIsKept, PartsStep
<1>3. LibraryInv => LibraryIsWhole
  BY DEF LibraryInv
<1> QED BY <1>1, <1>2, <1>3, PTL DEF ServicesSpec

\* projects.go AssignOrRemoveIssue, "issue not found in project": an issue is put only into a
\* project of its own workspace that exists, and leaves it only when that is deleted, when its
\* removal from it was asked for, or when it was moved there while it was being removed from
\* another one.  The invariant says that a request which has found an issue finds it there
\* when it writes, or in no project, unless the history tells of a move.
THEOREM IssuesLeaveForAReason == ServicesSpec => IssuesStay
<1>1. ServicesInit => BoardInv
  BY BoardStarts DEF ServicesInit
<1>2. BoardInv /\ [ServicesNext]_servicesVars => BoardInv' /\ [StaysWell]_boardVars
  BY BoardIsKept, PartsStep
<1> QED BY <1>1, <1>2, PTL DEF ServicesSpec, IssuesStay, StaysWell

\* use-realtime-sync.ts "refetch all data to recover missed events" and page.tsx "Rollback:
\* refetch to get server truth": a tab at rest has every item of the inbox and shows none as
\* read or archived that the server has unread, but for the items that are excused.  The
\* invariant says what brings an item to a tab that does not show it (an event, an answer or
\* a reconnect to come), and that a tab which is ahead of a row has a request underway that
\* makes the row the same, or asks for the list.
THEOREM ATabCatchesUp == ServicesSpec => []TabsCatchUp
<1>1. ServicesInit => TabsInv
  BY TabsStart DEF ServicesInit
<1>2. TabsInv /\ [ServicesNext]_servicesVars => TabsInv'
  BY TabsAreKept, PartsStep
<1>3. TabsInv => TabsCatchUp
  BY TabsShowIt
<1> QED BY <1>1, <1>2, <1>3, PTL DEF ServicesSpec

\* subscriber_listeners.go and notification_listeners.go, with requests, subscriptions and
\* unsubscriptions in between their statements: who is involved in an issue is told of every
\* later comment of others, and, unless an update wrote over a row it had not read, a mention
\* is told when it appears, but not in a batch, and the activities are what changed, but for an
\* unassignment, and without what was before in a batch.  The invariant says of every
\* request whom it has still to subscribe, that it finds its followers among the subscribers
\* when it lists them, and which items and activities of its event are there so far.
THEOREM AnIssueIsTold == ServicesSpec => []IssueIsTold
<1>1. ServicesInit => InboxInv
  BY InboxStart DEF ServicesInit
<1>2. InboxInv /\ [ServicesNext]_servicesVars => InboxInv'
  BY InboxStep, PartsStep
<1>3. InboxInv => IssueIsTold
  BY DEF InboxInv
<1> QED BY <1>1, <1>2, <1>3, PTL DEF ServicesSpec
=============================================================================
