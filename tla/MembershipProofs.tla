-------------------------- MODULE MembershipProofs --------------------------
(***************************************************************************)
(* Proofs about Membership, for any number of users, links, tasks and      *)
(* handlers and any limit on the uses of a link.                           *)
(***************************************************************************)
EXTENDS Membership, FiniteSetTheorems, TLAPS

(* The inductive invariant. *)

\* What a request is about fits where it is.
Placed ==
    \A p \in Procs :
        /\ pc[p] \in {"newmember", "promote", "set", "remove", "delete", "owner", "join"}
              => who[p] \in Users
        /\ pc[p] \in {"newmember", "promote", "set", "join"} => give[p] \in Roles
        /\ pc[p] \in {"newlink", "revoke", "join"} => on[p] \in Links
        /\ pc[p] \in {"newtask", "assertnew", "findtask", "assert", "update", "drop"}
              => on[p] \in Tasks

\* A handler that is going to demote or remove somebody has not chosen the founder.
FounderIsSpared ==
    exists => \A p \in Procs : pc[p] \in {"set", "delete"} => who[p] # Founder

\* Members, and whoever a handler is going to assign a task to, are in been.
Known ==
    /\ \A u \in Users : role[u] # None => u \in been
    /\ \A p \in Procs : pc[p] \in {"newtask", "update"} => who[p] \in been \cup {Nobody}

IInv ==
    /\ TypeOK /\ Placed
    /\ UsesBounded
    /\ FounderOwns /\ FounderIsSpared
    /\ NoOrphans
    /\ AssigneeWasMember /\ Known

\* No handler joins the number of those that are about to use a link.
LEMMA NoNewJoin ==
  ASSUME TypeOK, UsesBounded, TypeOK', UNCHANGED uses,
         \A q \in Procs : pc'[q] = "join" => pc[q] = "join" /\ on'[q] = on[q]
  PROVE  UsesBounded'
<1> SUFFICES ASSUME NEW l \in Links
             PROVE  uses'[l] + Cardinality(Joining(l)') < MaxUses + Cardinality(Procs)
  BY DEF UsesBounded
<1>1. Joining(l)' \subseteq Joining(l) /\ Joining(l) \subseteq Procs
  BY DEF Joining
<1>2. /\ Cardinality(Joining(l)') <= Cardinality(Joining(l))
      /\ Cardinality(Joining(l)') \in Nat /\ Cardinality(Joining(l)) \in Nat
      /\ Cardinality(Procs) \in Nat
  BY <1>1, FS_Subset, FS_CardinalityType, BoundsAssumption
<1>3. uses[l] + Cardinality(Joining(l)) < MaxUses + Cardinality(Procs)
  BY DEF UsesBounded
<1> QED
  BY <1>2, <1>3, BoundsAssumption DEF TypeOK, RowsOK

LEMMA InitInv == Init => IInv
<1> SUFFICES ASSUME Init PROVE IInv
  OBVIOUS
<1> USE DEF Init
<1>1. TypeOK /\ Placed
  BY FounderAssumption DEF TypeOK, RowsOK, SlotsOK, Placed, Labels, Roles
<1>2. UsesBounded
  <2> SUFFICES ASSUME NEW l \in Links
               PROVE  uses[l] + Cardinality(Joining(l)) < MaxUses + Cardinality(Procs)
    BY DEF UsesBounded
  <2>1. Joining(l) = {} /\ uses[l] = 0
    BY DEF Joining
  <2> QED
    BY <2>1, FS_EmptySet, FS_CardinalityType, BoundsAssumption
<1>3. FounderOwns /\ FounderIsSpared /\ NoOrphans /\ AssigneeWasMember /\ Known
  BY FounderAssumption DEF FounderOwns, FounderIsSpared, NoOrphans, AssigneeWasMember, Known
<1> QED
  BY <1>1, <1>2, <1>3 DEF IInv

\* What a request says about itself when it arrives.
Fits(label, x, w, r) ==
    /\ label \in Labels /\ x \in Links \cup Tasks \cup {None}
    /\ w \in Users \cup {Nobody} /\ r \in Roles \cup {None}
    /\ label \in {"newmember", "promote", "set", "remove", "delete", "owner", "join"} => w \in Users
    /\ label \in {"newmember", "promote", "set", "join"} => r \in Roles
    /\ label \in {"newlink", "revoke", "join"} => x \in Links
    /\ label \in {"newtask", "assertnew", "findtask", "assert", "update", "drop"} => x \in Tasks
    /\ label \in {"newtask", "update"} => w = Nobody
    /\ label \in {"set", "delete"} => role[w] = "ADMIN"
    /\ label = "join" => Room(x) /\ r = "MEMBER"

LEMMA Arrives ==
  ASSUME NEW p \in Procs, NEW u \in Users, Request(p, u)
  PROVE  \E label, x, w, r : Start(p, label, x, w, r) /\ Fits(label, x, w, r)
<1> USE DEF Fits, Labels, Roles
<1>1. CASE AddMember(p, u) \/ UpdateMemberRole(p, u) \/ RemoveMember(p, u)
  BY <1>1 DEF AddMember, UpdateMemberRole, RemoveMember
<1>2. CASE Leave(p, u) \/ DeleteWorkspace(p, u)
  BY <1>2 DEF Leave, DeleteWorkspace
<1>3. CASE CreateInviteLink(p, u) \/ RevokeInviteLink(p, u) \/ JoinViaInvite(p, u)
  BY <1>3 DEF CreateInviteLink, RevokeInviteLink, JoinViaInvite
<1>4. CASE CreateTask(p, u) \/ UpdateTask(p, u) \/ DeleteTask(p, u)
  BY <1>4 DEF CreateTask, UpdateTask, DeleteTask
<1> QED
  BY <1>1, <1>2, <1>3, <1>4 DEF Request

\* Requests that arrive change no row; only JoinViaInvite goes on to use a link.
LEMMA RequestInv ==
  ASSUME IInv, NEW p \in Procs, NEW u \in Users, Request(p, u)
  PROVE  IInv'
<1>1. PICK label, x, w, r : Start(p, label, x, w, r) /\ Fits(label, x, w, r)
  BY Arrives
<1>2. UNCHANGED <<exists, role, been, link, uses, assigned>>
  BY <1>1 DEF Start, rows, members, links
<1>3. pc[p] = "idle" /\ pc' = [pc EXCEPT ![p] = label] /\ on' = [on EXCEPT ![p] = x]
      /\ who' = [who EXCEPT ![p] = w] /\ give' = [give EXCEPT ![p] = r]
  BY <1>1 DEF Start
<1>4. TypeOK'
  <2>1. RowsOK'
    BY <1>2 DEF IInv, TypeOK, RowsOK
  <2>2. me' \in [Procs -> Users \cup {Nobody}] /\ level' \in [Procs -> Roles \cup {None}]
    BY DEF Request, UpdateTask, IInv, TypeOK, RowsOK, SlotsOK
  <2> QED
    BY <1>1, <1>3, <2>1, <2>2 DEF IInv, TypeOK, SlotsOK, Fits
<1>5. ASSUME NEW q \in Procs
      PROVE  \/ q = p /\ pc'[q] = label /\ on'[q] = x /\ who'[q] = w /\ give'[q] = r
             \/ q # p /\ pc'[q] = pc[q] /\ on'[q] = on[q] /\ who'[q] = who[q]
                      /\ give'[q] = give[q]
  BY <1>3 DEF IInv, TypeOK, SlotsOK
<1>6. Placed'
  BY <1>1, <1>5 DEF Placed, Fits, IInv
<1>7. UsesBounded'
  <2>1. CASE label = "join"
    <3> SUFFICES ASSUME NEW l \in Links
                 PROVE  uses'[l] + Cardinality(Joining(l)') < MaxUses + Cardinality(Procs)
      BY DEF UsesBounded
    <3>1. /\ Cardinality(Joining(l)') <= Cardinality(Procs)
          /\ Cardinality(Joining(l)') \in Nat /\ Cardinality(Procs) \in Nat
      BY FS_Subset, FS_CardinalityType, BoundsAssumption DEF Joining
    <3>2. uses'[l] = uses[l] /\ uses[l] \in Nat
      BY <1>2 DEF IInv, TypeOK, RowsOK
    <3>3. CASE l = x
      BY <1>1, <2>1, <3>1, <3>2, <3>3, BoundsAssumption DEF Fits, Room
    <3>4. CASE l # x
      <4>1. Joining(l)' = Joining(l)
        BY <1>3, <1>5, <2>1, <3>4 DEF Joining
      <4> QED
        BY <3>2, <4>1 DEF IInv, UsesBounded
    <3> QED
      BY <3>3, <3>4
  <2>2. CASE label # "join"
    BY <1>2, <1>4, <1>5, <2>2, NoNewJoin DEF IInv
  <2> QED
    BY <2>1, <2>2
<1>8. FounderOwns' /\ NoOrphans' /\ AssigneeWasMember'
  BY <1>2 DEF IInv, FounderOwns, NoOrphans, AssigneeWasMember
<1>9. FounderIsSpared'
  BY <1>1, <1>2, <1>5 DEF IInv, FounderOwns, FounderIsSpared, Fits
<1>10. Known'
  BY <1>1, <1>2, <1>5 DEF IInv, Known, Fits
<1> QED
  BY <1>4, <1>6, <1>7, <1>8, <1>9, <1>10 DEF IInv

\* A handler goes on to a label for which its request is fit.
Onward(p, label) ==
    \/ label = "set" /\ pc[p] = "promote" /\ Target(p)
    \/ label = "delete" /\ pc[p] = "remove" /\ Target(p)
    \/ label = "wipe"
    \/ label = "assert" /\ pc[p] = "findtask"
    \/ label = "update" /\ pc[p] = "findtask" /\ who[p] = Nobody
    \/ label = "update" /\ pc[p] = "assert" /\ role[who[p]] # None
    \/ label = "newtask" /\ pc[p] = "assertnew" /\ role[who[p]] # None

\* The step of a handler as far as the slots are concerned.
LEMMA SlotStep ==
  ASSUME IInv, NEW p \in Procs, Handle(p) \/ Stop(p)
  PROVE  /\ SlotsOK'
         /\ \A q \in Procs : q # p => /\ pc'[q] = pc[q] /\ on'[q] = on[q]
                                      /\ who'[q] = who[q] /\ give'[q] = give[q]
         /\ \/ pc'[p] = "idle"
            \/ /\ Onward(p, pc'[p])
               /\ on'[p] = on[p] /\ who'[p] = who[p] /\ give'[p] = give[p]
<1>1. CASE FindTarget(p) \/ FindOwner(p) \/ AssertMember(p)
  BY <1>1 DEF IInv, TypeOK, SlotsOK, Labels, Onward, Goto, Finish, FindTarget, FindOwner, AssertMember
<1>2. CASE FindTask(p)
  BY <1>2 DEF IInv, TypeOK, SlotsOK, Labels, Onward, Finish, FindTask
<1>3. CASE Finish(p)
  BY <1>3 DEF IInv, TypeOK, SlotsOK, Labels, Finish
<1> QED
  BY <1>1, <1>2, <1>3 DEF Handle, Stop, InsertMember, SetRole, DeleteMember, Wipe,
     InsertLink, DeleteLink, CommitJoin, WriteTask, DropTask

\* The step of a handler as far as the rows are concerned.
LEMMA RowStep ==
  ASSUME IInv, NEW p \in Procs, Handle(p) \/ Stop(p)
  PROVE  /\ RowsOK'
         /\ FounderOwns' /\ NoOrphans' /\ AssigneeWasMember'
         /\ \A u \in Users : role'[u] # None => u \in been'
         /\ been \subseteq been' /\ (exists' => exists)
<1> USE DEF IInv, TypeOK, RowsOK, rows, members, links
<1>1. CASE InsertMember(p)
  <2>1. who[p] \in Users /\ give[p] \in Roles
    BY <1>1 DEF InsertMember, Placed
  <2>2. UNCHANGED <<exists, link, uses, assigned>>
    BY <1>1 DEF InsertMember
  <2>3. \/ UNCHANGED <<role, been>>
        \/ /\ exists /\ role[who[p]] = None
           /\ role' = [role EXCEPT ![who[p]] = give[p]] /\ been' = been \cup {who[p]}
    BY <1>1 DEF InsertMember, Insertable
  <2> QED
    BY <2>1, <2>2, <2>3, FounderAssumption
       DEF FounderOwns, NoOrphans, AssigneeWasMember, Known, None
<1>2. CASE SetRole(p) \/ DeleteMember(p)
  <2>1. who[p] \in Users /\ give[p] \in Roles \cup {None}
    BY <1>2 DEF SetRole, DeleteMember, Placed, SlotsOK
  <2>2. UNCHANGED <<exists, been, link, uses, assigned>>
    BY <1>2 DEF SetRole, DeleteMember
  <2>3. /\ exists => who[p] # Founder
        /\ \/ UNCHANGED role
           \/ role' = [role EXCEPT ![who[p]] = None]
           \/ role[who[p]] # None /\ role' = [role EXCEPT ![who[p]] = give[p]]
    BY <1>2 DEF SetRole, DeleteMember, FounderIsSpared
  <2> QED
    BY <2>1, <2>2, <2>3, FounderAssumption DEF FounderOwns, NoOrphans, AssigneeWasMember, Known
<1>3. CASE Wipe(p)
  BY <1>3, DistinctAssumption DEF Wipe, FounderOwns, NoOrphans, AssigneeWasMember
<1>4. CASE InsertLink(p) \/ DeleteLink(p)
  <2>1. UNCHANGED <<exists, role, been, uses, assigned>>
    BY <1>4 DEF InsertLink, DeleteLink
  <2>2. \/ exists /\ link' = [link EXCEPT ![on[p]] = "open"]
        \/ link' = [link EXCEPT ![on[p]] = Gone]
        \/ UNCHANGED link
    BY <1>4 DEF InsertLink, DeleteLink, Insertable
  <2> QED
    BY <2>1, <2>2 DEF FounderOwns, NoOrphans, AssigneeWasMember, Known
<1>5. CASE CommitJoin(p)
  <2>1. who[p] \in Users /\ give[p] \in Roles /\ on[p] \in Links
    BY <1>5 DEF CommitJoin, Placed
  <2>2. UNCHANGED <<exists, link, assigned>>
    BY <1>5 DEF CommitJoin
  <2>3. \/ UNCHANGED <<role, been, uses>>
        \/ /\ exists /\ role[who[p]] = None
           /\ role' = [role EXCEPT ![who[p]] = give[p]] /\ been' = been \cup {who[p]}
           /\ uses' = [uses EXCEPT ![on[p]] = @ + 1]
    BY <1>5 DEF CommitJoin, Insertable
  <2>4. uses' \in [Links -> Nat]
    BY <2>1, <2>3
  <2> QED
    BY <2>1, <2>2, <2>3, <2>4, FounderAssumption
       DEF FounderOwns, NoOrphans, AssigneeWasMember, Known, None
<1>6. CASE WriteTask(p)
  <2>1. UNCHANGED <<exists, role, been, link, uses>> /\ who[p] \in been \cup {Nobody}
    BY <1>6 DEF WriteTask, Known
  <2>2. /\ assigned' = [assigned EXCEPT ![on[p]] = who[p]] /\ on[p] \in Tasks
        /\ exists \/ assigned[on[p]] \notin {None, Gone}
    BY <1>6 DEF WriteTask, Insertable, Placed
  <2> QED
    BY <2>1, <2>2 DEF FounderOwns, NoOrphans, AssigneeWasMember, Known
<1>7. CASE DropTask(p)
  BY <1>7 DEF DropTask, FounderOwns, NoOrphans, AssigneeWasMember, Known
<1>8. CASE UNCHANGED rows
  BY <1>8 DEF FounderOwns, NoOrphans, AssigneeWasMember, Known
<1> QED
  BY <1>1, <1>2, <1>3, <1>4, <1>5, <1>6, <1>7, <1>8
     DEF Handle, Stop, FindTarget, FindOwner, FindTask, AssertMember

LEMMA HandleInv ==
  ASSUME IInv, NEW p \in Procs, Handle(p) \/ Stop(p)
  PROVE  IInv'
<1>1. TypeOK'
  BY SlotStep, RowStep DEF TypeOK
<1>2. Placed'
  BY SlotStep DEF IInv, Placed, Onward
<1>3. UsesBounded'
  <2>1. CASE UNCHANGED uses
    BY <1>1, <2>1, SlotStep, NoNewJoin DEF IInv, Onward
  <2>2. CASE CommitJoin(p) /\ uses' = [uses EXCEPT ![on[p]] = @ + 1]
    <3> SUFFICES ASSUME NEW l \in Links
                 PROVE  uses'[l] + Cardinality(Joining(l)') < MaxUses + Cardinality(Procs)
      BY DEF UsesBounded
    <3>1. pc[p] = "join" /\ pc'[p] = "idle" /\ on[p] \in Links
      BY <2>2 DEF CommitJoin, Finish, IInv, Placed, TypeOK, SlotsOK
    <3>2. Joining(l)' = Joining(l) \ {p}
      BY <3>1, SlotStep DEF Joining
    <3>3. uses[l] + Cardinality(Joining(l)) < MaxUses + Cardinality(Procs) /\ uses[l] \in Nat
      BY DEF IInv, UsesBounded, TypeOK, RowsOK
    <3>4. IsFiniteSet(Joining(l)) /\ Cardinality(Joining(l)) \in Nat /\ Cardinality(Procs) \in Nat
      BY FS_Subset, FS_CardinalityType, BoundsAssumption DEF Joining
    <3>5. CASE on[p] = l
      <4>1. p \in Joining(l) /\ Cardinality(Joining(l)') = Cardinality(Joining(l)) - 1
        BY <3>1, <3>2, <3>4, <3>5, FS_RemoveElement DEF Joining
      <4>2. uses'[l] = uses[l] + 1
        BY <2>2, <3>5 DEF IInv, TypeOK, RowsOK
      <4> QED
        BY <3>3, <3>4, <4>1, <4>2, BoundsAssumption
    <3>6. CASE on[p] # l
      <4>1. Joining(l)' = Joining(l)
        BY <3>2, <3>6 DEF Joining
      <4>2. uses'[l] = uses[l]
        BY <2>2, <3>6 DEF IInv, TypeOK, RowsOK
      <4> QED
        BY <3>3, <4>1, <4>2
    <3> QED
      BY <3>5, <3>6
  <2> QED
    BY <2>1, <2>2 DEF Handle, Stop, InsertMember, FindTarget, SetRole, DeleteMember,
       FindOwner, Wipe, InsertLink, DeleteLink, CommitJoin, FindTask, AssertMember, WriteTask,
       DropTask, rows, members, links
<1>4. FounderOwns' /\ NoOrphans' /\ AssigneeWasMember'
  BY RowStep
<1>5. FounderIsSpared'
  BY SlotStep, RowStep DEF IInv, FounderIsSpared, FounderOwns, Onward, Target
<1>6. Known'
  BY SlotStep, RowStep DEF IInv, Known, Onward, TypeOK, RowsOK, SlotsOK, Placed
<1> QED
  BY <1>1, <1>2, <1>3, <1>4, <1>5, <1>6 DEF IInv

LEMMA NextInv == IInv /\ [Next]_vars => IInv'
<1> SUFFICES ASSUME IInv, [Next]_vars PROVE IInv'
  OBVIOUS
<1>1. ASSUME NEW l \in Links, Lapse(l) PROVE IInv'
  <2>1. TypeOK' /\ UNCHANGED <<exists, role, been, uses, assigned, slots>>
    BY <1>1 DEF Lapse, IInv, TypeOK, RowsOK, SlotsOK, members, slots
  <2>2. UsesBounded'
    BY <2>1, NoNewJoin DEF IInv, slots
  <2>3. NoOrphans'
    BY <1>1, <2>1, DistinctAssumption DEF Lapse, IInv, NoOrphans, TypeOK, RowsOK, None, Gone
  <2> QED
    BY <2>1, <2>2, <2>3
       DEF IInv, slots, Placed, FounderOwns, FounderIsSpared, AssigneeWasMember, Known
<1>2. CASE UNCHANGED vars
  BY <1>2 DEF vars, rows, members, links, slots, IInv, TypeOK, RowsOK, SlotsOK, Placed,
     UsesBounded, Joining, FounderOwns, FounderIsSpared, NoOrphans, AssigneeWasMember, Known
<1> QED
  BY <1>1, <1>2, RequestInv, HandleInv DEF Next

LEMMA Invariance == Spec => []IInv
BY InitInv, NextInv, PTL DEF Spec

----------------------------------------------------------------------------

\* Every variable keeps its type.
THEOREM TypeCorrect == Spec => []TypeOK
BY Invariance, PTL DEF IInv

\* Joins that overlap exceed maxUses by less than their number.
THEOREM OvershootIsBounded == Spec => []UsesBounded
BY Invariance, PTL DEF IInv

\* Nobody demotes or removes the founder.
THEOREM FounderKeepsWorkspace == Spec => []FounderOwns
BY Invariance, PTL DEF IInv

\* Nothing outlives the workspace.
THEOREM WorkspaceLeavesNothing == Spec => []NoOrphans
BY Invariance, PTL DEF IInv

\* Tasks are assigned to present or former members.
THEOREM AssigneesAreKnown == Spec => []AssigneeWasMember
BY Invariance, PTL DEF IInv

\* Nobody enters by a link that has been revoked.
THEOREM EntriesAreCounted == Spec => EntryIsCounted
<1> DEFINE Counted(u) ==
      \/ \E l \in Links : link[l] \in {"open", "expired"} /\ uses'[l] = uses[l] + 1
      \/ \E p \in Procs : pc[p] = "newmember" /\ who[p] = u
<1>1. ASSUME IInv, [Next]_vars, NEW u \in Users, role[u] = None, role'[u] # None
      PROVE  Counted(u)
  <2> USE DEF rows, members, links
  <2>1. PICK p \in Procs : InsertMember(p) \/ CommitJoin(p)
    <3>1. ASSUME NEW p \in Procs, SetRole(p) \/ DeleteMember(p) PROVE FALSE
      <4>1. role \in [Users -> Roles \cup {None}]
        BY <1>1 DEF IInv, TypeOK, RowsOK
      <4>2. \/ role' = [role EXCEPT ![who[p]] = None]
            \/ role[who[p]] # None /\ role' = [role EXCEPT ![who[p]] = give[p]]
            \/ role' = role
        BY <3>1 DEF SetRole, DeleteMember
      <4> QED
        BY <1>1, <4>1, <4>2
    <3>2. ASSUME NEW p \in Procs, Wipe(p) PROVE FALSE
      BY <1>1, <3>2 DEF Wipe
    <3>3. ASSUME NEW p \in Procs, NEW v \in Users, Request(p, v) PROVE FALSE
      BY <1>1, <3>3 DEF Request, AddMember, UpdateMemberRole, RemoveMember, Leave,
         DeleteWorkspace, CreateInviteLink, RevokeInviteLink, JoinViaInvite, CreateTask,
         UpdateTask, DeleteTask, Start
    <3>4. ~UNCHANGED role
      BY <1>1
    <3> QED
      BY <1>1, <3>1, <3>2, <3>3, <3>4 DEF Next, Handle, Stop, FindTarget, FindOwner,
         InsertLink, DeleteLink, FindTask, AssertMember, WriteTask, DropTask, Lapse, vars
  <2>2. who[p] = u
    BY <1>1, <2>1 DEF InsertMember, CommitJoin, IInv, TypeOK, RowsOK
  <2>3. CASE InsertMember(p)
    BY <2>2, <2>3 DEF InsertMember
  <2>4. CASE CommitJoin(p)
    <3>1. on[p] \in Links
      <4>1. pc[p] = "join"
        BY <2>4 DEF CommitJoin
      <4> QED
        BY <1>1, <4>1 DEF IInv, Placed
    <3>2. link[on[p]] \in {"open", "expired"} /\ uses' = [uses EXCEPT ![on[p]] = @ + 1]
      BY <1>1, <2>4 DEF CommitJoin
    <3> QED
      BY <1>1, <3>1, <3>2 DEF IInv, TypeOK, RowsOK
  <2> QED
    BY <2>1, <2>3, <2>4
<1>2. IInv /\ [Next]_vars =>
        [\A u \in Users : role[u] = None /\ role'[u] # None => Counted(u)]_vars
  BY <1>1
<1> QED
  BY <1>2, Invariance, PTL DEF Spec, EntryIsCounted

----------------------------------------------------------------------------
(* What holds of requests that are apart.  Both halves of the condition are    *)
(* needed: joins that overlap exceed maxUses, and of two requests about one    *)
(* user the second demotes or removes the OWNER whom the first has just made.  *)

\* No two joins by one link, no two handlers about to write one user's role.
Apart ==
    \A p, q \in Procs : p # q =>
        /\ pc[p] = "join" /\ pc[q] = "join" => on[p] # on[q]
        /\ {pc[p], pc[q]} \subseteq {"newmember", "set", "delete"} => who[p] # who[q]

\* README.md:141: a link is used at most maxUses times.
UsesKept == \A l \in Links : uses[l] <= MaxUses

\* workspace.service.ts:139, 171: as long as there is a workspace, an OWNER is
\* neither demoted nor removed.
OwnersStay == [][exists' => \A u \in Users : role[u] = "OWNER" => role'[u] = "OWNER"]_vars

RoomToJoin == \A p \in Procs : pc[p] = "join" => uses[on[p]] < MaxUses

\* What a handler found about its target is still true, and a link makes no OWNER.
OwnersAreSpared ==
    \A p \in Procs : /\ pc[p] \in {"set", "delete"} => role[who[p]] # "OWNER"
                     /\ pc[p] = "join" => give[p] # "OWNER"

\* A request that arrives, seen from every slot.
LEMMA RequestStep ==
  ASSUME TypeOK, NEW p \in Procs, NEW u \in Users, Request(p, u)
  PROVE  /\ UNCHANGED <<exists, role, been, link, uses, assigned>>
         /\ Fits(pc'[p], on'[p], who'[p], give'[p])
         /\ \A q \in Procs : q # p => /\ pc'[q] = pc[q] /\ on'[q] = on[q]
                                      /\ who'[q] = who[q] /\ give'[q] = give[q]
<1>1. PICK label, x, w, r : Start(p, label, x, w, r) /\ Fits(label, x, w, r)
  BY Arrives
<1>2. UNCHANGED <<exists, role, been, link, uses, assigned>>
  BY <1>1 DEF Start, rows, members, links
<1>3. pc'[p] = label /\ on'[p] = x /\ who'[p] = w /\ give'[p] = r
  BY <1>1 DEF Start, TypeOK, SlotsOK
<1> QED
  BY <1>1, <1>2, <1>3 DEF Start, TypeOK, SlotsOK

\* The ways a user's role changes.
LEMMA RoleStep ==
  ASSUME IInv, NEW p \in Procs, Handle(p) \/ Stop(p), NEW u \in Users
  PROVE  \/ role'[u] = role[u]
         \/ pc[p] = "newmember" /\ who[p] = u /\ role[u] = None
         \/ pc[p] = "join" /\ who[p] = u /\ role[u] = None /\ role'[u] = give[p]
         \/ pc[p] \in {"set", "delete"} /\ who[p] = u
         \/ ~exists' /\ role'[u] = None
<1> USE DEF IInv, TypeOK, RowsOK, rows, members, links
<1>1. CASE InsertMember(p) \/ CommitJoin(p)
  BY <1>1 DEF InsertMember, CommitJoin, Insertable
<1>2. CASE SetRole(p) \/ DeleteMember(p)
  BY <1>2 DEF SetRole, DeleteMember
<1>3. CASE Wipe(p)
  BY <1>3 DEF Wipe
<1>4. CASE UNCHANGED role
  BY <1>4
<1> QED
  BY <1>1, <1>2, <1>3, <1>4
     DEF Handle, Stop, FindTarget, FindOwner, InsertLink, DeleteLink, FindTask, AssertMember,
         WriteTask, DropTask

LEMMA UsesStay ==
  ASSUME IInv, Apart, UsesKept, RoomToJoin, [Next]_vars
  PROVE  UsesKept' /\ RoomToJoin'
<1> USE DEF UsesKept, RoomToJoin
<1>1. ASSUME NEW p \in Procs, NEW u \in Users, Request(p, u) PROVE UsesKept' /\ RoomToJoin'
  BY <1>1, RequestStep DEF IInv, Fits, Room
<1>2. ASSUME NEW p \in Procs, Handle(p) \/ Stop(p) PROVE UsesKept' /\ RoomToJoin'
  <2>1. \A q \in Procs : pc'[q] = "join" => q # p /\ pc[q] = "join" /\ on'[q] = on[q]
    BY <1>2, SlotStep DEF Onward
  <2>2. CASE UNCHANGED uses
    BY <2>1, <2>2
  <2>3. CASE CommitJoin(p) /\ uses' = [uses EXCEPT ![on[p]] = @ + 1]
    <3>1. pc[p] = "join" /\ on[p] \in Links /\ uses[on[p]] < MaxUses
      BY <2>3 DEF CommitJoin, IInv, Placed
    <3>2. \A l \in Links : uses'[l] = IF l = on[p] THEN uses[l] + 1 ELSE uses[l]
      BY <2>3 DEF IInv, TypeOK, RowsOK
    <3>3. UsesKept'
      BY <3>1, <3>2, BoundsAssumption DEF IInv, TypeOK, RowsOK
    <3>4. \A q \in Procs : pc'[q] = "join" => on[q] \in Links /\ on[q] # on[p]
      BY <2>1, <3>1 DEF Apart, IInv, Placed
    <3> QED
      BY <2>1, <3>2, <3>3, <3>4
  <2> QED
    BY <1>2, <2>2, <2>3 DEF Handle, Stop, InsertMember, FindTarget, SetRole, DeleteMember,
       FindOwner, Wipe, InsertLink, DeleteLink, CommitJoin, FindTask, AssertMember, WriteTask,
       DropTask, rows, members, links
<1>3. ASSUME NEW l \in Links, Lapse(l) PROVE UsesKept' /\ RoomToJoin'
  BY <1>3 DEF Lapse, slots
<1>4. CASE UNCHANGED vars
  BY <1>4 DEF vars, rows, links, slots
<1> QED
  BY <1>1, <1>2, <1>3, <1>4 DEF Next

\* Joins by one link that do not overlap keep maxUses exactly: their overlap is
\* the only way to exceed it.
THEOREM ApartKeepsMaxUses == Spec /\ []Apart => []UsesKept
<1>1. Init => UsesKept /\ RoomToJoin
  BY BoundsAssumption DEF Init, UsesKept, RoomToJoin
<1> QED
  BY <1>1, UsesStay, Invariance, PTL DEF Spec

LEMMA OwnersStaySpared ==
  ASSUME IInv, IInv', Apart, OwnersAreSpared, [Next]_vars
  PROVE  OwnersAreSpared'
<1> USE DEF OwnersAreSpared
<1>1. ASSUME NEW p \in Procs, NEW u \in Users, Request(p, u) PROVE OwnersAreSpared'
  BY <1>1, RequestStep DEF IInv, Fits
<1>2. ASSUME NEW p \in Procs, Handle(p) \/ Stop(p) PROVE OwnersAreSpared'
  <2> SUFFICES ASSUME NEW q \in Procs
               PROVE  /\ pc'[q] \in {"set", "delete"} => role'[who'[q]] # "OWNER"
                      /\ pc'[q] = "join" => give'[q] # "OWNER"
    OBVIOUS
  <2>1. CASE q = p
    <3>1. pc'[p] # "join" /\ (pc'[p] \in {"set", "delete"} => role[who[p]] # "OWNER" /\ who'[p] = who[p])
      BY <1>2, SlotStep DEF Onward, Target
    <3>2. pc'[p] \in {"set", "delete"} => role' = role
      BY <1>2, SlotStep DEF Onward, Handle, Stop, InsertMember, FindTarget, SetRole,
         DeleteMember, FindOwner, Wipe, InsertLink, DeleteLink, CommitJoin, FindTask,
         AssertMember, WriteTask, DropTask, rows, members
    <3> QED
      BY <2>1, <3>1, <3>2
  <2>2. CASE q # p
    <3>1. pc'[q] = pc[q] /\ who'[q] = who[q] /\ give'[q] = give[q]
      BY <1>2, <2>2, SlotStep
    <3>2. ASSUME pc[q] \in {"set", "delete"} PROVE role'[who[q]] # "OWNER"
      <4>1. who[q] \in Users
        BY <3>2 DEF IInv, Placed
      <4>2. ~(pc[p] \in {"newmember", "set", "delete"} /\ who[p] = who[q])
        BY <2>2, <3>2 DEF Apart
      <4> QED
        BY <1>2, <3>2, <4>1, <4>2, RoleStep DEF None
    <3> QED
      BY <3>1, <3>2
  <2> QED
    BY <2>1, <2>2
<1>3. ASSUME NEW l \in Links, Lapse(l) PROVE OwnersAreSpared'
  BY <1>3 DEF Lapse, members, slots
<1>4. CASE UNCHANGED vars
  BY <1>4 DEF vars, rows, members, slots
<1> QED
  BY <1>1, <1>2, <1>3, <1>4 DEF Next

\* Handlers about one user that do not overlap leave every OWNER where he is; the
\* founder is safe without that (FounderKeepsWorkspace).
THEOREM ApartSparesOwners == Spec /\ []Apart => OwnersStay
<1>1. Init => OwnersAreSpared
  BY DEF Init, OwnersAreSpared
<1>2. ASSUME IInv, OwnersAreSpared, [Next]_vars
      PROVE  exists' => \A u \in Users : role[u] = "OWNER" => role'[u] = "OWNER"
  <2> SUFFICES ASSUME exists', NEW u \in Users, role[u] = "OWNER" PROVE role'[u] = "OWNER"
    OBVIOUS
  <2>1. ASSUME NEW p \in Procs, Handle(p) \/ Stop(p) PROVE role'[u] = "OWNER"
    BY <1>2, <2>1, RoleStep DEF OwnersAreSpared, None
  <2>2. ASSUME NEW p \in Procs, NEW v \in Users, Request(p, v) PROVE role'[u] = "OWNER"
    BY <1>2, <2>2, RequestStep DEF IInv
  <2> QED
    BY <1>2, <2>1, <2>2 DEF Next, Lapse, vars, rows, members
<1> QED
  BY <1>1, <1>2, OwnersStaySpared, Invariance, PTL DEF Spec, OwnersStay

=============================================================================
