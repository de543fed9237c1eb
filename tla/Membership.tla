----------------------------- MODULE Membership -----------------------------
(***************************************************************************)
(* The members of one workspace, its invite links and its tasks            *)
(* (server/src/workspace/workspace.service.ts, task/task.service.ts).      *)
(*                                                                         *)
(* WorkspaceMemberGuard reads the caller's role before the handler runs;   *)
(* the handler checks what it reads, and writes later.  A slot follows a   *)
(* request through these steps.  Only joinViaInvite has a transaction; all *)
(* it does before its commit is write, so it is one step.  A check that    *)
(* the write repeats, because a unique index or a missing row makes it     *)
(* throw, is made with the write.                                          *)
(***************************************************************************)
EXTENDS Naturals, FiniteSets

CONSTANTS
    Users, Founder,     \* Founder created the workspace
    Links, Tasks,       \* bounds: invite links and tasks ever created
    Procs,              \* slots for requests that are under way at the same time
    MaxUses             \* WorkspaceInvite.maxUses of every link

None == "none"          \* no row yet, and for members: no longer
Gone == "gone"          \* the row has been deleted
Nobody == "nobody"      \* assignedId is NULL
Roles == {"MEMBER", "ADMIN", "OWNER"}

ASSUME FounderAssumption == Founder \in Users
ASSUME DistinctAssumption == {None, Gone, Nobody} \cap Users = {}
ASSUME BoundsAssumption == MaxUses \in Nat \ {0} /\ IsFiniteSet(Procs)

VARIABLES
    exists,         \* the Workspace row
    role,           \* role column of each user's WorkspaceMember row, or None
    link, uses,     \* WorkspaceInvite rows: None, "open", "expired" or Gone; useCount
    assigned,       \* Task rows: None, Gone or the assignedId
    been,           \* history: users that have been members
    pc,             \* where a request is
    me, level,      \* its user and the role the guard found, while the handler needs them
    on, who, give   \* its link or task, the user it is about, the role it gives

members == <<role, been>>
links == <<link, uses>>
rows == <<exists, members, links, assigned>>
slots == <<pc, me, level, on, who, give>>
vars == <<rows, slots>>

Init ==
    /\ exists = TRUE
    /\ role = [u \in Users |-> IF u = Founder THEN "OWNER" ELSE None]
    /\ link = [l \in Links |-> None] /\ uses = [l \in Links |-> 0]
    /\ assigned = [t \in Tasks |-> None]
    /\ been = {Founder}
    /\ pc = [p \in Procs |-> "idle"]
    /\ me = [p \in Procs |-> Nobody] /\ level = [p \in Procs |-> None]
    /\ on = [p \in Procs |-> None] /\ who = [p \in Procs |-> Nobody]
    /\ give = [p \in Procs |-> None]

----------------------------------------------------------------------------

Goto(p, label) ==
    /\ pc' = [pc EXCEPT ![p] = label]
    /\ UNCHANGED <<me, level, on, who, give>>

Finish(p) ==
    /\ pc' = [pc EXCEPT ![p] = "idle"]
    /\ me' = [me EXCEPT ![p] = Nobody] /\ level' = [level EXCEPT ![p] = None]
    /\ on' = [on EXCEPT ![p] = None] /\ who' = [who EXCEPT ![p] = Nobody]
    /\ give' = [give EXCEPT ![p] = None]

\* A request about link or task x, user w and role r goes on at label.
Start(p, label, x, w, r) ==
    /\ pc[p] = "idle"
    /\ pc' = [pc EXCEPT ![p] = label]
    /\ on' = [on EXCEPT ![p] = x] /\ who' = [who EXCEPT ![p] = w]
    /\ give' = [give EXCEPT ![p] = r]
    /\ UNCHANGED rows

\* roleHierarchy: the roles from r upwards.
AtLeast(r) == CASE r = "MEMBER" -> Roles
                [] r = "ADMIN" -> {"ADMIN", "OWNER"}
                [] r = "OWNER" -> {"OWNER"}

\* Fault: nothing holds back an insert into a workspace that has been deleted.
InsertableAlways(row) == row = None

\* There is no such row, and the workspace it refers to is there.
Insertable(row) == exists /\ row = None

----------------------------------------------------------------------------
(* Members *)

\* Fault: no default for a role that is left out.
AddMemberNoDefault(p, u) ==
    /\ role[u] \in AtLeast("ADMIN")
    /\ \E w \in Users, r \in Roles \cup {Nobody} : Start(p, "newmember", None, w, r)

AddMember(p, u) ==
    /\ role[u] \in AtLeast("ADMIN")
    /\ \E w \in Users, r \in Roles : Start(p, "newmember", None, w, r)

InsertMember(p) ==
    /\ pc[p] = "newmember"
    /\ \/ /\ Insertable(role[who[p]])
          /\ role' = [role EXCEPT ![who[p]] = give[p]]
          /\ been' = been \cup {who[p]}
       \/ ~Insertable(role[who[p]]) /\ UNCHANGED members
    /\ Finish(p)
    /\ UNCHANGED <<exists, links, assigned>>

UpdateMemberRole(p, u) ==
    /\ role[u] \in AtLeast("OWNER")
    /\ \E w \in Users \ {u}, r \in Roles : Start(p, "promote", None, w, r)

RemoveMember(p, u) ==
    /\ role[u] \in AtLeast("ADMIN")
    /\ \E w \in Users \ {u} : Start(p, "remove", None, w, None)

\* The same endpoint for oneself.  The guard keeps a MEMBER from leaving, the
\* handler an OWNER.
Leave(p, u) == role[u] = "ADMIN" /\ Start(p, "delete", None, u, None)

\* Fault: the handler asks for the target's row only.
TargetAny(p) == role[who[p]] # None

\* An OWNER is neither demoted nor removed.
Target(p) == role[who[p]] \notin {None, "OWNER"}

FindTarget(p) ==
    /\ pc[p] \in {"promote", "remove"}
    /\ IF Target(p) THEN Goto(p, IF pc[p] = "promote" THEN "set" ELSE "delete")
                    ELSE Finish(p)
    /\ UNCHANGED rows

SetRole(p) ==
    /\ pc[p] = "set"
    /\ role' = IF role[who[p]] = None THEN role ELSE [role EXCEPT ![who[p]] = give[p]]
    /\ Finish(p)
    /\ UNCHANGED <<exists, been, links, assigned>>

\* The tasks and vault shares of a member stay.
DeleteMember(p) ==
    /\ pc[p] = "delete"
    /\ role' = [role EXCEPT ![who[p]] = None]
    /\ Finish(p)
    /\ UNCHANGED <<exists, been, links, assigned>>

----------------------------------------------------------------------------
(* The workspace *)

DeleteWorkspace(p, u) == role[u] \in AtLeast("OWNER") /\ Start(p, "owner", None, u, None)

FindOwner(p) ==
    /\ pc[p] = "owner"
    /\ IF role[who[p]] = "OWNER" THEN Goto(p, "wipe") ELSE Finish(p)
    /\ UNCHANGED rows

\* The delete cascades.
Wipe(p) ==
    /\ pc[p] = "wipe"
    /\ exists' = FALSE
    /\ role' = [u \in Users |-> None]
    /\ link' = [l \in Links |-> IF link[l] = None THEN None ELSE Gone]
    /\ assigned' = [t \in Tasks |-> IF assigned[t] = None THEN None ELSE Gone]
    /\ Finish(p)
    /\ UNCHANGED <<uses, been>>

----------------------------------------------------------------------------
(* Invite links *)

CreateInviteLink(p, u) ==
    /\ role[u] \in AtLeast("ADMIN")
    /\ \E l \in Links : link[l] = None /\ Start(p, "newlink", l, Nobody, None)

InsertLink(p) ==
    /\ pc[p] = "newlink"
    /\ link' = IF Insertable(link[on[p]]) THEN [link EXCEPT ![on[p]] = "open"] ELSE link
    /\ Finish(p)
    /\ UNCHANGED <<exists, members, uses, assigned>>

RevokeInviteLink(p, u) ==
    /\ role[u] \in AtLeast("ADMIN")
    /\ \E l \in Links : link[l] # None /\ Start(p, "revoke", l, Nobody, None)

DeleteLink(p) ==
    /\ pc[p] = "revoke"
    /\ link' = [link EXCEPT ![on[p]] = Gone]
    /\ Finish(p)
    /\ UNCHANGED <<exists, members, uses, assigned>>

\* ttlHours pass.
Lapse(l) ==
    /\ link[l] = "open"
    /\ link' = [link EXCEPT ![l] = "expired"]
    /\ UNCHANGED <<exists, members, uses, assigned, slots>>

\* Fault: one use more than maxUses is let in.
RoomOffByOne(l) == uses[l] <= MaxUses

Room(l) == uses[l] < MaxUses

JoinViaInvite(p, u) ==
    \E l \in Links : link[l] = "open" /\ Room(l) /\ Start(p, "join", l, u, "MEMBER")

\* Fault: the member stays although the update of the invite has thrown.
CommitJoinNoRollback(p) ==
    /\ pc[p] = "join"
    /\ \/ /\ Insertable(role[who[p]])
          /\ role' = [role EXCEPT ![who[p]] = give[p]] /\ been' = been \cup {who[p]}
          /\ uses' = IF link[on[p]] \in {"open", "expired"}
                       THEN [uses EXCEPT ![on[p]] = @ + 1] ELSE uses
       \/ UNCHANGED <<members, uses>>
    /\ Finish(p)
    /\ UNCHANGED <<exists, link, assigned>>

\* The member, useCount and the workspace, or nothing: the user has become a
\* member, or the invite or the workspace is gone.  The expiry and the number of
\* uses are not looked at again.
CommitJoin(p) ==
    /\ pc[p] = "join"
    /\ \/ /\ Insertable(role[who[p]]) /\ link[on[p]] \in {"open", "expired"}
          /\ role' = [role EXCEPT ![who[p]] = give[p]] /\ been' = been \cup {who[p]}
          /\ uses' = [uses EXCEPT ![on[p]] = @ + 1]
       \/ UNCHANGED <<members, uses>>
    /\ Finish(p)
    /\ UNCHANGED <<exists, link, assigned>>

----------------------------------------------------------------------------
(* Tasks *)

CreateTask(p, u) ==
    /\ role[u] \in AtLeast("MEMBER")
    /\ \E t \in Tasks : /\ assigned[t] = None
                        /\ \/ Start(p, "newtask", t, Nobody, None)
                           \/ \E w \in Users : Start(p, "assertnew", t, w, None)

UpdateTask(p, u) ==
    /\ role[u] \in AtLeast("MEMBER")
    /\ \E t \in Tasks, w \in Users \cup {Nobody} : Start(p, "findtask", t, w, None)
    /\ me' = [me EXCEPT ![p] = u] /\ level' = [level EXCEPT ![p] = role[u]]

\* An OWNER or ADMIN at the time of the guard, or the assignee of the moment.
FindTask(p) ==
    /\ pc[p] = "findtask"
    /\ IF /\ assigned[on[p]] \notin {None, Gone}
          /\ level[p] \in AtLeast("ADMIN") \/ assigned[on[p]] = me[p]
         THEN /\ pc' = [pc EXCEPT ![p] = IF who[p] = Nobody THEN "update" ELSE "assert"]
              /\ me' = [me EXCEPT ![p] = Nobody] /\ level' = [level EXCEPT ![p] = None]
              /\ UNCHANGED <<on, who, give>>
         ELSE Finish(p)
    /\ UNCHANGED rows

\* Fault: the assignee need not be a member.
AssertAnybody(p) ==
    /\ pc[p] \in {"assert", "assertnew"}
    /\ Goto(p, IF pc[p] = "assert" THEN "update" ELSE "newtask")
    /\ UNCHANGED rows

\* assertMemberOfWorkspace.
AssertMember(p) ==
    /\ pc[p] \in {"assert", "assertnew"}
    /\ IF role[who[p]] # None
         THEN Goto(p, IF pc[p] = "assert" THEN "update" ELSE "newtask")
         ELSE Finish(p)
    /\ UNCHANGED rows

WriteTask(p) ==
    /\ \/ pc[p] = "newtask" /\ Insertable(assigned[on[p]])
       \/ pc[p] = "update" /\ assigned[on[p]] \notin {None, Gone}
    /\ assigned' = [assigned EXCEPT ![on[p]] = who[p]]
    /\ Finish(p)
    /\ UNCHANGED <<exists, members, links>>

DeleteTask(p, u) ==
    /\ role[u] \in AtLeast("ADMIN")
    /\ \E t \in Tasks : assigned[t] # None /\ Start(p, "drop", t, Nobody, None)

DropTask(p) ==
    /\ pc[p] = "drop"
    /\ assigned' = [assigned EXCEPT ![on[p]] = Gone]
    /\ Finish(p)
    /\ UNCHANGED <<exists, members, links>>

----------------------------------------------------------------------------

\* The process stops, the connection breaks or the statement throws.
Stop(p) == pc[p] # "idle" /\ Finish(p) /\ UNCHANGED rows

Request(p, u) ==
    \/ /\ \/ AddMember(p, u) \/ UpdateMemberRole(p, u) \/ RemoveMember(p, u) \/ Leave(p, u)
          \/ DeleteWorkspace(p, u)
          \/ CreateInviteLink(p, u) \/ RevokeInviteLink(p, u) \/ JoinViaInvite(p, u)
          \/ CreateTask(p, u) \/ DeleteTask(p, u)
       /\ UNCHANGED <<me, level>>
    \/ UpdateTask(p, u)

Handle(p) ==
    \/ InsertMember(p) \/ FindTarget(p) \/ SetRole(p) \/ DeleteMember(p)
    \/ FindOwner(p) \/ Wipe(p)
    \/ InsertLink(p) \/ DeleteLink(p) \/ CommitJoin(p)
    \/ FindTask(p) \/ AssertMember(p) \/ WriteTask(p) \/ DropTask(p)

Next ==
    \/ \E p \in Procs, u \in Users : Request(p, u)
    \/ \E p \in Procs : Handle(p) \/ Stop(p)
    \/ \E l \in Links : Lapse(l)

Spec == Init /\ [][Next]_vars

----------------------------------------------------------------------------
(* Properties *)

Labels == {"idle", "newmember", "promote", "set", "remove", "delete", "owner", "wipe",
           "newlink", "revoke", "join", "newtask", "assertnew", "findtask", "assert",
           "update", "drop"}

RowsOK ==
    /\ exists \in BOOLEAN
    /\ role \in [Users -> Roles \cup {None}]
    /\ link \in [Links -> {None, "open", "expired", Gone}] /\ uses \in [Links -> Nat]
    /\ assigned \in [Tasks -> Users \cup {None, Gone, Nobody}]
    /\ been \subseteq Users

SlotsOK ==
    /\ pc \in [Procs -> Labels]
    /\ me \in [Procs -> Users \cup {Nobody}]
    /\ level \in [Procs -> Roles \cup {None}]
    /\ on \in [Procs -> Links \cup Tasks \cup {None}]
    /\ who \in [Procs -> Users \cup {Nobody}]
    /\ give \in [Procs -> Roles \cup {None}]

\* Types.
TypeOK == RowsOK /\ SlotsOK

Joining(l) == {p \in Procs : pc[p] = "join" /\ on[p] = l}

\* README.md:141 promises a max-use count.  Joins that overlap read useCount
\* before any of them has added to it, and can exceed maxUses, but never by more
\* than the number of the other handlers.
UsesBounded ==
    \A l \in Links : uses[l] + Cardinality(Joining(l)) < MaxUses + Cardinality(Procs)

\* workspace.service.ts:139, 159, 171: the founder stays an OWNER as long as there
\* is a workspace, whatever other owners and admins do at the same time: every
\* check of a target was true of the founder before, and stays true.
FounderOwns == exists => role[Founder] = "OWNER"

\* A deleted workspace leaves nothing behind, although handlers that have passed
\* the guard go on inserting members, links and tasks.
NoOrphans ==
    ~exists => /\ \A u \in Users : role[u] = None
               /\ \A l \in Links : link[l] \in {None, Gone}
               /\ \A t \in Tasks : assigned[t] \in {None, Gone}

\* README.md:145: a task is only ever assigned to somebody who was a member,
\* even if they are removed between the check and the write.
AssigneeWasMember == \A t \in Tasks : assigned[t] \in been \cup {None, Gone, Nobody}

\* A user enters by an ADMIN's request, or by a link that still exists and counts
\* the use: a link that is revoked while a join is under way admits nobody.
EntryIsCounted ==
    [][\A u \in Users : role[u] = None /\ role'[u] # None =>
         \/ \E l \in Links : link[l] \in {"open", "expired"} /\ uses'[l] = uses[l] + 1
         \/ \E p \in Procs : pc[p] = "newmember" /\ who[p] = u
      ]_vars

=============================================================================
