------------------------------ MODULE Account ------------------------------
(***************************************************************************)
(* Creating an account and signing in to it: the forms of the browser      *)
(* (client, register.component.ts, login.component.ts, opaque.service.ts), *)
(* the transaction that creates a user with his workspace (server,         *)
(* auth.service.ts, opaqueRegister, register) and the handshakes of OPAQUE *)
(* that every server process keeps in memory between their two round-trips *)
(* (server, opaque.service.ts).                                            *)
(*                                                                         *)
(* The protocol itself is the library's: finishLogin succeeds in the       *)
(* browser if the password is the one of the stored record.  The server's  *)
(* key pair (OPAQUE_SERVER_SETUP) outlives restarts.                       *)
(***************************************************************************)
EXTENDS Naturals, Sequences, FiniteSets

CONSTANTS
    Tabs,       \* tabs that show one of the two forms
    Emails, Passwords,
    Names,      \* names of organizations, as slugify leaves them: suffixes
    Servers,    \* server processes
    MaxRegs,    \* bound: registrations sent
    MaxHellos,  \* bound: handshakes begun
    Ttl,        \* how long a handshake is good for, in half minutes
    Period      \* time between two sweeps, in half minutes

None == "none"
Regs == 1 .. MaxRegs
Hellos == 1 .. MaxHellos

\* acme, acme-1, acme-2 ...; an organization may be named acme-1 as well.
Suffixed(name, n) == IF n = 0 THEN name ELSE Append(name, n)
Slugs == {Suffixed(name, n) : name \in Names, n \in 0 .. MaxRegs}

ASSUME BoundsAssumption == MaxRegs \in Nat /\ MaxHellos \in Nat
ASSUME TimesAssumption == Ttl \in Nat \ {0} /\ Period \in Nat \ {0}
ASSUME NoneAssumption == None \notin Emails \cup Servers

VARIABLES
    sent,       \* registrations sent so far
    form, reg,  \* what each of them asks for, and where its handler is
    slug,       \* the slug it has picked
    account,    \* User, by its unique email: the registration that made it
    space,      \* Workspace, by its unique slug: likewise
    mailed,     \* registrations whose verification link has been mailed
    verified,   \* registrations whose user has isEmailVerified
    hellos,     \* handshakes begun so far
    held, age,  \* the process that keeps each in its map, and for how long
    phase,      \* half minutes since each process swept its map
    pc,         \* where submit() of each tab's form is
    entry,      \* which form it is, and what is typed
    mine,       \* the registration or the handshake it waits for
    error,      \* what it shows
    sure        \* history: see RightPasswordWorks

db == <<account, space, verified>>
handlers == <<sent, form, reg, slug, mailed>>
maps == <<hellos, held, age, phase>>
tabs == <<pc, entry, mine, error, sure>>
vars == <<db, handlers, maps, tabs>>

Kinds == {"opaque", "legacy"}
Forms == [kind : Kinds, email : Emails, password : Passwords, name : Names]
Blank == [on |-> None, email |-> None, password |-> None]
Entries == [on : {"register", "login"}, email : Emails, password : Passwords]
Inserted == {"inserted", "named", "created"}
Open == {"absent"} \cup Inserted    \* in the transaction
Stages == {"unsent", "asked", "done", "failed"} \cup Open
Busy == {"register", "init", "finish", "legacy", "keys"}
Errors == {"invalid", "other"}

Init ==
    /\ sent = 0
    /\ form = <<>>
    /\ reg = [a \in Regs |-> "unsent"]
    /\ slug = [a \in Regs |-> <<>>]
    /\ account = [e \in Emails |-> 0]
    /\ space = [s \in Slugs |-> 0]
    /\ mailed = {} /\ verified = {}
    /\ hellos = 0
    /\ held = [n \in Hellos |-> None]
    /\ age = [n \in Hellos |-> 0]
    /\ phase = [s \in Servers |-> 0]
    /\ pc = [t \in Tabs |-> "idle"]
    /\ entry = [t \in Tabs |-> Blank]
    /\ mine = [t \in Tabs |-> 0]
    /\ error = [t \in Tabs |-> None]
    /\ sure = [t \in Tabs |-> FALSE]

----------------------------------------------------------------------------
(* The forms *)

\* Fault: an error leaves loading set, and submit() does nothing any more.
FailLoading(t, why) ==
    /\ error' = [error EXCEPT ![t] = why]
    /\ UNCHANGED <<pc, entry, mine>>

\* The form shows why it failed and can be sent again.
Fail(t, why) ==
    /\ pc' = [pc EXCEPT ![t] = "idle"]
    /\ error' = [error EXCEPT ![t] = why]
    /\ entry' = [entry EXCEPT ![t] = Blank]
    /\ mine' = [mine EXCEPT ![t] = 0]

\* On to the dashboard.
Leave(t) == Fail(t, None)

Goto(t, label, m) ==
    /\ pc' = [pc EXCEPT ![t] = label]
    /\ mine' = [mine EXCEPT ![t] = m]
    /\ UNCHANGED <<entry, error>>

Submit(t, e, label, m) ==
    /\ pc[t] = "idle"
    /\ pc' = [pc EXCEPT ![t] = label]
    /\ entry' = [entry EXCEPT ![t] = e]
    /\ mine' = [mine EXCEPT ![t] = m]
    /\ error' = [error EXCEPT ![t] = None]

\* 401 from either round-trip, or a password that does not open the record:
\* the login form tries the password of an older account instead.
Denied(t) ==
    IF entry[t].on = "login" THEN Goto(t, "legacy", 0) ELSE Fail(t, "invalid")

HasAccount(kind, e) == account[e] # 0 /\ form[account[e]].kind = kind

Matches(e) == account[e.email] # 0 /\ form[account[e.email]].password = e.password

\* Bound: a form that is sent must be able to get its handshake.
Room == hellos + Cardinality({t \in Tabs : pc[t] \in {"register", "init"}}) < MaxHellos

\* A registration is on its way; register-init, before it, keeps no state.
Send(f) ==
    /\ sent < MaxRegs
    /\ sent' = sent + 1
    /\ form' = Append(form, f)
    /\ reg' = [reg EXCEPT ![sent + 1] = "asked"]
    /\ UNCHANGED <<slug, mailed>>

SubmitRegister(t, e, name) ==
    /\ e.on = "register" /\ Room
    /\ Submit(t, e, "register", sent + 1)
    /\ Send([kind |-> "opaque", email |-> e.email, password |-> e.password, name |-> name])
    /\ sure' = [sure EXCEPT ![t] = FALSE]
    /\ UNCHANGED <<db, maps>>

\* A registration from elsewhere.  POST /auth/register has no form any more,
\* but it still answers.
RegisterElsewhere(f) ==
    /\ Send(f)
    /\ UNCHANGED <<db, maps, tabs>>

SubmitLogin(t, e) ==
    /\ e.on = "login" /\ Room
    /\ Submit(t, e, "init", 0)
    /\ sure' = [sure EXCEPT ![t] = Matches(e)]
    /\ UNCHANGED <<db, handlers, maps>>

\* The answer to register-finish; the form goes on with a login.
Registered(t) ==
    /\ pc[t] = "register"
    /\ \/ /\ reg[mine[t]] = "done"
          /\ Goto(t, "init", 0)
          /\ sure' = [sure EXCEPT ![t] = Matches(entry[t])]
       \/ /\ reg[mine[t]] = "failed"
          /\ Fail(t, "other")
          /\ UNCHANGED sure
    /\ UNCHANGED <<db, handlers, maps>>

\* The connection breaks before a request arrives, or while it is handled.  In
\* its fallback the login form takes that for a refusal.
Lost(t) ==
    /\ pc[t] \in Busy
    /\ Fail(t, IF pc[t] = "legacy" THEN "invalid" ELSE "other")
    /\ sure' = [sure EXCEPT ![t] = FALSE]
    /\ UNCHANGED <<db, handlers, maps>>

\* initSession, and the new public key arrives, if there is one.
KeysReady(t) ==
    /\ pc[t] = "keys"
    /\ Leave(t)
    /\ sure' = [sure EXCEPT ![t] = FALSE]
    /\ UNCHANGED <<db, handlers, maps>>

----------------------------------------------------------------------------
(* opaqueRegister and register, one statement at a time *)

Advance(a, label) == reg' = [reg EXCEPT ![a] = label]

\* Another open transaction has inserted a row with the same email or slug:
\* the unique index makes the second insert wait until it ends.
EmailLocked(a) ==
    \E b \in Regs \ {a} : reg[b] \in Inserted /\ form[b].email = form[a].email
SlugLocked(a) == \E b \in Regs \ {a} : reg[b] = "created" /\ slug[b] = slug[a]

CheckEmail(a) ==
    /\ reg[a] = "asked"
    /\ Advance(a, IF account[form[a].email] = 0 THEN "absent" ELSE "failed")
    /\ UNCHANGED <<slug, mailed, db>>

InsertUser(a) ==
    /\ reg[a] = "absent"
    /\ ~EmailLocked(a)
    /\ Advance(a, IF account[form[a].email] = 0 THEN "inserted" ELSE "failed")
    /\ UNCHANGED <<slug, mailed, db>>

\* ensureUniqueSlug: the first suffix that no committed workspace has.
PickSlug(a) ==
    /\ reg[a] = "inserted"
    /\ \E n \in 0 .. MaxRegs :
         /\ space[Suffixed(form[a].name, n)] = 0
         /\ \A m \in 0 .. n - 1 : space[Suffixed(form[a].name, m)] # 0
         /\ slug' = [slug EXCEPT ![a] = Suffixed(form[a].name, n)]
    /\ Advance(a, "named")
    /\ UNCHANGED <<mailed, db>>

\* Fault: the workspace is created outside the transaction.
CreateWorkspaceAtOnce(a) ==
    /\ reg[a] = "named"
    /\ space[slug[a]] = 0
    /\ space' = [space EXCEPT ![slug[a]] = a]
    /\ Advance(a, "created")
    /\ mailed' = mailed \cup {a}
    /\ UNCHANGED <<slug, account, verified>>

\* The mail is sent from inside the transaction, whatever becomes of it.
CreateWorkspace(a) ==
    /\ reg[a] = "named"
    /\ ~SlugLocked(a)
    /\ IF space[slug[a]] = 0
         THEN Advance(a, "created") /\ mailed' = mailed \cup {a}
         ELSE Advance(a, "failed") /\ UNCHANGED mailed
    /\ UNCHANGED <<slug, db>>

\* issueTokens inserts the first session; the commit publishes all rows.
CommitAccount(a) ==
    /\ reg[a] = "created"
    /\ Advance(a, "done")
    /\ account' = [account EXCEPT ![form[a].email] = a]
    /\ space' = [space EXCEPT ![slug[a]] = a]
    /\ UNCHANGED <<slug, mailed, verified>>

Register(a) ==
    /\ CheckEmail(a) \/ InsertUser(a) \/ PickSlug(a) \/ CreateWorkspace(a) \/ CommitAccount(a)
    /\ UNCHANGED <<sent, form, maps, tabs>>

\* Rolled back: lost connection, time limit, or the process has stopped.
Rollback(a) ==
    /\ reg[a] \in Open
    /\ Advance(a, "failed")
    /\ UNCHANGED <<sent, form, slug, mailed, db, maps, tabs>>

\* The link in the mail carries a's token; it is good for one click.
VerifyEmail(a) ==
    /\ a \in mailed \ verified
    /\ account[form[a].email] = a
    /\ verified' = verified \cup {a}
    /\ UNCHANGED <<account, space, handlers, maps, tabs>>

----------------------------------------------------------------------------
(* Handshakes *)

Forget(n) ==
    /\ held' = [held EXCEPT ![n] = None]
    /\ age' = [age EXCEPT ![n] = 0]

\* The process keeps the state of a new handshake under its nonce.
Keep(s) ==
    /\ hellos < MaxHellos
    /\ hellos' = hellos + 1
    /\ held' = [held EXCEPT ![hellos + 1] = s]

\* login-init: a nonce for whoever has a record; legacy users have none.  A
\* password that does not match shows in the browser.
LoginInit(t, s) ==
    /\ pc[t] = "init"
    /\ IF HasAccount("opaque", entry[t].email)
         THEN /\ Keep(s)
              /\ \/ Matches(entry[t]) /\ Goto(t, "finish", hellos + 1) /\ UNCHANGED sure
                 \/ ~Matches(entry[t]) /\ Denied(t) /\ UNCHANGED sure
                 \/ Fail(t, "other") /\ sure' = [sure EXCEPT ![t] = FALSE]
         ELSE Denied(t) /\ UNCHANGED <<hellos, held, sure>>
    /\ UNCHANGED <<db, handlers, age, phase>>

\* login-finish: the handshake is used up, in time or not.  A process that
\* does not keep it in its own map knows nothing of it.
LoginFinish(t, s) ==
    /\ pc[t] = "finish"
    /\ LET n == mine[t] IN
       \/ /\ held[n] = s /\ age[n] < Ttl
          /\ Forget(n)
          /\ \/ Goto(t, "keys", 0) /\ UNCHANGED sure
             \/ Fail(t, "other") /\ sure' = [sure EXCEPT ![t] = FALSE]
       \/ /\ held[n] = s /\ age[n] >= Ttl
          /\ Forget(n)
          /\ Denied(t)
          /\ UNCHANGED sure
       \/ /\ held[n] # s
          /\ Denied(t)
          /\ sure' = [sure EXCEPT ![t] = @ /\ held[n] = None]
          /\ UNCHANGED <<held, age>>
    /\ UNCHANGED <<db, handlers, hellos, phase>>

\* POST /auth/login: users of OPAQUE have an empty password.
LoginLegacy(t) ==
    /\ pc[t] = "legacy"
    /\ IF HasAccount("legacy", entry[t].email) /\ Matches(entry[t])
         THEN Leave(t) /\ sure' = [sure EXCEPT ![t] = FALSE]
         ELSE Fail(t, "invalid") /\ UNCHANGED sure
    /\ UNCHANGED <<db, handlers, maps>>

\* Fault: the sweep compares the wrong way round.
StaleYoung(n) == age[n] + 1 < Ttl

\* Fault: nothing is ever stale.
StaleNever(n) == FALSE

\* cleanup() keeps an entry that expires at this very moment.
Stale(n) == age[n] + 1 > Ttl

\* Fault: the count to the next sweep goes on.
TickOn ==
    /\ phase' = [s \in Servers |-> phase[s] + 1]
    /\ age' = [n \in Hellos |-> IF held[n] = None THEN 0 ELSE age[n] + 1]
    /\ sure' = [t \in Tabs |-> FALSE]
    /\ UNCHANGED <<db, handlers, hellos, held, pc, entry, mine, error>>

\* Half a minute; the timers of the processes sweep their maps on time.
Tick ==
    LET sweeps(s) == phase[s] + 1 = Period
        swept == {n \in Hellos : held[n] # None /\ sweeps(held[n]) /\ Stale(n)}
    IN
    /\ phase' = [s \in Servers |-> IF sweeps(s) THEN 0 ELSE phase[s] + 1]
    /\ held' = [n \in Hellos |-> IF n \in swept THEN None ELSE held[n]]
    /\ age' = [n \in Hellos |-> IF held[n] = None \/ n \in swept THEN 0 ELSE age[n] + 1]
    /\ sure' = [t \in Tabs |-> sure[t] /\ ~(pc[t] = "finish" /\ age[mine[t]] + 1 >= Ttl)]
    /\ UNCHANGED <<db, handlers, hellos, pc, entry, mine, error>>

\* A process stops and starts again, with an empty map and a timer of its own;
\* the transactions it had open are rolled back.
Restart(s) ==
    LET lost == {n \in Hellos : held[n] = s} IN
    /\ \E dead \in SUBSET {a \in Regs : reg[a] \in Open} :
         reg' = [a \in Regs |-> IF a \in dead THEN "failed" ELSE reg[a]]
    /\ held' = [n \in Hellos |-> IF n \in lost THEN None ELSE held[n]]
    /\ age' = [n \in Hellos |-> IF n \in lost THEN 0 ELSE age[n]]
    /\ phase' = [phase EXCEPT ![s] = 0]
    /\ sure' = [t \in Tabs |-> sure[t] /\ ~(pc[t] = "finish" /\ mine[t] \in lost)]
    /\ UNCHANGED <<db, sent, form, slug, mailed, hellos, pc, entry, mine, error>>

----------------------------------------------------------------------------

Answer(t) ==
    \/ Registered(t) \/ LoginLegacy(t) \/ KeysReady(t)
    \/ \E s \in Servers : LoginInit(t, s) \/ LoginFinish(t, s)

Next ==
    \/ \E t \in Tabs, e \in Entries :
         SubmitLogin(t, e) \/ \E name \in Names : SubmitRegister(t, e, name)
    \/ \E f \in Forms : RegisterElsewhere(f)
    \/ \E t \in Tabs : Answer(t) \/ Lost(t)
    \/ \E a \in Regs : Register(a) \/ Rollback(a) \/ VerifyEmail(a)
    \/ Tick
    \/ \E s \in Servers : Restart(s)

\* Requests that arrive are answered, and a transaction goes on unless it
\* waits for a lock.  Nothing is assumed of roll-backs or lost connections.
Fairness ==
    /\ \A t \in Tabs : WF_vars(Answer(t))
    /\ \A a \in Regs : WF_vars(Register(a))

Spec == Init /\ [][Next]_vars
FairSpec == Spec /\ Fairness

----------------------------------------------------------------------------
(* Properties *)

RowsOK ==
    /\ sent \in 0 .. MaxRegs
    /\ form \in Seq(Forms) /\ Len(form) = sent
    /\ reg \in [Regs -> Stages]
    /\ slug \in [Regs -> Slugs \cup {<<>>}]
    /\ account \in [Emails -> 0 .. sent]
    /\ space \in [Slugs -> 0 .. sent]
    /\ mailed \subseteq 1 .. sent /\ verified \subseteq 1 .. sent

MapsOK ==
    /\ hellos \in 0 .. MaxHellos
    /\ held \in [Hellos -> Servers \cup {None}]
    /\ age \in [Hellos -> Nat]
    /\ phase \in [Servers -> 0 .. Period - 1]

TabsOK ==
    /\ pc \in [Tabs -> Busy \cup {"idle"}]
    /\ entry \in [Tabs -> Entries \cup {Blank}]
    /\ mine \in [Tabs -> 0 .. MaxRegs + MaxHellos]
    /\ error \in [Tabs -> Errors \cup {None}]
    /\ sure \in [Tabs -> BOOLEAN]

\* The types of all variables.
TypeOK == RowsOK /\ MapsOK /\ TabsOK

\* A registration is all or nothing: one that has committed is the owner of its
\* email and of a workspace of its own, and no later registration ever takes
\* either over (its owner may delete the workspace: Membership); one that was refused, rolled back or
\* lost with its process owns neither and is never verified
\* (opaqueRegister, register: one transaction, two unique indexes).
AccountsWhole ==
    /\ \A a \in Regs : reg[a] = "done" =>
          account[form[a].email] = a /\ space[slug[a]] = a
    /\ \A e \in Emails : account[e] # 0 =>
          reg[account[e]] = "done" /\ form[account[e]].email = e
    /\ \A s \in Slugs : space[s] # 0 => reg[space[s]] = "done" /\ slug[space[s]] = s
    /\ \A a \in verified : reg[a] = "done"

\* Who signs in with the right password is not told that his credentials are
\* invalid: sure[t] says that the password was the account's when the form was
\* sent, and that since then no request was lost, no process stopped that kept
\* the form's handshake, the other process was not asked for it, and the time
\* to finish it was not exceeded.  Sweeps, other registrations and other forms
\* do not matter (opaque.service.ts: loginInit, loginFinish, cleanup).
RightPasswordWorks == \A t \in Tabs : error[t] = "invalid" => ~sure[t]

\* A handshake that nobody finishes is forgotten by the first sweep that comes
\* more than five minutes after it began, by the timer of the process that
\* keeps it, whichever restarted in between (opaque.service.ts, cleanup).
HeldBriefly == \A n \in Hellos : held[n] # None => age[n] < Ttl + Period

\* A form that was sent does not stay in its loading state: whatever fails,
\* and although registrations wait for each other's rows in two tables.
WizardEnds == \A t \in Tabs : pc[t] \in Busy ~> pc[t] = "idle"

=============================================================================
