--------------------------- MODULE AccountProofs ---------------------------
(***************************************************************************)
(* Proofs about Account, for any number of tabs, servers, emails and       *)
(* names, any bounds and any times.                                        *)
(***************************************************************************)
EXTENDS Account, TLAPS

(* The inductive invariant. *)

\* Rows that only their own transaction sees: nobody else has the email or
\* the slug, committed or not.
Reserved ==
    /\ \A a \in Regs : /\ reg[a] # "unsent" => a <= sent
                       /\ reg[a] \in {"named", "created", "done"} => slug[a] \in Slugs
                       /\ reg[a] \in Inserted => account[form[a].email] = 0
                       /\ reg[a] = "created" => space[slug[a]] = 0
    /\ \A a, b \in Regs : a # b =>
          /\ ~(reg[a] \in Inserted /\ reg[b] \in Inserted /\ form[a].email = form[b].email)
          /\ ~(reg[a] = "created" /\ reg[b] = "created" /\ slug[a] = slug[b])

\* A handshake that survived the last sweep had not been stale by then.
Swept ==
    \A n \in Hellos :
        /\ held[n] = None => age[n] = 0
        /\ held[n] # None => n <= hellos /\ age[n] <= Ttl + phase[held[n]]

\* What each form waits for is its own.
Waiting ==
    /\ \A t \in Tabs :
          /\ pc[t] \in Busy => error[t] = None /\ entry[t] \in Entries
          /\ pc[t] = "register" => /\ entry[t].on = "register"
                                  /\ mine[t] \in 1 .. sent
                                  /\ form[mine[t]].kind = "opaque"
                                  /\ form[mine[t]].email = entry[t].email
          /\ pc[t] = "finish" => mine[t] \in 1 .. hellos
          /\ pc[t] = "legacy" => entry[t].on = "login"
    /\ \A t, u \in Tabs :
          t # u /\ pc[t] = "finish" /\ pc[u] = "finish" => mine[t] # mine[u]

\* What sure[t] promises at each step of the way.
Promised ==
    \A t \in Tabs :
        /\ pc[t] \in {"init", "finish", "legacy"} /\ sure[t] => Matches(entry[t])
        /\ pc[t] \in {"init", "finish"} /\ entry[t].on = "register" =>
              HasAccount("opaque", entry[t].email)
        /\ pc[t] = "finish" /\ sure[t] => held[mine[t]] # None /\ age[mine[t]] < Ttl
        /\ pc[t] = "legacy" /\ sure[t] => HasAccount("legacy", entry[t].email)

IInv ==
    /\ TypeOK /\ Reserved /\ AccountsWhole /\ Swept
    /\ Waiting /\ Promised /\ RightPasswordWorks

rows == <<sent, form, reg, slug, account, space, mailed, verified>>

RowsInv == RowsOK /\ Reserved /\ AccountsWhole
MapsInv == MapsOK /\ Swept

\* Rows of the database that are there stay what they are.
Kept ==
    /\ sent <= sent'
    /\ \A a \in 1 .. sent : form'[a] = form[a]
    /\ \A e \in Emails : account[e] # 0 => account'[e] = account[e]

LEMMA InitInv == Init => IInv
<1> SUFFICES ASSUME Init PROVE IInv
  OBVIOUS
<1> USE DEF Init
<1>1. RowsOK
  BY BoundsAssumption DEF RowsOK, Stages, Regs
<1>2. MapsInv
  BY BoundsAssumption, TimesAssumption, NoneAssumption DEF MapsInv, MapsOK, Swept, Hellos
<1>3. TabsOK
  BY BoundsAssumption DEF TabsOK
<1>4. Reserved /\ AccountsWhole
  BY DEF Reserved, AccountsWhole, Inserted
<1>5. Waiting /\ Promised /\ RightPasswordWorks
  BY DEF Waiting, Promised, RightPasswordWorks, Busy
<1> QED
  BY <1>1, <1>2, <1>3, <1>4, <1>5 DEF IInv, TypeOK, MapsInv

----------------------------------------------------------------------------
(* The rows of the server *)

LEMMA SendRows ==
  ASSUME RowsInv, NEW f \in Forms, Send(f), UNCHANGED db
  PROVE  RowsInv' /\ Kept
<1> USE DEF RowsInv
<1>1. /\ sent + 1 \in Regs /\ sent \in Nat /\ sent' = sent + 1
      /\ form' = Append(form, f) /\ form \in Seq(Forms) /\ Len(form) = sent
      /\ reg' = [reg EXCEPT ![sent + 1] = "asked"] /\ reg \in [Regs -> Stages]
      /\ UNCHANGED <<slug, mailed, account, space, verified>>
  BY BoundsAssumption DEF Send, RowsOK, db, Regs
<1>2. /\ form' \in Seq(Forms) /\ Len(form') = sent'
      /\ \A a \in 1 .. sent : form'[a] = form[a]
  BY <1>1
<1>3. RowsOK'
  <2>1. sent' \in 0 .. MaxRegs /\ reg' \in [Regs -> Stages]
    BY <1>1, BoundsAssumption DEF Stages, Regs
  <2>2. /\ account' \in [Emails -> 0 .. sent'] /\ space' \in [Slugs -> 0 .. sent']
        /\ mailed' \subseteq 1 .. sent' /\ verified' \subseteq 1 .. sent'
    BY <1>1 DEF RowsOK
  <2> QED
    BY <1>1, <1>2, <2>1, <2>2 DEF RowsOK
<1>4. ASSUME NEW a \in Regs
      PROVE  \/ a = sent + 1 /\ reg'[a] = "asked"
             \/ a # sent + 1 /\ reg'[a] = reg[a]
  BY <1>1
<1>5. reg[sent + 1] = "unsent"
  BY <1>1 DEF Reserved
<1>6. ASSUME NEW a \in Regs, reg'[a] # "unsent", reg'[a] # "asked"
      PROVE  reg'[a] = reg[a] /\ a \in 1 .. sent /\ form'[a] = form[a]
  BY <1>1, <1>2, <1>4, <1>6 DEF Reserved, Regs
<1>7. Reserved'
  <2>1. \A a \in Regs : reg'[a] # "unsent" => a <= sent'
    BY <1>1, <1>4 DEF Reserved, Regs
  <2> QED
    BY <1>1, <1>6, <2>1 DEF Reserved, Inserted
<1>8. AccountsWhole'
  <2>1. \A a \in Regs : reg'[a] = "done" => account'[form'[a].email] = a /\ space'[slug'[a]] = a
    BY <1>1, <1>6 DEF AccountsWhole
  <2>2. \A a \in 1 .. sent : a \in Regs /\ a # sent + 1
    BY <1>1, BoundsAssumption DEF RowsOK, Regs
  <2>3. \A e \in Emails : account[e] # 0 => account[e] \in 1 .. sent
    BY DEF RowsOK
  <2>4. \A s \in Slugs : space[s] # 0 => space[s] \in 1 .. sent
    BY DEF RowsOK
  <2>5. \A e \in Emails : account'[e] # 0 =>
           reg'[account'[e]] = "done" /\ form'[account'[e]].email = e
    BY <1>1, <1>2, <1>4, <2>2, <2>3 DEF AccountsWhole
  <2>6. \A s \in Slugs : space'[s] # 0 => reg'[space'[s]] = "done" /\ slug'[space'[s]] = s
    BY <1>1, <1>4, <2>2, <2>4 DEF AccountsWhole
  <2>7. \A a \in verified' : reg'[a] = "done"
    <3>1. verified \subseteq 1 .. sent
      BY DEF RowsOK
    <3> QED
      BY <1>1, <1>4, <2>2, <3>1 DEF AccountsWhole
  <2> QED
    BY <2>1, <2>5, <2>6, <2>7 DEF AccountsWhole
<1> QED
  BY <1>1, <1>2, <1>3, <1>7, <1>8 DEF Kept

\* A registration goes on to a label without writing what others can see.
LEMMA AdvanceRows ==
  ASSUME RowsInv, NEW a \in Regs, NEW label \in Stages, Advance(a, label),
         reg[a] \in {"asked"} \cup Open, label \notin {"unsent", "done"},
         UNCHANGED <<sent, form, account, space, verified>>,
         slug' = slug \/ (reg[a] = "inserted" /\ \E s \in Slugs : slug' = [slug EXCEPT ![a] = s]),
         mailed' = mailed \/ mailed' = mailed \cup {a},
         label \in Inserted => reg[a] \in Inserted \/ (account[form[a].email] = 0 /\ ~EmailLocked(a)),
         label = "named" => slug'[a] \in Slugs,
         label = "created" => reg[a] = "named" /\ slug' = slug /\ space[slug[a]] = 0 /\ ~SlugLocked(a)
  PROVE  RowsInv'
<1> USE DEF RowsInv
<1>1. /\ reg' = [reg EXCEPT ![a] = label] /\ reg \in [Regs -> Stages]
      /\ slug \in [Regs -> Slugs \cup {<<>>}]
  BY DEF Advance, RowsOK
<1>2. a \in 1 .. sent
  BY DEF Reserved, Regs, RowsOK, Open, Inserted
<1>3. RowsOK'
  <2>1. mailed' \subseteq 1 .. sent' /\ reg' \in [Regs -> Stages]
    BY <1>1, <1>2 DEF RowsOK
  <2>2. slug' \in [Regs -> Slugs \cup {<<>>}]
    BY <1>1
  <2> QED
    BY <2>1, <2>2 DEF RowsOK
<1>4. \A b \in Regs : \/ b = a /\ reg'[b] = label
                      \/ b # a /\ reg'[b] = reg[b] /\ slug'[b] = slug[b]
  BY <1>1
<1>5. reg[a] = "done" => FALSE
  BY DEF Open, Inserted
<1>6. Reserved'
  <2>1. \A b \in Regs : reg'[b] # "unsent" => b <= sent'
    BY <1>2, <1>4 DEF Reserved
  <2>2. \A b \in Regs : reg'[b] \in {"named", "created", "done"} => slug'[b] \in Slugs
    BY <1>4 DEF Reserved
  <2>3. \A b \in Regs : reg'[b] \in Inserted => account'[form'[b].email] = 0
    BY <1>4 DEF Reserved
  <2>4. \A b \in Regs : reg'[b] = "created" => space'[slug'[b]] = 0
    BY <1>4 DEF Reserved
  <2>5. ASSUME NEW b \in Regs, NEW c \in Regs, b # c
        PROVE  ~(reg'[b] \in Inserted /\ reg'[c] \in Inserted /\ form'[b].email = form'[c].email)
    BY <1>4, <2>5 DEF Reserved, EmailLocked
  <2>6. ASSUME NEW b \in Regs, NEW c \in Regs, b # c
        PROVE  ~(reg'[b] = "created" /\ reg'[c] = "created" /\ slug'[b] = slug'[c])
    BY <1>4, <2>6 DEF Reserved, SlugLocked
  <2> QED
    BY <2>1, <2>2, <2>3, <2>4, <2>5, <2>6 DEF Reserved
<1>7. AccountsWhole'
  <2>1. \A b \in Regs : reg'[b] = "done" => account'[form'[b].email] = b /\ space'[slug'[b]] = b
    BY <1>4 DEF AccountsWhole
  <2>2. \A b : b \in 1 .. sent => b \in Regs
    BY BoundsAssumption DEF RowsOK, Regs
  <2>3. \A e \in Emails : account[e] # 0 => account[e] \in Regs
    BY <2>2 DEF RowsOK
  <2>4. \A s \in Slugs : space[s] # 0 => space[s] \in Regs
    BY <2>2 DEF RowsOK
  <2>5. \A e \in Emails : account'[e] # 0 =>
           reg'[account'[e]] = "done" /\ form'[account'[e]].email = e
    BY <1>4, <1>5, <2>3 DEF AccountsWhole
  <2>6. \A s \in Slugs : space'[s] # 0 => reg'[space'[s]] = "done" /\ slug'[space'[s]] = s
    BY <1>4, <1>5, <2>4 DEF AccountsWhole
  <2>7. \A b \in verified' : reg'[b] = "done"
    BY <1>4, <1>5, <2>2 DEF AccountsWhole, RowsOK
  <2> QED
    BY <2>1, <2>5, <2>6, <2>7 DEF AccountsWhole
<1> QED
  BY <1>3, <1>6, <1>7

LEMMA CommitRows ==
  ASSUME RowsInv, NEW a \in Regs, CommitAccount(a), UNCHANGED <<sent, form>>
  PROVE  RowsInv' /\ Kept
<1> USE DEF RowsInv
<1>1. /\ reg[a] = "created" /\ reg' = [reg EXCEPT ![a] = "done"] /\ reg \in [Regs -> Stages]
      /\ account' = [account EXCEPT ![form[a].email] = a]
      /\ space' = [space EXCEPT ![slug[a]] = a]
      /\ UNCHANGED <<sent, form, slug, mailed, verified>>
  BY DEF CommitAccount, Advance, RowsOK
<1>2. /\ a \in 1 .. sent /\ slug[a] \in Slugs /\ account[form[a].email] = 0 /\ space[slug[a]] = 0
  BY <1>1 DEF Reserved, Regs, RowsOK, Inserted
<1>3. form[a] \in Forms /\ form[a].email \in Emails
  <2>1. form[a] \in Forms
    BY <1>2 DEF RowsOK
  <2> QED
    BY <2>1 DEF Forms
<1>4. \A e \in Emails : account'[e] = IF e = form[a].email THEN a ELSE account[e]
  BY <1>1 DEF RowsOK
<1>5. \A s \in Slugs : space'[s] = IF s = slug[a] THEN a ELSE space[s]
  BY <1>1 DEF RowsOK
<1>6. \A b \in Regs : reg'[b] = IF b = a THEN "done" ELSE reg[b]
  BY <1>1
<1>7. RowsOK'
  <2>1. /\ account' \in [Emails -> 0 .. sent] /\ space' \in [Slugs -> 0 .. sent]
    <3>1. /\ account \in [Emails -> 0 .. sent] /\ space \in [Slugs -> 0 .. sent]
          /\ a \in 0 .. sent
      BY <1>2 DEF RowsOK
    <3> QED
      BY <1>1, <3>1
  <2>2. reg' \in [Regs -> Stages]
    BY <1>1 DEF Stages
  <2> QED
    BY <1>1, <2>1, <2>2 DEF RowsOK
<1>8. \A b \in Regs : reg[b] # "unsent" => b \in 1 .. sent /\ form[b].email \in Emails
  <2>1. \A b \in Regs : reg[b] # "unsent" => b \in 1 .. sent
    BY DEF Reserved, Regs
  <2>2. \A b \in 1 .. sent : form[b] \in Forms
    BY DEF RowsOK
  <2> QED
    BY <2>1, <2>2 DEF Forms
<1>9. Reserved'
  <2>0. \A b \in Regs : reg'[b] # "unsent" => b <= sent'
    BY <1>1, <1>2, <1>6 DEF Reserved
  <2>1. \A b \in Regs : reg'[b] \in {"named", "created", "done"} => slug'[b] \in Slugs
    BY <1>1, <1>2, <1>6 DEF Reserved
  <2>2. ASSUME NEW b \in Regs, reg'[b] \in Inserted
        PROVE  account'[form'[b].email] = 0
    <3>1. b # a /\ reg[b] \in Inserted
      BY <1>6, <2>2 DEF Inserted
    <3>2. form[b].email \in Emails /\ form[b].email # form[a].email /\ account[form[b].email] = 0
      BY <1>1, <1>8, <3>1 DEF Reserved, Inserted
    <3> QED
      BY <1>1, <1>4, <3>2
  <2>3. ASSUME NEW b \in Regs, reg'[b] = "created"
        PROVE  space'[slug'[b]] = 0
    <3>1. b # a /\ reg[b] = "created"
      BY <1>6, <2>3
    <3>2. slug[b] \in Slugs /\ slug[b] # slug[a] /\ space[slug[b]] = 0
      BY <1>1, <3>1 DEF Reserved
    <3> QED
      BY <1>1, <1>5, <3>2
  <2>4. \A b, c \in Regs : b # c =>
          ~(reg'[b] \in Inserted /\ reg'[c] \in Inserted /\ form'[b].email = form'[c].email)
    BY <1>1, <1>6 DEF Reserved, Inserted
  <2>5. \A b, c \in Regs : b # c =>
          ~(reg'[b] = "created" /\ reg'[c] = "created" /\ slug'[b] = slug'[c])
    BY <1>1, <1>6 DEF Reserved
  <2> QED
    BY <2>0, <2>1, <2>2, <2>3, <2>4, <2>5 DEF Reserved
<1>10. AccountsWhole'
  <2>1. ASSUME NEW b \in Regs, reg'[b] = "done"
        PROVE  account'[form'[b].email] = b /\ space'[slug'[b]] = b
    <3>1. CASE b = a
      BY <1>1, <1>2, <1>3, <1>4, <1>5, <3>1
    <3>2. CASE b # a
      <4>1. reg[b] = "done" /\ account[form[b].email] = b /\ space[slug[b]] = b
        BY <1>6, <2>1, <3>2 DEF AccountsWhole
      <4>2. form[b].email \in Emails /\ slug[b] \in Slugs /\ b # 0
        BY <1>8, <4>1 DEF Reserved, Regs
      <4> QED
        BY <1>1, <1>2, <1>4, <1>5, <4>1, <4>2
    <3> QED
      BY <3>1, <3>2
  <2>2. \A b : b \in 1 .. sent => b \in Regs
    BY BoundsAssumption DEF RowsOK, Regs
  <2>3. \A e \in Emails : account[e] # 0 => account[e] \in Regs
    BY <2>2 DEF RowsOK
  <2>4. \A s \in Slugs : space[s] # 0 => space[s] \in Regs
    BY <2>2 DEF RowsOK
  <2>5. \A e \in Emails : account'[e] # 0 =>
           reg'[account'[e]] = "done" /\ form'[account'[e]].email = e
    BY <1>1, <1>4, <1>6, <2>3 DEF AccountsWhole
  <2>6. \A s \in Slugs : space'[s] # 0 => reg'[space'[s]] = "done" /\ slug'[space'[s]] = s
    BY <1>1, <1>5, <1>6, <2>4 DEF AccountsWhole
  <2>7. \A b \in verified' : reg'[b] = "done"
    BY <1>1, <1>6, <2>2 DEF AccountsWhole, RowsOK
  <2> QED
    BY <2>1, <2>5, <2>6, <2>7 DEF AccountsWhole
<1> QED
  BY <1>1, <1>2, <1>4, <1>7, <1>9, <1>10 DEF Kept, RowsOK

\* Every statement of a registration.
LEMMA RegisterRows ==
  ASSUME RowsInv, NEW a \in Regs, Register(a)
  PROVE  RowsInv' /\ Kept
<1> USE DEF RowsInv
<1>0. UNCHANGED <<sent, form>>
  BY DEF Register
<1>1. CASE CommitAccount(a)
  BY <1>0, <1>1, CommitRows
<1>2. ASSUME UNCHANGED <<account, space, verified>> PROVE Kept
  BY <1>0, <1>2 DEF Kept, RowsOK
<1> DEFINE Taken == account[form[a].email] # 0
<1>3. CASE CheckEmail(a)
  <2>1. Advance(a, "absent") \/ Advance(a, "failed")
    BY <1>3 DEF CheckEmail
  <2> QED
    BY <1>0, <1>2, <1>3, <2>1, AdvanceRows DEF CheckEmail, Stages, Open, Inserted, db
<1>4. CASE InsertUser(a)
  <2>1. CASE account[form[a].email] = 0
    BY <1>0, <1>2, <1>4, <2>1, AdvanceRows DEF InsertUser, Stages, Open, Inserted, db
  <2>2. CASE account[form[a].email] # 0
    BY <1>0, <1>2, <1>4, <2>2, AdvanceRows DEF InsertUser, Stages, Open, Inserted, db
  <2> QED
    BY <2>1, <2>2
<1>5. CASE PickSlug(a)
  <2>1. PICK s \in Slugs : slug' = [slug EXCEPT ![a] = s]
    <3>1. a \in 1 .. sent
      BY <1>5 DEF PickSlug, Reserved, Regs, RowsOK
    <3>2. form[a] \in Forms
      BY <3>1 DEF RowsOK
    <3>3. form[a].name \in Names
      BY <3>2 DEF Forms
    <3>4. PICK n \in 0 .. MaxRegs : slug' = [slug EXCEPT ![a] = Suffixed(form[a].name, n)]
      BY <1>5 DEF PickSlug
    <3>5. Suffixed(form[a].name, n) \in Slugs
      BY <3>3, <3>4 DEF Slugs
    <3> QED
      BY <3>4, <3>5
  <2>2. slug'[a] \in Slugs
    BY <2>1 DEF RowsOK
  <2> QED
    BY <1>0, <1>2, <1>5, <2>1, <2>2, AdvanceRows DEF PickSlug, Stages, Open, Inserted, db
<1>6. CASE CreateWorkspace(a)
  <2>1. CASE space[slug[a]] = 0
    BY <1>0, <1>2, <1>6, <2>1, AdvanceRows DEF CreateWorkspace, Stages, Open, Inserted, db
  <2>2. CASE space[slug[a]] # 0
    BY <1>0, <1>2, <1>6, <2>2, AdvanceRows DEF CreateWorkspace, Stages, Open, Inserted, db
  <2> QED
    BY <2>1, <2>2
<1> QED
  BY <1>1, <1>3, <1>4, <1>5, <1>6 DEF Register

LEMMA SameRows ==
  ASSUME RowsInv, UNCHANGED rows
  PROVE  RowsInv' /\ Kept
BY DEF RowsInv, RowsOK, Reserved, AccountsWhole, Kept, rows

LEMMA RestartRows ==
  ASSUME RowsInv, NEW s \in Servers, Restart(s)
  PROVE  RowsInv' /\ Kept
<1> USE DEF RowsInv
<1>1. UNCHANGED <<sent, form, slug, account, space, mailed, verified>>
  BY DEF Restart, db
<1>2. PICK dead \in SUBSET {a \in Regs : reg[a] \in Open} :
          reg' = [a \in Regs |-> IF a \in dead THEN "failed" ELSE reg[a]]
  BY DEF Restart
<1>3. \A a \in Regs : \/ reg'[a] = reg[a]
                      \/ reg'[a] = "failed" /\ reg[a] \in Open
  BY <1>2
<1>4. reg' \in [Regs -> Stages]
  BY <1>2 DEF RowsOK, Stages
<1>5. RowsOK'
  BY <1>1, <1>4 DEF RowsOK
<1>6. Reserved'
  <2>1. \A a \in Regs : reg'[a] # "unsent" => a <= sent'
    BY <1>1, <1>3 DEF Reserved, Open, Inserted
  <2>2. \A a \in Regs : reg'[a] \in {"named", "created", "done"} => slug'[a] \in Slugs
    BY <1>1, <1>3 DEF Reserved
  <2>3. \A a \in Regs : reg'[a] \in Inserted => reg[a] \in Inserted
    BY <1>3 DEF Inserted
  <2>4. \A a \in Regs : reg'[a] \in Inserted => account'[form'[a].email] = 0
    BY <1>1, <2>3 DEF Reserved
  <2>5. \A a \in Regs : reg'[a] = "created" => space'[slug'[a]] = 0
    BY <1>1, <1>3 DEF Reserved
  <2>6. \A a, b \in Regs : a # b =>
          ~(reg'[a] \in Inserted /\ reg'[b] \in Inserted /\ form'[a].email = form'[b].email)
    BY <1>1, <2>3 DEF Reserved
  <2>7. \A a, b \in Regs : a # b =>
          ~(reg'[a] = "created" /\ reg'[b] = "created" /\ slug'[a] = slug'[b])
    BY <1>1, <1>3 DEF Reserved
  <2> QED
    BY <2>1, <2>2, <2>4, <2>5, <2>6, <2>7 DEF Reserved
<1>7. AccountsWhole'
  <2>1. \A a \in Regs : reg'[a] = "done" <=> reg[a] = "done"
    BY <1>3 DEF Open, Inserted
  <2>2. \A a : a \in 1 .. sent => a \in Regs
    BY BoundsAssumption DEF RowsOK, Regs
  <2>3. /\ \A e \in Emails : account[e] # 0 => account[e] \in Regs
        /\ \A x \in Slugs : space[x] # 0 => space[x] \in Regs
        /\ verified \subseteq Regs
    BY <2>2 DEF RowsOK
  <2> QED
    BY <1>1, <2>1, <2>3 DEF AccountsWhole
<1> QED
  BY <1>1, <1>5, <1>6, <1>7 DEF Kept, RowsOK

LEMMA NextRows ==
  ASSUME RowsInv, [Next]_vars
  PROVE  RowsInv' /\ Kept
<1> USE DEF db, handlers, rows
<1>1. CASE UNCHANGED vars
  BY <1>1, SameRows DEF vars
<1>2. ASSUME NEW t \in Tabs, NEW e \in Entries, SubmitLogin(t, e) PROVE RowsInv' /\ Kept
  BY <1>2, SameRows DEF SubmitLogin
<1>3. ASSUME NEW t \in Tabs, NEW e \in Entries, NEW name \in Names, SubmitRegister(t, e, name)
      PROVE  RowsInv' /\ Kept
  <2>1. [kind |-> "opaque", email |-> e.email, password |-> e.password, name |-> name] \in Forms
    BY DEF Entries, Forms, Kinds
  <2> QED
    BY <1>3, <2>1, SendRows DEF SubmitRegister
<1>4. ASSUME NEW f \in Forms, RegisterElsewhere(f) PROVE RowsInv' /\ Kept
  BY <1>4, SendRows DEF RegisterElsewhere
<1>5. ASSUME NEW t \in Tabs, Answer(t) \/ Lost(t) PROVE RowsInv' /\ Kept
  <2>1. UNCHANGED <<db, handlers>>
    BY <1>5 DEF Answer, Lost, Registered, LoginLegacy, KeysReady, LoginInit, Keep, LoginFinish
  <2> QED
    BY <2>1, SameRows
<1>6. ASSUME NEW a \in Regs, Register(a) PROVE RowsInv' /\ Kept
  BY <1>6, RegisterRows
<1>7. ASSUME NEW a \in Regs, Rollback(a) PROVE RowsInv' /\ Kept
  <2>1. UNCHANGED <<sent, form, slug, mailed, account, space, verified>>
    BY <1>7 DEF Rollback
  <2>2. RowsInv'
    BY <1>7, <2>1, AdvanceRows DEF Rollback, Stages, Open, Inserted
  <2> QED
    BY <2>1, <2>2 DEF Kept, RowsInv, RowsOK
<1>8. ASSUME NEW a \in Regs, VerifyEmail(a) PROVE RowsInv' /\ Kept
  <2>1. UNCHANGED <<sent, form, reg, slug, mailed, account, space>>
    BY <1>8 DEF VerifyEmail
  <2>2. verified' = verified \cup {a} /\ a \in 1 .. sent /\ account[form[a].email] = a
    BY <1>8 DEF VerifyEmail, RowsInv, RowsOK
  <2>3. reg[a] = "done"
    <3>1. form[a] \in Forms
      BY <2>2 DEF RowsInv, RowsOK
    <3>2. form[a].email \in Emails /\ account[form[a].email] # 0
      BY <2>2, <3>1 DEF Forms
    <3> QED
      BY <2>2, <3>2 DEF RowsInv, AccountsWhole
  <2>4. RowsOK'
    BY <2>1, <2>2 DEF RowsInv, RowsOK
  <2>5. Reserved'
    BY <2>1 DEF RowsInv, Reserved
  <2>6. AccountsWhole'
    BY <2>1, <2>2, <2>3 DEF RowsInv, AccountsWhole
  <2> QED
    BY <2>1, <2>4, <2>5, <2>6 DEF RowsInv, RowsOK, Kept
<1>9. CASE Tick
  BY <1>9, SameRows DEF Tick
<1>10. ASSUME NEW s \in Servers, Restart(s) PROVE RowsInv' /\ Kept
  BY <1>10, RestartRows
<1> QED
  BY <1>1, <1>2, <1>3, <1>4, <1>5, <1>6, <1>7, <1>8, <1>9, <1>10 DEF Next

----------------------------------------------------------------------------
(* The maps of the servers *)

LEMMA NextMaps ==
  ASSUME MapsInv, [Next]_vars
  PROVE  MapsInv'
<1> USE DEF MapsInv, maps
<1>0. ASSUME UNCHANGED maps PROVE MapsInv'
  BY <1>0 DEF MapsOK, Swept
<1>1. ASSUME NEW t \in Tabs, NEW s \in Servers, LoginInit(t, s) PROVE MapsInv'
  <2>1. CASE UNCHANGED <<hellos, held>>
    BY <1>0, <1>1, <2>1 DEF LoginInit, Keep
  <2>2. CASE /\ hellos < MaxHellos /\ hellos' = hellos + 1
             /\ held' = [held EXCEPT ![hellos + 1] = s]
    <3>1. UNCHANGED <<age, phase>>
      BY <1>1 DEF LoginInit, Keep
    <3>2. hellos + 1 \in Hellos
      BY <2>2, BoundsAssumption DEF MapsOK, Hellos
    <3>3. MapsOK'
      <4>1. hellos' \in 0 .. MaxHellos
        BY <2>2, BoundsAssumption DEF MapsOK
      <4>2. held' \in [Hellos -> Servers \cup {None}]
        BY <2>2 DEF MapsOK
      <4> QED
        BY <3>1, <4>1, <4>2 DEF MapsOK
    <3>4. age[hellos + 1] = 0
      BY <3>2 DEF MapsOK, Swept
    <3>5. ASSUME NEW n \in Hellos
          PROVE  \/ n # hellos + 1 /\ held'[n] = held[n]
                 \/ n = hellos + 1 /\ held'[n] = s /\ age[n] = 0
      BY <2>2, <3>4 DEF MapsOK
    <3>6. \A u \in Servers : Ttl + phase[u] >= 0
      BY TimesAssumption DEF MapsOK
    <3>7. ASSUME NEW n \in Hellos, held'[n] = None
          PROVE  age'[n] = 0
      BY <3>1, <3>5, <3>7 DEF Swept
    <3>8. ASSUME NEW n \in Hellos, held'[n] # None
          PROVE  n <= hellos' /\ age'[n] <= Ttl + phase'[held'[n]]
      <4>1. CASE n = hellos + 1
        BY <2>2, <3>1, <3>5, <3>6, <4>1 DEF MapsOK
      <4>2. CASE n # hellos + 1
        BY <2>2, <3>1, <3>5, <3>8, <4>2 DEF MapsOK, Swept, Hellos
      <4> QED
        BY <4>1, <4>2
    <3> QED
      BY <3>3, <3>7, <3>8 DEF Swept
  <2> QED
    BY <1>1, <2>1, <2>2 DEF LoginInit, Keep
<1>2. ASSUME NEW n, Forget(n), UNCHANGED <<hellos, phase>> PROVE MapsInv'
  <2>1. /\ held' = [held EXCEPT ![n] = None] /\ age' = [age EXCEPT ![n] = 0]
    BY <1>2 DEF Forget
  <2>2. MapsOK'
    BY <1>2, <2>1 DEF MapsOK
  <2>3. Swept'
    BY <1>2, <2>1 DEF MapsOK, Swept
  <2> QED
    BY <2>2, <2>3
<1>4. CASE Tick
  <2> DEFINE sweeps(s) == phase[s] + 1 = Period
             swept == {n \in Hellos : held[n] # None /\ sweeps(held[n]) /\ Stale(n)}
  <2>1. /\ hellos' = hellos
        /\ phase' = [s \in Servers |-> IF sweeps(s) THEN 0 ELSE phase[s] + 1]
        /\ held' = [n \in Hellos |-> IF n \in swept THEN None ELSE held[n]]
        /\ age' = [n \in Hellos |-> IF held[n] = None \/ n \in swept THEN 0 ELSE age[n] + 1]
    BY <1>4 DEF Tick
  <2>2. \A s \in Servers : phase'[s] \in 0 .. Period - 1
    BY <2>1, TimesAssumption DEF MapsOK
  <2>3. MapsOK'
    <3>1. phase' \in [Servers -> 0 .. Period - 1]
      BY <2>1, <2>2
    <3>2. held' \in [Hellos -> Servers \cup {None}] /\ age' \in [Hellos -> Nat]
      BY <2>1 DEF MapsOK
    <3> QED
      BY <2>1, <3>1, <3>2 DEF MapsOK
  <2>4. ASSUME NEW n \in Hellos, held'[n] # None
        PROVE  n <= hellos' /\ age'[n] <= Ttl + phase'[held'[n]]
    <3>1. /\ n \notin swept /\ held'[n] = held[n] /\ held[n] \in Servers
          /\ age'[n] = age[n] + 1
      BY <2>1, <2>4 DEF MapsOK
    <3>2. age[n] \in Nat /\ phase[held[n]] \in Nat /\ age[n] <= Ttl + phase[held[n]]
          /\ n <= hellos'
      BY <2>1, <3>1, NoneAssumption DEF MapsOK, Swept
    <3>3. CASE sweeps(held[n])
      <4>1. phase'[held[n]] = 0
        BY <2>1, <3>1, <3>3
      <4>2. ~(age[n] + 1 > Ttl)
        BY <3>1, <3>3, NoneAssumption DEF Stale
      <4> QED
        BY <3>1, <3>2, <4>1, <4>2, TimesAssumption
    <3>4. CASE ~sweeps(held[n])
      <4>1. phase'[held[n]] = phase[held[n]] + 1
        BY <2>1, <3>1, <3>4
      <4> QED
        BY <3>1, <3>2, <4>1, TimesAssumption
    <3> QED
      BY <3>3, <3>4
  <2>5. ASSUME NEW n \in Hellos, held'[n] = None
        PROVE  age'[n] = 0
    BY <2>1, <2>5
  <2> QED
    BY <2>3, <2>4, <2>5 DEF Swept
<1>5. ASSUME NEW s \in Servers, Restart(s) PROVE MapsInv'
  <2> DEFINE lost == {n \in Hellos : held[n] = s}
  <2>1. /\ hellos' = hellos
        /\ held' = [n \in Hellos |-> IF n \in lost THEN None ELSE held[n]]
        /\ age' = [n \in Hellos |-> IF n \in lost THEN 0 ELSE age[n]]
        /\ phase' = [phase EXCEPT ![s] = 0]
    BY <1>5 DEF Restart
  <2>2. MapsOK'
    <3>1. phase' \in [Servers -> 0 .. Period - 1]
      BY <2>1, TimesAssumption DEF MapsOK
    <3>2. held' \in [Hellos -> Servers \cup {None}] /\ age' \in [Hellos -> Nat]
      BY <2>1 DEF MapsOK
    <3> QED
      BY <2>1, <3>1, <3>2 DEF MapsOK
  <2>3. ASSUME NEW n \in Hellos
        PROVE  \/ held'[n] = None /\ age'[n] = 0
               \/ held'[n] = held[n] /\ age'[n] = age[n] /\ held[n] # s
    BY <2>1
  <2>4. \A u \in Servers : u # s => phase'[u] = phase[u]
    BY <2>1 DEF MapsOK
  <2>5. ASSUME NEW n \in Hellos, held'[n] = None
        PROVE  age'[n] = 0
    BY <2>3, <2>5 DEF Swept
  <2>6. ASSUME NEW n \in Hellos, held'[n] # None
        PROVE  n <= hellos' /\ age'[n] <= Ttl + phase'[held'[n]]
    <3>1. held'[n] = held[n] /\ age'[n] = age[n] /\ held[n] # s /\ held[n] \in Servers
      BY <2>3, <2>6 DEF MapsOK
    <3>2. phase'[held[n]] = phase[held[n]]
      BY <2>4, <3>1
    <3> QED
      BY <2>1, <2>6, <3>1, <3>2 DEF Swept
  <2> QED
    BY <2>2, <2>5, <2>6 DEF Swept
<1>6. ASSUME NEW t \in Tabs, NEW s \in Servers, LoginFinish(t, s) PROVE MapsInv'
  BY <1>0, <1>2, <1>6 DEF LoginFinish
<1>7. ASSUME NEW t \in Tabs, Answer(t) \/ Lost(t) PROVE MapsInv'
  BY <1>0, <1>1, <1>6, <1>7 DEF Answer, Lost, Registered, LoginLegacy, KeysReady
<1>8. CASE UNCHANGED vars
  BY <1>0, <1>8 DEF vars
<1>3. CASE \/ \E t \in Tabs : Answer(t) \/ Lost(t)
           \/ \E s \in Servers : Restart(s)
  BY <1>3, <1>5, <1>7
<1>9. CASE \E t \in Tabs, e \in Entries :
             SubmitLogin(t, e) \/ \E name \in Names : SubmitRegister(t, e, name)
  BY <1>0, <1>9 DEF SubmitLogin, SubmitRegister
<1>10. CASE \/ \E f \in Forms : RegisterElsewhere(f)
            \/ \E a \in Regs : Register(a) \/ Rollback(a) \/ VerifyEmail(a)
  BY <1>0, <1>10 DEF RegisterElsewhere, Register, Rollback, VerifyEmail
<1> QED
  BY <1>3, <1>4, <1>8, <1>9, <1>10 DEF Next

----------------------------------------------------------------------------
(* The forms *)

\* What Waiting, Promised and RightPasswordWorks say of one form.
TabInv(t) ==
    /\ pc[t] \in Busy => error[t] = None /\ entry[t] \in Entries
    /\ pc[t] = "register" => /\ entry[t].on = "register"
                            /\ mine[t] \in 1 .. sent
                            /\ form[mine[t]].kind = "opaque"
                            /\ form[mine[t]].email = entry[t].email
    /\ pc[t] = "finish" => mine[t] \in 1 .. hellos
    /\ pc[t] = "legacy" => entry[t].on = "login"
    /\ pc[t] \in {"init", "finish", "legacy"} /\ sure[t] => Matches(entry[t])
    /\ pc[t] \in {"init", "finish"} /\ entry[t].on = "register" =>
          HasAccount("opaque", entry[t].email)
    /\ pc[t] = "finish" /\ sure[t] => held[mine[t]] # None /\ age[mine[t]] < Ttl
    /\ pc[t] = "legacy" /\ sure[t] => HasAccount("legacy", entry[t].email)
    /\ error[t] = "invalid" => ~sure[t]

Apart ==
    \A t, u \in Tabs : t # u /\ pc[t] = "finish" /\ pc[u] = "finish" => mine[t] # mine[u]

TabsInv == TabsOK /\ Apart /\ \A t \in Tabs : TabInv(t)

LEMMA Parts == IInv <=> RowsInv /\ MapsInv /\ TabsInv
BY DEF IInv, TypeOK, RowsInv, MapsInv, TabsInv, TabInv, Apart,
       Waiting, Promised, RightPasswordWorks

LEMMA AccountKept ==
  ASSUME RowsInv, Kept, NEW e \in Emails, account[e] # 0
  PROVE  /\ account[e] \in 1 .. sent /\ account'[e] = account[e]
         /\ form'[account[e]] = form[account[e]]
BY DEF RowsInv, RowsOK, Kept

\* A form for which nothing happens, except that sure may be given up.
LEMMA OtherTab ==
  ASSUME RowsInv, RowsInv', Kept, NEW u \in Tabs, TabInv(u), TabsOK, MapsOK,
         pc'[u] = pc[u], entry'[u] = entry[u], mine'[u] = mine[u], error'[u] = error[u],
         sure'[u] => sure[u],
         hellos' \in Nat, hellos <= hellos',
         pc[u] = "finish" /\ sure'[u] => held'[mine[u]] # None /\ age'[mine[u]] < Ttl
  PROVE  TabInv(u)'
<1>1. pc[u] = "register" => mine[u] \in 1 .. sent' /\ form'[mine[u]] = form[mine[u]]
  BY DEF TabInv, Kept, RowsInv, RowsOK
<1>2. pc[u] = "finish" => mine[u] \in 1 .. hellos'
  BY DEF TabInv, MapsOK
<1>3. pc[u] \in Busy => entry[u].email \in Emails
  BY DEF TabInv, Entries
<1>4. pc[u] \in {"init", "finish", "legacy"} /\ sure[u] => Matches(entry[u])'
  BY <1>3, AccountKept DEF TabInv, Matches, Busy
<1>5. pc[u] \in {"init", "finish"} /\ entry[u].on = "register" =>
          HasAccount("opaque", entry[u].email)'
  BY <1>3, AccountKept DEF TabInv, HasAccount, Busy
<1>6. pc[u] = "legacy" /\ sure[u] => HasAccount("legacy", entry[u].email)'
  BY <1>3, AccountKept DEF TabInv, HasAccount, Busy
<1> QED
  BY <1>1, <1>2, <1>4, <1>5, <1>6 DEF TabInv

\* In the maps, at most the handshake of t is touched.
MapsFor(t) ==
    /\ hellos' \in Nat /\ hellos <= hellos'
    /\ \A n \in 1 .. hellos : (pc[t] = "finish" => n # mine[t]) =>
          held'[n] = held[n] /\ age'[n] = age[n]

\* A step of form t: the others keep what they have.
LEMMA TabStep ==
  ASSUME RowsInv, RowsInv', Kept, MapsOK, TabsInv, NEW t \in Tabs,
         \A u \in Tabs \ {t} : /\ pc'[u] = pc[u] /\ entry'[u] = entry[u] /\ mine'[u] = mine[u]
                               /\ error'[u] = error[u] /\ sure'[u] = sure[u],
         TabsOK', TabInv(t)', MapsFor(t),
         pc'[t] = "finish" => mine'[t] \notin 1 .. hellos
  PROVE  TabsInv'
<1>1. ASSUME NEW u \in Tabs, u # t PROVE TabInv(u)'
  <2>1. TabInv(u) /\ (pc[u] = "finish" => mine[u] \in 1 .. hellos)
    BY DEF TabsInv, TabInv
  <2>2. pc[u] = "finish" => (pc[t] = "finish" => mine[u] # mine[t])
    BY <1>1 DEF TabsInv, Apart
  <2>3. pc[u] = "finish" => held'[mine[u]] = held[mine[u]] /\ age'[mine[u]] = age[mine[u]]
    BY <2>1, <2>2 DEF MapsFor
  <2>4. pc[u] = "finish" /\ sure'[u] => held'[mine[u]] # None /\ age'[mine[u]] < Ttl
    BY <1>1, <2>1, <2>3 DEF TabInv
  <2> QED
    BY <1>1, <2>1, <2>4, OtherTab DEF TabsInv, MapsFor
<1>2. Apart'
  <2>1. ASSUME NEW u \in Tabs, NEW v \in Tabs, u # v, pc'[u] = "finish", pc'[v] = "finish"
        PROVE  mine'[u] # mine'[v]
    <3>1. CASE u # t /\ v # t
      BY <2>1, <3>1 DEF TabsInv, Apart
    <3>2. CASE u = t
      BY <2>1, <3>2 DEF TabsInv, TabInv
    <3>3. CASE v = t
      BY <2>1, <3>3 DEF TabsInv, TabInv
    <3> QED
      BY <3>1, <3>2, <3>3
  <2> QED
    BY <2>1 DEF Apart
<1> QED
  BY <1>1, <1>2 DEF TabsInv

Becomes(t, p, e, m, w, b) ==
    /\ pc' = [pc EXCEPT ![t] = p] /\ entry' = [entry EXCEPT ![t] = e]
    /\ mine' = [mine EXCEPT ![t] = m] /\ error' = [error EXCEPT ![t] = w]
    /\ sure' = [sure EXCEPT ![t] = b]

LEMMA BecomesTypes ==
  ASSUME TabsOK, NEW t \in Tabs, NEW p \in Busy \cup {"idle"}, NEW e \in Entries \cup {Blank},
         NEW m \in 0 .. MaxRegs + MaxHellos, NEW w \in Errors \cup {None}, NEW b \in BOOLEAN,
         Becomes(t, p, e, m, w, b)
  PROVE  /\ TabsOK'
         /\ pc'[t] = p /\ entry'[t] = e /\ mine'[t] = m /\ error'[t] = w /\ sure'[t] = b
         /\ \A u \in Tabs \ {t} : /\ pc'[u] = pc[u] /\ entry'[u] = entry[u] /\ mine'[u] = mine[u]
                                 /\ error'[u] = error[u] /\ sure'[u] = sure[u]
<1> USE DEF TabsOK, Becomes
<1>1. pc' \in [Tabs -> Busy \cup {"idle"}] /\ entry' \in [Tabs -> Entries \cup {Blank}]
  OBVIOUS
<1>2. /\ mine' \in [Tabs -> 0 .. MaxRegs + MaxHellos]
      /\ error' \in [Tabs -> Errors \cup {None}]
  OBVIOUS
<1>3. sure' \in [Tabs -> BOOLEAN]
  OBVIOUS
<1> QED
  BY <1>1, <1>2, <1>3

LEMMA FailBecomes ==
  ASSUME NEW t \in Tabs, NEW why, NEW b, Fail(t, why), sure' = [sure EXCEPT ![t] = b]
  PROVE  Becomes(t, "idle", Blank, 0, why, b)
BY DEF Fail, Becomes

LEMMA GotoBecomes ==
  ASSUME TabsOK, NEW t \in Tabs, NEW label, NEW m, NEW b,
         Goto(t, label, m), sure' = [sure EXCEPT ![t] = b]
  PROVE  Becomes(t, label, entry[t], m, error[t], b)
BY DEF Goto, Becomes, TabsOK

LEMMA SameSure ==
  ASSUME TabsOK, NEW t \in Tabs, UNCHANGED sure
  PROVE  sure' = [sure EXCEPT ![t] = sure[t]] /\ sure[t] \in BOOLEAN
BY DEF TabsOK

\* The form ends up idle.
LEMMA BecomesIdle ==
  ASSUME RowsInv, RowsInv', Kept, MapsOK, TabsInv, NEW t \in Tabs, MapsFor(t),
         NEW w \in Errors \cup {None}, NEW b \in BOOLEAN, w = "invalid" => ~b,
         Fail(t, w), sure' = [sure EXCEPT ![t] = b]
  PROVE  TabsInv'
<1>1. Becomes(t, "idle", Blank, 0, w, b)
  BY FailBecomes
<1>2. 0 \in 0 .. MaxRegs + MaxHellos
  BY BoundsAssumption
<1>3. /\ TabsOK'
      /\ pc'[t] = "idle" /\ error'[t] = w /\ sure'[t] = b
      /\ \A u \in Tabs \ {t} : /\ pc'[u] = pc[u] /\ entry'[u] = entry[u] /\ mine'[u] = mine[u]
                              /\ error'[u] = error[u] /\ sure'[u] = sure[u]
  BY <1>1, <1>2, BecomesTypes DEF TabsInv
<1>4. TabInv(t)'
  BY <1>3 DEF TabInv, Busy
<1> QED
  BY <1>3, <1>4, TabStep

\* The form goes on, to label p.
LEMMA BecomesBusy ==
  ASSUME RowsInv, RowsInv', Kept, MapsOK, TabsInv, NEW t \in Tabs, MapsFor(t),
         NEW p \in Busy, NEW e \in Entries, NEW m \in 0 .. MaxRegs + MaxHellos, NEW b \in BOOLEAN,
         Becomes(t, p, e, m, None, b),
         p = "register" => /\ e.on = "register" /\ m \in 1 .. sent'
                           /\ form'[m].kind = "opaque" /\ form'[m].email = e.email,
         p = "finish" => m \in 1 .. hellos' /\ m \notin 1 .. hellos,
         p = "legacy" => e.on = "login",
         p \in {"init", "finish", "legacy"} /\ b =>
            account'[e.email] # 0 /\ form'[account'[e.email]].password = e.password,
         p \in {"init", "finish"} /\ e.on = "register" =>
            account'[e.email] # 0 /\ form'[account'[e.email]].kind = "opaque",
         p = "finish" /\ b => held'[m] # None /\ age'[m] < Ttl,
         p = "legacy" /\ b => account'[e.email] # 0 /\ form'[account'[e.email]].kind = "legacy"
  PROVE  TabsInv'
<1>1. /\ TabsOK'
      /\ pc'[t] = p /\ entry'[t] = e /\ mine'[t] = m /\ error'[t] = None /\ sure'[t] = b
      /\ \A u \in Tabs \ {t} : /\ pc'[u] = pc[u] /\ entry'[u] = entry[u] /\ mine'[u] = mine[u]
                              /\ error'[u] = error[u] /\ sure'[u] = sure[u]
  BY BecomesTypes DEF TabsInv
<1>2. None # "invalid"
  BY DEF None
<1>3. TabInv(t)'
  BY <1>1, <1>2 DEF TabInv, Matches, HasAccount
<1>4. pc'[t] = "finish" => mine'[t] \notin 1 .. hellos
  BY <1>1
<1> QED
  BY <1>1, <1>3, <1>4, TabStep

LEMMA SameMaps ==
  ASSUME MapsOK, NEW t \in Tabs, UNCHANGED maps
  PROVE  MapsFor(t)
BY DEF MapsOK, MapsFor, maps

LEMMA SubmitTabs ==
  ASSUME RowsInv, RowsInv', Kept, MapsOK, TabsInv, NEW t \in Tabs, NEW e \in Entries,
         SubmitLogin(t, e) \/ \E name \in Names : SubmitRegister(t, e, name)
  PROVE  TabsInv'
<1>1. MapsFor(t)
  BY SameMaps DEF SubmitLogin, SubmitRegister
<1>2. CASE SubmitLogin(t, e)
  <2>1. Becomes(t, "init", e, 0, None, Matches(e)) /\ e.on = "login"
    BY <1>2 DEF SubmitLogin, Submit, Becomes
  <2>2. UNCHANGED <<account, form>>
    BY <1>2 DEF SubmitLogin, db, handlers
  <2>3. 0 \in 0 .. MaxRegs + MaxHellos /\ Matches(e) \in BOOLEAN
    BY BoundsAssumption DEF Matches
  <2>4. Matches(e) => account'[e.email] # 0 /\ form'[account'[e.email]].password = e.password
    BY <2>2 DEF Matches
  <2> QED
    BY <1>1, <2>1, <2>3, <2>4, BecomesBusy DEF Busy
<1>3. ASSUME NEW name \in Names, SubmitRegister(t, e, name) PROVE TabsInv'
  <2>1. Becomes(t, "register", e, sent + 1, None, FALSE) /\ e.on = "register"
    BY <1>3 DEF SubmitRegister, Submit, Becomes
  <2>2. /\ sent' = sent + 1 /\ sent < MaxRegs
        /\ form' = Append(form, [kind |-> "opaque", email |-> e.email,
                                 password |-> e.password, name |-> name])
    BY <1>3 DEF SubmitRegister, Send
  <2>3. sent \in Nat /\ form \in Seq(Forms) /\ Len(form) = sent
    BY BoundsAssumption DEF RowsInv, RowsOK
  <2>4. form'[sent + 1].kind = "opaque" /\ form'[sent + 1].email = e.email
    BY <2>2, <2>3
  <2>5. sent + 1 \in 0 .. MaxRegs + MaxHellos /\ sent + 1 \in 1 .. sent'
    BY <2>2, <2>3, BoundsAssumption
  <2> QED
    BY <1>1, <2>1, <2>4, <2>5, BecomesBusy DEF Busy
<1> QED
  BY <1>2, <1>3

LEMMA RegisteredTabs ==
  ASSUME RowsInv, RowsInv', Kept, MapsOK, TabsInv, NEW t \in Tabs, Registered(t)
  PROVE  TabsInv'
<1>1. MapsFor(t)
  BY SameMaps DEF Registered
<1>2. /\ entry[t] \in Entries /\ error[t] = None /\ entry[t].on = "register"
      /\ mine[t] \in 1 .. sent /\ form[mine[t]].kind = "opaque"
      /\ form[mine[t]].email = entry[t].email
  BY DEF Registered, TabsInv, TabInv, Busy
<1>3. CASE /\ reg[mine[t]] = "done" /\ Goto(t, "init", 0)
           /\ sure' = [sure EXCEPT ![t] = Matches(entry[t])]
  <2>1. Becomes(t, "init", entry[t], 0, None, Matches(entry[t]))
    BY <1>2, <1>3, GotoBecomes DEF TabsInv
  <2>2. UNCHANGED <<account, form>>
    BY DEF Registered, db, handlers
  <2>3. account[entry[t].email] = mine[t] /\ mine[t] # 0
    BY <1>2, <1>3, BoundsAssumption DEF RowsInv, RowsOK, AccountsWhole, Regs
  <2>4. Matches(entry[t]) => account'[entry[t].email] # 0
                             /\ form'[account'[entry[t].email]].password = entry[t].password
    BY <2>2 DEF Matches
  <2>5. 0 \in 0 .. MaxRegs + MaxHellos /\ Matches(entry[t]) \in BOOLEAN
    BY BoundsAssumption DEF Matches
  <2> QED
    BY <1>1, <1>2, <2>1, <2>2, <2>3, <2>4, <2>5, BecomesBusy DEF Busy
<1>4. CASE Fail(t, "other") /\ UNCHANGED sure
  BY <1>1, <1>4, SameSure, BecomesIdle DEF TabsInv, Errors
<1> QED
  BY <1>3, <1>4 DEF Registered

LEMMA AnsweredTabs ==
  ASSUME RowsInv, RowsInv', Kept, MapsOK, TabsInv, NEW t \in Tabs,
         Lost(t) \/ KeysReady(t) \/ LoginLegacy(t)
  PROVE  TabsInv'
<1>1. MapsFor(t)
  BY SameMaps DEF Lost, KeysReady, LoginLegacy
<1>2. CASE Lost(t)
  <2>1. PICK w \in Errors : Fail(t, w) /\ sure' = [sure EXCEPT ![t] = FALSE]
    BY <1>2 DEF Lost, Errors
  <2> QED
    BY <1>1, <2>1, BecomesIdle
<1>3. CASE Leave(t) /\ sure' = [sure EXCEPT ![t] = FALSE]
  BY <1>1, <1>3, BecomesIdle DEF Leave
<1>4. CASE /\ pc[t] = "legacy" /\ ~(HasAccount("legacy", entry[t].email) /\ Matches(entry[t]))
           /\ Fail(t, "invalid") /\ UNCHANGED sure
  <2>1. ~sure[t]
    BY <1>4 DEF TabsInv, TabInv
  <2> QED
    BY <1>1, <1>4, <2>1, SameSure, BecomesIdle DEF TabsInv, Errors
<1> QED
  BY <1>2, <1>3, <1>4 DEF KeysReady, LoginLegacy

\* The refusal of a handshake, when sure is not wrong about it.
LEMMA DeniedTabs ==
  ASSUME RowsInv, RowsInv', Kept, MapsOK, TabsInv, NEW t \in Tabs, MapsFor(t),
         NEW b \in BOOLEAN, Denied(t), sure' = [sure EXCEPT ![t] = b],
         pc[t] \in {"init", "finish"},
         entry[t].on = "register" => ~b,
         b => /\ account'[entry[t].email] # 0
              /\ form'[account'[entry[t].email]].password = entry[t].password
              /\ form'[account'[entry[t].email]].kind = "legacy"
  PROVE  TabsInv'
<1>1. entry[t] \in Entries /\ error[t] = None
  BY DEF TabsInv, TabInv, Busy
<1>2. CASE entry[t].on = "login"
  <2>1. Becomes(t, "legacy", entry[t], 0, None, b)
    BY <1>1, <1>2, GotoBecomes DEF Denied, TabsInv
  <2>2. 0 \in 0 .. MaxRegs + MaxHellos
    BY BoundsAssumption
  <2> QED
    BY <1>1, <1>2, <2>1, <2>2, BecomesBusy DEF Busy
<1>3. CASE entry[t].on = "register"
  BY <1>3, BecomesIdle DEF Denied, Errors
<1> QED
  BY <1>1, <1>2, <1>3 DEF Entries

LEMMA LoginInitTabs ==
  ASSUME RowsInv, RowsInv', Kept, MapsInv, TabsInv,
         NEW t \in Tabs, NEW s \in Servers, LoginInit(t, s)
  PROVE  TabsInv'
<1> USE DEF MapsInv
<1>1. /\ pc[t] = "init" /\ entry[t] \in Entries /\ error[t] = None
      /\ (sure[t] => Matches(entry[t]))
      /\ (entry[t].on = "register" => HasAccount("opaque", entry[t].email))
      /\ UNCHANGED <<account, form, age>>
  BY DEF LoginInit, Keep, TabsInv, TabInv, Busy, db, handlers
<1>2. CASE HasAccount("opaque", entry[t].email)
  <2>1. /\ hellos < MaxHellos /\ hellos' = hellos + 1
        /\ held' = [held EXCEPT ![hellos + 1] = s]
    BY <1>2 DEF LoginInit, Keep
  <2>2. hellos \in Nat /\ hellos' \in 1 .. hellos' /\ hellos' \notin 1 .. hellos /\ hellos' \in Hellos
    BY <2>1, BoundsAssumption DEF MapsOK, Hellos
  <2>3. MapsFor(t)
    BY <1>1, <2>1, <2>2 DEF MapsFor, MapsOK
  <2>4. CASE Matches(entry[t]) /\ Goto(t, "finish", hellos + 1) /\ UNCHANGED sure
    <3>1. Becomes(t, "finish", entry[t], hellos + 1, None, sure[t]) /\ sure[t] \in BOOLEAN
      BY <1>1, <2>4, SameSure, GotoBecomes DEF TabsInv
    <3>2. held'[hellos + 1] = s /\ s # None
      BY <2>1, <2>2, NoneAssumption DEF MapsOK
    <3>3. age'[hellos + 1] < Ttl
      <4>1. held[hellos + 1] = None
        BY <2>1, <2>2 DEF Swept
      <4> QED
        BY <1>1, <2>1, <2>2, <4>1, TimesAssumption DEF Swept
    <3>4. hellos + 1 \in 0 .. MaxRegs + MaxHellos
      BY <2>1, <2>2, BoundsAssumption
    <3>5. /\ account'[entry[t].email] # 0
          /\ form'[account'[entry[t].email]].password = entry[t].password
          /\ form'[account'[entry[t].email]].kind = "opaque"
      BY <1>1, <1>2, <2>4 DEF Matches, HasAccount
    <3> QED
      BY <1>1, <2>1, <2>2, <2>3, <3>1, <3>2, <3>3, <3>4, <3>5, BecomesBusy DEF Busy
  <2>5. CASE ~Matches(entry[t]) /\ Denied(t) /\ UNCHANGED sure
    <3>1. sure' = [sure EXCEPT ![t] = FALSE]
      BY <1>1, <2>5, SameSure DEF TabsInv, TabsOK
    <3> QED
      BY <1>1, <2>3, <2>5, <3>1, DeniedTabs
  <2>6. CASE Fail(t, "other") /\ sure' = [sure EXCEPT ![t] = FALSE]
    BY <2>3, <2>6, BecomesIdle DEF Errors
  <2> QED
    BY <1>2, <2>4, <2>5, <2>6 DEF LoginInit, Keep
<1>3. CASE ~HasAccount("opaque", entry[t].email)
  <2>1. Denied(t) /\ UNCHANGED <<hellos, held, sure, age, phase>>
    BY <1>3 DEF LoginInit, Keep
  <2>2. MapsFor(t)
    BY <2>1, SameMaps DEF maps
  <2>3. ASSUME sure[t]
        PROVE  /\ account'[entry[t].email] # 0
               /\ form'[account'[entry[t].email]].password = entry[t].password
               /\ form'[account'[entry[t].email]].kind = "legacy"
    <3>1. account[entry[t].email] # 0 /\ entry[t].email \in Emails
      BY <1>1, <2>3 DEF Matches, Entries
    <3>2. form[account[entry[t].email]] \in Forms
      BY <3>1 DEF RowsInv, RowsOK
    <3>3. form[account[entry[t].email]].kind = "legacy"
      BY <1>3, <3>1, <3>2 DEF Forms, Kinds, HasAccount
    <3> QED
      BY <1>1, <2>3, <3>1, <3>3 DEF Matches
  <2> QED
    BY <1>1, <1>3, <2>1, <2>2, <2>3, SameSure, DeniedTabs DEF TabsInv
<1> QED
  BY <1>2, <1>3

LEMMA LoginFinishTabs ==
  ASSUME RowsInv, RowsInv', Kept, MapsInv, TabsInv,
         NEW t \in Tabs, NEW s \in Servers, LoginFinish(t, s)
  PROVE  TabsInv'
<1> USE DEF MapsInv
<1>1. /\ pc[t] = "finish" /\ entry[t] \in Entries /\ error[t] = None
      /\ mine[t] \in 1 .. hellos /\ mine[t] \in Hellos
      /\ (sure[t] => held[mine[t]] # None /\ age[mine[t]] < Ttl)
      /\ UNCHANGED <<account, form, hellos>>
  BY BoundsAssumption DEF LoginFinish, TabsInv, TabInv, Busy, db, handlers, MapsOK, Hellos
<1>2. CASE held[mine[t]] = s
  <2>0. Forget(mine[t])
    BY <1>2 DEF LoginFinish
  <2>1. MapsFor(t)
    BY <1>1, <2>0 DEF Forget, MapsFor, MapsOK
  <2>2. CASE Goto(t, "keys", 0) /\ UNCHANGED sure
    <3>1. Becomes(t, "keys", entry[t], 0, None, sure[t]) /\ sure[t] \in BOOLEAN
      BY <1>1, <2>2, SameSure, GotoBecomes DEF TabsInv
    <3>2. 0 \in 0 .. MaxRegs + MaxHellos
      BY BoundsAssumption
    <3> QED
      BY <1>1, <2>1, <3>1, <3>2, BecomesBusy DEF Busy
  <2>3. CASE Fail(t, "other") /\ sure' = [sure EXCEPT ![t] = FALSE]
    BY <2>1, <2>3, BecomesIdle DEF Errors
  <2>4. CASE age[mine[t]] >= Ttl /\ Denied(t) /\ UNCHANGED sure
    <3>1. ~sure[t]
      BY <1>1, <2>4, TimesAssumption DEF MapsOK
    <3>2. sure' = [sure EXCEPT ![t] = FALSE]
      BY <2>4, <3>1, SameSure DEF TabsInv, TabsOK
    <3> QED
      BY <1>1, <2>1, <2>4, <3>2, DeniedTabs
  <2> QED
    BY <1>2, <2>2, <2>3, <2>4 DEF LoginFinish
<1>3. CASE held[mine[t]] # s
  <2>1. /\ Denied(t) /\ UNCHANGED <<held, age>>
        /\ sure' = [sure EXCEPT ![t] = @ /\ held[mine[t]] = None]
    BY <1>3 DEF LoginFinish
  <2>2. MapsFor(t)
    BY <1>1, <2>1 DEF MapsFor, MapsOK
  <2>3. sure' = [sure EXCEPT ![t] = FALSE]
    BY <1>1, <2>1 DEF TabsInv, TabsOK
  <2> QED
    BY <1>1, <2>1, <2>2, <2>3, DeniedTabs
<1> QED
  BY <1>2, <1>3

\* Steps that are no form's.
LEMMA ElsewhereTabs ==
  ASSUME RowsInv, RowsInv', Kept, MapsOK, TabsInv,
         UNCHANGED <<pc, entry, mine, error, hellos>>, sure' \in [Tabs -> BOOLEAN],
         \A t \in Tabs : sure'[t] => sure[t],
         \A t \in Tabs : pc[t] = "finish" /\ sure'[t] =>
            held'[mine[t]] # None /\ age'[mine[t]] < Ttl
  PROVE  TabsInv'
<1>1. TabsOK' /\ Apart'
  BY DEF TabsInv, TabsOK, Apart
<1>2. ASSUME NEW t \in Tabs PROVE TabInv(t)'
  BY <1>2, OtherTab DEF TabsInv, MapsOK
<1> QED
  BY <1>1, <1>2 DEF TabsInv

LEMMA TickTabs ==
  ASSUME RowsInv, RowsInv', Kept, MapsInv, TabsInv, Tick
  PROVE  TabsInv'
<1> USE DEF MapsInv
<1> DEFINE sweeps(s) == phase[s] + 1 = Period
           swept == {n \in Hellos : held[n] # None /\ sweeps(held[n]) /\ Stale(n)}
<1>1. /\ UNCHANGED <<pc, entry, mine, error, hellos>>
      /\ held' = [n \in Hellos |-> IF n \in swept THEN None ELSE held[n]]
      /\ age' = [n \in Hellos |-> IF held[n] = None \/ n \in swept THEN 0 ELSE age[n] + 1]
      /\ sure' = [t \in Tabs |-> sure[t] /\ ~(pc[t] = "finish" /\ age[mine[t]] + 1 >= Ttl)]
  BY DEF Tick
<1>2. sure' \in [Tabs -> BOOLEAN] /\ \A t \in Tabs : sure'[t] => sure[t]
  BY <1>1
<1>3. ASSUME NEW t \in Tabs, pc[t] = "finish", sure'[t]
      PROVE  held'[mine[t]] # None /\ age'[mine[t]] < Ttl
  <2>1. mine[t] \in Hellos /\ held[mine[t]] # None
    BY <1>2, <1>3, BoundsAssumption DEF TabsInv, TabInv, MapsOK, Hellos
  <2>2. ~(age[mine[t]] + 1 >= Ttl) /\ age[mine[t]] \in Nat
    BY <1>1, <1>3, <2>1 DEF MapsOK
  <2>3. mine[t] \notin swept
    BY <2>2, TimesAssumption DEF Stale
  <2> QED
    BY <1>1, <2>1, <2>2, <2>3, TimesAssumption
<1> QED
  BY <1>1, <1>2, <1>3, ElsewhereTabs

LEMMA RestartTabs ==
  ASSUME RowsInv, RowsInv', Kept, MapsInv, TabsInv, NEW s \in Servers, Restart(s)
  PROVE  TabsInv'
<1> USE DEF MapsInv
<1> DEFINE lost == {n \in Hellos : held[n] = s}
<1>1. /\ UNCHANGED <<pc, entry, mine, error, hellos>>
      /\ held' = [n \in Hellos |-> IF n \in lost THEN None ELSE held[n]]
      /\ age' = [n \in Hellos |-> IF n \in lost THEN 0 ELSE age[n]]
      /\ sure' = [t \in Tabs |-> sure[t] /\ ~(pc[t] = "finish" /\ mine[t] \in lost)]
  BY DEF Restart
<1>2. sure' \in [Tabs -> BOOLEAN] /\ \A t \in Tabs : sure'[t] => sure[t]
  BY <1>1
<1>3. ASSUME NEW t \in Tabs, pc[t] = "finish", sure'[t]
      PROVE  held'[mine[t]] # None /\ age'[mine[t]] < Ttl
  <2>1. mine[t] \in Hellos /\ held[mine[t]] # None /\ age[mine[t]] < Ttl
    BY <1>2, <1>3, BoundsAssumption DEF TabsInv, TabInv, MapsOK, Hellos
  <2>2. mine[t] \notin lost
    BY <1>1, <1>3
  <2> QED
    BY <1>1, <2>1, <2>2
<1> QED
  BY <1>1, <1>2, <1>3, ElsewhereTabs

LEMMA NextTabs ==
  ASSUME RowsInv, RowsInv', Kept, MapsInv, TabsInv, [Next]_vars
  PROVE  TabsInv'
<1> USE DEF MapsInv
<1>1. ASSUME UNCHANGED <<maps, tabs>> PROVE TabsInv'
  <2>1. sure \in [Tabs -> BOOLEAN]
    BY DEF TabsInv, TabsOK
  <2>2. \A t \in Tabs : pc[t] = "finish" /\ sure[t] => held[mine[t]] # None /\ age[mine[t]] < Ttl
    BY DEF TabsInv, TabInv
  <2> QED
    BY <1>1, <2>1, <2>2, ElsewhereTabs DEF maps, tabs
<1>2. CASE UNCHANGED vars
  BY <1>1, <1>2 DEF vars
<1>3. CASE \E t \in Tabs, e \in Entries :
             SubmitLogin(t, e) \/ \E name \in Names : SubmitRegister(t, e, name)
  BY <1>3, SubmitTabs
<1>4. ASSUME NEW t \in Tabs, Answer(t) \/ Lost(t) PROVE TabsInv'
  BY <1>4, RegisteredTabs, AnsweredTabs, LoginInitTabs, LoginFinishTabs DEF Answer
<1>5. CASE \/ \E f \in Forms : RegisterElsewhere(f)
           \/ \E a \in Regs : Register(a) \/ Rollback(a) \/ VerifyEmail(a)
  BY <1>1, <1>5 DEF RegisterElsewhere, Register, Rollback, VerifyEmail
<1>6. CASE \E t \in Tabs : Answer(t) \/ Lost(t)
  BY <1>4, <1>6
<1>7. CASE Tick
  BY <1>7, TickTabs
<1>8. CASE \E s \in Servers : Restart(s)
  BY <1>8, RestartTabs
<1> QED
  BY <1>2, <1>3, <1>5, <1>6, <1>7, <1>8 DEF Next

----------------------------------------------------------------------------

LEMMA Inductive == Spec => []IInv
<1>1. Init => IInv
  BY InitInv
<1>2. IInv /\ [Next]_vars => IInv'
  <2> SUFFICES ASSUME IInv, [Next]_vars PROVE IInv'
    OBVIOUS
  <2>1. RowsInv /\ MapsInv /\ TabsInv
    BY Parts
  <2>2. RowsInv' /\ Kept
    BY <2>1, NextRows
  <2>3. MapsInv'
    BY <2>1, NextMaps
  <2>4. TabsInv'
    BY <2>1, <2>2, NextTabs
  <2>5. (IInv <=> RowsInv /\ MapsInv /\ TabsInv)'
    BY Parts, PTL
  <2> QED
    BY <2>2, <2>3, <2>4, <2>5
<1> QED
  BY <1>1, <1>2, PTL DEF Spec

\* Every variable keeps its type.
THEOREM TypeCorrect == Spec => []TypeOK
<1>1. IInv => TypeOK
  BY DEF IInv
<1> QED
  BY <1>1, Inductive, PTL

\* However many registrations overlap, fail or die with their process: whoever
\* has committed owns his email and his workspace, no later registration takes
\* them, and nobody else owns any (opaqueRegister, register).
THEOREM AccountsAreWhole == Spec => []AccountsWhole
<1>1. IInv => AccountsWhole
  BY DEF IInv
<1> QED
  BY <1>1, Inductive, PTL

\* With any number of forms and servers, the right password is refused only
\* for a reason (loginInit, loginFinish, the login form's fallback).
THEOREM PasswordsWork == Spec => []RightPasswordWorks
<1>1. IInv => RightPasswordWorks
  BY DEF IInv
<1> QED
  BY <1>1, Inductive, PTL

\* For all times: what a server's map holds is younger than the time to live
\* and the sweep's period together (cleanup).
THEOREM HandshakesAreBrief == Spec => []HeldBriefly
<1>1. IInv => HeldBriefly
  <2> SUFFICES ASSUME IInv, NEW n \in Hellos, held[n] # None
               PROVE  age[n] < Ttl + Period
    BY DEF HeldBriefly
  <2>1. held[n] \in Servers /\ age[n] <= Ttl + phase[held[n]] /\ age[n] \in Nat
    BY DEF IInv, TypeOK, MapsOK, Swept
  <2>2. phase[held[n]] \in 0 .. Period - 1
    BY <2>1 DEF IInv, TypeOK, MapsOK
  <2> QED
    BY <2>1, <2>2, TimesAssumption
<1> QED
  BY <1>1, Inductive, PTL

=============================================================================
