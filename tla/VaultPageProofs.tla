-------------------------- MODULE VaultPageProofs --------------------------
(* What the vault page knows, and how long it shows a secret. *)
EXTENDS VaultPage, TLAPS

(* The inductive invariant. *)

\* History is kept only while the current socket is subscribed.
Attentive == covered # {} \/ (\E l \in Loads : watch[l] # {}) => Listening

\* What a load has read so far lacks only what the page is told of.
Listed ==
    \A l \in Loads, r \in Reqs :
        Pending(r) /\ Wanted(r) /\ kind[r] \in watch[l] => r \in snap[l] \/ Told(r)

\* Denials that are announced have been made, shares acknowledged are in.
Truthful ==
    /\ \A r \in Reqs : <<"denied", r>> \in outbox => status[r] = "closed"
    /\ \A r \in Reqs, s \in Sockets : Queued(<<"denied", r>>, s) => status[r] = "closed"
    /\ \A r \in Reqs : post[r] = "taken" => r \in given

\* The timer of the last unlock is running.
Timed == shown => age <= Minutes /\ Minutes - age \in timers

IInv == TypeOK /\ Attentive /\ Listed /\ NothingOverlooked /\ Truthful /\ Timed

(* Queues. *)

LEMMA AppendHas ==
  ASSUME NEW S, NEW q \in Seq(S), NEW x \in S
  PROVE  /\ Append(q, x) \in Seq(S)
         /\ \A m : Contains(Append(q, x), m) <=> m = x \/ Contains(q, m)
<1>1. /\ Append(q, x) \in Seq(S) /\ Len(Append(q, x)) = Len(q) + 1 /\ Len(q) \in Nat
      /\ \A i \in 1 .. Len(q) : Append(q, x)[i] = q[i]
      /\ Append(q, x)[Len(q) + 1] = x
  OBVIOUS
<1>2. ASSUME NEW m PROVE Contains(Append(q, x), m) <=> m = x \/ Contains(q, m)
  BY <1>1 DEF Contains
<1> QED
  BY <1>1, <1>2

LEMMA TailHas ==
  ASSUME NEW S, NEW q \in Seq(S), q # <<>>
  PROVE  /\ Head(q) \in S /\ Tail(q) \in Seq(S)
         /\ Contains(q, Head(q))
         /\ \A m : Contains(q, m) <=> m = Head(q) \/ Contains(Tail(q), m)
<1>1. /\ Len(q) \in Nat \ {0} /\ Head(q) = q[1] /\ Tail(q) \in Seq(S) /\ Head(q) \in S
      /\ Len(Tail(q)) = Len(q) - 1
      /\ \A i \in 1 .. Len(q) - 1 : Tail(q)[i] = q[i + 1]
  OBVIOUS
<1>2. ASSUME NEW m PROVE Contains(q, m) <=> m = Head(q) \/ Contains(Tail(q), m)
  <2>1. ASSUME NEW i \in 1 .. Len(q), q[i] = m, i # 1 PROVE Contains(Tail(q), m)
    <3>1. i - 1 \in 1 .. Len(q) - 1 /\ Tail(q)[i - 1] = q[i]
      BY <1>1, <2>1
    <3> QED
      BY <1>1, <2>1, <3>1 DEF Contains
  <2>2. ASSUME NEW i \in 1 .. Len(Tail(q)), Tail(q)[i] = m PROVE Contains(q, m)
    <3>1. i + 1 \in 1 .. Len(q) /\ q[i + 1] = m
      BY <1>1, <2>2
    <3> QED
      BY <3>1 DEF Contains
  <2>3. m = Head(q) => Contains(q, m)
    BY <1>1 DEF Contains
  <2> QED
    BY <1>1, <2>1, <2>2, <2>3 DEF Contains
<1> QED
  BY <1>1, <1>2

LEMMA NothingIn == \A m : ~Contains(<<>>, m)
BY DEF Contains

LEMMA InitInv == ASSUME Init PROVE IInv
<1>1. ServerOK /\ PageOK /\ LoadsOK /\ SecretOK
  BY DEF Init, ServerOK, PageOK, LoadsOK, SecretOK, Kinds
<1>2. NetOK
  BY DEF Init, NetOK
<1>3. Attentive /\ Listed /\ NothingOverlooked /\ Timed
  BY DEF Init, Attentive, Listed, NothingOverlooked, Timed
<1>4. Truthful
  BY NothingIn DEF Init, Truthful, Queued
<1> QED
  BY <1>1, <1>2, <1>3, <1>4 DEF IInv, TypeOK

(* What the page lacks. *)

Missing(r) == Pending(r) /\ Wanted(r) /\ ~Told(r)

\* A step after which the page lacks nothing it did not lack before.
LEMMA NothingNew ==
  ASSUME IInv, UNCHANGED <<snap, history>>,
         \A r \in Reqs : Missing(r)' => Missing(r) /\ kind'[r] = kind[r]
  PROVE  Listed' /\ NothingOverlooked'
<1>1. ASSUME NEW r \in Reqs, Pending(r)', Wanted(r)', kind'[r] \in covered'
      PROVE  Told(r)'
  BY <1>1 DEF IInv, NothingOverlooked, Missing, history
<1>2. ASSUME NEW l \in Loads, NEW r \in Reqs, Pending(r)', Wanted(r)', kind'[r] \in watch'[l],
             r \notin snap'[l]
      PROVE  Told(r)'
  BY <1>2 DEF IInv, Listed, Missing, history
<1> QED
  BY <1>1, <1>2 DEF Listed, NothingOverlooked

\* Nor after the history has been cleared.
LEMMA NothingKept ==
  ASSUME covered' = {}, \A l \in Loads : watch'[l] = {}
  PROVE  Listed' /\ NothingOverlooked' /\ Attentive'
BY DEF Listed, NothingOverlooked, Attentive

(* The steps of the server. *)

LEMMA CreateInv == ASSUME IInv, NEW r \in Reqs, Create(r) PROVE IInv'
<1> USE DEF IInv, TypeOK
<1>1. /\ status[r] = "none" /\ status' = [status EXCEPT ![r] = "PENDING"]
      /\ outbox' = outbox \cup {<<"requested", r>>}
      /\ UNCHANGED <<kind, mine, given, net, mounted, notes, load, post, secret, history>>
  BY DEF Create
<1>2. ServerOK'
  BY <1>1 DEF ServerOK, Events
<1>3. NetOK' /\ PageOK' /\ LoadsOK' /\ SecretOK' /\ Attentive' /\ Timed'
  BY <1>1 DEF NetOK, PageOK, LoadsOK, SecretOK, Attentive, Timed, Listening, State,
              net, load, secret, history
<1>4. ASSUME NEW q \in Reqs, Missing(q)' PROVE Missing(q) /\ kind'[q] = kind[q]
  <2>1. q # r
    BY <1>1, <1>4 DEF Missing, Told
  <2>2. status'[q] = status[q]
    BY <1>1, <2>1 DEF ServerOK
  <2> QED
    BY <1>1, <1>4, <2>2 DEF Missing, Pending, Wanted, Told, Queued, net
<1>5. Listed' /\ NothingOverlooked'
  BY <1>1, <1>4, NothingNew DEF load
<1>6. Truthful'
  BY <1>1 DEF Truthful, ServerOK, Queued, net
<1> QED
  BY <1>2, <1>3, <1>5, <1>6

\* A request is closed, and perhaps the user's own share was the last.
LEMMA CloseInv ==
  ASSUME IInv, NEW r \in Reqs, NEW news \in SUBSET Events, Close(r, news),
         \A q \in Reqs : <<"denied", q>> \in news => q = r,
         given' \in {given, given \cup {r}},
         post' \in [Reqs -> {"no", "sent", "taken"}],
         \A q \in Reqs : post'[q] = "taken" => q \in given',
         UNCHANGED <<kind, mine, net, mounted, notes, load, secret, history>>
  PROVE  IInv'
<1> USE DEF IInv, TypeOK
<1>1. status' = [status EXCEPT ![r] = "closed"] /\ outbox' = outbox \cup news
  BY DEF Close
<1>2. ServerOK'
  BY <1>1 DEF ServerOK
<1>3. NetOK' /\ PageOK' /\ LoadsOK' /\ SecretOK' /\ Attentive' /\ Timed'
  BY DEF NetOK, PageOK, LoadsOK, SecretOK, Attentive, Timed, Listening, State,
         net, load, secret, history
<1>4. ASSUME NEW q \in Reqs, Missing(q)' PROVE Missing(q) /\ kind'[q] = kind[q]
  BY <1>1, <1>4 DEF Missing, Pending, Wanted, Told, Queued, net, ServerOK
<1>5. Listed' /\ NothingOverlooked'
  BY <1>4, NothingNew DEF load
<1>6. Truthful'
  BY <1>1 DEF Truthful, ServerOK, Queued, net
<1> QED
  BY <1>2, <1>3, <1>5, <1>6

LEMMA VerdictTells ==
  ASSUME NEW r \in Reqs
  PROVE  /\ Verdict(r) \in SUBSET Events
         /\ \A q \in Reqs : <<"denied", q>> \notin Verdict(r)
BY DEF Verdict, Events

LEMMA DecideInv == ASSUME IInv, NEW r \in Reqs, Deny(r) \/ Approve(r) PROVE IInv'
<1>1. post \in [Reqs -> {"no", "sent", "taken"}]
      /\ \A q \in Reqs : post[q] = "taken" => q \in given
  BY DEF IInv, TypeOK, PageOK, Truthful
<1>2. CASE Deny(r)
  <2>1. {<<"denied", r>>} \in SUBSET Events /\ \A q \in Reqs : <<"denied", q>> \in {<<"denied", r>>} => q = r
    BY DEF Events
  <2> QED
    BY <1>1, <1>2, <2>1, CloseInv DEF Deny
<1>3. CASE Approve(r)
  BY <1>1, <1>3, VerdictTells, CloseInv DEF Approve
<1> QED
  BY <1>2, <1>3

LEMMA HandleInv == ASSUME IInv, NEW r \in Reqs, Handle(r) PROVE IInv'
<1> USE DEF IInv, TypeOK
<1>1. /\ given' = given \cup {r} /\ post' = [post EXCEPT ![r] = "taken"]
      /\ Close(r, Verdict(r)) \/ UNCHANGED <<status, outbox>>
      /\ UNCHANGED <<kind, mine, net, mounted, notes, load, secret, history>>
  BY DEF Handle
<1>2. post' \in [Reqs -> {"no", "sent", "taken"}]
  BY <1>1 DEF PageOK
<1>3. \A q \in Reqs : post'[q] = "taken" => q \in given'
  BY <1>1 DEF PageOK, Truthful
<1>4. CASE Close(r, Verdict(r))
  BY <1>1, <1>2, <1>3, <1>4, VerdictTells, CloseInv
<1>5. CASE UNCHANGED <<status, outbox>>
  <2>1. ServerOK' /\ NetOK' /\ PageOK' /\ LoadsOK' /\ SecretOK' /\ Attentive' /\ Timed'
    BY <1>1, <1>2, <1>5 DEF ServerOK, NetOK, PageOK, LoadsOK, SecretOK, Attentive, Timed,
                            Listening, State, net, load, secret, history
  <2>2. ASSUME NEW q \in Reqs, Missing(q)' PROVE Missing(q) /\ kind'[q] = kind[q]
    BY <1>1, <1>5, <2>2 DEF Missing, Pending, Wanted, Told, Queued, net
  <2>3. Listed' /\ NothingOverlooked'
    BY <1>1, <2>2, NothingNew DEF load
  <2>4. Truthful'
    BY <1>1, <1>3, <1>5 DEF Truthful, Queued, net
  <2> QED
    BY <2>1, <2>3, <2>4
<1> QED
  BY <1>1, <1>4, <1>5

LEMMA EmitInv == ASSUME IInv, NEW m \in outbox, Emit(m) PROVE IInv'
<1> USE DEF IInv, TypeOK
<1>1. /\ outbox' = outbox \ {m} /\ m \in Events
      /\ queue' = [s \in Sockets |-> IF s \in Audience(m) THEN Append(queue[s], m) ELSE queue[s]]
      /\ UNCHANGED <<server, sock, asked, current, importing, mounted, notes, load, post, secret, history>>
  BY DEF Emit, ServerOK
<1>2. ASSUME NEW s \in Sockets
      PROVE  /\ queue'[s] \in Seq(Events)
             /\ \A n : Queued(n, s)' <=> Queued(n, s) \/ (s \in Audience(m) /\ n = m)
  <2>1. queue[s] \in Seq(Events)
    BY DEF NetOK
  <2>2. CASE s \in Audience(m)
    BY <1>1, <2>1, <2>2, AppendHas DEF Queued
  <2>3. CASE s \notin Audience(m)
    BY <1>1, <2>1, <2>3 DEF Queued
  <2> QED
    BY <2>2, <2>3
<1>3. NetOK'
  BY <1>1, <1>2 DEF NetOK
<1>4. ServerOK' /\ PageOK' /\ LoadsOK' /\ SecretOK' /\ Attentive' /\ Timed'
  BY <1>1 DEF ServerOK, PageOK, LoadsOK, SecretOK, Attentive, Timed, Listening, State,
              server, load, secret, history
<1>5. Listed' /\ NothingOverlooked'
  <2>1. CASE Listening
    <3>1. current \in Sockets /\ current \in Audience(m)
      BY <2>1 DEF Listening, State, Audience, NetOK
    <3>2. ASSUME NEW q \in Reqs, Missing(q)' PROVE Missing(q) /\ kind'[q] = kind[q]
      BY <1>1, <1>2, <3>1, <3>2 DEF Missing, Pending, Wanted, Told, server
    <3> QED
      BY <1>1, <3>2, NothingNew DEF load
  <2>2. CASE ~Listening
    BY <1>1, <2>2, NothingKept DEF Attentive, history, LoadsOK
  <2> QED
    BY <2>1, <2>2
<1>6. Truthful'
  BY <1>1, <1>2 DEF Truthful, server, Events
<1> QED
  BY <1>3, <1>4, <1>5, <1>6

(* The steps of the sockets and of the page. *)

\* A step of the sockets that drops what was on its way to some of them, and
\* forgets the history if the current one is among them.
LEMMA NetInv ==
  ASSUME IInv, NetOK', mounted' \in BOOLEAN,
         \A s \in Sockets : queue'[s] \in {queue[s], <<>>},
         \/ Deaf
         \/ /\ UNCHANGED <<current, history>> /\ queue'[current] = queue[current]
            /\ Listening => Listening',
         UNCHANGED <<server, outbox, notes, snap, post, secret>>,
         loading' \subseteq Loads, todo' \in [Loads -> SUBSET Kinds]
  PROVE  IInv'
<1> USE DEF IInv, TypeOK
<1>1. watch' \in [Loads -> SUBSET Kinds] /\ covered' \subseteq Kinds
  BY DEF LoadsOK, Deaf, history
<1>2. ServerOK' /\ PageOK' /\ LoadsOK' /\ SecretOK' /\ Timed'
  BY <1>1 DEF ServerOK, PageOK, LoadsOK, SecretOK, Timed, server, secret
<1>3. Listed' /\ NothingOverlooked' /\ Attentive'
  <2>1. CASE Deaf
    BY <2>1, NothingKept DEF Deaf
  <2>2. CASE /\ UNCHANGED <<current, history>> /\ queue'[current] = queue[current]
             /\ Listening => Listening'
    <3>1. ASSUME NEW q \in Reqs, Missing(q)' PROVE Missing(q) /\ kind'[q] = kind[q]
      BY <2>2, <3>1 DEF Missing, Pending, Wanted, Told, Queued, server
    <3> QED
      BY <2>2, <3>1, NothingNew DEF Attentive, history
  <2> QED
    BY <2>1, <2>2
<1>4. Truthful'
  <2>1. ASSUME NEW r \in Reqs, NEW s \in Sockets, Queued(<<"denied", r>>, s)'
        PROVE  Queued(<<"denied", r>>, s)
    BY <2>1, NothingIn DEF Queued
  <2> QED
    BY <2>1 DEF Truthful, server
<1> QED
  BY <1>2, <1>3, <1>4

LEMMA SocketInv ==
  ASSUME IInv, NEW s \in Sockets, Open(s) \/ Connect(s) \/ Subscribe(s) \/ Lost(s)
  PROVE  IInv'
<1>1. /\ mounted' \in BOOLEAN /\ loading' \subseteq Loads /\ todo' \in [Loads -> SUBSET Kinds]
      /\ UNCHANGED <<server, outbox, notes, snap, post, secret>>
  BY DEF IInv, TypeOK, PageOK, LoadsOK, Open, Connect, Subscribe, Lost, load
<1>2. <<>> \in Seq(Events)
  OBVIOUS
<1>3. CASE Open(s)
  <2>1. NetOK'
    BY <1>3, NoSocketAssumption DEF Open, IInv, TypeOK, NetOK
  <2> QED
    BY <1>1, <1>3, <2>1, NetInv DEF Open
<1>4. CASE Connect(s)
  <2>1. NetOK'
    BY <1>4 DEF Connect, IInv, TypeOK, NetOK
  <2>2. Listening => Listening'
    BY <1>4 DEF Connect, Listening, State, IInv, TypeOK, NetOK
  <2> QED
    BY <1>1, <1>4, <2>1, <2>2, NetInv DEF Connect
<1>5. CASE Subscribe(s)
  <2>1. NetOK'
    BY <1>5 DEF Subscribe, IInv, TypeOK, NetOK
  <2>2. Listening => Listening'
    BY <1>5 DEF Subscribe, Listening, State, IInv, TypeOK, NetOK
  <2> QED
    BY <1>1, <1>5, <2>1, <2>2, NetInv DEF Subscribe
<1>6. CASE Lost(s)
  <2>1. PICK state \in {"connecting", "closed"} : sock' = [sock EXCEPT ![s] = state]
    BY <1>6 DEF Lost
  <2>2. queue' = [queue EXCEPT ![s] = <<>>] /\ asked' = asked \ {s} /\ UNCHANGED <<current, importing>>
    BY <1>6 DEF Lost
  <2>3. NetOK'
    BY <1>2, <2>1, <2>2 DEF IInv, TypeOK, NetOK
  <2>4. CASE s = current
    BY <1>1, <1>6, <2>2, <2>3, <2>4, NetInv DEF Lost, IInv, TypeOK, NetOK
  <2>5. CASE s # current
    <3>1. (Listening => Listening') /\ queue'[current] = queue[current] /\ UNCHANGED history
      BY <1>6, <2>1, <2>2, <2>5, NoSocketAssumption DEF Lost, Listening, State, IInv, TypeOK, NetOK
    <3> QED
      BY <1>1, <2>2, <2>3, <3>1, NetInv DEF IInv, TypeOK, NetOK
  <2> QED
    BY <2>4, <2>5
<1> QED
  BY <1>3, <1>4, <1>5, <1>6

LEMMA BeginLoads ==
  ASSUME IInv, NEW l \in Loads, Begin(l)
  PROVE  loading' \subseteq Loads /\ todo' \in [Loads -> SUBSET Kinds] /\ snap' = snap
BY DEF Begin, IInv, TypeOK, LoadsOK

LEMMA VisitInv ==
  ASSUME IInv, NEW l \in Loads, Enter(l) \/ Again(l)
  PROVE  IInv'
<1>1. CASE Enter(l)
  <2>1. loading' \subseteq Loads /\ todo' \in [Loads -> SUBSET Kinds] /\ snap' = snap
    BY <1>1, BeginLoads DEF Enter
  <2>2. UNCHANGED <<server, outbox, sock, queue, current, notes, post, secret, history>>
        /\ mounted' = TRUE /\ importing' \in Nat /\ asked' \subseteq Sockets
    BY <1>1 DEF Enter, State, IInv, TypeOK, NetOK
  <2>3. NetOK' /\ (Listening => Listening')
    BY <2>2 DEF Listening, State, IInv, TypeOK, NetOK
  <2> QED
    BY <2>1, <2>2, <2>3, NetInv
<1>2. CASE Again(l)
  <2>1. loading' \subseteq Loads /\ todo' \in [Loads -> SUBSET Kinds] /\ snap' = snap
    BY <1>2, BeginLoads DEF Again
  <2>2. UNCHANGED <<server, outbox, net, mounted, notes, post, secret, history>>
    BY <1>2 DEF Again
  <2>3. NetOK' /\ (Listening => Listening') /\ mounted' \in BOOLEAN
    BY <2>2 DEF net, Listening, State, IInv, TypeOK, NetOK, PageOK
  <2> QED
    BY <2>1, <2>2, <2>3, NetInv DEF net
<1> QED
  BY <1>1, <1>2

LEMMA LeaveInv == ASSUME IInv, Leave PROVE IInv'
<1>1. /\ UNCHANGED <<server, outbox, importing, notes, load, post, secret>>
      /\ mounted' = FALSE /\ current' = NoSocket /\ Deaf /\ asked' \subseteq Sockets
      /\ sock' = [s \in Sockets |-> IF s = current THEN "closed" ELSE sock[s]]
      /\ queue' = [s \in Sockets |-> IF s = current THEN <<>> ELSE queue[s]]
  BY DEF Leave, IInv, TypeOK, NetOK
<1>2. <<>> \in Seq(Events)
  OBVIOUS
<1>3. NetOK'
  BY <1>1, <1>2 DEF IInv, TypeOK, NetOK
<1>4. loading' \subseteq Loads /\ todo' \in [Loads -> SUBSET Kinds] /\ snap' = snap
  BY <1>1 DEF load, IInv, TypeOK, LoadsOK
<1> QED
  BY <1>1, <1>3, <1>4, NetInv

LEMMA ListInv == ASSUME IInv, NEW l \in Loads, NEW k \in Kinds, List(l, k) PROVE IInv'
<1> USE DEF IInv, TypeOK
<1> DEFINE found == {r \in Reqs : Pending(r) /\ Wanted(r) /\ kind[r] = k}
<1>1. /\ UNCHANGED <<server, outbox, net, mounted, notes, loading, post, secret, covered>>
      /\ todo' = [todo EXCEPT ![l] = @ \ {k}]
  BY DEF List
<1>2. CASE UNCHANGED <<snap, watch>>
  <2>1. todo' \in [Loads -> SUBSET Kinds] /\ loading' \subseteq Loads
    BY <1>1 DEF LoadsOK
  <2>2. NetOK' /\ (Listening => Listening') /\ mounted' \in BOOLEAN
    BY <1>1 DEF net, Listening, State, NetOK, PageOK
  <2> QED
    BY <1>1, <1>2, <2>1, <2>2, NetInv DEF net, history
<1>3. CASE /\ snap' = [snap EXCEPT ![l] = @ \cup found]
           /\ watch' = IF Listening THEN [watch EXCEPT ![l] = @ \cup {k}] ELSE watch
  <2>1. todo' \in [Loads -> SUBSET Kinds] /\ snap' \in [Loads -> SUBSET Reqs]
        /\ watch' \in [Loads -> SUBSET Kinds]
    BY <1>1, <1>3 DEF LoadsOK
  <2>2. ServerOK' /\ NetOK' /\ PageOK' /\ LoadsOK' /\ SecretOK' /\ Timed' /\ Truthful'
    BY <1>1, <2>1 DEF ServerOK, NetOK, PageOK, LoadsOK, SecretOK, Timed, Truthful, Queued,
                      server, net, secret
  <2>3. Attentive' /\ NothingOverlooked'
    BY <1>1, <1>3 DEF Attentive, NothingOverlooked, Listening, State, Pending, Wanted, Told, Queued,
                      server, net
  <2>4. ASSUME NEW j \in Loads, NEW r \in Reqs, Pending(r)', Wanted(r)', kind'[r] \in watch'[j]
        PROVE  r \in snap'[j] \/ Told(r)'
    <3>1. Pending(r) /\ Wanted(r) /\ kind'[r] = kind[r] /\ (Told(r) => Told(r)')
      BY <1>1, <2>4 DEF Pending, Wanted, Told, Queued, server, net
    <3>2. CASE kind[r] \in watch[j]
      BY <1>3, <3>1, <3>2 DEF Listed, LoadsOK
    <3>3. CASE kind[r] \notin watch[j]
      <4>1. j = l /\ kind[r] = k
        BY <1>3, <2>4, <3>1, <3>3 DEF LoadsOK
      <4> QED
        BY <1>3, <3>1, <4>1 DEF LoadsOK
    <3> QED
      BY <3>2, <3>3
  <2> QED
    BY <2>2, <2>3, <2>4 DEF Listed
<1> QED
  BY <1>2, <1>3 DEF List

LEMMA RestoreInv == ASSUME IInv, NEW l \in Loads, Restore(l) PROVE IInv'
<1> USE DEF IInv, TypeOK
<1>1. /\ notes' = [r \in Reqs |-> IF r \in snap[l] /\ notes[r] = 0 THEN 1 ELSE notes[r]]
      /\ covered' = covered \cup watch[l] /\ loading' = loading \ {l}
      /\ snap' = [snap EXCEPT ![l] = {}] /\ watch' = [watch EXCEPT ![l] = {}]
      /\ UNCHANGED <<server, outbox, net, mounted, todo, post, secret>>
  BY DEF Restore
<1>2. notes' \in [Reqs -> Nat]
  BY <1>1 DEF PageOK
<1>3. ServerOK' /\ NetOK' /\ PageOK' /\ SecretOK' /\ Timed' /\ Truthful'
  BY <1>1, <1>2 DEF ServerOK, NetOK, PageOK, SecretOK, Timed, Truthful, Queued, server, net, secret
<1>4. LoadsOK'
  BY <1>1 DEF LoadsOK
<1>5. Attentive'
  BY <1>1 DEF Attentive, Listening, State, net, LoadsOK
<1>6. ASSUME NEW r \in Reqs, Pending(r)', Wanted(r)'
      PROVE  /\ Pending(r) /\ Wanted(r) /\ kind'[r] = kind[r]
             /\ Told(r) => Told(r)'
             /\ r \in snap[l] => Told(r)'
  BY <1>1, <1>6 DEF Pending, Wanted, Told, Queued, server, net, PageOK
<1>7. NothingOverlooked'
  BY <1>1, <1>6 DEF NothingOverlooked, Listed
<1>8. Listed'
  BY <1>1, <1>6 DEF Listed, LoadsOK
<1> QED
  BY <1>3, <1>4, <1>5, <1>7, <1>8

(* The events of a socket. *)

\* An event taken from a queue, with what it does to the notifications.
LEMMA ReceiveInv ==
  ASSUME IInv, NEW s \in Sockets, NEW event, Receive(s, event),
         notes' \in [Reqs -> Nat], SecretOK', Timed',
         loading' \subseteq Loads, todo' \in [Loads -> SUBSET Kinds], snap' = snap,
         \A r \in Reqs : Pending(r) /\ Wanted(r) =>
            /\ notes[r] > 0 => notes'[r] > 0
            /\ Head(queue[s]) = <<"requested", r>> => notes'[r] > 0
  PROVE  IInv'
<1> USE DEF IInv, TypeOK
<1>1. /\ queue[s] # <<>> /\ queue' = [queue EXCEPT ![s] = Tail(@)]
      /\ UNCHANGED <<server, outbox, sock, asked, current, importing, mounted, post, history>>
  BY DEF Receive
<1>2. queue[s] \in Seq(Events) /\ queue'[s] = Tail(queue[s])
  BY <1>1 DEF NetOK
<1>3. /\ Tail(queue[s]) \in Seq(Events)
      /\ \A m : Queued(m, s) <=> m = Head(queue[s]) \/ Queued(m, s)'
  BY <1>1, <1>2, TailHas DEF Queued
<1>4. NetOK'
  BY <1>1, <1>3 DEF NetOK
<1>5. ServerOK' /\ PageOK' /\ LoadsOK' /\ Attentive'
  BY <1>1 DEF ServerOK, PageOK, LoadsOK, Attentive, Listening, State, server, history
<1>6. ASSUME NEW r \in Reqs, Missing(r)' PROVE Missing(r) /\ kind'[r] = kind[r]
  <2>1. Pending(r) /\ Wanted(r) /\ kind'[r] = kind[r]
    BY <1>1, <1>6 DEF Missing, Pending, Wanted, server
  <2>2. ~(notes'[r] > 0) /\ <<"requested", r>> \notin outbox /\ ~Queued(<<"requested", r>>, current)'
    BY <1>1, <1>6 DEF Missing, Told, Queued
  <2>3. ~(notes[r] > 0) /\ Head(queue[s]) # <<"requested", r>>
    BY <2>1, <2>2
  <2>4. ~Queued(<<"requested", r>>, current)
    <3>1. CASE current = s
      BY <1>1, <1>3, <2>2, <2>3, <3>1 DEF Queued
    <3>2. CASE current # s
      BY <1>1, <2>2, <3>2 DEF Queued, NetOK
    <3> QED
      BY <3>1, <3>2
  <2> QED
    BY <2>1, <2>2, <2>3, <2>4 DEF Missing, Told
<1>7. Listed' /\ NothingOverlooked'
  BY <1>1, <1>6, NothingNew
<1>8. Truthful'
  <2>1. ASSUME NEW r \in Reqs, NEW x \in Sockets, Queued(<<"denied", r>>, x)'
        PROVE  Queued(<<"denied", r>>, x)
    <3>1. CASE x = s
      BY <1>3, <2>1, <3>1
    <3>2. CASE x # s
      BY <1>1, <2>1, <3>2 DEF Queued, NetOK
    <3> QED
      BY <3>1, <3>2
  <2> QED
    BY <1>1, <2>1 DEF Truthful, server
<1> QED
  BY <1>4, <1>5, <1>7, <1>8

LEMMA HeadIs ==
  ASSUME IInv, NEW s \in Sockets, NEW event, Receive(s, event)
  PROVE  /\ Head(queue[s])[2] \in Reqs
         /\ Head(queue[s]) = <<event, Head(queue[s])[2]>>
         /\ Queued(Head(queue[s]), s)
<1>1. queue[s] \in Seq(Events) /\ queue[s] # <<>> /\ Head(queue[s])[1] = event
  BY DEF IInv, TypeOK, NetOK, Receive
<1>2. Head(queue[s]) \in Events /\ Contains(queue[s], Head(queue[s]))
  BY <1>1, TailHas
<1> QED
  BY <1>1, <1>2 DEF Events, Queued

LEMMA EventInv ==
  ASSUME IInv, NEW s \in Sockets, OnRequested(s) \/ OnDenied(s) \/ OnQuorum(s) \/ OnFinalized(s)
  PROVE  IInv'
<1> DEFINE r == Head(queue[s])[2]
<1> USE DEF IInv, TypeOK
<1>1. notes \in [Reqs -> Nat] /\ loading \subseteq Loads /\ todo \in [Loads -> SUBSET Kinds]
  BY DEF PageOK, LoadsOK
<1>2. UNCHANGED secret => SecretOK' /\ Timed'
  BY DEF SecretOK, Timed, secret
<1>3. CASE OnRequested(s)
  <2>1. Receive(s, "requested") /\ UNCHANGED <<load, secret>>
        /\ notes' = IF Wanted(r) THEN [notes EXCEPT ![r] = @ + 1] ELSE notes
    BY <1>3 DEF OnRequested
  <2>2. r \in Reqs /\ Head(queue[s]) = <<"requested", r>>
    BY <2>1, HeadIs
  <2>3. notes' \in [Reqs -> Nat]
    BY <1>1, <2>1, <2>2
  <2>4. \A q \in Reqs : Wanted(q) => /\ notes[q] > 0 => notes'[q] > 0
                                     /\ q = r => notes'[q] > 0
    BY <1>1, <2>1, <2>2
  <2>5. \A q \in Reqs : Head(queue[s]) = <<"requested", q>> => q = r
    BY <2>2
  <2> HIDE DEF r
  <2> QED
    BY <1>1, <1>2, <2>1, <2>3, <2>4, <2>5, ReceiveInv DEF load
<1>4. CASE OnDenied(s)
  <2>1. Receive(s, "denied") /\ UNCHANGED <<load, secret>> /\ notes' = [notes EXCEPT ![r] = 0]
    BY <1>4 DEF OnDenied
  <2>2. r \in Reqs /\ Head(queue[s]) = <<"denied", r>> /\ Queued(<<"denied", r>>, s)
    BY <2>1, HeadIs
  <2>3. status[r] = "closed"
    BY <2>2 DEF Truthful
  <2>4. notes' \in [Reqs -> Nat] /\ \A q \in Reqs : q # r => notes'[q] = notes[q]
    BY <1>1, <2>1, <2>2
  <2>5. \A q \in Reqs : Pending(q) => q # r
    BY <2>3 DEF Pending
  <2>6. \A q \in Reqs : Head(queue[s]) # <<"requested", q>>
    BY <2>2
  <2> HIDE DEF r
  <2> QED
    BY <1>1, <1>2, <2>1, <2>4, <2>5, <2>6, ReceiveInv DEF load
<1>5. CASE OnQuorum(s)
  <2>1. Receive(s, "quorum") /\ UNCHANGED <<notes, load>>
    BY <1>5 DEF OnQuorum
  <2>2. SecretOK' /\ Timed'
    <3>1. CASE shown' = TRUE /\ age' = 0 /\ timers' = timers \cup {Minutes}
      <4>1. Minutes \in Nat /\ Minutes - 0 = Minutes /\ 0 <= Minutes /\ Minutes \in timers'
        BY <3>1, MinutesAssumption
      <4> QED
        BY <3>1, <4>1 DEF SecretOK, Timed
    <3> QED
      BY <1>2, <1>5, <3>1 DEF OnQuorum
  <2>3. \A q \in Reqs : Head(queue[s]) # <<"requested", q>>
    BY <2>1, HeadIs
  <2> QED
    BY <1>1, <2>1, <2>2, <2>3, ReceiveInv DEF load
<1>6. CASE OnFinalized(s)
  <2>1. Receive(s, "finalized") /\ UNCHANGED <<notes, secret>>
    BY <1>6 DEF OnFinalized
  <2>2. loading' \subseteq Loads /\ todo' \in [Loads -> SUBSET Kinds] /\ snap' = snap
    BY <1>1, <1>6, BeginLoads DEF OnFinalized, load
  <2>3. \A q \in Reqs : Head(queue[s]) # <<"requested", q>>
    BY <2>1, HeadIs
  <2> QED
    BY <1>1, <1>2, <2>1, <2>2, <2>3, ReceiveInv
<1> QED
  BY <1>3, <1>4, <1>5, <1>6

(* Time. *)

LEMMA TimeInv == ASSUME IInv, Tick \/ Hide PROVE IInv'
<1> USE DEF IInv, TypeOK
<1>1. UNCHANGED <<server, outbox, net, mounted, notes, load, post, history>>
  BY DEF Tick, Hide
<1>2. SecretOK' /\ Timed'
  <2>1. CASE Tick
    <3>1. /\ 0 \notin timers /\ timers' = {t - 1 : t \in timers} /\ shown' = shown
          /\ age' = IF shown THEN age + 1 ELSE 0
      BY <2>1 DEF Tick
    <3>2. timers' \subseteq 0 .. Minutes /\ age' \in Nat
      BY <3>1, MinutesAssumption DEF SecretOK
    <3>3. ASSUME shown PROVE age' <= Minutes /\ Minutes - age' \in timers'
      <4>1. Minutes - age \in timers /\ Minutes - age # 0 /\ age <= Minutes
        BY <3>1, <3>3 DEF Timed
      <4>2. (Minutes - age) - 1 \in timers' /\ age' = age + 1
        BY <3>1, <3>3, <4>1
      <4> QED
        BY <4>1, <4>2, MinutesAssumption DEF SecretOK
    <3> QED
      BY <3>1, <3>2, <3>3 DEF SecretOK, Timed
  <2>2. CASE Hide
    BY <2>2 DEF Hide, SecretOK, Timed
  <2> QED
    BY <2>1, <2>2
<1>3. ServerOK' /\ NetOK' /\ PageOK' /\ LoadsOK' /\ Attentive' /\ Truthful'
  BY <1>1 DEF ServerOK, NetOK, PageOK, LoadsOK, Attentive, Truthful, Listening, State, Queued,
              server, net, load, history
<1>4. Listed' /\ NothingOverlooked'
  BY <1>1 DEF Listed, NothingOverlooked, Pending, Wanted, Told, Queued, server, net, load, history
<1> QED
  BY <1>2, <1>3, <1>4

(* The user's shares. *)

LEMMA ShareInv == ASSUME IInv, NEW r \in Reqs, Submit(r) \/ Answered(r) PROVE IInv'
<1> USE DEF IInv, TypeOK
<1>1. /\ UNCHANGED <<server, outbox, net, mounted, load, secret, history>>
      /\ \E label \in {"no", "sent"} : post' = [post EXCEPT ![r] = label]
      /\ notes' = notes \/ (post[r] = "taken" /\ notes' = [notes EXCEPT ![r] = 0])
  BY DEF Submit, Answered
<1>2. PageOK'
  BY <1>1 DEF PageOK
<1>3. ServerOK' /\ NetOK' /\ LoadsOK' /\ SecretOK' /\ Attentive' /\ Timed'
  BY <1>1 DEF ServerOK, NetOK, LoadsOK, SecretOK, Attentive, Timed, Listening, State,
              server, net, load, secret, history
<1>4. ASSUME NEW q \in Reqs, Missing(q)' PROVE Missing(q) /\ kind'[q] = kind[q]
  <2>1. Pending(q) /\ Wanted(q) /\ kind'[q] = kind[q]
    BY <1>1, <1>4 DEF Missing, Pending, Wanted, server
  <2>2. notes'[q] = notes[q]
    BY <1>1, <2>1 DEF Truthful, Pending, PageOK
  <2> QED
    BY <1>1, <1>4, <2>1, <2>2 DEF Missing, Told, Queued, net
<1>5. Listed' /\ NothingOverlooked'
  BY <1>1, <1>4, NothingNew DEF load
<1>6. Truthful'
  BY <1>1 DEF Truthful, Queued, PageOK, server, net
<1> QED
  BY <1>2, <1>3, <1>5, <1>6

----------------------------------------------------------------------------

LEMMA StepInv == ASSUME IInv, [Next]_vars PROVE IInv'
<1>1. CASE \E r \in Reqs : \/ Create(r) \/ Deny(r) \/ Approve(r)
                           \/ Submit(r) \/ Handle(r) \/ Answered(r)
  BY <1>1, CreateInv, DecideInv, HandleInv, ShareInv
<1>2. CASE \E m \in outbox : Emit(m)
  BY <1>2, EmitInv
<1>3. CASE \E s \in Sockets : \/ Open(s) \/ Connect(s) \/ Subscribe(s) \/ Lost(s)
                              \/ OnRequested(s) \/ OnDenied(s) \/ OnQuorum(s) \/ OnFinalized(s)
  BY <1>3, SocketInv, EventInv
<1>4. CASE \E l \in Loads : \/ Enter(l) \/ Again(l) \/ Restore(l)
                            \/ \E k \in Kinds : List(l, k)
  BY <1>4, VisitInv, RestoreInv, ListInv
<1>5. CASE Leave
  BY <1>5, LeaveInv
<1>6. CASE Tick \/ Hide
  BY <1>6, TimeInv
<1>7. CASE UNCHANGED vars
  <2>1. UNCHANGED <<server, outbox, net, mounted, notes, load, post, secret, history>>
    BY <1>7 DEF vars
  <2> QED
    BY <2>1 DEF IInv, TypeOK, ServerOK, NetOK, PageOK, LoadsOK, SecretOK, Attentive, Listed,
                NothingOverlooked, Truthful, Timed, Listening, State, Pending, Wanted, Told, Queued,
                server, net, load, secret, history
<1> QED
  BY <1>1, <1>2, <1>3, <1>4, <1>5, <1>6, <1>7 DEF Next

THEOREM Invariance == Spec => []IInv
<1>1. Init => IInv
  BY InitInv
<1>2. IInv /\ [Next]_vars => IInv'
  BY StepInv
<1> QED
  BY <1>1, <1>2, PTL DEF Spec

\* The types of the vault page's state.
THEOREM TypeCorrect == Spec => []TypeOK
<1>1. IInv => TypeOK
  BY DEF IInv
<1> QED
  BY <1>1, Invariance, PTL

\* A subscribed page that has read a list overlooks no request of that kind.
THEOREM RequestsAreSeen == Spec => []NothingOverlooked
<1>1. IInv => NothingOverlooked
  BY DEF IInv
<1> QED
  BY <1>1, Invariance, PTL

\* A notification goes because its request is decided or the user's share is in.
THEOREM NotificationsGoForAReason == Spec => GoesForAReason
<1>1. ASSUME IInv, [Next]_vars, NEW r \in Reqs, notes[r] > 0, notes'[r] = 0 PROVE ~Pending(r)
  <2>1. notes \in [Reqs -> Nat] /\ notes' # notes
    BY <1>1 DEF IInv, TypeOK, PageOK
  <2>2. CASE \E s \in Sockets : OnRequested(s) \/ OnDenied(s)
    <3>1. PICK s \in Sockets : OnRequested(s) \/ OnDenied(s)
      BY <2>2
    <3>2. CASE OnRequested(s)
      BY <1>1, <2>1, <3>2 DEF OnRequested
    <3>3. CASE OnDenied(s)
      <4>1. /\ Head(queue[s]) = <<"denied", Head(queue[s])[2]>>
            /\ Queued(Head(queue[s]), s)
            /\ notes' = [notes EXCEPT ![Head(queue[s])[2]] = 0]
        BY <1>1, <3>3, HeadIs DEF OnDenied
      <4>2. r = Head(queue[s])[2]
        BY <1>1, <2>1, <4>1
      <4>3. Queued(<<"denied", r>>, s)
        BY <4>1, <4>2
      <4>4. status[r] = "closed"
        BY <1>1, <3>1, <4>3 DEF IInv, Truthful
      <4> QED
        BY <4>4 DEF Pending
    <3> QED
      BY <3>1, <3>2, <3>3
  <2>3. CASE \E q \in Reqs : Answered(q)
    BY <1>1, <2>1, <2>3 DEF Answered, IInv, Truthful, Pending
  <2>4. CASE \E l \in Loads : Restore(l)
    BY <1>1, <2>1, <2>4 DEF Restore
  <2> QED
    BY <1>1, <2>1, <2>2, <2>3, <2>4 DEF Next, vars, Create, Deny, Approve, Submit, Handle, Emit,
       Open, Connect, Subscribe, Lost, OnQuorum, OnFinalized, Enter, Again, List, Leave, Tick, Hide
<1>2. IInv /\ [Next]_vars => [\A r \in Reqs : notes[r] > 0 /\ notes'[r] = 0 => ~Pending(r)]_vars
  BY <1>1
<1> QED
  BY <1>2, Invariance, PTL DEF Spec, GoesForAReason

\* A secret is hidden in time, whatever becomes of the page.
THEOREM SecretsAreHidden == Spec => []HiddenInTime
<1>1. IInv => HiddenInTime
  BY DEF IInv, Timed, HiddenInTime
<1> QED
  BY <1>1, Invariance, PTL

=============================================================================
