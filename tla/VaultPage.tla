----------------------------- MODULE VaultPage -----------------------------
(***************************************************************************)
(* The vault page of one holder of one vault: what it learns of requests,  *)
(* from the lists it loads and from the events of its socket, and how long *)
(* it shows a secret (client, vault-tab.component.ts, vault.service.ts;    *)
(* server, vault.gateway.ts).                                              *)
(*                                                                         *)
(* The component comes and goes with the page; the service, with its       *)
(* notifications and secrets, lives as long as the tab.  Lists are read at *)
(* the server one after the other, while events arrive.  Progress bars and *)
(* the lists of requests the page only displays are left out.              *)
(* The server decides a request in one step: what happens when its         *)
(* handlers overlap is in VaultAccess and VaultRotation.                   *)
(***************************************************************************)
EXTENDS Integers, SequencesExt

CONSTANTS
    Reqs,       \* requests for the vault: for access, or for a rotation
    Sockets,    \* sockets of the tab that exist at the same time
    Loads,      \* loads that are under way at the same time
    MaxImports, \* bound: calls of connectSocket waiting for the library
    Minutes     \* how long a secret is shown

NoSocket == "none"

ASSUME NoSocketAssumption == NoSocket \notin Sockets
ASSUME MinutesAssumption == Minutes \in Nat /\ MaxImports \in Nat

VARIABLES
    status, kind, mine, \* the requests: PENDING or not, what for, and whether
                        \* the user of this page is the requester
    given,      \* requests the user has submitted his share to
    outbox,     \* events of handlers that have committed but not yet emitted
    sock,       \* what has become of a socket
    asked,      \* sockets with a vault:subscribe on its way
    queue,      \* events on their way to a socket
    current,    \* VaultService.socket
    importing,  \* calls of connectSocket that wait for the library
    mounted,    \* the component exists
    notes,      \* how often a request is in pendingNotifications or pendingRotations
    loading, todo, snap,    \* loads under way, their lists not answered yet, and
                        \* what was listed
    post,       \* shares on their way
    shown, age, timers, \* the unlocked secret, and the minutes its timers have left
    watch, covered  \* history: lists read while the current socket was subscribed,
                    \* by a load that is under way, and altogether

server == <<status, kind, mine, given>>
net == <<sock, asked, queue, current, importing>>
load == <<loading, todo, snap>>
secret == <<shown, age, timers>>
history == <<watch, covered>>
vars == <<server, outbox, net, mounted, notes, load, post, secret, history>>

Kinds == {"access", "rotation"}
Events == {"requested", "denied", "quorum", "finalized"} \X Reqs

Init ==
    /\ status = [r \in Reqs |-> "none"]
    /\ kind \in [Reqs -> Kinds]
    /\ mine \in SUBSET Reqs
    /\ given = {}
    /\ outbox = {}
    /\ sock = [s \in Sockets |-> "closed"]
    /\ asked = {}
    /\ queue = [s \in Sockets |-> <<>>]
    /\ current = NoSocket
    /\ importing = 0
    /\ mounted = FALSE
    /\ notes = [r \in Reqs |-> 0]
    /\ loading = {}
    /\ todo = [l \in Loads |-> {}]
    /\ snap = [l \in Loads |-> {}]
    /\ post = [r \in Reqs |-> "no"]
    /\ shown = FALSE /\ age = 0 /\ timers = {}
    /\ watch = [l \in Loads |-> {}]
    /\ covered = {}

\* The page answers requests for access, his own included, and the rotations of
\* others.
Wanted(r) == kind[r] = "access" \/ r \notin mine

Pending(r) == status[r] = "PENDING" /\ r \notin given

State == IF current = NoSocket THEN "closed" ELSE sock[current]

Listening == State = "subscribed"

\* What the socket has told is no longer complete.
Deaf ==
    /\ watch' = [l \in Loads |-> {}]
    /\ covered' = {}

----------------------------------------------------------------------------
(* The server *)

Create(r) ==
    /\ status[r] = "none"
    /\ status' = [status EXCEPT ![r] = "PENDING"]
    /\ outbox' = outbox \cup {<<"requested", r>>}
    /\ UNCHANGED <<kind, mine, given, net, mounted, notes, load, post, secret, history>>

Close(r, news) ==
    /\ status[r] = "PENDING"
    /\ status' = [status EXCEPT ![r] = "closed"]
    /\ outbox' = outbox \cup news

Deny(r) ==
    /\ Close(r, {<<"denied", r>>})
    /\ UNCHANGED <<kind, mine, given, net, mounted, notes, load, post, secret, history>>

\* The quorum of an access request goes to the requester; the one of a rotation
\* to a page that finalizes it, which is told to everybody.
Verdict(r) ==
    IF kind[r] = "rotation" THEN {<<"finalized", r>>}
    ELSE IF r \in mine THEN {<<"quorum", r>>} ELSE {}

\* The last share comes from somebody else.
Approve(r) ==
    /\ Close(r, Verdict(r))
    /\ UNCHANGED <<kind, mine, given, net, mounted, notes, load, post, secret, history>>

\* Payloads go to the room of the user, everything else to the workspace's.
Audience(m) ==
    {s \in Sockets : sock[s] = "subscribed" \/ (m[1] = "quorum" /\ sock[s] = "joined")}

Emit(m) ==
    /\ outbox' = outbox \ {m}
    /\ queue' = [s \in Sockets |-> IF s \in Audience(m) THEN Append(queue[s], m) ELSE queue[s]]
    /\ UNCHANGED <<server, sock, asked, current, importing, mounted, notes, load, post, secret, history>>

----------------------------------------------------------------------------
(* The socket *)

\* connectSocket: the library is there.
Open(s) ==
    /\ importing > 0 /\ sock[s] = "closed"
    /\ importing' = importing - 1
    /\ sock' = [sock EXCEPT ![s] = "connecting"]
    /\ asked' = asked \ {s}
    /\ current' = s
    /\ Deaf
    /\ UNCHANGED <<server, outbox, queue, mounted, notes, load, post, secret>>

\* handleConnection.  Whichever socket it is, the client then subscribes with the
\* current one, which may still be connecting, or not exist.
Connect(s) ==
    /\ sock[s] = "connecting"
    /\ sock' = [sock EXCEPT ![s] = "joined"]
    /\ asked' = asked \cup ({current} \ {NoSocket})
    /\ UNCHANGED <<server, outbox, queue, current, importing, mounted, notes, load, post, secret, history>>

\* handleSubscribe.
Subscribe(s) ==
    /\ s \in asked /\ sock[s] \in {"joined", "subscribed"}
    /\ sock' = [sock EXCEPT ![s] = "subscribed"]
    /\ asked' = asked \ {s}
    /\ UNCHANGED <<server, outbox, queue, current, importing, mounted, notes, load, post, secret, history>>

\* The connection breaks.  The socket connects again, or is rejected because the
\* access token it was made with has expired.
Lost(s) ==
    /\ sock[s] # "closed"
    /\ \E state \in {"connecting", "closed"} : sock' = [sock EXCEPT ![s] = state]
    /\ asked' = asked \ {s}
    /\ queue' = [queue EXCEPT ![s] = <<>>]
    /\ IF s = current THEN Deaf ELSE UNCHANGED history
    /\ UNCHANGED <<server, outbox, current, importing, mounted, notes, load, post, secret>>

----------------------------------------------------------------------------
(* Coming and going *)

\* load() begins.  If members or vaults are not answered, no list will be.
Begin(l) ==
    /\ l \notin loading
    /\ loading' = loading \cup {l}
    /\ todo' = [todo EXCEPT ![l] = Kinds]
    /\ UNCHANGED snap

\* ngOnInit.  A socket of an earlier visit that is still connected is kept.
Enter(l) ==
    /\ ~mounted
    /\ mounted' = TRUE
    /\ \/ /\ State \in {"joined", "subscribed"}
          /\ asked' = asked \cup {current}
          /\ UNCHANGED importing
       \/ /\ State \in {"connecting", "closed"}
          /\ importing < MaxImports
          /\ importing' = importing + 1
          /\ UNCHANGED asked
    /\ Begin(l)
    /\ UNCHANGED <<server, outbox, sock, queue, current, notes, post, secret, history>>

\* Fault: the timers end with the page.
LeaveClearTimers ==
    /\ mounted
    /\ mounted' = FALSE
    /\ timers' = {}
    /\ current' = NoSocket
    /\ Deaf
    /\ asked' = asked \ {current}
    /\ sock' = [s \in Sockets |-> IF s = current THEN "closed" ELSE sock[s]]
    /\ queue' = [s \in Sockets |-> IF s = current THEN <<>> ELSE queue[s]]
    /\ UNCHANGED <<server, outbox, importing, notes, load, post, shown, age>>

\* ngOnDestroy, disconnectSocket.  Calls of connectSocket that wait go on.
Leave ==
    /\ mounted
    /\ mounted' = FALSE
    /\ current' = NoSocket
    /\ Deaf
    /\ asked' = asked \ {current}
    /\ sock' = [s \in Sockets |-> IF s = current THEN "closed" ELSE sock[s]]
    /\ queue' = [s \in Sockets |-> IF s = current THEN <<>> ELSE queue[s]]
    /\ UNCHANGED <<server, outbox, importing, notes, load, post, secret>>

----------------------------------------------------------------------------
(* Loading *)

\* After setupKeys.
Again(l) ==
    /\ mounted
    /\ Begin(l)
    /\ UNCHANGED <<server, outbox, net, mounted, notes, post, secret, history>>

\* The list of the requests of kind k is read, or cannot be.
List(l, k) ==
    /\ k \in todo[l]
    /\ todo' = [todo EXCEPT ![l] = @ \ {k}]
    /\ \/ /\ snap' = [snap EXCEPT ![l] = @ \cup {r \in Reqs : Pending(r) /\ Wanted(r) /\ kind[r] = k}]
          /\ watch' = IF Listening THEN [watch EXCEPT ![l] = @ \cup {k}] ELSE watch
       \/ UNCHANGED <<snap, watch>>
    /\ UNCHANGED <<server, outbox, net, mounted, notes, loading, post, secret, covered>>

\* Fault: what was listed replaces the notifications.
RestoreReplaces(l) ==
    /\ l \in loading /\ todo[l] = {}
    /\ notes' = [r \in Reqs |-> IF r \in snap[l] THEN 1 ELSE 0]
    /\ covered' = covered \cup watch[l]
    /\ loading' = loading \ {l}
    /\ snap' = [snap EXCEPT ![l] = {}]
    /\ watch' = [watch EXCEPT ![l] = {}]
    /\ UNCHANGED <<server, outbox, net, mounted, todo, post, secret>>

\* tryFinalize: both lists have been answered.  What is not there yet is added.
Restore(l) ==
    /\ l \in loading /\ todo[l] = {}
    /\ notes' = [r \in Reqs |-> IF r \in snap[l] /\ notes[r] = 0 THEN 1 ELSE notes[r]]
    /\ covered' = covered \cup watch[l]
    /\ loading' = loading \ {l}
    /\ snap' = [snap EXCEPT ![l] = {}]
    /\ watch' = [watch EXCEPT ![l] = {}]
    /\ UNCHANGED <<server, outbox, net, mounted, todo, post, secret>>

----------------------------------------------------------------------------
(* Events *)

Receive(s, event) ==
    /\ queue[s] # <<>> /\ Head(queue[s])[1] = event
    /\ queue' = [queue EXCEPT ![s] = Tail(@)]
    /\ UNCHANGED <<server, outbox, sock, asked, current, importing, mounted, post, history>>

\* vault:access_requested, vault:rotation_requested: no look at what is there.
OnRequested(s) ==
    /\ Receive(s, "requested")
    /\ LET r == Head(queue[s])[2] IN notes' = IF Wanted(r) THEN [notes EXCEPT ![r] = @ + 1] ELSE notes
    /\ UNCHANGED <<load, secret>>

OnDenied(s) ==
    /\ Receive(s, "denied")
    /\ notes' = [notes EXCEPT ![Head(queue[s])[2]] = 0]
    /\ UNCHANGED <<load, secret>>

\* vault:quorum_reached: the secret is shown, and a timer started, or the shares
\* do not fit.
OnQuorum(s) ==
    /\ Receive(s, "quorum")
    /\ \/ shown' = TRUE /\ age' = 0 /\ timers' = timers \cup {Minutes}
       \/ UNCHANGED secret
    /\ UNCHANGED <<notes, load>>

\* vault:rotation_finalized: the page, if there is one, loads again.
OnFinalized(s) ==
    /\ Receive(s, "finalized")
    /\ IF mounted THEN \E l \in Loads : Begin(l) ELSE UNCHANGED load
    /\ UNCHANGED <<notes, secret>>

\* A minute passes.  Timers that are due have fired before.
Tick ==
    /\ 0 \notin timers /\ (shown \/ timers # {})
    /\ timers' = {t - 1 : t \in timers}
    /\ age' = IF shown THEN age + 1 ELSE 0
    /\ UNCHANGED <<server, outbox, net, mounted, notes, load, post, shown, history>>

\* A timer hides whatever is shown by now.
Hide ==
    /\ 0 \in timers
    /\ timers' = timers \ {0}
    /\ shown' = FALSE /\ age' = 0
    /\ UNCHANGED <<server, outbox, net, mounted, notes, load, post, history>>

----------------------------------------------------------------------------
(* Submitting a share *)

\* submitHolderShare, submitRotationShare.  That a component waits for one answer
\* of a kind before it sends another share is left out.
Submit(r) ==
    /\ mounted /\ notes[r] > 0
    /\ post[r] = "no"
    /\ post' = [post EXCEPT ![r] = "sent"]
    /\ UNCHANGED <<server, outbox, net, mounted, notes, load, secret, history>>

\* The server takes the share, which may have been the last one.
Handle(r) ==
    /\ post[r] = "sent" /\ status[r] = "PENDING"
    /\ given' = given \cup {r}
    /\ \/ Close(r, Verdict(r))
       \/ UNCHANGED <<status, outbox>>
    /\ post' = [post EXCEPT ![r] = "taken"]
    /\ UNCHANGED <<kind, mine, net, mounted, notes, load, secret, history>>

\* Fault: the notification goes whatever the answer.
AnsweredFinally(r) ==
    /\ post[r] \in {"sent", "taken"}
    /\ post' = [post EXCEPT ![r] = "no"]
    /\ notes' = [notes EXCEPT ![r] = 0]
    /\ UNCHANGED <<server, outbox, net, mounted, load, secret, history>>

\* Fault: one notification goes, as if there had to be one.
AnsweredOne(r) ==
    /\ post[r] \in {"sent", "taken"}
    /\ post' = [post EXCEPT ![r] = "no"]
    /\ \/ UNCHANGED notes
       \/ post[r] = "taken" /\ notes' = [notes EXCEPT ![r] = @ - 1]
    /\ UNCHANGED <<server, outbox, net, mounted, load, secret, history>>

\* The share could not be sent or was refused, or the answer is lost; or it was
\* taken, and the notification goes.
Answered(r) ==
    /\ post[r] \in {"sent", "taken"}
    /\ post' = [post EXCEPT ![r] = "no"]
    /\ \/ UNCHANGED notes
       \/ post[r] = "taken" /\ notes' = [notes EXCEPT ![r] = 0]
    /\ UNCHANGED <<server, outbox, net, mounted, load, secret, history>>

Next ==
    \/ \E r \in Reqs : \/ Create(r) \/ Deny(r) \/ Approve(r)
                       \/ Submit(r) \/ Handle(r) \/ Answered(r)
    \/ \E m \in outbox : Emit(m)
    \/ \E s \in Sockets : \/ Open(s) \/ Connect(s) \/ Subscribe(s) \/ Lost(s)
                          \/ OnRequested(s) \/ OnDenied(s) \/ OnQuorum(s) \/ OnFinalized(s)
    \/ \E l \in Loads : \/ Enter(l) \/ Again(l) \/ Restore(l)
                        \/ \E k \in Kinds : List(l, k)
    \/ Leave \/ Tick \/ Hide

Spec == Init /\ [][Next]_vars

----------------------------------------------------------------------------
(* Properties *)

\* Types.
ServerOK ==
    /\ status \in [Reqs -> {"none", "PENDING", "closed"}]
    /\ kind \in [Reqs -> Kinds]
    /\ mine \subseteq Reqs /\ given \subseteq Reqs
    /\ outbox \subseteq Events

NetOK ==
    /\ sock \in [Sockets -> {"closed", "connecting", "joined", "subscribed"}]
    /\ asked \subseteq Sockets
    /\ queue \in [Sockets -> Seq(Events)]
    /\ current \in Sockets \cup {NoSocket}
    /\ importing \in Nat

PageOK ==
    /\ mounted \in BOOLEAN
    /\ notes \in [Reqs -> Nat]
    /\ post \in [Reqs -> {"no", "sent", "taken"}]

LoadsOK ==
    /\ loading \subseteq Loads
    /\ todo \in [Loads -> SUBSET Kinds]
    /\ snap \in [Loads -> SUBSET Reqs]
    /\ watch \in [Loads -> SUBSET Kinds]
    /\ covered \subseteq Kinds

SecretOK ==
    /\ shown \in BOOLEAN
    /\ age \in Nat
    /\ timers \subseteq 0 .. Minutes

TypeOK == ServerOK /\ NetOK /\ PageOK /\ LoadsOK /\ SecretOK

Queued(m, s) == s \in Sockets /\ Contains(queue[s], m)

\* The page will be told of r, or has been.
Told(r) ==
    \/ <<"requested", r>> \in outbox
    \/ Queued(<<"requested", r>>, current)
    \/ notes[r] > 0

\* Lists and events complement each other: once a list has been read while the
\* socket was subscribed, and for as long as it stays so, no request is
\* overlooked that the user could answer, whatever the order in which events,
\* lists, answers and other visits of the page come in.
NothingOverlooked ==
    \A r \in Reqs : Pending(r) /\ Wanted(r) /\ kind[r] \in covered => Told(r)

\* A notification only goes away when its request has been decided or the user's
\* share is in.
GoesForAReason ==
    [][\A r \in Reqs : notes[r] > 0 /\ notes'[r] = 0 => ~Pending(r)]_vars

\* vault.service.ts:384: a secret is hidden after five minutes at the latest, also
\* when the page is left, or when the vault is unlocked again meanwhile.
HiddenInTime == shown => age <= Minutes

=============================================================================
