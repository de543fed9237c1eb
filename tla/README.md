# TLA+ models of NexusTeam

NexusTeam is a workspace application (Angular client, NestJS server, PostgreSQL
through Prisma, socket.io) whose core is a shared vault: a secret is split with
Shamir's scheme in the browser, every holder keeps one share encrypted to his RSA
key, and k of n holders have to submit their shares before somebody reads the
secret. This directory holds TLA+ models of that core and of the parts it stands
on, TLC configurations that check them on small instances, and proofs checked by
TLAPS.

Contents: [Inventory](#inventory) · [Modelling](#modelling-decisions) ·
[Modules](#modules-and-the-code) · [Runs](#runs) · [Findings](#findings) ·
[Fairness](#fairness) · [Proofs](#proofs) · [Not modelled](#not-modelled) ·
[Plan](#plan)

## Inventory

`server/` is a NestJS application without background jobs (`expireStaleRequests`
exists, but nothing calls it). Handlers are `async` functions: between two awaited
statements any other handler may run, and several server processes may share the
database. `client/` is a single-page application; its services live as long as the
tab.

| Component | State | Operations | Talks to | What makes it hard |
|---|---|---|---|---|
| Vault access requests (`server/src/vault`) | `AccessRequest`, `ShareSubmission` | create, submit, deny, expire, delete the vault | holders' and requester's sockets | handlers overlap inside and outside transactions; the count is read at READ COMMITTED; the payload is sent once |
| Vault key rotation (`server/src/vault`, client `vault.service.ts`) | `ShareRotationRequest`, `RotationSubmission`, `VaultShare`, `User.publicKey` | request, submit, finalize, deny | the requester's open page, which rebuilds and splits the secret | the payload is a snapshot that may be used late; finalizations overlap; shares of two splits |
| Vault keys of the browser (client `vault.service.ts`, `vault-key.service.ts`) | localStorage, IndexedDB, `keyCache`, `User.publicKey` | set up, renew, publish, compare | PUT `me/public-key`, creation of vaults | two stores, one published key; late or lost PUTs; tabs that close; users that change |
| Sessions (`server/src/auth`, client interceptor) | `Session` rows, cookie, access token | login, refresh, logout, revoke | every request | logins are not a transaction; tokens rotate; requests of one browser overlap |
| Members and invite links (`server/src/workspace`) | `Workspace`, `WorkspaceMember`, `WorkspaceInvite` | add, set role, remove, leave, join, revoke, delete | guard of every route | the guard's answer and every check are old when the write runs |
| Tasks (`server/src/task`) | `Task` | create, update, delete | members | assignee is checked, then written |
| Shamir over GF(256) (client) | tables `EXP`, `LOG` | `sssplit`, `sscombine` | vault creation, rotation, unlocking | index arithmetic in tables, zero, the order in which shares arrive |
| OPAQUE handshake (server `opaque.service.ts`, client `opaque.service.ts`, `login.component.ts`) | a map of pending logins per server process, the form | init, finish, sweep, restart | the older kind of login, as a fallback | one use, five minutes, a sweep out of step with the entries, lost on restart |
| Vault page (client `vault-tab.component.ts`, `vault.service.ts`, `vault.gateway.ts`) | socket, notifications, unlocked secrets, timers, loads under way | connect, subscribe, enter, leave, load, submit, unlock | sockets and HTTP | lists race events; sockets break, and a forgotten one lives on; timers outlive the page |
| Registration, e-mail (`auth.service.ts`, `register.component.ts`) | `User`, `Workspace`, the form | register, verify | handshakes, sessions, mail | looks free, inserted later; waits on two unique indexes; a form with five requests to get through |
| Filters, throttling, start-up, screens | none | – | – | – |

What has to hold, per component:

- *access*: a payload holds at least k shares, each submitted to that request; a
  request is APPROVED only together with a release; what is decided or lapsed admits
  nobody any more and changes only by handlers that were past their checks; handlers end.
- *rotation*: the rows at rest are one split with distinct indices; nobody changes
  index; the requester does not count towards his own quorum; at least k holders
  can read; the secret survives.
- *keys*: shares are encrypted only to pairs whose private half was stored before; a
  mismatch means a new device.
- *page*: a holder who looks at the page overlooks no request; a notification goes
  only when it is settled; a secret is hidden after its five minutes.
- *sessions*: the limit, the right row is evicted, a revoked session stays away,
  the browser's cookie is the current one, signing out ends the session.
- *secret*: what goes out to a requester are shares of splits that the vault had while
  his request was open, and if they are all of one split, he reads its secret.
- *accounts*: a registration is all or nothing; the right password is not refused;
  an abandoned handshake is forgotten; no form stays in its loading state.
- *members*: the founder keeps the workspace, links are not used too often, nobody
  enters uncounted, nothing survives a deleted workspace.

The hazards behind these, each at its line, are listed in `PROJECT.json`.

## Modelling decisions

**Statements are steps.** A handler is a slot (`Procs`) that performs one database
statement per step. PostgreSQL runs at READ COMMITTED, Prisma's default here: a
statement sees what is committed when it runs plus its own transaction's writes; a
written row stays locked until the transaction ends; a writer of a locked row waits.
`upsert` on a unique key is `INSERT … ON CONFLICT DO UPDATE`: it waits for an open
transaction that wrote the same key. A transaction may be rolled back at any point
(victim of a lock cycle, Prisma's time limit, lost connection), and the process may
stop at any point.

**Which steps are merged.** `VaultAccess` keeps every statement of `submitShare` apart.
`VaultRotation` merges statements that commute with what other slots do: an uncommitted
write is invisible, so the upsert moves to the count after it, and approve/collect/purge
move to the commit; whatever a merged step would have waited for is in its guard. The
payload's keys (line 509) are read with the commit as well: a finalization of another
rotation that commits between the two is in the model one that commits right after both,
and the payload is as old when it is used. In
`Sessions` a refresh locks the user's row with its first write, so its writes and its
commit are one step after the read. In `Account` the statements of `opaqueRegister` are
steps; the first session is inserted with the commit, since nobody else can conflict
with it, and sessions are the subject of `Sessions`. In `Membership` everything
`joinViaInvite` does before its commit is write, so it is one step; a check that the
write repeats by itself (unique index, missing row) is made with the write. Reads that
only fail early, and whose failure changes nothing, are part of the step's guard.

**Messages.** A socket emission reaches whoever is connected, or nobody: it is
neither stored nor repeated. An HTTP answer may be lost after the work is done.

**Time** is a step (`Lapse`) that marks a request, session or link as expired.

**Data.** A secret is one byte, since the code treats each byte alone. In `VaultSecret`
shares are the bytes that `sssplit` computes, of whatever split the rows are of; elsewhere they are not bytes:
`VaultAccess` keeps *who* submitted, `VaultRotation` *which split* the share is of, with
the assumption that shares of one split yield its secret and shares of two do not. Key
pairs are numbers. Names, texts and formatting are left out; e-mail addresses and names
of organizations only differ or are the same.

## Modules and the code

| Module | Stands for | Abstract, composed or proved in |
|---|---|---|
| `VaultAccess` | `createAccessRequest`, `submitShare`, `denyAccessRequest`, `deleteVault`, `notifyQuorumReached` | implements `AccessPromise`; `VaultAccessProofs` |
| `AccessPromise` | the same flow with atomic calls: what a caller may rely on | implemented by `VaultAccess` and by the requests of `VaultRotation`; `AccessPromiseProofs` |
| `VaultRotation` | `createRotationRequest`, `submitRotationShare`, `finalizeRotation`, `denyRotationRequest`, and in the browser `requestRotation`, `holderSubmitRotationShare`, `finalizeRotationClientSide` | its requests implement `AccessPromise`; `VaultRotationProofs` |
| `OrderlyRotation` | no code of its own: `VaultRotation` with a history of the calls that must not overlap, and what holds without them | `VaultRotationProofs` |
| `VaultKeys` | `ensureKeyPair`, `generateFreshKeyPair`, `detectKeyMismatch`, `initSession`, `publishPublicKey`, sign-in and sign-out, and the page that uses them | `VaultKeysProofs` |
| `VaultPage` | `ngOnInit`, `ngOnDestroy`, `load`, `setupKeys`, `connectSocket` with its handlers, `disconnectSocket`, the two `restore…`, `submitHolderShare`, `submitRotationShare`; at the server `handleConnection`, `handleSubscribe` and the emitters | `VaultPageProofs` |
| `Sessions` | `issueTokens`, `refresh`, `rotateSession`, `logout`, `revokeSession`, the cookie, the interceptor | `SessionsProofs` |
| `Membership` | `WorkspaceMemberGuard`, `WorkspaceService`, `TaskService` | `MembershipProofs` |
| `Shamir` | `buildGFTables`, `gfMul`, `gfInv`, `evalPoly`, `sssplit`, `sscombine` | operators; composed in `VaultSecret` |
| `VaultSecret` | a vault from `createVault` in the browser, with `finalizeRotation` as far as it replaces shares, over `holderSubmitShare` and `VaultAccess` to `vault:quorum_reached` | composes `VaultAccess` and `Shamir`; `VaultAccessProofs` |
| `Account` | `opaqueRegister`, `register`, `verifyEmail`, `loginInit`, `loginFinish`, `cleanup`, and in the browser the two forms with `registerOpaque`, `loginOpaque` | `AccountProofs` |
| `MC…` | constants, symmetry sets and the scope of a run for TLC | – |

`PROJECT.json` maps each definition to its lines. Definitions whose comment begins
with "Fault:" are variants of the definition after them, with a plausible mistake;
they are never part of a specification and serve to show that a property notices.

**VaultAccess.** `status`, `requester`, `lapsed` and `subs` are the tables; `seen` is
what a handler's `findMany` returned and `gone` what its open `deleteMany` removed.
`released`, `consented` and `inbox` are history: payloads committed, submissions
committed, payloads that reached a socket. The guards `StatusLocked`, `OwnRowLocked` and
`PurgeBlocked` are the row locks. The write of EXPIRED is not an action: the exception
on the next line rolls it back with its transaction. `AccessPromise` has one action per
outcome of a call. `VaultAccess` instantiates it over its own tables (`Serial`):
`status`, `requester` and `subs` by name, quorums as the sets of at least `Threshold`
holders. A request keeps the number it was first inserted with; `NoUser` stands for the
requester of a number that has not been used.

**Shamir, VaultSecret.** The tables are folds over the iterations of the two loops of
`buildGFTables`; `sssplit` evaluates a polynomial at 1 … n, `sscombine` interpolates at
0 in the order of its argument. `VaultSecret` puts bytes into `VaultAccess`: `split`
is what the rows of `VaultShare` are computed from (the coefficients, the secret first),
`dto` the share in the body of a submission, `share` the column of `ShareSubmission`, `read`
what a handler's `findMany` returned. `createVault` splits for the first time,
`finalizeRotation` again at any time, since rotations know nothing of requests for access:
it replaces the rows and leaves submissions alone. What it splits is any of `Secrets`, the
old secret or the garbage that a mixed rotation (`rotation_mixed`) rebuilds. `Bring` is
`holderSubmitShare`: the share is of the row as it was when the page fetched it, at some
time since the request was made. `since` is history: the splits a request has seen while
it was open. A handler at "notify" is about to emit what it has read; `findMany` has no
`orderBy`, so `Payloads` are all orders. That holders' pages send the share they have
fetched, and not something else, is assumed.

**Account.** A registration is a number; `form` is what it asks for, `reg` where its handler
is; `account` and `space` are the two unique indexes with the registration that owns each
entry, committed. `EmailLocked` and `SlugLocked` are the waits for an uncommitted entry.
`held` says which process keeps a handshake, `age` for how long (half minutes), `phase` how
long ago each process swept. A form is `pc`, with the registration or handshake it waits
for in `mine`. Whether a password matches shows in the browser (`finishLogin`). `sure` is
history: the password was right when it was sent, and nothing has happened since that
excuses a refusal.

**VaultRotation.** A slot follows one activity from the browser through the server
and back: a holder *fetches* his share, submits it, maybe counts the quorum, and the
requester's page takes the payload (`notify`, `put`), checks, and replaces the rows
one by one (`update`, `pos`). `gen` is the split a row is of, `idx` its index, `key`
the key it is encrypted to; `sound` says whether a payload yields the secret, and
`garbage` collects splits of something else. `RowOrders` are the orders in which the
database may return the rows, since no `orderBy` is given. `NewDevice` happens only
while k other holders can read: without that, losing keys alone loses the secret and
nothing about the code would be shown.

**VaultKeys.** `pub` is `User.publicKey`, `stored` the localStorage of each device,
`cache` the `keyCache` of its tab, `wrapped` says whether IndexedDB holds a pair.
`puts` are PUTs on their way: they arrive in any order or not at all, and carry the
token of whoever is signed in when they leave. `list` is the list of members that the
creator's page has loaded; a vault is created with the keys in it.

**VaultPage.** One tab, one user who is a holder, one vault. `sock`, `asked` and `queue`
are the sockets with the subscriptions and events on their way, `current` the one in
`VaultService.socket`; `importing` counts calls of `connectSocket` that still wait
for the library, so a page left and entered quickly ends up with two. `todo` and `snap` are
what each `load` has still to hear and has heard; its lists are added to `notes` when
the last has been answered, whether or not the page is still there. `notes` counts
how often a request is notified of, in `pendingNotifications` or `pendingRotations`
according to its `kind`. `watch` and `covered` are history: the kinds of list that have
been read while the current socket was subscribed and has stayed so. Requests are decided
in one step, since how their handlers overlap is in the modules above; what a handler emits
after its commit waits in `outbox`. A tab that is closed or reloaded starts again from
`Init`. Timers fire on time, in minutes.

**Sessions.** Rows are numbered in creation order (`orderBy createdAt`). A token is a
number; `issued` remembers its session. A slot follows a request from the browser to
its answer. `alone` is history: browsers whose requests have not overlapped and have
all been answered since their last login, for which the code's promises to a single user
hold.

**Membership.** `role`, `link`, `uses` and `assigned` are the tables, `exists` the
workspace. `level` is the role the guard found: only `updateTask` uses it later. `been`
is history.

## Runs

All run with two workers in about three minutes or less each. Every configuration sets
`CHECK_DEADLOCK FALSE`, because the system really may stop: nobody is obliged to call
it, and identifiers, keys or tokens are bounded, so a run ends when they are used up
(in `membership`, when the workspace is deleted).

| Run | Instance | Shows |
|---|---|---|
| `access_safety` | three instances in one (`InScope`, `Splitting`): overlapping, 2 of the holders act, k = 2, 1 request, 3 slots; serial, 3 holders, k = 2, 2 requests, 2 slots whose calls are `Apart`; rotating, 2 holders, 1 request, 2 slots, one finalization at any time. A secret byte, two splits of it | `QuorumGenuine`, `ApprovedMeansReleased`, `ClosedStaysClosed`; with fairness `HandlersTerminate`; in the serial instance `KeepsPromise`: the statements, with roll-backs and crashes between them, implement `AccessPromise`; `PayloadOpens`; `TablesMultiply` for all bytes |
| `access_purge`, `access_quorum` | 2–3 holders, 1 request, 2 slots | counterexamples, see below |
| `access_mixed` | as `access_safety`, 2 slots | counterexample |
| `rotation_safety` | 3 holders, k = 2, 2 rotations, 2 slots, 2 row orders, 3 keys each | `OneSplit`, `QuorumOfOthers`, `IndexStays`, `DeniedStays`, `AccessRestored`; before certain overlaps `SerialReadable`, `SerialActive`, `SerialKeys` |
| `rotation_mixed` | one row order | counterexample |
| `vault_keys` | 2 holders, 2 browsers, 3 pairs | `SealedToSaved` |
| `keys_home` | 4 pairs | counterexample |
| `vault_page` | 1 request of either kind, 2 sockets, 1 load at a time, 1 call waiting for the library, 1 minute; `OneKind` leaves out histories of the kind no request is of | `NothingOverlooked`, `GoesForAReason`, `HiddenInTime` |
| `sessions` | 3 browsers (two send no User-Agent and share `unknown`), limit 1, 2 requests at a time, 3 sessions, 3 tokens | `SessionsBounded`, `OldestIsEvicted`, `RevokedStaysRevoked`, `CookieIsCurrent`, `SignedOutIsDead` |
| `membership` | founder and 2 users, 1 link with 1 use, 1 task, 2 requests at a time | `UsesBounded`, `FounderOwns`, `NoOrphans`, `AssigneeWasMember`, `EntryIsCounted` |
| `account` | 1 tab, 1 process, 2 registrations, 2 handshakes, 2 addresses, 2 passwords, 1 name; handshakes good for 2 half minutes, swept every 2 | `AccountsWhole`, `RightPasswordWorks`, `HeldBriefly`; with fairness `WizardEnds` |

*Why the bounds are enough.* What goes wrong here goes wrong between two handlers: two
slots contain every pair of interleavings, and `access_safety` has a third for the
denial or submission that meets an approval and a purge. k = 2 is the smallest threshold
at which two submissions can miss each other; with two holders every submission counts.
The serial instance has two slots, so that calls on different requests do overlap, two
requests, and a third holder, so that not every submission is the last. The field's tables do not depend
on the secret; one secret and one coefficient, with their top bits set or not, exercise
the interpolation of every payload that requests can collect, and a second coefficient
that of payloads which mix two splits; a second finalization would only bring a third. One request suffices where
requests do not interact; the run in which one blocks the other (an active request of
the same member) has two. Two rotations are the least at which a share is of an older
split. Limit 1 for sessions is reached by the second login; a second socket is the one
that is forgotten, a second request would only be listed beside the first, and a secret
unlocked twice has two timers within one minute; 3 sessions allow an eviction and a
login after it, 3 tokens two refreshes of one session; the third browser shares its row
with the second while the first one evicts it. Two registrations with one name overlap on the address, on the slug or
on both; one of them is the tab's own in some behaviours and both come from elsewhere in
others. `Ttl` and `Period` of two let a sweep come just before, at, and after the moment
an entry expires, and a restart shifts the timer; other tabs and other processes
multiply the states without sharing anything but the rows, and are covered by the
proofs, and by checks of `IInv` with two of each. The proofs remove these bounds for the
safety properties they cover.

*What "do not overlap" is about.* Some properties are true only of calls that do not
overlap; each names the overlap it excludes, and TLC refutes it without. What
remains allowed is everything else.

- `OrderlyRotation` remembers in `overlapped` whether two submissions have been past
  their checks at the same time (from the check to the end of the finalization they may
  lead to), or two creations of one holder. Fetching shares, new devices, denials, lapses,
  creations of different holders and late arrivals overlap freely. `SerialActive`,
  `SerialReadable` and `SerialKeys` speak of the behaviours up to that point: check and
  insert are two statements, and a finalization with an older payload puts replaced keys
  back.
- `VaultAccess!Apart`: no two handlers past their checks on one request, no two creations
  of one member. Handlers of different requests, deletions of the vault, lapses, roll-backs and
  stops come between as they like.
- `CookieIsCurrent` and `SignedOutIsDead` speak of browsers in `alone`: two refreshes of
  one browser that overlap sign it out, and a logout that overlaps a refresh leaves the
  rotated session alive. `CookieIsCurrent` excepts a browser whose User-Agent another
  one of the user sends as well (`OwnAgent`): `issueTokens` gives both the same row, so
  that each login and refresh of one ends the other's token. That other browsers share
  theirs does not matter, and `SignedOutIsDead` needs no such condition.
- The remaining conditions are stated with the theorems that use them, in the proof
  modules. `SessionsProofs!Apart`: no two logins between count and insert, no two handlers
  about to rotate one row. `MembershipProofs!Apart`: no two joins by one link, no two
  handlers about to write one user's role. `VaultRotationProofs!Apart`: as in
  `VaultAccess`, for rotations. `VaultKeysProofs!OwnTab` and `NoSecondPair`: a tab is
  loaded again before somebody else signs in on it with another pair in its cache, and no
  login publishes a pair of its own. `VaultRotationProofs!OneByOne`: the rows are replaced
  only while no share is fetched or waiting.

Nothing in the code enforces any of these. They say which overlaps a promise of the
documents depends on: with the condition it is proved, and without it TLC finds the
behaviour that breaks it.

## Findings

Each is a run that ends with a counterexample to what a document of the repository says.

- `access_purge` — README.md:153, shares are "purged from the database immediately".
  `deleteMany` removes the rows that are there when it runs. A submission that passed
  the PENDING check before and commits afterwards leaves its plaintext share behind,
  with an APPROVED request that nobody will purge again.
- `access_quorum` — docs/SSS/readme.md:24, shares are transmitted as soon as k are
  there. Two transactions that submit the last two shares do not see each other's
  row: both answer PENDING, and k rows wait for a submission nobody has reason to make.
- `access_mixed` — docs/SSS/readme.md:25, the page reconstructs the original secret. A
  rotation that is finalized while a request for access is open replaces the rows, but
  the submissions of before stay, and a share that a page fetched before is accepted
  after it. `submitShare` releases shares of two splits together, and the requester is
  shown what they combine to, without an error. `PayloadOpens` says what remains true.
- `rotation_mixed` — schema.prisma:203, the requester reconstructs the secret from k
  shares. A share fetched before a finalization and submitted after it is of an older
  split; what the browser rebuilds is garbage, and it is split and stored over all rows.
- `keys_home` — README.md:432, keys mismatch because the user is on a new device. A
  login publishes a pair of its own (IndexedDB), which the vault page never decrypts
  with. A holder selected for a vault before he set up keys on the vault page, or after
  a login that published again, has a mismatch on his only device. So has the next user
  of a tab that still has somebody's pair in `keyCache`. There is no third cause
  (`VaultKeysProofs!WarnedOfNewDevices`).

Further observations, seen in the models but stated by no property: a lapsed request stays
PENDING (README.md:152 and 540 have it expire, and announced), since the update to EXPIRED
is rolled back by the exception on the next line, and `expireStaleRequests` and
`notifyRequestExpired` have no caller, so that no action of `VaultAccess` writes EXPIRED; a denial
that was past its check overwrites an approval, whose shares have gone out; released shares are
lost when the requester is not connected or the server stops after the commit, and the
request is closed (`Notify`, `Crash`); shares
submitted to a request that is denied or lapses are never purged; README.md:131 (session
limit) and README.md:141 (uses of a link) are exceeded by requests that overlap, though
only by less than their number; two refreshes that overlap exchange one token twice
(README.md:130), after which only the later answer is good; the cookie is set for `/` and cleared for `/api/auth`,
so the browser keeps it; an OWNER other than the founder can be demoted or removed by a
check that has become stale; the guard lets nobody but ADMINs leave; the next user of a
tab is served the key pair in `keyCache` of the one before; a payload whose rows come in
another order is refused by the unique index, so that rotation cannot be finalized; the
first load of a page usually reads its lists before the socket has subscribed, and
nothing is loaded again when a socket reconnects, so requests made in between are not
seen until the next visit (hence "once a list has been read while the socket was
subscribed"); the forgotten socket of a page that was left while the library was loading
handles every event a second time; a list that is answered late brings back a
notification that has been settled; a secret unlocked again is hidden by the timer of
the first unlock. In `Account`: a handshake is held for up to a minute longer than the
five of opaque.service.ts:12, since the sweep comes once a minute (`HeldBriefly` states
the exact bound); two server processes do not share their maps, so a handshake finished
at the other one is refused, which is why `sure` excepts it; the verification mail
leaves before the transaction has committed, so a link may point to an account that was
rolled back; `VERIFY_TOKEN_TTL_MS` is not used, and a link is good until it is clicked,
once, since the token is cleared ("already verified" cannot be reached); of two
registrations that overlap on an address or a slug, one fails at the unique index
instead of with the message for a used address; an account whose first login fails
exists, though its form shows an error; in the fallback of the login form a lost
connection reads "Invalid credentials".

## Fairness

`VaultAccess` and `Account` state liveness.

*VaultAccess.* `WF(Step(p) \/ Abort(p))`: a handler that has started goes on, or its
transaction is rolled back; Node.js runs callbacks that are ready and Prisma limits
interactive transactions to five seconds, so no handler stays at a statement for ever.
`SF(DenyWrite(p))`: the update of a denial runs outside a transaction and waits for a
row lock that others may take again and again; PostgreSQL grants row locks in the order
of the queue. Nothing obliges a user to call, or the clock to reach an expiry.
`HandlersTerminate` then says that no handler waits for ever although two transactions
can wait for each other's rows; it is violated if transactions that wait are never
rolled back.

*Account.* `WF(Answer(t))`: a request that arrives is answered; `LoginInit` is one step
of one process, without awaiting anything but a read. `WF(Register(a))`: the handler of
a registration goes on with its next statement unless that waits for a lock. Nothing is
assumed of roll-backs, lost connections, ticks or restarts: rows are taken in the order
users, workspaces, so registrations that wait for each other do so in one direction, and
`WizardEnds` holds without a victim.

## Proofs

Proved for every set of users, holders, browsers, requests, slots, tabs, servers and
every threshold, limit and period, from the assumptions next to the constants (finite
sets where sets are counted, a positive threshold, model values that differ from the
sentinels):

| Theorem | Says |
|---|---|
| `VaultAccessProofs!TypeCorrect`, `QuorumIsGenuine`, `ApprovalImpliesRelease`, `ClosedIsFinal` | types; a payload holds k submitted shares; APPROVED implies a release; closed requests admit nobody, and change only by who was past his check |
| `VaultAccessProofs!ApartIsSerial`, `OneAtATime` | refinement: `Spec /\ []Apart => Serial!Spec`, the statements implement `AccessPromise`; always so with one slot |
| `VaultAccessProofs!ApartKeepsPromise` | `Spec /\ []Apart => [](PurgedOnApproval /\ QuorumIsApproved)`: what `access_purge` and `access_quorum` refute is lost by overlap and by nothing else |
| `VaultAccessProofs!PayloadsOpen` | `SecretSpec => []PayloadOpens`: every share that goes out is of a split the vault had while the request was open; and if the scheme recovers secrets (`SchemeRecovers`), a payload of one split gives the requester its secret |
| `AccountProofs!TypeCorrect`, `AccountsAreWhole`, `PasswordsWork`, `HandshakesAreBrief` | types; registrations are all or nothing; the right password is not refused; abandoned handshakes go |
| `VaultRotationProofs!ApartIsAtomic` | refinement: `FlowSpec /\ []Apart => Flow!Spec`, the requests of rotations, from the browser to the release, implement the same `AccessPromise` |
| `VaultRotationProofs!ApartRotationsKeepPromise` | and so keep its promises: no quorum waits, an approved request keeps no share, none is released twice or below k |
| `AccessPromiseProofs!PromiseKept` | the atomic flow purges what it releases, releases once and never below k |
| `VaultRotationProofs!TypeCorrect`, `SharesAreOneSplit`, `QuorumIsOfOthers`, `IndicesNeverMove`, `DenialIsFinal`, `RequesterReadsAgain` | types; rows at rest are one split; k other holders; nobody changes index; denials stand; who asked can read again |
| `VaultRotationProofs!ActiveOnlyOnce`, `QuorumStaysReadable`, `KeysGoForward` | `OrderlySpec => []SerialActive`, `[]SerialReadable`, `SerialKeys`: without the overlaps above, one active rotation each, k holders can read, no key comes back |
| `VaultRotationProofs!SecretSurvivesUnmixed` | `Spec /\ OneByOne => []SecretSurvives`: what `rotation_mixed` refutes holds if rows are only replaced while no share is on its way |
| `VaultKeysProofs!TypeCorrect`, `SealedToSavedKeys` | types; no share is encrypted to a pair that was not stored |
| `VaultKeysProofs!WarnedOfNewDevices` | `Spec /\ [][OwnTab /\ NoSecondPair]_vars => []MismatchMeansNewDevice`: what `keys_home` refutes has the two causes named under Findings, and no other |
| `VaultPageProofs!TypeCorrect`, `RequestsAreSeen`, `NotificationsGoForAReason`, `SecretsAreHidden` | types; no request is overlooked; notifications go for a reason; secrets are hidden in time |
| `SessionsProofs!TypeCorrect`, `OvershootIsBounded`, `EvictionIsFair`, `RevocationIsFinal`, `CookiesAreCurrent`, `SignedOutSessionsAreDead` | types; how far the limit can be exceeded; the oldest is evicted; revoked rows stay away; the cookie of a browser that waits for its answers is current (if no other has its User-Agent), and dead once it has signed out |
| `SessionsProofs!ReplacedTokensAreDead` | whatever overlaps, a token that has gone out of use comes back into no session, and only refreshes that had found it before still exchange it |
| `SessionsProofs!ApartKeepsLimit`, `ApartUsesTokensOnce` | `Spec /\ []Apart => []LimitKept`, `TokensUsedOnce`: README.md:130 and 131 to the letter for requests that are apart |
| `MembershipProofs!ApartKeepsMaxUses`, `ApartSparesOwners` | `Spec /\ []Apart => []UsesKept`, `OwnersStay`: the same for the uses of a link, and for every OWNER, not only the founder |
| `MembershipProofs!TypeCorrect`, `OvershootIsBounded`, `FounderKeepsWorkspace`, `WorkspaceLeavesNothing`, `AssigneesAreKnown`, `EntriesAreCounted` | types; the same for links; the founder; no orphans; assignees; entries |

Every proof module begins with the inductive invariant `IInv` of its model; each
theorem of the first kind follows from `Init => IInv`, `IInv /\ [Next]_vars => IInv'` and
`IInv => property`, with one lemma per group of actions. Why `IInv` is stronger:

- *VaultAccess*: a release is genuine because what was counted had been submitted
  (`Accounted`) by a holder (`Placed`), and because a row that a handler is about to
  insert or update does not exist or exists, respectively (`RowsExist`);
  `NothingOutlivesVault` keeps submissions from a deleted vault's requests. For
  `ApartIsSerial` a second invariant, `ReadsAreCurrent`, says that what each handler
  has read is still so when it writes. A step of one handler touches only its own
  request (`OthersReadOn`), so the reads of handlers that are `Apart` stay current; under
  it each commit is one action of `AccessPromise`, and every other step, roll-backs and
  stops included, a stutter (`ApartStep`). `ApartKeepsPromise` takes the promise from
  `AccessPromiseProofs!PromiseKept` through that refinement. `ClosedIsFinal` needs no more
  than that the steps of a handler touch its own request and use it up (`Final`). `PayloadsOpen`
  adds `SInv`: what is at rest (`AtRest`), on its way (`InHand`) or read (`InPayload`) is
  what its holder got from a split in `since`. A rotation only adds to `since`, and an
  insert, which resets it, meets a request that has no submission and nobody at work
  (`Untouched`). With `QuorumGenuine` a payload of one split is k or more of its shares
  with indices of their own, and what is left, `SchemeRecovers`, is about `sssplit` and
  `sscombine` alone. It is a hypothesis here: it is what Shamir's scheme promises for up
  to 255 holders, and the run goes through it for the splits it has.
- *VaultRotation*: `InOrder` carries the argument for `IndexStays`: the unique index
  lets the loop of updates pass only holders that get the index they have, so a payload
  in another order never commits. `OnlyOthers` keeps the requester out of every
  transaction past its check. `Addressed` says that requests are of holders and that a
  payload gives the requester the key he asked with, whatever the other slots do.
  `OrderlyInv` is the invariant behind the three theorems without overlaps. A holder's
  keys are numbered as they are made, and it keeps three things in order: the key of a
  request is newer than that of its holder's row as long as the request can lead to a
  finalization (`Forward`), one that lapsed or was denied on the way is older than the
  active one (`Older`), and the payload's copy of the keys is that of the rows
  (`PayloadCurrent`). So each finalization brings its requester forward and leaves the
  others where they are. `SecretSurvives` fails where a share of an older split is
  counted with newer ones. `OneByOne` is a way of using the system that excludes it,
  though nothing in the code sees to it: the rows are replaced only while nobody has a
  share fetched or waiting. Then every share on its way or at rest, and every payload, is of the last
  split (`Unmixed`). The condition can be met: TLC finds behaviours of `rotation_safety`'s
  instance that keep it and replace the rows more than once, and `Unmixed` invariant
  in them. `FlowInv` is `ReadsAreCurrent` for rotations: what a slot has checked or
  counted is still so when it writes. Under it an insert is `Ask`, a commit `Contribute`
  or `Complete`, a denial `Refuse`, and a device that is replaced, a share that is fetched
  or a finalization a stutter. `FlowSpec` adds only `released`, the sets of holders that
  went out.
- *VaultKeys*: what reaches a table has been on its way before: in a PUT, in a tab's
  hands, or in a loaded list (`OnTheWay`). `HomeInv` follows the pair of a user with one
  device: whatever the server, the lists and the PUTs on their way know of him is that
  pair (`HomeKeys`), so is what a tab of his has in its cache (`CacheIsOwn`), and a tab
  that generates or publishes works for the user whose device it is (`BusyForUser`).
- *VaultPage*: `Listed` is `NothingOverlooked` for a load that is under way: what it has
  read while the page was subscribed lacks only what events have told. `Attentive` ties
  the history to the subscription, `Truthful` says that denials and acknowledgements on
  their way are true, `Timed` that the last unlock's timer is still running.
- *Sessions*: `SessionsBounded` is inductive because a handler about to insert is
  counted with the rows; `OldestIsEvicted` because new rows get larger numbers.
  `CookieInv` is the second invariant, for the cookies: every row has a token of its
  own (`Traced`), nobody holds, brings or is about to change a token of somebody else
  (`Separate`), and the only request of a browser carries its cookie or a newer token
  (`InTurn`). Two browsers that send the same
  User-Agent share a row and rotate each other's token away, so what it says of a
  current token, it says of a browser with an `OwnAgent`; what it says of dead tokens
  holds for all. `RoomToCreate` and `FoundIsCurrent` say of handlers that are apart that
  what they counted or found is still so.
- *Membership*: the same counting for `UsesBounded`; `FounderIsSpared` says that no
  handler past its check has chosen the founder, `Known` that no handler is about to
  assign a task to somebody who was never a member. `RoomToJoin` and `OwnersAreSpared`
  are the same for joins, and for checks of a target, that are apart.
- *Account*: `Reserved` says that nobody else, committed or not, has the address or the
  slug of a row that is only in its own transaction, so the commit takes nothing over.
  `Swept` ties the age of a handshake to the last sweep of its process: at most the
  limit when it was swept, plus the time since. `Waiting` and `Promised` carry `sure`
  from submission to answer: the password still matches, the handshake is still there
  and in time, and the fallback is only reached by accounts of the older kind.

Only model-checked: `HandlersTerminate` and `WizardEnds` (liveness is out of the
prover's reach), `TablesMultiply`, and with it that the scheme recovers secrets (what
algorithms compute: induction over data is out of its reach too). `KeepsPromise` is
checked as a run states it, for calls that are `Apart`, and proved as `ApartIsSerial`.

## Not modelled

- *OPAQUE*: the protocol is a library's; `Account` takes from it that `finishLogin`
  succeeds in the browser if the password is that of the record, and that the server's
  key pair is configured (`OPAQUE_SERVER_SETUP`); without it a restart makes every
  record useless, as the code warns. `VaultKeys` takes only that the session key of a
  handshake may or may not open what an earlier one wrapped.
- *Shamir's scheme* in `VaultRotation`, where shares are known by their split. That fewer
  than k shares tell nothing about the secret is a statement about probabilities.
- *The rest of the vault page*: progress bars, lists that are only displayed, and buttons
  that are disabled during a call. Deletion of the vault, more than one vault, a change of
  user and a reload of the tab are not in `VaultPage`.
- *Titles, descriptions and states of tasks, names of workspaces, texts of mails*: plain
  data. `slugify` only matters in that different names may give one slug. *Listings and
  holder health*: reads. *Filters, throttling, start-up, screens*: formatting,
  configuration and layout.
- Two tabs on one device, and two activities of one tab at a time, in `VaultKeys`.
- Deletion of a workspace, and POST `/workspaces`, in `Account`: that no one takes over an
  address or a workspace is said of registrations. `Membership` has the one as an action and
  starts from the other.
- More than one vault: vaults share no rows but the users' keys.

## Plan

Done: the vault's two flows with the abstract specification both implement, from the split of the
secret to its reader; the page, keys, sessions, members, accounts and handshakes. What
would come next:

1. Members and holders together: a holder who leaves the workspace keeps his share but
   cannot submit it, until fewer than k are left.
2. Several tabs of one device in `VaultKeys`.
3. Proofs: of the safety properties that hold in the runs only the arithmetic of Shamir's
   scheme is left. Next would be an abstract specification for the finalization of a
   rotation (what a new split promises to every holder), and one for sessions.
