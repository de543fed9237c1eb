----------------------------- MODULE VaultKeys -----------------------------
(***************************************************************************)
(* The key pairs of the holders of one vault.  The server knows one public *)
(* key per user, which is what a vault is created with.  A browser has two *)
(* stores that publish to it: the login keeps a pair in IndexedDB (client, *)
(* vault-key.service.ts), the vault page one in localStorage, cached in    *)
(* memory (vault.service.ts), and only the second decrypts shares.         *)
(*                                                                         *)
(* A device runs one tab.  Generating a pair takes a while, and the PUT    *)
(* that publishes it is a message of its own, carrying the access token of *)
(* whoever is signed in when it leaves.                                    *)
(***************************************************************************)
EXTENDS Naturals, FiniteSets

CONSTANTS
    Users,      \* the holders of the vault
    Devices,    \* browsers, with one tab each
    MaxKey      \* bound: pairs generated

Nobody == "nobody"
NoKey == 0

ASSUME UsersAssumption == Nobody \notin Users
ASSUME MaxKeyAssumption == MaxKey \in Nat

VARIABLES
    pub,        \* User.publicKey; a pair is named by its public key
    row,        \* VaultShare.holderPublicKey, NoKey before the vault exists
    asked,      \* newPublicKey of the holder's pending rotation request
    puts,       \* PUTs of me/public-key on their way
    user,       \* who is signed in, per device
    stored,     \* localStorage: vault_kp_<userId>
    wrapped,    \* IndexedDB: users with a wrapped pair on the device
    cache,      \* keyCache, which lives as long as the tab
    list,       \* keys of the members the page has loaded, while there is no vault
    warned,     \* mismatchedVaultIds has the vault
    pc, whose, pair,    \* what the tab is doing, for whom, with which pair
    nextKey,
    saved,      \* history: pairs whose private half has been stored
    used        \* history: devices a user has signed in on

server == <<pub, row, asked>>
page == <<cache, list, warned>>
stores == <<stored, wrapped, saved>>
tab == <<pc, whose, pair>>
vars == <<server, puts, user, page, stores, tab, nextKey, used>>

Keys == 1 .. MaxKey
NoKeys == [u \in Users |-> NoKey]

Init ==
    /\ pub = NoKeys /\ row = NoKeys /\ asked = NoKeys
    /\ puts = {}
    /\ user = [d \in Devices |-> Nobody]
    /\ stored = [d \in Devices |-> NoKeys]
    /\ wrapped = [d \in Devices |-> {}]
    /\ cache = [d \in Devices |-> NoKey]
    /\ list = [d \in Devices |-> NoKeys]
    /\ warned = {}
    /\ pc = [d \in Devices |-> "idle"]
    /\ whose = [d \in Devices |-> Nobody]
    /\ pair = [d \in Devices |-> NoKey]
    /\ nextKey = 1
    /\ saved = {}
    /\ used = [u \in Users |-> {}]

----------------------------------------------------------------------------

Begin(d, label, u) ==
    /\ pc[d] = "idle"
    /\ pc' = [pc EXCEPT ![d] = label]
    /\ whose' = [whose EXCEPT ![d] = u]
    /\ UNCHANGED pair

Done(d) ==
    /\ pc' = [pc EXCEPT ![d] = "idle"]
    /\ whose' = [whose EXCEPT ![d] = Nobody]
    /\ pair' = [pair EXCEPT ![d] = NoKey]

\* Fault: a PUT without an access token is accepted.
PutUnsigned(d, label, k) ==
    /\ pc' = [pc EXCEPT ![d] = label]
    /\ pair' = [pair EXCEPT ![d] = k]
    /\ puts' = puts \cup {<<user[d], k>>}
    /\ UNCHANGED whose

\* Publish pair k and wait for the answer.  Signed out, it is refused with 401.
Put(d, label, k) ==
    /\ pc' = [pc EXCEPT ![d] = label]
    /\ pair' = [pair EXCEPT ![d] = k]
    /\ puts' = IF user[d] = Nobody THEN puts ELSE puts \cup {<<user[d], k>>}
    /\ UNCHANGED whose

\* publishPublicKey, or the request is lost.
Arrive(m) ==
    /\ puts' = puts \ {m}
    /\ \/ pub' = [pub EXCEPT ![m[1]] = m[2]]
       \/ UNCHANGED pub
    /\ UNCHANGED <<row, asked, user, page, stores, tab, nextKey, used>>

----------------------------------------------------------------------------
(* Signing in and out *)

\* opaqueLoginFinish, after a login or a registration, or the password login of
\* an old account, which opens no key session.
SignIn(d, u) ==
    /\ user[d] = Nobody
    /\ user' = [user EXCEPT ![d] = u]
    /\ used' = [used EXCEPT ![u] = @ \cup {d}]
    /\ \/ Begin(d, "session", u)
       \/ pc[d] = "idle" /\ UNCHANGED tab
    /\ UNCHANGED <<server, puts, page, stores, nextKey>>

\* initSession.  A wrapped pair is used again if the session key of this
\* handshake opens it; else a new one is stored and published.  What is stored
\* half is read by nothing but the next initSession.
InitSession(d) ==
    /\ pc[d] = "session"
    /\ \/ /\ whose[d] \in wrapped[d]
          /\ Done(d)
          /\ UNCHANGED <<wrapped, saved, puts, nextKey>>
       \/ /\ nextKey \in Keys
          /\ nextKey' = nextKey + 1
          /\ wrapped' = [wrapped EXCEPT ![d] = @ \cup {whose[d]}]
          /\ saved' = saved \cup {nextKey}
          /\ Put(d, "put", nextKey)
    /\ UNCHANGED <<server, user, page, stored, used>>

\* logout, or a refresh that failed: nothing that is kept in memory is cleared.
SignOut(d) ==
    /\ user[d] # Nobody
    /\ user' = [user EXCEPT ![d] = Nobody]
    /\ warned' = warned \ {d}
    /\ list' = [list EXCEPT ![d] = NoKeys]
    /\ UNCHANGED <<server, puts, cache, stores, tab, nextKey, used>>

\* The tab is closed or loaded again; the access token is in localStorage.
Reload(d) ==
    /\ cache' = [cache EXCEPT ![d] = NoKey]
    /\ warned' = warned \ {d}
    /\ list' = [list EXCEPT ![d] = NoKeys]
    /\ Done(d)
    /\ UNCHANGED <<server, puts, user, stores, nextKey, used>>

----------------------------------------------------------------------------
(* The vault page *)

HasKeyPair(d) == user[d] # Nobody /\ stored[d][user[d]] # NoKey

\* The pair ensureKeyPair answers with at once: the cache comes first.
Ensured(d) == IF cache[d] # NoKey THEN cache[d] ELSE stored[d][user[d]]

\* detectKeyMismatch compares the keys of the rows with the pair of the page.
Mismatch(d, k) == row[user[d]] # NoKey /\ row[user[d]] # k

\* ngOnInit and load: the members and the vaults, then the comparison.
Load(d) ==
    /\ user[d] # Nobody /\ pc[d] # "session"
    /\ list' = [list EXCEPT ![d] = IF row = NoKeys THEN pub ELSE @]
    /\ IF HasKeyPair(d)
         THEN /\ cache' = [cache EXCEPT ![d] = Ensured(d)]
              /\ warned' = IF Mismatch(d, Ensured(d)) THEN warned \cup {d} ELSE warned \ {d}
         ELSE warned' = warned \ {d} /\ UNCHANGED cache
    /\ UNCHANGED <<server, puts, user, stores, tab, nextKey, used>>

\* setupKeys, when there is no pair to answer with.
SetupKeys(d) ==
    /\ user[d] # Nobody
    /\ ~HasKeyPair(d) /\ cache[d] = NoKey
    /\ Begin(d, "generate", user[d])
    /\ UNCHANGED <<server, puts, user, page, stores, nextKey, used>>

\* requestRotation: generateFreshKeyPair, whatever is stored.
RequestRotation(d) ==
    /\ d \in warned /\ user[d] # Nobody
    /\ Begin(d, "fresh", user[d])
    /\ UNCHANGED <<server, puts, user, page, stores, nextKey, used>>

\* Fault: the pair is published before it is stored.
GenerateStoreLater(d) ==
    /\ pc[d] \in {"generate", "fresh"} /\ nextKey \in Keys
    /\ nextKey' = nextKey + 1
    /\ Put(d, IF pc[d] = "fresh" THEN "post" ELSE "put", nextKey)
    /\ UNCHANGED <<server, user, page, stores, used>>

\* The pair is there: stored for the user who began, cached, then published.
Generate(d) ==
    /\ pc[d] \in {"generate", "fresh"}
    /\ nextKey \in Keys
    /\ nextKey' = nextKey + 1
    /\ stored' = [stored EXCEPT ![d][whose[d]] = nextKey]
    /\ saved' = saved \cup {nextKey}
    /\ cache' = [cache EXCEPT ![d] = nextKey]
    /\ Put(d, IF pc[d] = "fresh" THEN "post" ELSE "put", nextKey)
    /\ UNCHANGED <<server, user, list, warned, wrapped, used>>

\* The PUT has been answered or has failed.  After the first, the rotation is
\* asked for; the server takes one request at a time.
Answered(d) ==
    /\ pc[d] \in {"put", "post"}
    /\ ~\E u \in Users : <<u, pair[d]>> \in puts
    /\ \/ /\ pc[d] = "post" /\ user[d] # Nobody /\ asked[user[d]] = NoKey
          /\ asked' = [asked EXCEPT ![user[d]] = pair[d]]
       \/ UNCHANGED asked
    /\ Done(d)
    /\ UNCHANGED <<pub, row, puts, user, page, stores, nextKey, used>>

\* createVault for all users, under the keys in the list of members.  openCreate
\* has called setupKeys before, if need be.
CreateVault(d) ==
    /\ user[d] # Nobody /\ pc[d] = "idle"
    /\ HasKeyPair(d) \/ cache[d] # NoKey
    /\ row = NoKeys
    /\ \A u \in Users : list[d][u] # NoKey
    /\ row' = list[d]
    /\ list' = [e \in Devices |-> NoKeys]
    /\ UNCHANGED <<pub, asked, puts, user, cache, warned, stores, tab, nextKey, used>>

\* A rotation that is pending is finalized with the key it was asked for.
Finalize(u) ==
    /\ asked[u] # NoKey
    /\ row' = [row EXCEPT ![u] = asked[u]]
    /\ pub' = [pub EXCEPT ![u] = asked[u]]
    /\ asked' = [asked EXCEPT ![u] = NoKey]
    /\ UNCHANGED <<puts, user, page, stores, tab, nextKey, used>>

Next ==
    \/ \E d \in Devices : \E u \in Users : SignIn(d, u)
    \/ \E d \in Devices :
         \/ InitSession(d) \/ SignOut(d) \/ Reload(d)
         \/ Load(d) \/ SetupKeys(d) \/ RequestRotation(d)
         \/ Generate(d) \/ Answered(d) \/ CreateVault(d)
    \/ \E m \in puts : Arrive(m)
    \/ \E u \in Users : Finalize(u)

Spec == Init /\ [][Next]_vars

----------------------------------------------------------------------------
(* Properties *)

\* Types.
ServerOK ==
    /\ pub \in [Users -> Keys \cup {NoKey}]
    /\ row \in [Users -> Keys \cup {NoKey}]
    /\ asked \in [Users -> Keys \cup {NoKey}]
    /\ puts \subseteq Users \X Keys

DevicesOK ==
    /\ user \in [Devices -> Users \cup {Nobody}]
    /\ stored \in [Devices -> [Users -> Keys \cup {NoKey}]]
    /\ wrapped \in [Devices -> SUBSET Users]
    /\ cache \in [Devices -> Keys \cup {NoKey}]
    /\ list \in [Devices -> [Users -> Keys \cup {NoKey}]]
    /\ warned \subseteq Devices

TabsOK ==
    /\ pc \in [Devices -> {"idle", "session", "generate", "fresh", "put", "post"}]
    /\ whose \in [Devices -> Users \cup {Nobody}]
    /\ pair \in [Devices -> Keys \cup {NoKey}]

HistoryOK ==
    /\ nextKey \in 1 .. MaxKey + 1
    /\ saved \subseteq Keys
    /\ used \in [Users -> SUBSET Devices]

TypeOK == ServerOK /\ DevicesOK /\ TabsOK /\ HistoryOK

\* No share is ever encrypted to a pair whose private half was not stored before
\* its public half left the browser: not by the creator of the vault, not by a
\* rotation, whichever tab is closed and whichever PUT arrives late.
SealedToSaved ==
    \A u \in Users : {pub[u], row[u], asked[u]} \subseteq saved \cup {NoKey}

\* README.md:156 and 432: a key does not match because the holder is on a new
\* device.
MismatchMeansNewDevice ==
    \A d \in warned : \A u \in Users : user[d] = u => used[u] # {d}

=============================================================================
