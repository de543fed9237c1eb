-------------------------- MODULE VaultKeysProofs --------------------------
(* Every key that shares can be encrypted to has its private half stored. *)
EXTENDS VaultKeys, TLAPS

(* The inductive invariant. *)

\* Keys on their way to the server have been stored, too.
OnTheWay ==
    /\ \A m \in puts : m[2] \in saved
    /\ \A d \in Devices : pair[d] \in saved \cup {NoKey}
    /\ \A d \in Devices, u \in Users : list[d][u] \in saved \cup {NoKey}

\* A tab that generates a pair or waits for an answer does it for somebody.
Attributed ==
    \A d \in Devices : /\ pc[d] \in {"session", "generate", "fresh"} => whose[d] \in Users
                       /\ pc[d] \in {"put", "post"} => pair[d] \in Keys

IInv == TypeOK /\ SealedToSaved /\ OnTheWay /\ Attributed

\* Names of the parts of a state, for the steps of the proof.
LEMMA InitInv == ASSUME Init PROVE IInv
BY UsersAssumption, MaxKeyAssumption
   DEF Init, IInv, TypeOK, ServerOK, DevicesOK, TabsOK, HistoryOK, SealedToSaved, OnTheWay,
       Attributed, NoKeys, NoKey, Keys

\* What is published from a tab: the message is the tab's pair, and it is saved.
LEMMA PutInv ==
  ASSUME IInv, NEW d \in Devices, NEW label \in {"put", "post"}, NEW k \in Keys,
         Put(d, label, k), saved' = saved \cup {k}
  PROVE  /\ TabsOK' /\ puts' \subseteq Users \X Keys
         /\ \A m \in puts' : m[2] \in saved'
         /\ \A e \in Devices : pair'[e] \in saved' \cup {NoKey}
         /\ Attributed'
<1> USE DEF IInv, TypeOK
<1>1. /\ pc' = [pc EXCEPT ![d] = label] /\ pair' = [pair EXCEPT ![d] = k] /\ whose' = whose
      /\ puts' \subseteq puts \cup {<<user[d], k>>}
      /\ user[d] = Nobody => puts' = puts
  BY DEF Put
<1>2. user[d] \in Users \cup {Nobody}
  BY DEF DevicesOK
<1>3. TabsOK'
  BY <1>1 DEF TabsOK
<1>4. puts' \subseteq Users \X Keys /\ \A m \in puts' : m[2] \in saved'
  BY <1>1, <1>2 DEF ServerOK, OnTheWay
<1>5. \A e \in Devices : pair'[e] \in saved' \cup {NoKey}
  BY <1>1 DEF TabsOK, OnTheWay
<1>6. Attributed'
  BY <1>1 DEF TabsOK, Attributed
<1> QED
  BY <1>3, <1>4, <1>5, <1>6

\* The steps that generate a pair.
LEMMA GenerateInv ==
  ASSUME IInv, NEW d \in Devices, InitSession(d) \/ Generate(d)
  PROVE  IInv'
<1> USE DEF IInv, TypeOK
<1>1. CASE InitSession(d) /\ whose[d] \in wrapped[d] /\ Done(d) /\ UNCHANGED <<wrapped, saved, puts, nextKey>>
  <2>1. UNCHANGED <<server, puts, user, page, stored, wrapped, saved, nextKey, used>>
    BY <1>1 DEF InitSession
  <2>2. TabsOK' /\ Attributed' /\ \A e \in Devices : pair'[e] \in {pair[e], NoKey}
    BY <1>1 DEF Done, TabsOK, Attributed
  <2> QED
    BY <2>1, <2>2 DEF server, page, ServerOK, DevicesOK, HistoryOK, SealedToSaved, OnTheWay
<1>2. CASE /\ nextKey \in Keys /\ nextKey' = nextKey + 1 /\ saved' = saved \cup {nextKey}
           /\ UNCHANGED <<server, user, list, warned, used>>
           /\ \E label \in {"put", "post"} : Put(d, label, nextKey)
           /\ DevicesOK'
  <2>1. PICK label \in {"put", "post"} : Put(d, label, nextKey)
    BY <1>2
  <2>2. /\ TabsOK' /\ puts' \subseteq Users \X Keys /\ Attributed'
        /\ \A m \in puts' : m[2] \in saved'
        /\ \A e \in Devices : pair'[e] \in saved' \cup {NoKey}
    BY <1>2, <2>1, PutInv
  <2>3. ServerOK' /\ SealedToSaved'
    BY <1>2, <2>2 DEF server, ServerOK, SealedToSaved
  <2>4. HistoryOK'
    BY <1>2, MaxKeyAssumption DEF HistoryOK, Keys
  <2>5. \A e \in Devices, u \in Users : list'[e][u] \in saved' \cup {NoKey}
    BY <1>2 DEF OnTheWay
  <2> QED
    BY <1>2, <2>2, <2>3, <2>4, <2>5 DEF OnTheWay
<1>3. CASE InitSession(d) /\ nextKey \in Keys /\ nextKey' = nextKey + 1
           /\ wrapped' = [wrapped EXCEPT ![d] = @ \cup {whose[d]}]
           /\ saved' = saved \cup {nextKey} /\ Put(d, "put", nextKey)
  <2>1. UNCHANGED <<server, user, page, stored, used>> /\ whose[d] \in Users
    BY <1>3 DEF InitSession, Attributed
  <2>2. DevicesOK'
    BY <1>3, <2>1 DEF DevicesOK, page
  <2> QED
    BY <1>2, <1>3, <2>1, <2>2 DEF page
<1>4. CASE Generate(d)
  <2>1. /\ nextKey \in Keys /\ nextKey' = nextKey + 1 /\ saved' = saved \cup {nextKey}
        /\ stored' = [stored EXCEPT ![d][whose[d]] = nextKey]
        /\ cache' = [cache EXCEPT ![d] = nextKey]
        /\ UNCHANGED <<server, user, list, warned, wrapped, used>>
        /\ \E label \in {"put", "post"} : Put(d, label, nextKey)
        /\ whose[d] \in Users
    BY <1>4 DEF Generate, Attributed
  <2>2. stored' \in [Devices -> [Users -> Keys \cup {NoKey}]]
    BY <2>1 DEF DevicesOK
  <2>3. cache' \in [Devices -> Keys \cup {NoKey}]
    BY <2>1 DEF DevicesOK
  <2>4. DevicesOK'
    BY <2>1, <2>2, <2>3 DEF DevicesOK
  <2> QED
    BY <1>2, <2>1, <2>4
<1> QED
  BY <1>1, <1>3, <1>4 DEF InitSession

\* Signing in and out, and a tab that is loaded again.
LEMMA TabInv ==
  ASSUME IInv, NEW d \in Devices,
         SignOut(d) \/ Reload(d) \/ Load(d) \/ (\E u \in Users : SignIn(d, u))
           \/ SetupKeys(d) \/ RequestRotation(d)
  PROVE  IInv'
<1> USE DEF IInv, TypeOK
<1>1. UNCHANGED <<server, puts, stores, nextKey>>
  BY DEF SignOut, Reload, Load, SignIn, SetupKeys, RequestRotation
<1>2. ServerOK' /\ SealedToSaved'
  BY <1>1 DEF server, stores, ServerOK, SealedToSaved
<1>3. HistoryOK'
  BY <1>1 DEF SignOut, Reload, Load, SignIn, SetupKeys, RequestRotation, HistoryOK, stores
<1>4. user' \in [Devices -> Users \cup {Nobody}]
  BY DEF SignOut, Reload, Load, SignIn, SetupKeys, RequestRotation, DevicesOK
<1>5. warned' \subseteq Devices
  BY DEF SignOut, Reload, Load, SignIn, SetupKeys, RequestRotation, DevicesOK, page
<1>6. cache' \in [Devices -> Keys \cup {NoKey}]
  <2>1. CASE Load(d)
    <3>1. user[d] \in Users
      BY <2>1 DEF Load, DevicesOK
    <3>2. Ensured(d) \in Keys \cup {NoKey}
      BY <3>1 DEF Ensured, DevicesOK
    <3> QED
      BY <2>1, <3>2 DEF Load, DevicesOK
  <2> QED
    BY <2>1 DEF SignOut, Reload, SignIn, SetupKeys, RequestRotation, DevicesOK, page, NoKey
<1>7. /\ list' \in [Devices -> [Users -> Keys \cup {NoKey}]]
      /\ \A e \in Devices, u \in Users : list'[e][u] \in saved' \cup {NoKey}
  <2>1. \/ list' = list
        \/ list' = [list EXCEPT ![d] = NoKeys]
        \/ list' = [list EXCEPT ![d] = pub]
    BY DEF SignOut, Reload, Load, SignIn, SetupKeys, RequestRotation, page, DevicesOK
  <2>2. saved' = saved
    BY <1>1 DEF stores
  <2>3. NoKeys \in [Users -> Keys \cup {NoKey}] /\ \A u \in Users : NoKeys[u] = NoKey
    BY DEF NoKeys
  <2>4. pub \in [Users -> Keys \cup {NoKey}] /\ \A u \in Users : pub[u] \in saved \cup {NoKey}
    BY DEF ServerOK, SealedToSaved
  <2> QED
    BY <2>1, <2>2, <2>3, <2>4 DEF DevicesOK, OnTheWay
<1>8. DevicesOK'
  BY <1>1, <1>4, <1>5, <1>6, <1>7 DEF DevicesOK, stores
<1>9. /\ TabsOK' /\ Attributed'
      /\ \A e \in Devices : pair'[e] \in {pair[e], NoKey}
  <2>1. CASE \E label \in {"session", "generate", "fresh"}, u \in Users : Begin(d, label, u)
    BY <2>1 DEF Begin, TabsOK, Attributed
  <2>2. CASE UNCHANGED tab
    BY <2>2 DEF tab, TabsOK, Attributed
  <2>3. CASE Done(d)
    BY <2>3 DEF Done, TabsOK, Attributed
  <2>4. user[d] # Nobody => user[d] \in Users
    BY DEF DevicesOK
  <2>5. CASE SetupKeys(d)
    BY <2>1, <2>4, <2>5 DEF SetupKeys
  <2>6. CASE RequestRotation(d)
    BY <2>1, <2>4, <2>6 DEF RequestRotation
  <2> QED
    BY <2>1, <2>2, <2>3, <2>5, <2>6 DEF SignOut, Reload, Load, SignIn
<1> QED
  BY <1>1, <1>2, <1>3, <1>7, <1>8, <1>9 DEF OnTheWay, stores

\* Messages that arrive, answers, the vault and its rotation.
LEMMA ServerInv ==
  ASSUME IInv,
         \/ \E m \in puts : Arrive(m)
         \/ \E d \in Devices : Answered(d) \/ CreateVault(d)
         \/ \E u \in Users : Finalize(u)
  PROVE  IInv'
<1> USE DEF IInv, TypeOK
<1>1. CASE \E m \in puts : Arrive(m)
  <2>1. PICK m \in puts : Arrive(m)
    BY <1>1
  <2>2. m[1] \in Users /\ m[2] \in Keys /\ m[2] \in saved
    BY DEF ServerOK, OnTheWay
  <2>3. UNCHANGED <<row, asked, user, page, stores, tab, nextKey, used>> /\ puts' \subseteq puts
    BY <2>1 DEF Arrive
  <2>4. /\ pub' \in [Users -> Keys \cup {NoKey}]
        /\ \A u \in Users : pub'[u] \in {pub[u], m[2]}
    BY <2>1, <2>2 DEF Arrive, ServerOK
  <2>5. ServerOK' /\ SealedToSaved' /\ OnTheWay'
    BY <2>2, <2>3, <2>4 DEF ServerOK, SealedToSaved, OnTheWay, stores, tab, page
  <2> QED
    BY <2>3, <2>5 DEF DevicesOK, TabsOK, HistoryOK, Attributed, page, stores, tab
<1>2. CASE \E d \in Devices : Answered(d)
  <2>1. PICK d \in Devices : Answered(d)
    BY <1>2
  <2>2. /\ UNCHANGED <<pub, row, puts, user, page, stores, nextKey, used>> /\ Done(d)
        /\ \/ UNCHANGED asked
           \/ user[d] # Nobody /\ asked' = [asked EXCEPT ![user[d]] = pair[d]]
    BY <2>1 DEF Answered
  <2>3. pair[d] \in Keys \cup {NoKey} /\ pair[d] \in saved \cup {NoKey}
    BY DEF TabsOK, OnTheWay
  <2>4. user[d] # Nobody => user[d] \in Users
    BY DEF DevicesOK
  <2>5. /\ asked' \in [Users -> Keys \cup {NoKey}]
        /\ \A u \in Users : asked'[u] \in {asked[u], pair[d]}
    BY <2>2, <2>3, <2>4 DEF ServerOK
  <2>6. TabsOK' /\ Attributed' /\ \A e \in Devices : pair'[e] \in {pair[e], NoKey}
    BY <2>2 DEF Done, TabsOK, Attributed
  <2>7. ServerOK' /\ SealedToSaved' /\ OnTheWay'
    BY <2>2, <2>3, <2>5, <2>6 DEF ServerOK, SealedToSaved, OnTheWay, stores, page
  <2> QED
    BY <2>2, <2>6, <2>7 DEF DevicesOK, HistoryOK, page, stores
<1>3. CASE \E d \in Devices : CreateVault(d)
  <2>1. PICK d \in Devices : CreateVault(d)
    BY <1>3
  <2>2. /\ row' = list[d] /\ list' = [e \in Devices |-> NoKeys]
        /\ UNCHANGED <<pub, asked, puts, user, cache, warned, stores, tab, nextKey, used>>
    BY <2>1 DEF CreateVault
  <2>3. /\ row' \in [Users -> Keys \cup {NoKey}]
        /\ \A u \in Users : row'[u] \in saved \cup {NoKey}
    BY <2>2 DEF DevicesOK, OnTheWay
  <2>4. ServerOK' /\ SealedToSaved'
    BY <2>2, <2>3 DEF ServerOK, SealedToSaved, stores
  <2>5. DevicesOK' /\ OnTheWay'
    BY <2>2 DEF DevicesOK, OnTheWay, stores, tab, NoKeys
  <2> QED
    BY <2>2, <2>4, <2>5 DEF TabsOK, HistoryOK, Attributed, stores, tab
<1>4. CASE \E u \in Users : Finalize(u)
  <2>1. PICK u \in Users : Finalize(u)
    BY <1>4
  <2>2. /\ row' = [row EXCEPT ![u] = asked[u]] /\ pub' = [pub EXCEPT ![u] = asked[u]]
        /\ asked' = [asked EXCEPT ![u] = NoKey]
        /\ UNCHANGED <<puts, user, page, stores, tab, nextKey, used>>
    BY <2>1 DEF Finalize
  <2>3. ServerOK'
    BY <2>2 DEF ServerOK
  <2>4. SealedToSaved'
    BY <2>2 DEF ServerOK, SealedToSaved, stores
  <2> QED
    BY <2>2, <2>3, <2>4 DEF DevicesOK, TabsOK, HistoryOK, OnTheWay, Attributed, page, stores, tab
<1> QED
  BY <1>1, <1>2, <1>3, <1>4

LEMMA StepInv == ASSUME IInv, [Next]_vars PROVE IInv'
<1>1. CASE UNCHANGED vars
  BY <1>1 DEF vars, server, page, stores, tab, IInv, TypeOK, ServerOK, DevicesOK, TabsOK, HistoryOK,
              SealedToSaved, OnTheWay, Attributed
<1>2. CASE Next
  BY <1>2, GenerateInv, TabInv, ServerInv DEF Next
<1> QED
  BY <1>1, <1>2

\* Every variable keeps its type (the columns, the stores of a browser and the
\* state of its tab).
THEOREM TypeCorrect == Spec => []TypeOK
<1>1. Init => IInv
  BY InitInv
<1>2. IInv /\ [Next]_vars => IInv'
  BY StepInv
<1>3. IInv => TypeOK
  BY DEF IInv
<1> QED
  BY <1>1, <1>2, <1>3, PTL DEF Spec

\* Shares are only ever encrypted to pairs that were stored first
\* (ensureKeyPair, generateFreshKeyPair and initSession store, then publish).
THEOREM SealedToSavedKeys == Spec => []SealedToSaved
<1>1. Init => IInv
  BY InitInv
<1>2. IInv /\ [Next]_vars => IInv'
  BY StepInv
<1>3. IInv => SealedToSaved
  BY DEF IInv
<1> QED
  BY <1>1, <1>2, <1>3, PTL DEF Spec

----------------------------------------------------------------------------
(* README.md:156 and 432 say that a key does not match because its holder is   *)
(* on a new device.  That has two other causes, and only these two: a tab that *)
(* changes hands with a pair still in its cache, and the pair that a login     *)
(* publishes.                                                                  *)

\* The pair of the vault page, or none yet.
Own(u, d) == {NoKey, stored[d][u]}

\* A tab does not change hands with somebody's pair in its cache: loading it again
\* empties the cache.
OwnTab == \A d \in Devices : user'[d] \notin {user[d], Nobody} => cache[d] \in Own(user'[d], d)

\* No login goes on to publish a pair of its own.
NoSecondPair == \A d \in Devices : pc[d] = "session" => pc'[d] # "put"

\* The one device of a user has the pair to every key that is known for him.
HomeKeys ==
    \A u \in Users, d \in Devices : used[u] \subseteq {d} =>
        /\ {pub[u], row[u], asked[u]} \subseteq Own(u, d)
        /\ \A m \in puts : m[1] = u => m[2] = stored[d][u]
        /\ \A e \in Devices : list[e][u] \in Own(u, d)

UsedHere ==
    \A u \in Users, d \in Devices : d \notin used[u] => user[d] # u /\ stored[d][u] = NoKey

CacheIsOwn == \A d \in Devices, u \in Users : user[d] = u => cache[d] \in Own(u, d)

\* A tab that generates or publishes works for whoever is signed in, or was; it
\* replaces a pair only of a user of several devices.
BusyForUser ==
    \A d \in Devices : pc[d] \in {"generate", "fresh", "put", "post"} =>
        /\ user[d] \in {whose[d], Nobody} /\ whose[d] \in Users /\ d \in used[whose[d]]
        /\ pc[d] = "generate" => stored[d][whose[d]] = NoKey
        /\ pc[d] = "fresh" => used[whose[d]] # {d}
        /\ pc[d] \in {"put", "post"} => pair[d] = stored[d][whose[d]]

WarnedInside == \A d \in warned : user[d] # Nobody

HomeInv ==
    /\ HomeKeys /\ UsedHere /\ CacheIsOwn /\ BusyForUser /\ WarnedInside
    /\ MismatchMeansNewDevice

\* Who is signed in on a device has used it.
LEMMA SignedIn ==
  ASSUME TypeOK, UsedHere, NEW d \in Devices, user[d] # Nobody
  PROVE  user[d] \in Users /\ d \in used[user[d]]
BY DEF TypeOK, DevicesOK, UsedHere

\* Signing in.
LEMMA HomeSignIn ==
  ASSUME TypeOK, HomeInv, NEW d \in Devices, NEW u \in Users, SignIn(d, u), OwnTab
  PROVE  HomeInv'
<1> USE DEF HomeInv
<1>1. /\ UNCHANGED <<pub, row, asked, puts, stored, list, cache, warned>>
      /\ user[d] = Nobody /\ user' = [user EXCEPT ![d] = u]
      /\ used' = [used EXCEPT ![u] = @ \cup {d}]
  BY DEF SignIn, server, stores, page
<1>2. \A e \in Devices : user'[e] = IF e = d THEN u ELSE user[e]
  BY <1>1 DEF TypeOK, DevicesOK
<1>3. \A v \in Users : used'[v] = IF v = u THEN used[v] \cup {d} ELSE used[v]
  BY <1>1 DEF TypeOK, HistoryOK
<1>4. HomeKeys'
  BY <1>1, <1>3 DEF HomeKeys, Own
<1>5. UsedHere'
  <2> SUFFICES ASSUME NEW v \in Users, NEW e \in Devices, e \notin used'[v]
               PROVE  user'[e] # v /\ stored'[e][v] = NoKey
    BY DEF UsedHere
  <2>1. e \notin used[v] /\ (v = u => e # d)
    BY <1>3
  <2>2. user[e] # v /\ stored[e][v] = NoKey
    BY <2>1 DEF UsedHere
  <2> QED
    BY <1>1, <1>2, <2>1, <2>2
<1>6. CacheIsOwn'
  <2>1. cache[d] \in Own(u, d)
    BY <1>1, <1>2, UsersAssumption DEF OwnTab
  <2> QED
    BY <1>1, <1>2, <2>1 DEF CacheIsOwn, Own
<1>7. BusyForUser'
  <2> SUFFICES ASSUME NEW e \in Devices, pc'[e] \in {"generate", "fresh", "put", "post"}
               PROVE  /\ user'[e] \in {whose'[e], Nobody} /\ whose'[e] \in Users
                      /\ e \in used'[whose'[e]]
                      /\ pc'[e] = "generate" => stored'[e][whose'[e]] = NoKey
                      /\ pc'[e] = "fresh" => used'[whose'[e]] # {e}
                      /\ pc'[e] \in {"put", "post"} => pair'[e] = stored'[e][whose'[e]]
    BY DEF BusyForUser
  <2>1. e # d /\ pc'[e] = pc[e] /\ whose'[e] = whose[e] /\ pair'[e] = pair[e]
    BY DEF SignIn, Begin, tab, TypeOK, TabsOK
  <2>2. /\ user[e] \in {whose[e], Nobody} /\ whose[e] \in Users /\ e \in used[whose[e]]
        /\ pc[e] = "generate" => stored[e][whose[e]] = NoKey
        /\ pc[e] = "fresh" => used[whose[e]] # {e}
        /\ pc[e] \in {"put", "post"} => pair[e] = stored[e][whose[e]]
    BY <2>1 DEF BusyForUser
  <2> QED
    BY <1>1, <1>2, <1>3, <2>1, <2>2
<1>8. d \notin warned
  BY <1>1 DEF WarnedInside
<1>9. WarnedInside' /\ MismatchMeansNewDevice'
  <2>1. WarnedInside'
    BY <1>1, <1>2, <1>8 DEF WarnedInside, TypeOK, DevicesOK
  <2>2. ASSUME NEW e \in warned, NEW v \in Users, user[e] = v, e # d PROVE used'[v] # {e}
    BY <1>3, <2>2 DEF MismatchMeansNewDevice
  <2> QED
    BY <1>1, <1>2, <1>8, <2>1, <2>2 DEF MismatchMeansNewDevice, TypeOK, DevicesOK
<1> QED
  BY <1>4, <1>5, <1>6, <1>7, <1>9

\* Signing out, and a tab that is loaded again.
LEMMA HomeLeave ==
  ASSUME TypeOK, HomeInv, NEW d \in Devices, SignOut(d) \/ Reload(d)
  PROVE  HomeInv'
<1> USE DEF HomeInv
<1>1. /\ UNCHANGED <<pub, row, asked, puts, stored, used>> /\ warned' = warned \ {d}
      /\ list' = [list EXCEPT ![d] = NoKeys]
  BY DEF SignOut, Reload, server, stores, page
<1>2. \A e \in Devices : user'[e] \in {user[e], Nobody} /\ (e # d => user'[e] = user[e])
  BY DEF SignOut, Reload, TypeOK, DevicesOK
<1>3. \A e \in Devices : cache'[e] \in {cache[e], NoKey}
  BY DEF SignOut, Reload, TypeOK, DevicesOK
<1>4. HomeKeys'
  BY <1>1 DEF HomeKeys, Own, NoKeys, TypeOK, DevicesOK
<1>5. UsedHere' /\ CacheIsOwn'
  BY <1>1, <1>2, <1>3, UsersAssumption DEF UsedHere, CacheIsOwn, Own
<1>6. BusyForUser'
  <2>1. \A e \in Devices : \/ pc'[e] = "idle"
                           \/ pc'[e] = pc[e] /\ whose'[e] = whose[e] /\ pair'[e] = pair[e]
    BY DEF SignOut, Reload, Done, tab, TypeOK, TabsOK
  <2> QED
    BY <1>1, <1>2, <2>1 DEF BusyForUser
<1>7. WarnedInside' /\ MismatchMeansNewDevice'
  BY <1>1, <1>2 DEF WarnedInside, MismatchMeansNewDevice, TypeOK, DevicesOK
<1> QED
  BY <1>4, <1>5, <1>6, <1>7

\* The page that is loaded compares the row with the pair of the page; there is
\* nothing to warn of if that is the pair of the user's only device.
LEMMA HomeLoad == ASSUME TypeOK, HomeInv, NEW d \in Devices, Load(d) PROVE HomeInv'
<1> USE DEF HomeInv
<1>1. /\ UNCHANGED <<pub, row, asked, puts, stored, used, user, tab>> /\ user[d] # Nobody
      /\ \A e \in Devices, v \in Users : list'[e][v] \in {list[e][v], pub[v]}
  BY DEF Load, server, stores, TypeOK, DevicesOK
<1>2. user[d] \in Users
  BY <1>1, SignedIn
<1>3. HasKeyPair(d) => Ensured(d) = stored[d][user[d]]
  BY <1>2 DEF HasKeyPair, Ensured, CacheIsOwn, Own
<1>4. HomeKeys'
  BY <1>1 DEF HomeKeys, Own
<1>5. UsedHere' /\ BusyForUser'
  BY <1>1 DEF UsedHere, BusyForUser, tab
<1>6. CacheIsOwn'
  <2>1. \A e \in Devices : \/ cache'[e] = cache[e]
                           \/ e = d /\ cache'[e] = stored[d][user[d]]
    BY <1>3 DEF Load, TypeOK, DevicesOK
  <2> QED
    BY <1>1, <2>1 DEF CacheIsOwn, Own
<1>7. WarnedInside' /\ MismatchMeansNewDevice'
  <2>1. HasKeyPair(d) /\ used[user[d]] = {d} => ~Mismatch(d, Ensured(d))
    BY <1>2, <1>3 DEF Mismatch, HomeKeys, Own
  <2>2. \A e \in warned' : e \in warned \/ (e = d /\ used[user[d]] # {d})
    BY <2>1 DEF Load
  <2> QED
    BY <1>1, <2>2 DEF WarnedInside, MismatchMeansNewDevice
<1> QED
  BY <1>4, <1>5, <1>6, <1>7

\* A pair is going to be generated: the first of the device, or a fresh one for
\* somebody who has been warned.
LEMMA HomeBegin ==
  ASSUME TypeOK, HomeInv, NEW d \in Devices, SetupKeys(d) \/ RequestRotation(d)
  PROVE  HomeInv'
<1> USE DEF HomeInv
<1>1. UNCHANGED <<pub, row, asked, puts, stored, list, cache, warned, used, user>> /\ user[d] # Nobody
  BY DEF SetupKeys, RequestRotation, server, stores, page
<1>2. user[d] \in Users /\ d \in used[user[d]]
  BY <1>1, SignedIn
<1>3. \/ Begin(d, "generate", user[d]) /\ stored[d][user[d]] = NoKey
      \/ Begin(d, "fresh", user[d]) /\ used[user[d]] # {d}
  <2>1. CASE SetupKeys(d)
    BY <2>1 DEF SetupKeys, HasKeyPair
  <2>2. CASE RequestRotation(d)
    BY <1>2, <2>2 DEF RequestRotation, MismatchMeansNewDevice
  <2> QED
    BY <2>1, <2>2
<1>4. BusyForUser'
  <2>1. \A e \in Devices : e # d => pc'[e] = pc[e] /\ whose'[e] = whose[e] /\ pair'[e] = pair[e]
    BY <1>3 DEF Begin, TypeOK, TabsOK
  <2>2. whose'[d] = user[d] /\ pc'[d] \in {"generate", "fresh"}
    BY <1>3 DEF Begin, TypeOK, TabsOK
  <2>3. /\ pc'[d] = "generate" => stored[d][user[d]] = NoKey
        /\ pc'[d] = "fresh" => used[user[d]] # {d}
    BY <1>3 DEF Begin, TypeOK, TabsOK
  <2> QED
    BY <1>1, <1>2, <2>1, <2>2, <2>3 DEF BusyForUser
<1>5. HomeKeys' /\ UsedHere' /\ CacheIsOwn' /\ WarnedInside' /\ MismatchMeansNewDevice'
  BY <1>1 DEF HomeKeys, UsedHere, CacheIsOwn, WarnedInside, MismatchMeansNewDevice, Own
<1> QED
  BY <1>4, <1>5

\* A pair of the vault page is generated, and a login that finds its own again.
LEMMA HomeGenerate ==
  ASSUME IInv, HomeInv, NEW d \in Devices, Generate(d) \/ (InitSession(d) /\ NoSecondPair)
  PROVE  HomeInv'
<1> USE DEF IInv, TypeOK, ServerOK, DevicesOK, TabsOK, HistoryOK, HomeInv, server, stores, page, tab
<1>1. CASE InitSession(d) /\ NoSecondPair
  <2>1. Done(d) /\ UNCHANGED <<server, puts, user, page, stored, used>>
    BY <1>1 DEF InitSession, NoSecondPair, Put
  <2>2. HomeKeys' /\ UsedHere' /\ CacheIsOwn' /\ WarnedInside' /\ MismatchMeansNewDevice'
    BY <2>1 DEF HomeKeys, UsedHere, CacheIsOwn, WarnedInside, MismatchMeansNewDevice, Own
  <2>3. BusyForUser'
    <3>1. \A e \in Devices : \/ pc'[e] = "idle"
                             \/ pc'[e] = pc[e] /\ whose'[e] = whose[e] /\ pair'[e] = pair[e]
      BY <2>1 DEF Done
    <3> QED
      BY <2>1, <3>1 DEF BusyForUser
  <2> QED
    BY <2>1, <2>2, <2>3
<1>2. CASE Generate(d)
  <2> DEFINE u == whose[d]
             k == nextKey
  <2>1. /\ u \in Users /\ d \in used[u] /\ user[d] \in {u, Nobody}
        /\ pc[d] = "generate" => stored[d][u] = NoKey
        /\ pc[d] = "fresh" => used[u] # {d}
        /\ pc[d] \in {"generate", "fresh"} /\ k \in Keys
    BY <1>2 DEF Generate, BusyForUser
  <2>2. /\ UNCHANGED <<server, user, list, warned, used, whose>>
        /\ stored' = [stored EXCEPT ![d][u] = k] /\ cache' = [cache EXCEPT ![d] = k]
        /\ puts' \subseteq puts \cup {<<user[d], k>>} /\ (user[d] = Nobody => puts' = puts)
        /\ pair' = [pair EXCEPT ![d] = k]
        /\ \E label \in {"put", "post"} : pc' = [pc EXCEPT ![d] = label]
    BY <1>2 DEF Generate, Put
  <2>3. \A e \in Devices, v \in Users :
            stored'[e][v] = IF e = d /\ v = u THEN k ELSE stored[e][v]
    BY <2>1, <2>2
  <2>4. HomeKeys'
    <3> SUFFICES ASSUME NEW v \in Users, NEW e \in Devices, used[v] \subseteq {e}
                 PROVE  /\ {pub[v], row[v], asked[v]} \subseteq {NoKey, stored'[e][v]}
                        /\ \A m \in puts' : m[1] = v => m[2] = stored'[e][v]
                        /\ \A f \in Devices : list[f][v] \in {NoKey, stored'[e][v]}
      BY <2>2 DEF HomeKeys, Own
    <3>1. /\ {pub[v], row[v], asked[v]} \subseteq {NoKey, stored[e][v]}
          /\ \A m \in puts : m[1] = v => m[2] = stored[e][v]
          /\ \A f \in Devices : list[f][v] \in {NoKey, stored[e][v]}
      BY DEF HomeKeys, Own
    <3>2. CASE v = u
      <4>1. e = d /\ used[u] = {d} /\ stored[d][u] = NoKey
        BY <2>1, <3>2
      <4>2. \A m \in puts : m[1] # u
        BY <3>1, <3>2, <4>1 DEF Keys, NoKey
      <4> QED
        BY <2>1, <2>2, <2>3, <3>1, <3>2, <4>1, <4>2
    <3>3. CASE v # u
      <4>1. \A m \in puts' : m[1] = v => m \in puts
        BY <2>1, <2>2, <3>3
      <4> QED
        BY <2>3, <3>1, <3>3, <4>1
    <3> QED
      BY <3>2, <3>3
  <2>5. UsedHere' /\ CacheIsOwn'
    BY <2>1, <2>2, <2>3, UsersAssumption DEF UsedHere, CacheIsOwn, Own
  <2>6. BusyForUser'
    BY <2>1, <2>2, <2>3 DEF BusyForUser
  <2>7. WarnedInside' /\ MismatchMeansNewDevice'
    BY <2>2 DEF WarnedInside, MismatchMeansNewDevice
  <2> QED
    BY <2>4, <2>5, <2>6, <2>7
<1> QED
  BY <1>1, <1>2

\* What the server does with keys that it has been sent.
LEMMA HomeServer ==
  ASSUME IInv, HomeInv,
         \/ \E m \in puts : Arrive(m)
         \/ \E d \in Devices : Answered(d) \/ CreateVault(d)
         \/ \E u \in Users : Finalize(u)
  PROVE  HomeInv'
<1> USE DEF IInv, TypeOK, ServerOK, DevicesOK, TabsOK, HistoryOK, HomeInv, server, stores, page, tab
<1>1. UNCHANGED <<user, used, stored, cache, warned>>
  BY DEF Arrive, Answered, CreateVault, Finalize
<1>2. UsedHere' /\ CacheIsOwn' /\ WarnedInside' /\ MismatchMeansNewDevice'
  BY <1>1 DEF UsedHere, CacheIsOwn, WarnedInside, MismatchMeansNewDevice, Own
<1>3. BusyForUser'
  <2>1. CASE UNCHANGED tab
    BY <1>1, <2>1 DEF BusyForUser
  <2>2. CASE \E d \in Devices : Done(d)
    BY <1>1, <2>2 DEF Done, BusyForUser
  <2> QED
    BY <2>1, <2>2 DEF Arrive, Answered, CreateVault, Finalize
<1>4. HomeKeys'
  <2>1. CASE \E m \in puts : Arrive(m)
    BY <2>1 DEF Arrive, HomeKeys, Own
  <2>2. CASE \E d \in Devices : Answered(d)
    <3>1. PICK d \in Devices : Answered(d)
      BY <2>2
    <3>2. CASE UNCHANGED asked
      BY <3>1, <3>2 DEF Answered, HomeKeys, Own
    <3>3. CASE /\ pc[d] = "post" /\ user[d] # Nobody
               /\ asked' = [asked EXCEPT ![user[d]] = pair[d]]
      <4>1. user[d] = whose[d] /\ user[d] \in Users /\ d \in used[user[d]]
            /\ pair[d] = stored[d][user[d]]
        BY <3>3 DEF BusyForUser
      <4> QED
        BY <3>1, <3>3, <4>1 DEF Answered, HomeKeys, Own
    <3> QED
      BY <3>1, <3>2, <3>3 DEF Answered
  <2>3. CASE \E d \in Devices : CreateVault(d)
    BY <2>3 DEF CreateVault, HomeKeys, Own, NoKeys
  <2>4. CASE \E u \in Users : Finalize(u)
    BY <2>4 DEF Finalize, HomeKeys, Own
  <2> QED
    BY <2>1, <2>2, <2>3, <2>4
<1> QED
  BY <1>2, <1>3, <1>4

LEMMA HomeStep ==
  ASSUME IInv, HomeInv, [Next]_vars, [OwnTab /\ NoSecondPair]_vars
  PROVE  HomeInv'
<1>1. CASE UNCHANGED vars
  BY <1>1 DEF vars, server, page, stores, tab, HomeInv, HomeKeys, UsedHere, CacheIsOwn,
              BusyForUser, WarnedInside, MismatchMeansNewDevice, Own
<1>2. CASE Next /\ OwnTab /\ NoSecondPair
  <2>1. TypeOK
    BY DEF IInv
  <2> QED
    BY <1>2, <2>1, HomeSignIn, HomeLeave, HomeLoad, HomeBegin, HomeGenerate, HomeServer DEF Next
<1> QED
  BY <1>1, <1>2

\* With tabs that are loaded again between two users, and with logins that publish
\* no pair, whoever is warned has signed in on another device: then the promise of
\* README.md:156 and 432 holds.
THEOREM WarnedOfNewDevices ==
    Spec /\ [][OwnTab /\ NoSecondPair]_vars => []MismatchMeansNewDevice
<1>1. Init => HomeInv
  BY UsersAssumption
     DEF Init, HomeInv, HomeKeys, UsedHere, CacheIsOwn, BusyForUser, WarnedInside,
         MismatchMeansNewDevice, Own, NoKeys
<1>2. Init => IInv
  BY InitInv
<1>3. IInv /\ [Next]_vars => IInv'
  BY StepInv
<1>4. IInv /\ HomeInv /\ [Next]_vars /\ [OwnTab /\ NoSecondPair]_vars => HomeInv'
  BY HomeStep
<1>5. HomeInv => MismatchMeansNewDevice
  BY DEF HomeInv
<1> QED
  BY <1>1, <1>2, <1>3, <1>4, <1>5, PTL DEF Spec

=============================================================================
