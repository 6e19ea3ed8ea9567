--------------------------- MODULE KucommsDeviceProofs ---------------------------
(******************************************************************************)
(* Proofs, for any devices, administrators, modules, files and list lengths,  *)
(* that KucommsDevice keeps IInv, and what follows from it, as long as its    *)
(* surroundings are Orderly.                                                  *)
(*                                                                            *)
(* Most steps are those of one caller that changes nothing of the lists:      *)
(* QuietStep says what such a caller has to see to. The six writes to the     *)
(* lists follow, and then loading and unloading. Last comes the refinement:   *)
(* with the invariant before and after a step, each step of a call is one of  *)
(* DeviceRegistry, or none.                                                   *)
(******************************************************************************)
EXTENDS KucommsDevice, FiniteSetTheorems, WellFoundedInduction, TLAPS

(* The first slot that fits is found if there is one. *)
LEMMA LeastExists ==
  ASSUME NEW S \in SUBSET Slots, S # {}
  PROVE  \E s \in S : \A t \in S : s <= t
<1> DEFINE R == OpToRel(<, Nat)
<1>1. IsWellFoundedOn(R, Nat)
  BY NatLessThanWellFounded
<1>2. S \subseteq Nat
  BY SlotsAssumption
<1>3. PICK s \in S : \A t \in S : ~(<<t, s>> \in R)
  <2> HIDE DEF R
  <2> QED
    BY <1>1, <1>2, WFMin
<1>4. \A t \in S : ~(t < s)
  <2>1. SUFFICES ASSUME NEW t \in S, t < s PROVE FALSE
    OBVIOUS
  <2>2. <<t, s>> \in R
    BY <2>1, <1>2 DEF OpToRel
  <2> QED
    BY <2>2, <1>3
<1> QED
  BY <1>2, <1>4

LEMMA FirstFact ==
  ASSUME NEW S \in SUBSET Slots
  PROVE  /\ S = {} => First(S) = Nothing
         /\ S # {} => First(S) \in S /\ First(S) # Nothing
<1>1. ASSUME S # {} PROVE First(S) \in S
  BY <1>1, LeastExists DEF First
<1>2. \A s \in S : s # Nothing
  BY CallersAssumption
<1> QED
  BY <1>1, <1>2 DEF First

LEMMA FindCallbacksFact ==
  ASSUME NEW name
  PROVE  /\ FindCallbacks(name) = Nothing => \A s \in Slots : cblist[s].name # name
         /\ FindCallbacks(name) # Nothing =>
              FindCallbacks(name) \in Slots /\ cblist[FindCallbacks(name)].name = name
<1> DEFINE S == {s \in Slots : cblist[s].name = name}
<1>1. S \in SUBSET Slots /\ FindCallbacks(name) = First(S)
  BY DEF FindCallbacks
<1>2. (\A s \in Slots : cblist[s].name # name) <=> S = {}
  OBVIOUS
<1>3. \A s \in S : s \in Slots /\ cblist[s].name = name
  OBVIOUS
<1> HIDE DEF S
<1> QED
  BY <1>1, <1>2, <1>3, FirstFact

LEMMA FindDeviceFact ==
  ASSUME NEW name
  PROVE  /\ FindDevice(name) = Nothing => \A s \in Slots : devlist[s] # name
         /\ FindDevice(name) # Nothing =>
              FindDevice(name) \in Slots /\ devlist[FindDevice(name)] = name
<1> DEFINE S == {s \in Slots : devlist[s] = name}
<1>1. S \in SUBSET Slots /\ FindDevice(name) = First(S)
  BY DEF FindDevice
<1>2. (\A s \in Slots : devlist[s] # name) <=> S = {}
  OBVIOUS
<1>3. \A s \in S : s \in Slots /\ devlist[s] = name
  OBVIOUS
<1> HIDE DEF S
<1> QED
  BY <1>1, <1>2, <1>3, FirstFact

LEMMA FreeFact ==
  /\ FreeCallbacks # Nothing => FreeCallbacks \in Slots /\ cblist[FreeCallbacks].name = Nothing
  /\ FreeDevice # Nothing => FreeDevice \in Slots /\ devlist[FreeDevice] = Nothing
<1>1. FreeCallbacks = FindCallbacks(Nothing) /\ FreeDevice = FindDevice(Nothing)
  BY DEF FreeCallbacks, FreeDevice, FindCallbacks, FindDevice
<1> QED
  BY <1>1, FindCallbacksFact, FindDeviceFact

(* Who the callers are. *)
LEMMA CallerFact ==
  ASSUME NEW c \in Callers
  PROVE  /\ c \in Admins \/ c \in Modules \/ c \in Files
         /\ c \in Admins => c \notin Modules /\ c \notin Files
         /\ c \in Modules => c \notin Admins /\ c \notin Files
         /\ c \in Files => c \notin Admins /\ c \notin Modules
         /\ c # Nothing
BY CallersAssumption DEF Callers

LEMMA NamesFact == Nothing \notin Names /\ Nothing \notin Slots /\ Nothing \notin Callers
BY CallersAssumption

--------------------------------------------------------------------------------
(* A caller that changes nothing of the lists.                                *)

(* Only what is this caller's own changes, the mutex, and threads. *)
Alone(c) ==
  /\ UNCHANGED <<state, cblist, devlist, chrdevs>>
  /\ \A d \in Callers \ {c} : call'[d] = call[d]
  /\ \A m \in Modules \ {c} : module'[m] = module[m]
  /\ \A f \in Files \ {c} : file'[f] = file[f]

(* What the caller has to see to. *)
FileOwn(f) ==
  /\ FilePlace(f)'
  /\ HasOpened(f)' <=> HasOpened(f)
  /\ HasOpened(f) => file'[f].name = file[f].name /\ Kept(f)'

ModuleOwn(m) ==
  /\ ModulePlace(m)'
  /\ \A s \in Slots : cblist[s].hlr = m => Owned(s)'

Own(c) ==
  /\ CallOK(c)' /\ Found(c)'
  /\ c \in Admins => AdminPlace(c)'
  /\ c \in Modules => ModuleOwn(c)
  /\ c \in Files => FileOwn(c)

LEMMA QuietStep ==
  ASSUME IInv, state = "loaded", NEW c \in Callers, Alone(c), Own(c),
         TypeOK', MutexInv', ThreadInv'
  PROVE  IInv'
<1> USE CallerFact
<1>1. LoadInv'
  BY DEF LoadInv, Alone
<1>2. CallersInv'
  <2>1. ASSUME NEW d \in Callers PROVE CallOK(d)' /\ Found(d)'
    <3>1. CASE d = c
      BY <3>1 DEF Own
    <3>2. CASE d # c
      <4>1. call'[d] = call[d] /\ CallOK(d) /\ Found(d)
        BY <3>2 DEF Alone, IInv, CallersInv
      <4> QED
        BY <4>1 DEF CallOK, Found, Alone
    <3> QED
      BY <3>1, <3>2
  <2>2. ASSUME NEW a \in Admins PROVE AdminPlace(a)'
    <3>1. CASE a = c
      BY <3>1 DEF Own
    <3>2. CASE a # c
      BY <3>2 DEF Alone, IInv, CallersInv, AdminPlace, Callers
    <3> QED
      BY <3>1, <3>2
  <2>3. ASSUME NEW m \in Modules PROVE ModulePlace(m)'
    <3>1. CASE m = c
      BY <3>1 DEF Own, ModuleOwn
    <3>2. CASE m # c
      BY <3>2 DEF Alone, IInv, CallersInv, ModulePlace, Callers
    <3> QED
      BY <3>1, <3>2
  <2>4. ASSUME NEW f \in Files PROVE FilePlace(f)'
    <3>1. CASE f = c
      BY <3>1 DEF Own, FileOwn
    <3>2. CASE f # c
      BY <3>2 DEF Alone, IInv, CallersInv, FilePlace, Callers
    <3> QED
      BY <3>1, <3>2
  <2> QED
    BY <2>1, <2>2, <2>3, <2>4 DEF CallersInv
<1>3. \A f \in Files : /\ HasOpened(f)' <=> HasOpened(f)
                       /\ HasOpened(f) => file'[f].name = file[f].name /\ Kept(f)'
  <2> SUFFICES ASSUME NEW f \in Files
               PROVE  /\ HasOpened(f)' <=> HasOpened(f)
                      /\ HasOpened(f) => file'[f].name = file[f].name /\ Kept(f)'
    OBVIOUS
  <2>1. CASE f = c
    BY <2>1 DEF Own, FileOwn
  <2>2. CASE f # c
    <3>1. file'[f] = file[f] /\ call'[f] = call[f] /\ Kept(f)
      BY <2>2 DEF Alone, IInv, OpenInv, Callers
    <3> QED
      BY <3>1 DEF HasOpened, HasPfd, Kept, Alone
  <2> QED
    BY <2>1, <2>2
<1>4. OpenInv'
  <2>1. OneOpenPerDevice'
    BY <1>3 DEF OneOpenPerDevice, IInv, OpenInv
  <2>2. OpenFlagIsHeld'
    <3> SUFFICES ASSUME NEW s \in Slots
                 PROVE  cblist[s].open <=> \E f \in Files : HasOpened(f)' /\ file'[f].name = cblist[s].name
      BY DEF OpenFlagIsHeld, Alone
    <3>1. cblist[s].open <=> \E f \in Files : HasOpened(f) /\ file[f].name = cblist[s].name
      BY DEF OpenFlagIsHeld, IInv, OpenInv
    <3> QED
      BY <3>1, <1>3
  <2>3. ASSUME NEW f \in Files PROVE Kept(f)'
    BY <1>3 DEF Kept
  <2> QED
    BY <2>1, <2>2, <2>3 DEF OpenInv
<1>5. ListsInv'
  <2>1. ListsConsistent' /\ DevicesListed'
    BY DEF IInv, ListsInv, ListsConsistent, DevicesListed, Alone
  <2>2. ASSUME NEW s \in Slots PROVE Owned(s)'
    <3>1. CASE cblist[s].hlr = c /\ c \in Modules
      BY <3>1 DEF Own, ModuleOwn
    <3>2. CASE cblist[s].hlr # c /\ cblist[s].hlr \in Modules
      <4>1. /\ call'[cblist[s].hlr] = call[cblist[s].hlr]
            /\ module'[cblist[s].hlr] = module[cblist[s].hlr]
            /\ Owned(s)
        BY <3>2 DEF Alone, IInv, ListsInv, Callers
      <4> QED
        BY <4>1 DEF Owned, Alone
    <3>3. CASE cblist[s].hlr \notin Modules
      BY <3>3 DEF Owned, Alone, IInv, ListsInv
    <3> QED
      BY <3>1, <3>2, <3>3
  <2> QED
    BY <2>1, <2>2 DEF ListsInv
<1> QED
  BY <1>1, <1>2, <1>4, <1>5 DEF IInv

--------------------------------------------------------------------------------
(* What becomes of the call record.                                           *)

OnlyCallOf(c) == call' \in [Callers -> CallRecord] /\ \A d \in Callers \ {c} : call'[d] = call[d]

LEMMA BeginFact ==
  ASSUME TypeOK, NEW c \in Callers, NEW op \in Ops, NEW name \in Names, Begin(c, op, name)
  PROVE  /\ OnlyCallOf(c)
         /\ call'[c].op = op /\ call'[c].name = name /\ call'[c].step = "lock" /\ ~call'[c].ok
<1> DEFINE r == [NoCall EXCEPT !.op = op, !.name = name, !.step = "lock"]
<1>1. NoCall \in CallRecord
  BY DEF NoCall, CallRecord, Ops
<1>2. r \in CallRecord
  BY <1>1 DEF CallRecord
<1>3. call' = [call EXCEPT ![c] = r]
  BY DEF Begin
<1>4. r.op = op /\ r.name = name /\ r.step = "lock" /\ ~r.ok
  BY DEF NoCall
<1> HIDE DEF r
<1> QED
  BY <1>2, <1>3, <1>4 DEF OnlyCallOf, TypeOK

LEMMA ReturnFact ==
  ASSUME TypeOK, NEW c \in Callers, Return(c)
  PROVE  OnlyCallOf(c) /\ call'[c] = NoCall
BY DEF Return, OnlyCallOf, TypeOK, NoCall, CallRecord, Ops

LEMMA DecideFact ==
  ASSUME TypeOK, NEW c \in Callers, NEW slot \in Slots \cup {Nothing}, NEW ok \in BOOLEAN,
         Decide(c, slot, ok)
  PROVE  /\ OnlyCallOf(c)
         /\ call'[c].op = call[c].op /\ call'[c].name = call[c].name
         /\ call'[c].slot = slot /\ call'[c].ok = ok
         /\ call'[c].step = IF slot = Nothing THEN "unlock" ELSE "write"
BY DEF Decide, OnlyCallOf, TypeOK, CallRecord

LEMMA WroteFact ==
  ASSUME TypeOK, NEW c \in Callers, NEW ok \in BOOLEAN, Wrote(c, ok)
  PROVE  /\ OnlyCallOf(c)
         /\ call'[c].op = call[c].op /\ call'[c].name = call[c].name
         /\ call'[c].slot = call[c].slot /\ call'[c].ok = ok /\ call'[c].step = "unlock"
BY DEF Wrote, OnlyCallOf, TypeOK, CallRecord

LEMMA NextStepFact ==
  ASSUME TypeOK, NEW c \in Callers, NEW step \in {"look", "done"},
         call' = [call EXCEPT ![c].step = step]
  PROVE  /\ OnlyCallOf(c)
         /\ call'[c].op = call[c].op /\ call'[c].name = call[c].name
         /\ call'[c].slot = call[c].slot /\ call'[c].ok = call[c].ok /\ call'[c].step = step
BY DEF OnlyCallOf, TypeOK, CallRecord

(* The mutex stays with whom it is with. *)
LEMMA MutexKept ==
  ASSUME MutexInv, NEW c \in Callers, OnlyCallOf(c), UNCHANGED mutex, InLock(c)' <=> InLock(c)
  PROVE  MutexInv'
<1> SUFFICES ASSUME NEW d \in Callers PROVE InLock(d)' <=> mutex' = d
  BY DEF MutexInv
<1>1. CASE d = c
  BY <1>1 DEF MutexInv
<1>2. CASE d # c
  BY <1>2 DEF MutexInv, InLock, OnlyCallOf
<1> QED
  BY <1>1, <1>2

(* A call is made only of a kucomms that is loaded. *)
LEMMA LoadedFact ==
  ASSUME IInv, NEW c \in Callers, call[c].step # "idle"
  PROVE  state = "loaded"
BY DEF IInv, LoadInv

(* While one is between lock and unlock, no other is. *)
LEMMA ExclusionFact ==
  ASSUME MutexInv, NEW c \in Callers, NEW d \in Callers, InLock(c), InLock(d)
  PROVE  c = d
BY DEF MutexInv

--------------------------------------------------------------------------------
(* Steps of a call that change nothing of the lists.                          *)

LEMMA LockStep ==
  ASSUME IInv, Orderly, NEW c \in Callers, Lock(c)
  PROVE  IInv'
<1> USE CallerFact
<1>1. TypeOK /\ MutexInv /\ state = "loaded" /\ CallOK(c) /\ Found(c)
  BY LoadedFact DEF IInv, CallersInv, Lock
<1>2. mutex = Nothing /\ mutex' = c
  BY DEF Lock, Orderly
<1>3. /\ OnlyCallOf(c)
      /\ call'[c].op = call[c].op /\ call'[c].name = call[c].name
      /\ call'[c].slot = call[c].slot /\ call'[c].ok = call[c].ok
      /\ call[c].step = "lock" /\ call'[c].step = "look"
  BY <1>1, NextStepFact DEF Lock
<1>4. Alone(c)
  BY <1>3 DEF Alone, Lock, lists, users, OnlyCallOf
<1>5. TypeOK'
  BY <1>1, <1>2, <1>3 DEF TypeOK, Lock, lists, users, OnlyCallOf
<1>6. MutexInv'
  <2> SUFFICES ASSUME NEW d \in Callers PROVE InLock(d)' <=> mutex' = d
    BY DEF MutexInv
  <2>1. CASE d = c
    BY <2>1, <1>2, <1>3 DEF InLock
  <2>2. CASE d # c
    BY <2>2, <1>1, <1>2, <1>3 DEF MutexInv, InLock, OnlyCallOf
  <2> QED
    BY <2>1, <2>2
<1>7. ThreadInv'
  BY DEF IInv, ThreadInv, HasPfd, Lock, users
<1>8. Own(c)
  <2>1. CallOK(c)' /\ Found(c)'
    BY <1>1, <1>3, <1>4 DEF CallOK, Found, Alone
  <2>2. ASSUME c \in Admins PROVE AdminPlace(c)'
    BY <2>2, <1>3 DEF IInv, CallersInv, AdminPlace
  <2>3. ASSUME c \in Modules PROVE ModuleOwn(c)
    BY <2>3, <1>3 DEF IInv, CallersInv, ListsInv, ModulePlace, ModuleOwn, Owned, Lock, lists, users
  <2>4. ASSUME c \in Files PROVE FileOwn(c)
    <3>1. FilePlace(c)' /\ (HasOpened(c)' <=> HasOpened(c))
      BY <2>4, <1>1, <1>3 DEF IInv, CallersInv, FilePlace, HasOpened, CallOK, Lock, users
    <3>2. HasOpened(c) => file'[c].name = file[c].name /\ Kept(c)'
      BY <2>4, <3>1 DEF IInv, OpenInv, Kept, HasPfd, Lock, users, lists
    <3> QED
      BY <3>1, <3>2 DEF FileOwn
  <2> QED
    BY <2>1, <2>2, <2>3, <2>4 DEF Own
<1> QED
  BY <1>1, <1>4, <1>5, <1>6, <1>7, <1>8, QuietStep

LEMMA UnlockStep ==
  ASSUME IInv, NEW c \in Callers, Unlock(c)
  PROVE  IInv'
<1> USE CallerFact
<1>1. TypeOK /\ MutexInv /\ state = "loaded" /\ CallOK(c) /\ Found(c)
  BY LoadedFact DEF IInv, CallersInv, Unlock
<1>2. mutex = c /\ mutex' = Nothing
  BY <1>1 DEF Unlock, MutexInv, InLock
<1>3. /\ OnlyCallOf(c)
      /\ call'[c].op = call[c].op /\ call'[c].name = call[c].name
      /\ call'[c].slot = call[c].slot /\ call'[c].ok = call[c].ok
      /\ call[c].step = "unlock" /\ call'[c].step = "done"
  BY <1>1, NextStepFact DEF Unlock
<1>4. Alone(c)
  BY <1>3 DEF Alone, Unlock, lists, users, OnlyCallOf
<1>5. TypeOK'
  BY <1>1, <1>2, <1>3 DEF TypeOK, Unlock, lists, users, OnlyCallOf
<1>6. MutexInv'
  <2> SUFFICES ASSUME NEW d \in Callers PROVE InLock(d)' <=> mutex' = d
    BY DEF MutexInv
  <2>1. CASE d = c
    BY <2>1, <1>2, <1>3 DEF InLock
  <2>2. CASE d # c
    BY <2>2, <1>1, <1>2, <1>3 DEF MutexInv, InLock, OnlyCallOf
  <2> QED
    BY <2>1, <2>2
<1>7. ThreadInv'
  BY DEF IInv, ThreadInv, HasPfd, Unlock, users
<1>8. Own(c)
  <2>1. CallOK(c)' /\ Found(c)'
    BY <1>1, <1>3, <1>4 DEF CallOK, Found, Alone
  <2>2. ASSUME c \in Admins PROVE AdminPlace(c)'
    BY <2>2, <1>3 DEF IInv, CallersInv, AdminPlace
  <2>3. ASSUME c \in Modules PROVE ModuleOwn(c)
    BY <2>3, <1>3 DEF IInv, CallersInv, ListsInv, ModulePlace, ModuleOwn, Owned, Unlock, lists, users
  <2>4. ASSUME c \in Files PROVE FileOwn(c)
    <3>1. FilePlace(c)' /\ (HasOpened(c)' <=> HasOpened(c))
      BY <2>4, <1>1, <1>3 DEF IInv, CallersInv, FilePlace, HasOpened, CallOK, Unlock, users
    <3>2. HasOpened(c) => file'[c].name = file[c].name /\ Kept(c)'
      BY <2>4, <3>1 DEF IInv, OpenInv, Kept, HasPfd, Unlock, users, lists
    <3> QED
      BY <3>1, <3>2 DEF FileOwn
  <2> QED
    BY <2>1, <2>2, <2>3, <2>4 DEF Own
<1> QED
  BY <1>1, <1>4, <1>5, <1>6, <1>7, <1>8, QuietStep

(* A caller that has looked: what its call found holds, and what it says of   *)
(* the registration or of the file is still so.                               *)
LEMMA DecideStep ==
  ASSUME IInv, NEW c \in Callers, call[c].step = "look",
         NEW slot \in Slots \cup {Nothing}, NEW ok \in BOOLEAN, Decide(c, slot, ok),
         UNCHANGED <<state, lists, mutex, users>>,
         Found(c)',
         c \in Modules => \A s \in Slots : cblist[s].hlr = c => Owned(s)',
         c \in Files => (HasOpened(c)' <=> HasOpened(c))
  PROVE  IInv'
<1> USE CallerFact
<1>1. TypeOK /\ MutexInv /\ state = "loaded" /\ CallOK(c)
  BY LoadedFact DEF IInv, CallersInv
<1>2. /\ OnlyCallOf(c)
      /\ call'[c].op = call[c].op /\ call'[c].name = call[c].name
      /\ call'[c].step \in {"unlock", "write"}
  BY <1>1, DecideFact
<1>3. Alone(c)
  BY <1>2 DEF Alone, lists, users, OnlyCallOf
<1>4. TypeOK'
  BY <1>1, <1>2 DEF TypeOK, lists, users, OnlyCallOf
<1>5. MutexInv'
  BY <1>1, <1>2, MutexKept DEF InLock
<1>6. ThreadInv'
  BY DEF IInv, ThreadInv, HasPfd, users
<1>7. Own(c)
  <2>1. CallOK(c)'
    BY <1>1, <1>2 DEF CallOK
  <2>2. ASSUME c \in Admins PROVE AdminPlace(c)'
    BY <2>2, <1>2 DEF IInv, CallersInv, AdminPlace
  <2>3. ASSUME c \in Modules PROVE ModuleOwn(c)
    BY <2>3, <1>2 DEF IInv, CallersInv, ModulePlace, ModuleOwn, users
  <2>4. ASSUME c \in Files PROVE FileOwn(c)
    <3>1. FilePlace(c)'
      BY <2>4, <1>2 DEF IInv, CallersInv, FilePlace, users
    <3>2. HasOpened(c) => file'[c].name = file[c].name /\ Kept(c)'
      BY <2>4 DEF IInv, OpenInv, Kept, HasPfd, users, lists
    <3> QED
      BY <2>4, <3>1, <3>2 DEF FileOwn
  <2> QED
    BY <2>1, <2>2, <2>3, <2>4 DEF Own
<1> QED
  BY <1>1, <1>3, <1>4, <1>5, <1>6, <1>7, QuietStep

(* What a caller's operation says about who it is. *)
LEMMA OpFact ==
  ASSUME IInv, NEW c \in Callers
  PROVE  /\ call[c].op \in {"create", "remove"} => c \in Admins
         /\ call[c].op \in {"register", "unregister"} => c \in Modules /\ call[c].name = DevName[c]
         /\ call[c].op \in {"open", "close"} => c \in Files /\ call[c].name = file[c].name
BY CallerFact DEF IInv, CallersInv, AdminPlace, ModulePlace, FilePlace

LEMMA LookCreateStep ==
  ASSUME IInv, NEW c \in Callers, call[c].step = "look", LookCreate(c),
         UNCHANGED <<state, lists, mutex, users>>
  PROVE  IInv'
<1> DEFINE slot == IF FindDevice(call[c].name) # Nothing THEN Nothing ELSE FreeDevice
<1>1. slot \in Slots \cup {Nothing} /\ Decide(c, slot, FALSE) /\ call[c].op = "create"
  BY FreeFact DEF LookCreate
<1>2. slot # Nothing => devlist[slot] = Nothing /\ \A s \in Slots : devlist[s] # call[c].name
  BY FreeFact, FindDeviceFact
<1> HIDE DEF slot
<1>3. TypeOK
  BY DEF IInv
<1>4. Found(c)'
  BY <1>1, <1>2, <1>3, DecideFact DEF Found, lists
<1> QED
  BY <1>1, <1>4, OpFact, CallerFact, DecideStep

LEMMA LookRemoveStep ==
  ASSUME IInv, NEW c \in Callers, call[c].step = "look", LookRemove(c),
         UNCHANGED <<state, lists, mutex, users>>
  PROVE  IInv'
<1> DEFINE slot == IF FindCallbacks(call[c].name) # Nothing THEN Nothing ELSE FindDevice(call[c].name)
<1>1. slot \in Slots \cup {Nothing} /\ Decide(c, slot, FALSE) /\ call[c].op = "remove"
  BY FindDeviceFact DEF LookRemove
<1>2. slot # Nothing => devlist[slot] = call[c].name /\ \A s \in Slots : cblist[s].name # call[c].name
  BY FindCallbacksFact, FindDeviceFact
<1> HIDE DEF slot
<1>3. TypeOK
  BY DEF IInv
<1>4. Found(c)'
  BY <1>1, <1>2, <1>3, DecideFact DEF Found, lists
<1> QED
  BY <1>1, <1>4, OpFact, CallerFact, DecideStep

LEMMA LookRegisterStep ==
  ASSUME IInv, NEW c \in Callers, call[c].step = "look", LookRegister(c),
         UNCHANGED <<state, lists, mutex, users>>
  PROVE  IInv'
<1> DEFINE slot == IF FindCallbacks(call[c].name) # Nothing \/ FindDevice(call[c].name) = Nothing
                   THEN Nothing ELSE FreeCallbacks
<1>1. slot \in Slots \cup {Nothing} /\ Decide(c, slot, FALSE) /\ call[c].op = "register"
  BY FreeFact DEF LookRegister
<1>2. slot # Nothing => /\ cblist[slot].name = Nothing
                        /\ \A s \in Slots : cblist[s].name # call[c].name
                        /\ \E s \in Slots : devlist[s] = call[c].name
  BY FindCallbacksFact, FindDeviceFact, FreeFact
<1> HIDE DEF slot
<1>3. TypeOK /\ CallOK(c) /\ c \in Modules
  BY <1>1, OpFact DEF IInv, CallersInv
<1>4. Found(c)'
  BY <1>1, <1>2, <1>3, DecideFact DEF Found, lists
<1>5. ASSUME NEW s \in Slots, cblist[s].hlr = c PROVE Owned(s)'
  BY <1>1, <1>3, <1>5, DecideFact DEF IInv, ListsInv, Owned, CallOK, lists, users
<1> QED
  BY <1>1, <1>3, <1>4, <1>5, CallerFact, DecideStep

LEMMA LookUnregisterStep ==
  ASSUME IInv, NEW c \in Callers, call[c].step = "look", LookUnregister(c),
         UNCHANGED <<state, lists, mutex, users>>
  PROVE  IInv'
<1> DEFINE found == FindCallbacks(call[c].name)
           slot == IF found = Nothing \/ cblist[found].open THEN Nothing ELSE found
           ok == found = Nothing
<1>1. slot \in Slots \cup {Nothing} /\ ok \in BOOLEAN /\ Decide(c, slot, ok) /\ call[c].op = "unregister"
  BY FindCallbacksFact DEF LookUnregister
<1>2. slot # Nothing => cblist[slot].name = call[c].name /\ ~cblist[slot].open
  BY FindCallbacksFact
<1>3. ok => \A s \in Slots : cblist[s].name # call[c].name
  BY FindCallbacksFact
<1> HIDE DEF slot, ok
<1>4. TypeOK /\ CallOK(c) /\ c \in Modules /\ call[c].name = DevName[c]
  BY <1>1, OpFact DEF IInv, CallersInv
<1>5. Found(c)'
  BY <1>1, <1>2, <1>4, DecideFact DEF Found, lists
<1>6. ASSUME NEW s \in Slots, cblist[s].hlr = c PROVE Owned(s)'
  BY <1>1, <1>3, <1>4, <1>6, DecideFact DEF IInv, ListsInv, Owned, lists, users
<1> QED
  BY <1>1, <1>4, <1>5, <1>6, CallerFact, DecideStep

LEMMA LookOpenStep ==
  ASSUME IInv, NEW c \in Callers, call[c].step = "look", LookOpen(c),
         UNCHANGED <<state, lists, mutex, users>>
  PROVE  IInv'
<1> DEFINE found == FindCallbacks(call[c].name)
           ok == found # Nothing /\ ~cblist[found].open
<1>1. found \in Slots \cup {Nothing} /\ ok \in BOOLEAN /\ Decide(c, found, ok) /\ call[c].op = "open"
  BY FindCallbacksFact DEF LookOpen
<1>2. found # Nothing => cblist[found].name = call[c].name /\ (ok <=> ~cblist[found].open)
  BY FindCallbacksFact
<1>3. ok => found # Nothing
  OBVIOUS
<1> HIDE DEF found, ok
<1>4. TypeOK /\ CallOK(c) /\ c \in Files
  BY <1>1, OpFact DEF IInv, CallersInv
<1>5. Found(c)'
  BY <1>1, <1>2, <1>3, <1>4, DecideFact, NamesFact DEF Found, lists
<1>6. HasOpened(c)' <=> HasOpened(c)
  BY <1>1, <1>3, <1>4, DecideFact DEF HasOpened, CallOK, users
<1> QED
  BY <1>1, <1>4, <1>5, <1>6, CallerFact, DecideStep

LEMMA LookCloseStep ==
  ASSUME IInv, NEW c \in Callers, call[c].step = "look", LookClose(c),
         UNCHANGED <<state, lists, mutex, users>>
  PROVE  IInv'
<1> DEFINE found == FindCallbacks(call[c].name)
<1>1. found \in Slots \cup {Nothing} /\ Decide(c, found, TRUE) /\ call[c].op = "close"
  BY FindCallbacksFact DEF LookClose
<1>2. found # Nothing => cblist[found].name = call[c].name
  BY FindCallbacksFact
<1>3. TypeOK /\ CallOK(c) /\ c \in Files /\ call[c].name = file[c].name
  BY <1>1, OpFact DEF IInv, CallersInv
<1>4. HasOpened(c)
  BY <1>1 DEF HasOpened
<1>5. found # Nothing
  BY <1>3, <1>4, FindCallbacksFact DEF IInv, OpenInv, Kept
<1> HIDE DEF found
<1>6. Found(c)'
  BY <1>1, <1>2, <1>3, <1>5, DecideFact, NamesFact DEF Found, lists
<1>7. HasOpened(c)'
  BY <1>1, <1>3, <1>5, DecideFact DEF HasOpened, users
<1> QED
  BY <1>1, <1>3, <1>4, <1>6, <1>7, CallerFact, DecideStep

LEMMA LookStep ==
  ASSUME IInv, NEW c \in Callers, Look(c)
  PROVE  IInv'
BY LookCreateStep, LookRemoveStep, LookRegisterStep, LookUnregisterStep, LookOpenStep, LookCloseStep
   DEF Look

--------------------------------------------------------------------------------
(* Administrators.                                                            *)

LEMMA AdminBeginsStep ==
  ASSUME IInv, Orderly, NEW a \in Admins, AdminBegins(a)
  PROVE  IInv'
<1>1. TypeOK /\ MutexInv /\ a \in Callers /\ a \notin Modules /\ a \notin Files
  BY CallerFact DEF IInv, Callers
<1>2. state = "loaded"
  BY DEF AdminBegins, SysfsReady, Orderly
<1>3. PICK op \in {"create", "remove"}, name \in Names : Begin(a, op, name)
  BY DEF AdminBegins
<1>4. /\ OnlyCallOf(a)
      /\ call'[a].op = op /\ call'[a].name = name /\ call'[a].step = "lock" /\ ~call'[a].ok
  BY <1>1, <1>3, BeginFact DEF Ops
<1>5. Alone(a)
  BY <1>4 DEF Alone, AdminBegins, lists, users, OnlyCallOf
<1>6. TypeOK'
  BY <1>1, <1>4 DEF TypeOK, AdminBegins, lists, users, OnlyCallOf
<1>7. MutexInv'
  BY <1>1, <1>4, MutexKept DEF InLock, AdminBegins
<1>8. ThreadInv'
  BY DEF IInv, ThreadInv, HasPfd, AdminBegins, users
<1>9. Own(a)
  BY <1>1, <1>4 DEF Own, CallOK, Found, AdminPlace
<1> QED
  BY <1>1, <1>2, <1>5, <1>6, <1>7, <1>8, <1>9, QuietStep

LEMMA AdminReturnsStep ==
  ASSUME IInv, NEW a \in Admins, AdminReturns(a)
  PROVE  IInv'
<1>1. TypeOK /\ MutexInv /\ a \in Callers /\ a \notin Modules /\ a \notin Files
  BY CallerFact DEF IInv, Callers
<1>2. state = "loaded"
  BY <1>1, LoadedFact DEF AdminReturns
<1>3. /\ OnlyCallOf(a)
      /\ call'[a].op = "none" /\ call'[a].step = "idle" /\ ~call'[a].ok
  BY <1>1, ReturnFact DEF AdminReturns, NoCall
<1>4. Alone(a)
  BY <1>3 DEF Alone, AdminReturns, lists, users, OnlyCallOf
<1>5. TypeOK'
  BY <1>1, <1>3 DEF TypeOK, AdminReturns, lists, users, OnlyCallOf
<1>6. MutexInv'
  BY <1>1, <1>3, MutexKept DEF InLock, AdminReturns
<1>7. ThreadInv'
  BY DEF IInv, ThreadInv, HasPfd, AdminReturns, users
<1>8. Own(a)
  BY <1>1, <1>3 DEF Own, CallOK, Found, AdminPlace
<1> QED
  BY <1>1, <1>2, <1>4, <1>5, <1>6, <1>7, <1>8, QuietStep

--------------------------------------------------------------------------------
(* Kernel modules.                                                            *)

(* Of a module's step only its call and its place are new. *)
LEMMA ModuleStep ==
  ASSUME IInv, state = "loaded", NEW m \in Modules, OnlyCallOf(m),
         NEW place \in {"out", "init", "in", "exit"}, module' = [module EXCEPT ![m] = place],
         UNCHANGED <<state, lists, mutex, file, thread, refs>>,
         InLock(m)' <=> InLock(m), CallOK(m)', Found(m)', ModulePlace(m)',
         \A s \in Slots : cblist[s].hlr = m => Owned(s)'
  PROVE  IInv'
<1>1. TypeOK /\ MutexInv /\ m \in Callers /\ m \notin Admins /\ m \notin Files
  BY CallerFact DEF IInv, Callers
<1>2. Alone(m)
  BY <1>1 DEF Alone, lists, OnlyCallOf, TypeOK
<1>3. TypeOK'
  BY <1>1 DEF TypeOK, lists, OnlyCallOf
<1>4. MutexInv'
  BY <1>1, MutexKept
<1>5. ThreadInv'
  BY DEF IInv, ThreadInv, HasPfd
<1>6. Own(m)
  BY <1>1 DEF Own, ModuleOwn
<1> QED
  BY <1>1, <1>2, <1>3, <1>4, <1>5, <1>6, QuietStep

LEMMA ModuleInitStep ==
  ASSUME IInv, NEW m \in Modules, ModuleInit(m)
  PROVE  IInv'
<1>1. TypeOK /\ m \in Callers /\ ModulePlace(m) /\ CallOK(m) /\ DevName[m] \in Names
  BY DevNameAssumption DEF IInv, CallersInv, Callers
<1>2. /\ OnlyCallOf(m)
      /\ call'[m].op = "register" /\ call'[m].name = DevName[m] /\ call'[m].step = "lock" /\ ~call'[m].ok
  BY <1>1, BeginFact DEF ModuleInit, Ops
<1>3. module' = [module EXCEPT ![m] = "init"] /\ module'[m] = "init" /\ module[m] = "out"
  BY <1>1 DEF ModuleInit, TypeOK
<1>4. ~InLock(m) /\ ~InLock(m)'
  BY <1>1, <1>2, <1>3 DEF InLock, CallOK, ModulePlace
<1>5. CallOK(m)' /\ Found(m)' /\ ModulePlace(m)'
  BY <1>1, <1>2, <1>3 DEF CallOK, Found, ModulePlace
<1>6. ASSUME NEW s \in Slots, cblist[s].hlr = m PROVE Owned(s)'
  BY <1>3, <1>6 DEF IInv, ListsInv, Owned, ModuleInit, lists
<1> QED
  BY <1>2, <1>3, <1>4, <1>5, <1>6, ModuleStep DEF ModuleInit

LEMMA RegisterReturnedStep ==
  ASSUME IInv, NEW m \in Modules, RegisterReturned(m)
  PROVE  IInv'
<1> DEFINE place == IF call[m].ok THEN "in" ELSE "out"
<1>1. TypeOK /\ m \in Callers /\ ModulePlace(m) /\ CallOK(m) /\ state = "loaded"
  BY LoadedFact DEF IInv, CallersInv, Callers, RegisterReturned, Returned
<1>2. OnlyCallOf(m) /\ call'[m] = NoCall
  BY <1>1, ReturnFact DEF RegisterReturned
<1>3. module' = [module EXCEPT ![m] = place] /\ module'[m] = place
  BY <1>1 DEF RegisterReturned, TypeOK
<1>4. ~InLock(m) /\ ~InLock(m)'
  BY <1>2 DEF InLock, RegisterReturned, Returned, NoCall
<1>5. CallOK(m)' /\ Found(m)' /\ ModulePlace(m)'
  BY <1>1, <1>2, <1>3 DEF CallOK, Found, ModulePlace, NoCall
<1>6. ASSUME NEW s \in Slots, cblist[s].hlr = m PROVE Owned(s)'
  BY <1>2, <1>3, <1>6 DEF IInv, ListsInv, Owned, RegisterReturned, Returned, lists, NoCall
<1> QED
  BY <1>1, <1>2, <1>3, <1>4, <1>5, <1>6, ModuleStep DEF RegisterReturned

LEMMA ModuleExitStep ==
  ASSUME IInv, NEW m \in Modules, ModuleExit(m)
  PROVE  IInv'
<1>1. TypeOK /\ m \in Callers /\ ModulePlace(m) /\ CallOK(m) /\ DevName[m] \in Names
  BY DevNameAssumption DEF IInv, CallersInv, Callers
<1>2. /\ OnlyCallOf(m)
      /\ call'[m].op = "unregister" /\ call'[m].name = DevName[m] /\ call'[m].step = "lock" /\ ~call'[m].ok
  BY <1>1, BeginFact DEF ModuleExit, Ops
<1>3. module' = [module EXCEPT ![m] = "exit"] /\ module'[m] = "exit" /\ module[m] = "in"
  BY <1>1 DEF ModuleExit, TypeOK
<1>4. ~InLock(m) /\ ~InLock(m)' /\ state = "loaded"
  BY <1>1, <1>2, <1>3 DEF InLock, CallOK, ModulePlace, IInv, LoadInv
<1>5. CallOK(m)' /\ Found(m)' /\ ModulePlace(m)'
  BY <1>1, <1>2, <1>3 DEF CallOK, Found, ModulePlace
<1>6. ASSUME NEW s \in Slots, cblist[s].hlr = m PROVE Owned(s)'
  BY <1>2, <1>3, <1>6 DEF IInv, ListsInv, Owned, ModuleExit, lists
<1> QED
  BY <1>2, <1>3, <1>4, <1>5, <1>6, ModuleStep DEF ModuleExit

LEMMA UnregisterReturnedStep ==
  ASSUME IInv, NEW m \in Modules, UnregisterReturned(m)
  PROVE  IInv'
<1>1. TypeOK /\ m \in Callers /\ ModulePlace(m) /\ CallOK(m) /\ state = "loaded" /\ DevName[m] \in Names
  BY LoadedFact, DevNameAssumption DEF IInv, CallersInv, Callers, UnregisterReturned, Returned
<1>2. call[m].op = "unregister" /\ call[m].step = "done" /\ module[m] = "exit"
  BY <1>1 DEF UnregisterReturned, Returned, ModulePlace
<1>3. CASE call[m].ok
  <2>1. OnlyCallOf(m) /\ call'[m] = NoCall
    BY <1>1, <1>3, ReturnFact DEF UnregisterReturned
  <2>2. module' = [module EXCEPT ![m] = "out"] /\ module'[m] = "out"
    BY <1>1, <1>3 DEF UnregisterReturned, TypeOK
  <2>3. ~InLock(m) /\ ~InLock(m)'
    BY <1>2, <2>1 DEF InLock, NoCall
  <2>4. CallOK(m)' /\ Found(m)' /\ ModulePlace(m)'
    BY <1>1, <2>1, <2>2 DEF CallOK, Found, ModulePlace, NoCall
  <2>5. ASSUME NEW s \in Slots, cblist[s].hlr = m PROVE Owned(s)'
    BY <1>2, <1>3, <2>5 DEF IInv, ListsInv, Owned, UnregisterReturned, lists
  <2> QED
    BY <1>1, <2>1, <2>2, <2>3, <2>4, <2>5, ModuleStep DEF UnregisterReturned
<1>4. CASE ~call[m].ok
  <2>1. /\ OnlyCallOf(m)
        /\ call'[m].op = "unregister" /\ call'[m].name = DevName[m] /\ call'[m].step = "lock" /\ ~call'[m].ok
    BY <1>1, <1>4, BeginFact DEF UnregisterReturned, Ops
  <2>2. module' = module /\ module' = [module EXCEPT ![m] = "exit"]
    BY <1>1, <1>2, <1>4 DEF UnregisterReturned, TypeOK
  <2>3. ~InLock(m) /\ ~InLock(m)'
    BY <1>2, <2>1 DEF InLock
  <2>4. CallOK(m)' /\ Found(m)' /\ ModulePlace(m)'
    BY <1>1, <1>2, <2>1, <2>2 DEF CallOK, Found, ModulePlace
  <2>5. ASSUME NEW s \in Slots, cblist[s].hlr = m PROVE Owned(s)'
    BY <1>2, <2>1, <2>2, <2>5 DEF IInv, ListsInv, Owned, UnregisterReturned, lists
  <2> QED
    BY <1>1, <2>1, <2>2, <2>3, <2>4, <2>5, ModuleStep DEF UnregisterReturned
<1> QED
  BY <1>3, <1>4

--------------------------------------------------------------------------------
(* Files.                                                                     *)

(* What is left of a file's step. *)
LEMMA FileStep ==
  ASSUME IInv, state = "loaded", NEW f \in Files, OnlyCallOf(f),
         UNCHANGED <<state, lists, mutex, module>>,
         file' \in [Files -> FileRecord], \A g \in Files \ {f} : file'[g] = file[g],
         thread' \in [Files -> {"none", "created", "running", "handler", "exited"}],
         InLock(f)' <=> InLock(f), CallOK(f)', Found(f)', FileOwn(f),
         ThreadInv', refs' \in Nat
  PROVE  IInv'
<1>1. TypeOK /\ MutexInv /\ f \in Callers /\ f \notin Admins /\ f \notin Modules
  BY CallerFact DEF IInv, Callers
<1>2. Alone(f)
  BY <1>1 DEF Alone, lists, OnlyCallOf
<1>3. TypeOK'
  BY <1>1 DEF TypeOK, lists, OnlyCallOf
<1>4. MutexInv'
  BY <1>1, MutexKept
<1>5. Own(f)
  BY <1>1 DEF Own
<1> QED
  BY <1>1, <1>2, <1>3, <1>4, <1>5, QuietStep

(* Threads and references as they were. *)
LEMMA ThreadKept ==
  ASSUME ThreadInv, UNCHANGED <<thread, refs>>, NEW f \in Files,
         \A g \in Files \ {f} : file'[g] = file[g],
         HasPfd(f)' <=> HasPfd(f), file'[f].maps >= file[f].maps \/ thread[f] = "none",
         file'[f].maps \in Nat, file[f].maps \in Nat
  PROVE  ThreadInv'
<1>1. \A g \in Files : HasPfd(g)' <=> HasPfd(g)
  BY DEF HasPfd
<1>2. {g \in Files : HasPfd(g)}' = {g \in Files : HasPfd(g)}
  BY <1>1
<1>3. \A g \in Files : HasPfd(g)' <=> thread'[g] # "none"
  BY <1>1 DEF ThreadInv
<1>4. ASSUME NEW g \in Files, thread'[g] \in {"running", "handler"} PROVE file'[g].maps > 0
  <2>1. CASE g = f
    BY <1>4, <2>1 DEF ThreadInv
  <2>2. CASE g # f
    BY <1>4, <2>2 DEF ThreadInv
  <2> QED
    BY <2>1, <2>2
<1> QED
  BY <1>2, <1>3, <1>4 DEF ThreadInv

LEMMA FileFact ==
  ASSUME IInv, NEW f \in Files
  PROVE  /\ TypeOK /\ ThreadInv /\ f \in Callers
         /\ CallOK(f) /\ Found(f) /\ FilePlace(f) /\ Kept(f)
         /\ file[f] \in FileRecord /\ file[f].maps \in Nat
BY DEF IInv, CallersInv, OpenInv, TypeOK, FileRecord, Callers

LEMMA OpenBeginsStep ==
  ASSUME IInv, NEW f \in Files, OpenBegins(f)
  PROVE  IInv'
<1> USE FileFact
<1>1. PICK name \in chrdevs :
        /\ file' = [file EXCEPT ![f].state = "opening", ![f].name = name]
        /\ Begin(f, "open", name)
  BY DEF OpenBegins
<1>2. name \in Names /\ state = "loaded"
  BY NamesFact DEF IInv, TypeOK, ListsInv, DevicesListed, LoadInv, DevicesFree
<1>3. /\ OnlyCallOf(f)
      /\ call'[f].op = "open" /\ call'[f].name = name /\ call'[f].step = "lock" /\ ~call'[f].ok
  BY <1>1, <1>2, BeginFact DEF Ops
<1>4. /\ file' \in [Files -> FileRecord] /\ \A g \in Files \ {f} : file'[g] = file[g]
      /\ file'[f].state = "opening" /\ file'[f].name = name
      /\ file'[f].maps = file[f].maps /\ file'[f].mapping = file[f].mapping
      /\ file[f].state = "closed"
  <2> DEFINE r == [file[f] EXCEPT !.state = "opening", !.name = name]
  <2>1. r \in FileRecord /\ r.state = "opening" /\ r.name = name
         /\ r.maps = file[f].maps /\ r.mapping = file[f].mapping
    BY <1>2 DEF FileRecord
  <2>2. file \in [Files -> FileRecord] /\ file' = [file EXCEPT ![f] = r]
    BY <1>1 DEF TypeOK
  <2> HIDE DEF r
  <2> QED
    BY <2>1, <2>2 DEF OpenBegins
<1>5. ~InLock(f) /\ ~InLock(f)' /\ ~HasOpened(f) /\ ~HasOpened(f)' /\ ~HasPfd(f) /\ ~HasPfd(f)'
  BY <1>3, <1>4 DEF InLock, CallOK, FilePlace, HasOpened, HasPfd
<1>6. CallOK(f)' /\ Found(f)' /\ FilePlace(f)'
  BY <1>2, <1>3, <1>4 DEF CallOK, Found, FilePlace
<1>7. ThreadInv'
  BY <1>4, <1>5, ThreadKept DEF OpenBegins
<1> QED
  BY <1>2, <1>3, <1>4, <1>5, <1>6, <1>7, FileStep DEF FileOwn, OpenBegins, TypeOK

LEMMA OpenRefusedStep ==
  ASSUME IInv, NEW f \in Files, OpenRefused(f)
  PROVE  IInv'
<1> USE FileFact
<1>1. call[f].op = "open" /\ call[f].step = "done" /\ ~call[f].ok /\ file[f].state = "opening"
      /\ state = "loaded"
  BY LoadedFact DEF OpenRefused, Returned, FilePlace
<1>2. OnlyCallOf(f) /\ call'[f] = NoCall
  BY ReturnFact DEF OpenRefused
<1>3. /\ file' \in [Files -> FileRecord] /\ \A g \in Files \ {f} : file'[g] = file[g]
      /\ file'[f] = NoFile
  BY DEF TypeOK, FileRecord, OpenRefused, NoFile
<1>4. ~InLock(f) /\ ~InLock(f)' /\ ~HasOpened(f) /\ ~HasOpened(f)' /\ ~HasPfd(f) /\ ~HasPfd(f)'
  BY <1>1, <1>2, <1>3 DEF InLock, HasOpened, HasPfd, NoCall, NoFile
<1>5. CallOK(f)' /\ Found(f)' /\ FilePlace(f)'
  BY <1>2, <1>3 DEF CallOK, Found, FilePlace, NoCall, NoFile
<1>6. ThreadInv'
  <2>1. thread[f] = "none"
    BY <1>4 DEF ThreadInv
  <2> QED
    BY <1>3, <1>4, <2>1, ThreadKept DEF OpenRefused, NoFile
<1> QED
  BY <1>1, <1>2, <1>3, <1>4, <1>5, <1>6, FileStep DEF FileOwn, OpenRefused, TypeOK

LEMMA OpenFailedStep ==
  ASSUME IInv, NEW f \in Files, OpenFailed(f)
  PROVE  IInv'
<1> USE FileFact
<1>1. call[f].op = "open" /\ call[f].step = "done" /\ call[f].ok /\ file[f].state = "opening"
      /\ state = "loaded" /\ file[f].name \in Names
  BY LoadedFact DEF OpenFailed, Returned, FilePlace
<1>2. /\ OnlyCallOf(f)
      /\ call'[f].op = "close" /\ call'[f].name = file[f].name /\ call'[f].step = "lock" /\ ~call'[f].ok
  BY <1>1, BeginFact DEF OpenFailed, Ops
<1>3. /\ file' \in [Files -> FileRecord] /\ \A g \in Files \ {f} : file'[g] = file[g]
      /\ file'[f].state = "abandoning" /\ file'[f].name = file[f].name
      /\ file'[f].maps = file[f].maps /\ file'[f].mapping = file[f].mapping
  BY DEF TypeOK, FileRecord, OpenFailed, SetFile
<1>4. ~InLock(f) /\ ~InLock(f)' /\ HasOpened(f) /\ HasOpened(f)' /\ ~HasPfd(f) /\ ~HasPfd(f)'
  BY <1>1, <1>2, <1>3 DEF InLock, HasOpened, HasPfd
<1>5. CallOK(f)' /\ Found(f)' /\ FilePlace(f)'
  BY <1>1, <1>2, <1>3 DEF CallOK, Found, FilePlace
<1>6. ThreadInv'
  BY <1>3, <1>4, ThreadKept DEF OpenFailed
<1>7. Kept(f)'
  BY <1>3, <1>4 DEF Kept, OpenFailed, lists
<1> QED
  BY <1>1, <1>2, <1>3, <1>4, <1>5, <1>6, <1>7, FileStep DEF FileOwn, OpenFailed, TypeOK

LEMMA OpenDoneStep ==
  ASSUME IInv, NEW f \in Files, OpenDone(f)
  PROVE  IInv'
<1> USE FileFact
<1>1. call[f].op = "open" /\ call[f].step = "done" /\ call[f].ok /\ file[f].state = "opening"
      /\ state = "loaded" /\ file[f].name \in Names /\ call[f].name = file[f].name
  BY LoadedFact DEF OpenDone, Returned, FilePlace
<1>2. OnlyCallOf(f) /\ call'[f] = NoCall
  BY ReturnFact DEF OpenDone
<1>3. /\ call[f].slot \in Slots
      /\ cblist[call[f].slot].name = file[f].name
      /\ cblist[call[f].slot].hlr \in Modules \cup {Nothing}
  BY <1>1 DEF Found, TypeOK, EntryRecord
<1>4. /\ file' \in [Files -> FileRecord] /\ \A g \in Files \ {f} : file'[g] = file[g]
      /\ file'[f].state = "ready" /\ file'[f].name = file[f].name
      /\ file'[f].hlr = cblist[call[f].slot].hlr
      /\ file'[f].maps = file[f].maps /\ file'[f].mapping = file[f].mapping
  BY <1>3 DEF TypeOK, FileRecord, OpenDone
<1>5. ~InLock(f) /\ ~InLock(f)' /\ HasOpened(f) /\ HasOpened(f)' /\ ~HasPfd(f) /\ HasPfd(f)'
  BY <1>1, <1>2, <1>4 DEF InLock, HasOpened, HasPfd, NoCall
<1>6. CallOK(f)' /\ Found(f)' /\ FilePlace(f)'
  BY <1>1, <1>2, <1>4 DEF CallOK, Found, FilePlace, NoCall
<1>7. /\ thread' \in [Files -> {"none", "created", "running", "handler", "exited"}]
      /\ thread'[f] = "created" /\ \A g \in Files \ {f} : thread'[g] = thread[g]
      /\ refs' = refs + 1 /\ refs' \in Nat
  BY DEF OpenDone, TypeOK
<1>8. ThreadInv'
  <2>1. \A g \in Files \ {f} : HasPfd(g)' <=> HasPfd(g)
    BY <1>4 DEF HasPfd
  <2> DEFINE S == {g \in Files : HasPfd(g)}
  <2>2. S' = S \cup {f} /\ f \notin S
    BY <1>5, <2>1
  <2>3. IsFiniteSet(S)
    BY FilesAssumption, FS_Subset
  <2>4. refs' = Cardinality(S')
    <3> HIDE DEF S
    <3>1. Cardinality(S \cup {f}) = Cardinality(S) + 1
      BY <2>2, <2>3, FS_AddElement
    <3>2. refs = Cardinality(S)
      BY DEF ThreadInv, S
    <3> QED
      BY <1>7, <2>2, <3>1, <3>2
  <2> QED
    BY <1>4, <1>5, <1>7, <2>1, <2>4 DEF ThreadInv
<1>9. Kept(f)'
  BY <1>3, <1>4 DEF Kept, OpenDone, lists
<1> QED
  BY <1>1, <1>2, <1>4, <1>5, <1>6, <1>7, <1>8, <1>9, FileStep DEF FileOwn, OpenDone

LEMMA CloseBeginsStep ==
  ASSUME IInv, NEW f \in Files, CloseBegins(f)
  PROVE  IInv'
<1> USE FileFact
<1>1. file[f].state = "ready" /\ file[f].name \in Names /\ state = "loaded"
      /\ call[f].op = "none" /\ call[f].step = "idle"
  BY DEF CloseBegins, FilePlace, CallOK, IInv, LoadInv
<1>2. /\ OnlyCallOf(f)
      /\ call'[f].op = "close" /\ call'[f].name = file[f].name /\ call'[f].step = "lock" /\ ~call'[f].ok
  BY <1>1, BeginFact DEF CloseBegins, Ops
<1>3. /\ file' \in [Files -> FileRecord] /\ \A g \in Files \ {f} : file'[g] = file[g]
      /\ file'[f].state = "closing" /\ file'[f].name = file[f].name
      /\ file'[f].hlr = file[f].hlr /\ file'[f].maps = file[f].maps
      /\ file'[f].mapping = {}
  BY DEF TypeOK, FileRecord, CloseBegins, SetFile
<1>4. ~InLock(f) /\ ~InLock(f)' /\ HasOpened(f) /\ HasOpened(f)' /\ HasPfd(f) /\ HasPfd(f)'
  BY <1>1, <1>2, <1>3 DEF InLock, HasOpened, HasPfd
<1>5. CallOK(f)' /\ Found(f)' /\ FilePlace(f)'
  BY <1>1, <1>2, <1>3 DEF CallOK, Found, FilePlace
<1>6. ThreadInv'
  BY <1>3, <1>4, ThreadKept DEF CloseBegins
<1>7. Kept(f)'
  BY <1>3, <1>4 DEF Kept, CloseBegins, lists
<1> QED
  BY <1>1, <1>2, <1>3, <1>4, <1>5, <1>6, <1>7, FileStep DEF FileOwn, CloseBegins, TypeOK

LEMMA CloseReturnedStep ==
  ASSUME IInv, NEW f \in Files, CloseReturned(f)
  PROVE  IInv'
<1> USE FileFact
<1>1. call[f].op = "close" /\ call[f].step = "done" /\ state = "loaded" /\ ~HasOpened(f)
  BY LoadedFact DEF CloseReturned, Returned, FilePlace, HasOpened
<1>2. OnlyCallOf(f) /\ call'[f] = NoCall
  BY ReturnFact DEF CloseReturned
<1>3. ~InLock(f) /\ ~InLock(f)'
  BY <1>1, <1>2 DEF InLock, NoCall
<1>4. CASE file[f].state = "abandoning"
  <2>1. /\ file' \in [Files -> FileRecord] /\ \A g \in Files \ {f} : file'[g] = file[g]
        /\ file'[f] = NoFile
    <3>1. file \in [Files -> FileRecord] /\ NoFile \in FileRecord
      BY DEF TypeOK, NoFile, FileRecord
    <3>2. file' = [file EXCEPT ![f] = NoFile]
      BY <1>4 DEF CloseReturned
    <3> QED
      BY <3>1, <3>2
  <2>2. ~HasOpened(f)' /\ ~HasPfd(f) /\ ~HasPfd(f)'
    BY <1>2, <1>4, <2>1 DEF HasOpened, HasPfd, NoCall, NoFile
  <2>3. CallOK(f)' /\ Found(f)' /\ FilePlace(f)'
    BY <1>2, <2>1 DEF CallOK, Found, FilePlace, NoCall, NoFile
  <2>4. ThreadInv'
    <3>1. thread[f] = "none"
      BY <2>2 DEF ThreadInv
    <3> QED
      BY <2>1, <2>2, <3>1, ThreadKept DEF CloseReturned, NoFile
  <2> QED
    BY <1>1, <1>2, <1>3, <2>1, <2>2, <2>3, <2>4, FileStep DEF FileOwn, CloseReturned, TypeOK
<1>5. CASE file[f].state = "closing"
  <2>1. /\ file' \in [Files -> FileRecord] /\ \A g \in Files \ {f} : file'[g] = file[g]
        /\ file'[f].state = "stopping" /\ file'[f].name = file[f].name
        /\ file'[f].maps = file[f].maps /\ file'[f].mapping = file[f].mapping
    <3>1. file' = [file EXCEPT ![f].state = "stopping"]
      BY <1>5 DEF CloseReturned, SetFile
    <3> QED
      BY <3>1 DEF TypeOK, FileRecord
  <2>2. ~HasOpened(f)' /\ HasPfd(f) /\ HasPfd(f)'
    BY <1>2, <1>5, <2>1 DEF HasOpened, HasPfd, NoCall
  <2>3. CallOK(f)' /\ Found(f)' /\ FilePlace(f)'
    BY <1>2, <1>5, <2>1 DEF CallOK, Found, FilePlace, NoCall
  <2>4. ThreadInv'
    BY <2>1, <2>2, ThreadKept DEF CloseReturned
  <2> QED
    BY <1>1, <1>2, <1>3, <2>1, <2>2, <2>3, <2>4, FileStep DEF FileOwn, CloseReturned, TypeOK
<1> QED
  BY <1>4, <1>5 DEF CloseReturned

(* Steps of a mapping and of the thread: the calls are as they were, and the  *)
(* file is where it was.                                                      *)
LEMMA HandlingStep ==
  ASSUME IInv, NEW f \in Files, thread[f] # "none" \/ HasPfd(f),
         UNCHANGED <<state, lists, mutex, call, module, refs>>,
         file' \in [Files -> FileRecord], \A g \in Files \ {f} : file'[g] = file[g],
         file'[f].state = file[f].state, file'[f].name = file[f].name, file'[f].hlr = file[f].hlr,
         file'[f].mapping = file[f].mapping \/ file[f].state = "ready",
         thread' \in [Files -> {"none", "created", "running", "handler", "exited"}],
         \A g \in Files \ {f} : thread'[g] = thread[g], thread'[f] # "none",
         thread'[f] \in {"running", "handler"} => file'[f].maps > 0
  PROVE  IInv'
<1> USE FileFact
<1>1. HasPfd(f) /\ state = "loaded" /\ OnlyCallOf(f) /\ refs' \in Nat
  BY DEF ThreadInv, HasPfd, IInv, LoadInv, OnlyCallOf, TypeOK
<1>2. InLock(f)' <=> InLock(f)
  BY DEF InLock
<1>3. CallOK(f)' /\ Found(f)' /\ FilePlace(f)'
  BY DEF CallOK, Found, FilePlace, lists
<1>4. \A g \in Files : HasPfd(g)' <=> HasPfd(g)
  BY DEF HasPfd
<1>5. ThreadInv'
  <2>1. {g \in Files : HasPfd(g)}' = {g \in Files : HasPfd(g)}
    BY <1>4
  <2> QED
    BY <1>1, <1>4, <2>1 DEF ThreadInv
<1>6. FileOwn(f)
  BY <1>3, <1>4 DEF FileOwn, HasOpened, Kept, lists
<1> QED
  BY <1>1, <1>2, <1>3, <1>5, <1>6, FileStep

(* A file that a process is mapping has a pfd.                                *)
LEMMA MappingStep ==
  ASSUME IInv, NEW f \in Files, NEW p \in Sharers, MmapBegins(f, p) \/ MmapFails(f, p) \/ MmapDone(f, p)
  PROVE  IInv'
<1> USE FileFact
<1>1. thread[f] # "none" /\ file[f].state = "ready" /\ thread \in [Files -> {"none", "created", "running", "handler", "exited"}]
  BY DEF ThreadInv, TypeOK, FilePlace, HasPfd, MmapBegins, MmapFails, MmapDone
<1>2. CASE MmapBegins(f, p)
  <2>1. /\ file' \in [Files -> FileRecord] /\ \A g \in Files \ {f} : file'[g] = file[g]
        /\ file'[f].state = file[f].state /\ file'[f].name = file[f].name
        /\ file'[f].hlr = file[f].hlr /\ file'[f].maps = file[f].maps
    BY <1>2 DEF TypeOK, FileRecord, MmapBegins
  <2> QED
    BY <1>1, <1>2, <2>1, HandlingStep DEF MmapBegins, ThreadInv
<1>3. CASE MmapFails(f, p)
  <2>1. /\ file' \in [Files -> FileRecord] /\ \A g \in Files \ {f} : file'[g] = file[g]
        /\ file'[f].state = file[f].state /\ file'[f].name = file[f].name
        /\ file'[f].hlr = file[f].hlr /\ file'[f].maps = file[f].maps
    BY <1>3 DEF TypeOK, FileRecord, MmapFails
  <2> QED
    BY <1>1, <1>3, <2>1, HandlingStep DEF MmapFails, ThreadInv
<1>4. CASE MmapDone(f, p)
  <2>1. /\ file' \in [Files -> FileRecord] /\ \A g \in Files \ {f} : file'[g] = file[g]
        /\ file'[f].state = file[f].state /\ file'[f].name = file[f].name
        /\ file'[f].hlr = file[f].hlr /\ file'[f].maps = file[f].maps + 1
    BY <1>4 DEF TypeOK, FileRecord, MmapDone
  <2>2. /\ thread' \in [Files -> {"none", "created", "running", "handler", "exited"}]
        /\ \A g \in Files \ {f} : thread'[g] = thread[g]
        /\ thread'[f] # "none"
    BY <1>1, <1>4 DEF MmapDone
  <2>3. file'[f].maps > 0
    BY <2>1
  <2>4. UNCHANGED <<state, lists, mutex, call, module, refs>>
    BY <1>4 DEF MmapDone
  <2> QED
    BY <1>1, <2>1, <2>2, <2>3, <2>4, HandlingStep
<1> QED
  BY <1>2, <1>3, <1>4

LEMMA ThreadStep ==
  ASSUME IInv, NEW f \in Files, PassBegins(f) \/ PassEnds(f) \/ ThreadExits(f)
  PROVE  IInv'
<1> USE FileFact
<1> USE DEF PassBegins, PassEnds, ThreadExits
<1>1. thread \in [Files -> {"none", "created", "running", "handler", "exited"}] /\ thread[f] # "none"
  BY DEF TypeOK
<1>2. /\ thread' \in [Files -> {"none", "created", "running", "handler", "exited"}]
      /\ \A g \in Files \ {f} : thread'[g] = thread[g] /\ thread'[f] # "none"
      /\ thread'[f] \in {"running", "handler"} => thread[f] \in {"running", "handler"}
  BY <1>1
<1>3. file' \in [Files -> FileRecord] /\ file' = file
  BY DEF TypeOK
<1> QED
  BY <1>1, <1>2, <1>3, HandlingStep DEF ThreadInv

LEMMA ReleasedStep ==
  ASSUME IInv, NEW f \in Files, Released(f)
  PROVE  IInv'
<1> USE FileFact
<1>1. /\ file[f].state = "stopping" /\ state = "loaded" /\ OnlyCallOf(f)
      /\ call[f].op = "none" /\ call'[f] = call[f]
  BY DEF Released, FilePlace, IInv, LoadInv, OnlyCallOf, TypeOK
<1>2. /\ file' \in [Files -> FileRecord] /\ \A g \in Files \ {f} : file'[g] = file[g]
      /\ file'[f] = NoFile
  <2>1. file \in [Files -> FileRecord] /\ NoFile \in FileRecord
    BY DEF TypeOK, NoFile, FileRecord
  <2> QED
    BY <2>1 DEF Released
<1>3. /\ thread' \in [Files -> {"none", "created", "running", "handler", "exited"}]
      /\ \A g \in Files \ {f} : thread'[g] = thread[g]
      /\ thread'[f] = "none" /\ refs' = refs - 1
  BY DEF Released, TypeOK
<1>4. HasPfd(f) /\ ~HasPfd(f)' /\ ~HasOpened(f) /\ ~HasOpened(f)'
  BY <1>1, <1>2 DEF HasPfd, HasOpened, NoFile
<1>5. CallOK(f)' /\ Found(f)' /\ FilePlace(f)' /\ (InLock(f)' <=> InLock(f))
  BY <1>1, <1>2 DEF CallOK, Found, FilePlace, NoFile, InLock
<1>6. ThreadInv' /\ refs' \in Nat
  <2>1. \A g \in Files \ {f} : HasPfd(g)' <=> HasPfd(g)
    BY <1>2 DEF HasPfd
  <2> DEFINE S == {g \in Files : HasPfd(g)}
  <2>2. S' = S \ {f} /\ f \in S
    BY <1>4, <2>1
  <2>3. IsFiniteSet(S)
    BY FilesAssumption, FS_Subset
  <2>4. refs' = Cardinality(S') /\ refs' \in Nat
    <3> HIDE DEF S
    <3>1. Cardinality(S \ {f}) = Cardinality(S) - 1 /\ IsFiniteSet(S \ {f})
      BY <2>2, <2>3, FS_RemoveElement
    <3>2. Cardinality(S \ {f}) \in Nat
      BY <3>1, FS_CardinalityType
    <3>3. refs = Cardinality(S)
      BY DEF ThreadInv, S
    <3> QED
      BY <1>3, <2>2, <3>1, <3>2, <3>3
  <2> QED
    BY <1>2, <1>3, <1>4, <2>1, <2>4 DEF ThreadInv
<1> QED
  BY <1>1, <1>2, <1>3, <1>4, <1>5, <1>6, FileStep DEF FileOwn, Released

--------------------------------------------------------------------------------
(* The writes to the lists.                                                   *)

(* The writer holds the mutex, so no other caller is about to write; and a    *)
(* registration that is open keeps its name.                                  *)
LEMMA WriteFrame ==
  ASSUME IInv, NEW c \in Callers, call[c].step = "write", NEW ok \in BOOLEAN, Wrote(c, ok),
         UNCHANGED <<state, mutex, users>>,
         cblist' \in [Slots -> EntryRecord], devlist' \in [Slots -> Names \cup {Nothing}],
         chrdevs' \subseteq Names,
         \A s \in Slots : cblist[s].open => cblist'[s].name = cblist[s].name,
         call[c].op = "open" /\ ok => cblist'[call[c].slot].name = call[c].name,
         OpenInv', ListsInv'
  PROVE  IInv'
<1> USE CallerFact
<1>1. TypeOK /\ MutexInv /\ state = "loaded" /\ CallOK(c) /\ Found(c)
  BY LoadedFact DEF IInv, CallersInv
<1>2. /\ OnlyCallOf(c)
      /\ call'[c].op = call[c].op /\ call'[c].name = call[c].name
      /\ call'[c].slot = call[c].slot /\ call'[c].ok = ok /\ call'[c].step = "unlock"
  BY <1>1, WroteFact
<1>3. TypeOK'
  BY <1>1, <1>2 DEF TypeOK, users, OnlyCallOf
<1>4. MutexInv'
  BY <1>1, <1>2, MutexKept DEF InLock
<1>5. ThreadInv' /\ LoadInv'
  BY <1>1 DEF IInv, ThreadInv, HasPfd, users, LoadInv
<1>6. CallersInv'
  <2>1. CallOK(c)' /\ Found(c)'
    BY <1>1, <1>2 DEF CallOK, Found
  <2>2. ASSUME NEW d \in Callers, d # c PROVE CallOK(d)' /\ Found(d)'
    <3>1. call'[d] = call[d] /\ CallOK(d) /\ Found(d)
      BY <2>2, <1>2 DEF OnlyCallOf, IInv, CallersInv
    <3>2. call[d].step \notin {"look", "write", "unlock"}
      BY <2>2, <1>1, ExclusionFact DEF InLock
    <3>3. ASSUME call[d].op = "open", call[d].ok PROVE cblist'[call[d].slot].name = call[d].name
      <4>1. d \in Files /\ HasOpened(d) /\ call[d].name = file[d].name
        BY <3>1, <3>2, <3>3, <1>1, OpFact DEF HasOpened, CallOK, TypeOK, CallRecord
      <4>2. call[d].slot \in Slots /\ cblist[call[d].slot].name = call[d].name
        BY <3>1, <3>3 DEF Found
      <4>3. cblist[call[d].slot].open
        BY <4>1, <4>2 DEF IInv, OpenInv, OpenFlagIsHeld
      <4> QED
        BY <4>2, <4>3
    <3> QED
      BY <3>1, <3>2, <3>3 DEF CallOK, Found
  <2>3. \A a \in Admins : AdminPlace(a)'
    BY <1>2 DEF IInv, CallersInv, AdminPlace, OnlyCallOf, Callers
  <2>4. ASSUME NEW m \in Modules PROVE ModulePlace(m)'
    <3>1. call'[m].op = call[m].op /\ call'[m].name = call[m].name /\ ModulePlace(m)
      BY <1>2 DEF OnlyCallOf, Callers, IInv, CallersInv
    <3> QED
      BY <3>1 DEF ModulePlace, users
  <2>5. ASSUME NEW f \in Files PROVE FilePlace(f)'
    <3>1. call'[f].op = call[f].op /\ call'[f].name = call[f].name /\ FilePlace(f)
      BY <1>2 DEF OnlyCallOf, Callers, IInv, CallersInv
    <3> QED
      BY <3>1 DEF FilePlace, users
  <2> QED
    BY <2>1, <2>2, <2>3, <2>4, <2>5 DEF CallersInv
<1> QED
  BY <1>3, <1>4, <1>5, <1>6 DEF IInv

(* What a writer knows. *)
LEMMA WriterFact ==
  ASSUME IInv, NEW c \in Callers, call[c].step = "write"
  PROVE  /\ TypeOK /\ state = "loaded" /\ CallOK(c) /\ Found(c)
         /\ call[c].name \in Names /\ call[c].slot \in Slots
         /\ ListsConsistent /\ DevicesListed /\ OneOpenPerDevice /\ OpenFlagIsHeld
         /\ \A s \in Slots : Owned(s)
         /\ \A f \in Files : Kept(f) /\ (HasOpened(f) => file[f].name \in Names)
<1>1. state = "loaded" /\ CallOK(c) /\ Found(c)
  BY LoadedFact DEF IInv, CallersInv
<1>2. \A f \in Files : HasOpened(f) => file[f].name \in Names
  BY DEF IInv, CallersInv, HasOpened, FilePlace
<1> QED
  BY <1>1, <1>2 DEF IInv, OpenInv, ListsInv, CallOK, Found

(* The files that have a device open stay the same when no file writes. *)
LEMMA OpenersKept ==
  ASSUME TypeOK, NEW c \in Callers, NEW ok \in BOOLEAN, Wrote(c, ok), UNCHANGED users,
         NEW f \in Files, f # c
  PROVE  /\ HasOpened(f)' <=> HasOpened(f)
         /\ HasPfd(f)' <=> HasPfd(f)
         /\ file'[f] = file[f]
<1>1. call'[f] = call[f]
  BY WroteFact DEF OnlyCallOf, Callers
<1> QED
  BY <1>1 DEF HasOpened, HasPfd, users

(* A device made or taken away: registrations stay as they are. *)
LEMMA DeviceWritten ==
  ASSUME IInv, NEW c \in Admins, call[c].step = "write", NEW ok \in BOOLEAN, Wrote(c, ok),
         UNCHANGED <<state, mutex, users, cblist>>,
         devlist' \in [Slots -> Names \cup {Nothing}], chrdevs' \subseteq Names,
         ListsConsistent', DevicesListed'
  PROVE  IInv'
<1>1. c \in Callers /\ c \notin Files /\ c \notin Modules
  BY CallerFact DEF Callers
<1>2. \A f \in Files : /\ HasOpened(f)' <=> HasOpened(f)
                       /\ HasPfd(f)' <=> HasPfd(f)
                       /\ file'[f] = file[f]
  BY <1>1, WriterFact, OpenersKept
<1>3. OpenInv'
  BY <1>1, <1>2, WriterFact DEF OpenInv, OneOpenPerDevice, OpenFlagIsHeld, Kept
<1>4. OnlyCallOf(c)
  BY <1>1, WriterFact, WroteFact
<1>5. ASSUME NEW s \in Slots PROVE Owned(s)'
  <2>1. cblist[s].name # Nothing => cblist[s].hlr \in Modules /\ call'[cblist[s].hlr] = call[cblist[s].hlr]
    BY <1>1, <1>4, WriterFact DEF Owned, OnlyCallOf, Callers
  <2>2. Owned(s)
    BY <1>1, WriterFact
  <2> QED
    BY <2>1, <2>2 DEF Owned, users
<1>6. ListsInv'
  BY <1>5 DEF ListsInv
<1>7. cblist' \in [Slots -> EntryRecord] /\ cblist' = cblist
  BY <1>1, WriterFact DEF TypeOK
<1>8. call[c].op # "open"
  BY <1>1, OpFact
<1> QED
  BY <1>1, <1>3, <1>6, <1>7, <1>8, WriteFrame

LEMMA WriteCreateStep ==
  ASSUME IInv, NEW c \in Callers, call[c].step = "write", WriteCreate(c),
         UNCHANGED <<state, mutex, users>>
  PROVE  IInv'
<1> USE WriterFact
<1>1. c \in Admins /\ call[c].op = "create"
  BY OpFact DEF WriteCreate
<1>2. /\ devlist \in [Slots -> Names \cup {Nothing}] /\ chrdevs \subseteq Names
      /\ call[c].name \in Names /\ call[c].slot \in Slots
      /\ devlist[call[c].slot] = Nothing /\ \A s \in Slots : devlist[s] # call[c].name
      /\ UNCHANGED cblist
  BY <1>1 DEF TypeOK, Found, WriteCreate
<1>3. CASE /\ devlist' = [devlist EXCEPT ![call[c].slot] = call[c].name]
           /\ chrdevs' = chrdevs \cup {call[c].name}
           /\ Wrote(c, TRUE)
  <2>1. /\ devlist' \in [Slots -> Names \cup {Nothing}]
        /\ devlist'[call[c].slot] = call[c].name
        /\ \A s \in Slots \ {call[c].slot} : devlist'[s] = devlist[s]
    BY <1>2, <1>3
  <2>2. ListsConsistent'
    <3>1. ASSUME NEW s \in Slots, NEW t \in Slots, s # t
          PROVE  devlist'[s] = Nothing \/ devlist'[s] # devlist'[t]
      BY <1>2, <2>1, <3>1 DEF ListsConsistent
    <3>2. ASSUME NEW s \in Slots, cblist[s].name # Nothing
          PROVE  \E t \in Slots : devlist'[t] = cblist[s].name
      <4>1. PICK t \in Slots : devlist[t] = cblist[s].name
        BY <3>2 DEF ListsConsistent
      <4>2. t # call[c].slot
        BY <4>1, <3>2, <1>2
      <4> QED
        BY <4>1, <4>2, <2>1
    <3> QED
      BY <3>1, <3>2, <1>2 DEF ListsConsistent
  <2>3. DevicesListed'
    <3>1. chrdevs = {devlist[s] : s \in Slots} \ {Nothing}
      BY DEF DevicesListed
    <3>2. {devlist'[s] : s \in Slots} \ {Nothing} = ({devlist[s] : s \in Slots} \ {Nothing}) \cup {call[c].name}
      BY <1>2, <2>1, NamesFact
    <3> QED
      BY <3>1, <3>2, <1>3 DEF DevicesListed
  <2> QED
    BY <1>1, <1>2, <1>3, <2>1, <2>2, <2>3, DeviceWritten
<1>4. CASE UNCHANGED <<devlist, chrdevs>> /\ Wrote(c, FALSE)
  <2>1. ListsConsistent' /\ DevicesListed'
    BY <1>2, <1>4 DEF ListsConsistent, DevicesListed
  <2> QED
    BY <1>1, <1>2, <1>4, <2>1, DeviceWritten
<1> QED
  BY <1>3, <1>4 DEF WriteCreate

LEMMA WriteRemoveStep ==
  ASSUME IInv, NEW c \in Callers, call[c].step = "write", WriteRemove(c),
         UNCHANGED <<state, mutex, users>>
  PROVE  IInv'
<1> USE WriterFact
<1>1. c \in Admins /\ call[c].op = "remove"
  BY OpFact DEF WriteRemove
<1>2. /\ devlist \in [Slots -> Names \cup {Nothing}] /\ chrdevs \subseteq Names
      /\ call[c].name \in Names /\ call[c].slot \in Slots
      /\ devlist[call[c].slot] = call[c].name /\ \A s \in Slots : cblist[s].name # call[c].name
      /\ UNCHANGED cblist /\ Wrote(c, TRUE)
  BY <1>1 DEF TypeOK, Found, WriteRemove
<1>3. /\ devlist' \in [Slots -> Names \cup {Nothing}]
      /\ devlist'[call[c].slot] = Nothing
      /\ \A s \in Slots \ {call[c].slot} : devlist'[s] = devlist[s]
      /\ chrdevs' = chrdevs \ {call[c].name} /\ chrdevs' \subseteq Names
  BY <1>2 DEF WriteRemove
<1>4. ListsConsistent'
  <2>1. ASSUME NEW s \in Slots, NEW t \in Slots, s # t
        PROVE  devlist'[s] = Nothing \/ devlist'[s] # devlist'[t]
    BY <1>2, <1>3, <2>1 DEF ListsConsistent
  <2>2. ASSUME NEW s \in Slots, cblist[s].name # Nothing
        PROVE  \E t \in Slots : devlist'[t] = cblist[s].name
    <3>1. PICK t \in Slots : devlist[t] = cblist[s].name
      BY <2>2 DEF ListsConsistent
    <3>2. t # call[c].slot
      BY <3>1, <1>2
    <3> QED
      BY <3>1, <3>2, <1>3
  <2> QED
    BY <2>1, <2>2, <1>2 DEF ListsConsistent
<1>5. DevicesListed'
  <2>1. chrdevs = {devlist[s] : s \in Slots} \ {Nothing}
    BY DEF DevicesListed
  <2>2. {devlist'[s] : s \in Slots} \ {Nothing} = ({devlist[s] : s \in Slots} \ {Nothing}) \ {call[c].name}
    <3>1. \A s \in Slots \ {call[c].slot} : devlist[s] # call[c].name
      BY <1>2, NamesFact DEF ListsConsistent
    <3> QED
      BY <1>2, <1>3, <3>1
  <2> QED
    BY <2>1, <2>2, <1>3 DEF DevicesListed
<1> QED
  BY <1>1, <1>2, <1>3, <1>4, <1>5, DeviceWritten

LEMMA WriteRegisterStep ==
  ASSUME IInv, NEW c \in Callers, call[c].step = "write", WriteRegister(c),
         UNCHANGED <<state, mutex, users>>
  PROVE  IInv'
<1> USE WriterFact
<1> DEFINE slot == call[c].slot
           name == call[c].name
<1>1. c \in Modules /\ c \notin Files /\ call[c].op = "register" /\ name = DevName[c]
  BY OpFact, CallerFact DEF WriteRegister
<1>2. /\ name \in Names /\ slot \in Slots
      /\ cblist[slot].name = Nothing /\ \A s \in Slots : cblist[s].name # name
      /\ \E s \in Slots : devlist[s] = name
      /\ UNCHANGED <<devlist, chrdevs>> /\ Wrote(c, TRUE)
      /\ devlist' \in [Slots -> Names \cup {Nothing}] /\ chrdevs' \subseteq Names
  BY <1>1 DEF TypeOK, Found, WriteRegister
<1>3. /\ cblist' \in [Slots -> EntryRecord]
      /\ cblist'[slot].name = name /\ cblist'[slot].hlr = c /\ cblist'[slot].open = cblist[slot].open
      /\ \A s \in Slots \ {slot} : cblist'[s] = cblist[s]
  BY <1>1, <1>2 DEF TypeOK, EntryRecord, WriteRegister
<1>4. /\ OnlyCallOf(c)
      /\ call'[c].op = "register" /\ call'[c].ok
  BY <1>1, <1>2, WroteFact
<1> HIDE DEF slot, name
<1>5. ~cblist[slot].open
  BY <1>2, NamesFact DEF OpenFlagIsHeld
<1>6. \A f \in Files : /\ HasOpened(f)' <=> HasOpened(f)
                       /\ HasPfd(f)' <=> HasPfd(f)
                       /\ file'[f] = file[f]
  BY <1>1, <1>2, OpenersKept
<1>7. \A f \in Files : HasOpened(f) => file[f].name # name /\ file[f].name # Nothing
  BY <1>2, NamesFact DEF Kept
<1>8. OpenInv'
  <2>1. OneOpenPerDevice'
    BY <1>6 DEF OneOpenPerDevice
  <2>2. OpenFlagIsHeld'
    <3> SUFFICES ASSUME NEW s \in Slots
                 PROVE  cblist'[s].open <=> \E f \in Files : HasOpened(f) /\ file[f].name = cblist'[s].name
      BY <1>6 DEF OpenFlagIsHeld
    <3>1. CASE s = slot
      BY <3>1, <1>3, <1>5, <1>7
    <3>2. CASE s # slot
      BY <3>2, <1>3 DEF OpenFlagIsHeld
    <3> QED
      BY <3>1, <3>2
  <2>3. ASSUME NEW f \in Files PROVE Kept(f)'
    <3> SUFFICES ASSUME HasOpened(f)
                 PROVE  \E s \in Slots : cblist'[s].name = file[f].name
                                         /\ (HasPfd(f) => cblist'[s].hlr = file[f].hlr)
      BY <1>6 DEF Kept
    <3>1. PICK s \in Slots : cblist[s].name = file[f].name /\ (HasPfd(f) => cblist[s].hlr = file[f].hlr)
      BY DEF Kept
    <3>2. s # slot
      BY <3>1, <1>2, <1>7
    <3> QED
      BY <3>1, <3>2, <1>3
  <2> QED
    BY <2>1, <2>2, <2>3 DEF OpenInv
<1>9. ListsInv'
  <2>1. ListsConsistent'
    <3>1. ASSUME NEW s \in Slots, NEW t \in Slots, s # t
          PROVE  cblist'[s].name = Nothing \/ cblist'[s].name # cblist'[t].name
      BY <1>2, <1>3, <3>1 DEF ListsConsistent
    <3>2. ASSUME NEW s \in Slots
          PROVE  cblist'[s].name = Nothing \/ \E t \in Slots : devlist[t] = cblist'[s].name
      BY <1>2, <1>3 DEF ListsConsistent
    <3> QED
      BY <3>1, <3>2, <1>2 DEF ListsConsistent
  <2>2. DevicesListed'
    BY <1>2 DEF DevicesListed
  <2>3. ASSUME NEW s \in Slots PROVE Owned(s)'
    <3>1. CASE s = slot
      <4>1. module[c] # "out"
        BY <1>1 DEF IInv, CallersInv, ModulePlace
      <4> QED
        BY <3>1, <4>1, <1>1, <1>2, <1>3, <1>4 DEF Owned, users
    <3>2. CASE s # slot /\ cblist[s].hlr # c
      <4>1. cblist[s].hlr \in Modules => call'[cblist[s].hlr] = call[cblist[s].hlr]
        BY <3>2, <1>4 DEF OnlyCallOf, Callers
      <4>2. Owned(s) /\ cblist'[s] = cblist[s]
        BY <3>2, <1>3
      <4> QED
        BY <4>1, <4>2 DEF Owned, users
    <3>3. CASE s # slot /\ cblist[s].hlr = c
      BY <3>3, <1>1, <1>2, <1>3 DEF Owned
    <3> QED
      BY <3>1, <3>2, <3>3
  <2> QED
    BY <2>1, <2>2, <2>3 DEF ListsInv
<1>10. \A s \in Slots : cblist[s].open => cblist'[s].name = cblist[s].name
  BY <1>3, <1>5
<1> QED
  BY <1>1, <1>2, <1>3, <1>8, <1>9, <1>10, WriteFrame

LEMMA WriteUnregisterStep ==
  ASSUME IInv, NEW c \in Callers, call[c].step = "write", WriteUnregister(c),
         UNCHANGED <<state, mutex, users>>
  PROVE  IInv'
<1> USE WriterFact
<1> DEFINE slot == call[c].slot
           name == call[c].name
<1>1. c \in Modules /\ c \notin Files /\ call[c].op = "unregister" /\ name = DevName[c]
  BY OpFact, CallerFact DEF WriteUnregister
<1>2. /\ name \in Names /\ slot \in Slots
      /\ cblist[slot].name = name /\ ~cblist[slot].open
      /\ UNCHANGED <<devlist, chrdevs>> /\ Wrote(c, TRUE)
      /\ devlist' \in [Slots -> Names \cup {Nothing}] /\ chrdevs' \subseteq Names
  BY <1>1 DEF TypeOK, Found, WriteUnregister
<1>3. /\ cblist' \in [Slots -> EntryRecord]
      /\ cblist'[slot].name = Nothing /\ ~cblist'[slot].open
      /\ \A s \in Slots \ {slot} : cblist'[s] = cblist[s]
  <2>1. FreeEntry \in EntryRecord /\ FreeEntry.name = Nothing /\ ~FreeEntry.open
    BY DEF FreeEntry, EntryRecord
  <2>2. cblist \in [Slots -> EntryRecord] /\ cblist' = [cblist EXCEPT ![slot] = FreeEntry]
    BY DEF TypeOK, WriteUnregister
  <2> HIDE DEF slot
  <2> QED
    BY <1>2, <2>1, <2>2
<1>4. OnlyCallOf(c)
  BY <1>2, WroteFact
<1> HIDE DEF slot, name
<1>5. \A f \in Files : /\ HasOpened(f)' <=> HasOpened(f)
                       /\ HasPfd(f)' <=> HasPfd(f)
                       /\ file'[f] = file[f]
  BY <1>1, <1>2, OpenersKept
<1>6. \A f \in Files : HasOpened(f) => file[f].name # name /\ file[f].name # Nothing
  BY <1>2, NamesFact DEF OpenFlagIsHeld
<1>7. OpenInv'
  <2>1. OneOpenPerDevice'
    BY <1>5 DEF OneOpenPerDevice
  <2>2. OpenFlagIsHeld'
    <3> SUFFICES ASSUME NEW s \in Slots
                 PROVE  cblist'[s].open <=> \E f \in Files : HasOpened(f) /\ file[f].name = cblist'[s].name
      BY <1>5 DEF OpenFlagIsHeld
    <3>1. CASE s = slot
      BY <3>1, <1>3, <1>6
    <3>2. CASE s # slot
      BY <3>2, <1>3 DEF OpenFlagIsHeld
    <3> QED
      BY <3>1, <3>2
  <2>3. ASSUME NEW f \in Files PROVE Kept(f)'
    <3> SUFFICES ASSUME HasOpened(f)
                 PROVE  \E s \in Slots : cblist'[s].name = file[f].name
                                         /\ (HasPfd(f) => cblist'[s].hlr = file[f].hlr)
      BY <1>5 DEF Kept
    <3>1. PICK s \in Slots : cblist[s].name = file[f].name /\ (HasPfd(f) => cblist[s].hlr = file[f].hlr)
      BY DEF Kept
    <3>2. s # slot
      BY <3>1, <1>2, <1>6
    <3> QED
      BY <3>1, <3>2, <1>3
  <2> QED
    BY <2>1, <2>2, <2>3 DEF OpenInv
<1>8. ListsInv'
  <2>1. ListsConsistent'
    <3>1. ASSUME NEW s \in Slots, NEW t \in Slots, s # t
          PROVE  cblist'[s].name = Nothing \/ cblist'[s].name # cblist'[t].name
      BY <1>2, <1>3, <3>1 DEF ListsConsistent
    <3>2. ASSUME NEW s \in Slots
          PROVE  cblist'[s].name = Nothing \/ \E t \in Slots : devlist[t] = cblist'[s].name
      BY <1>2, <1>3 DEF ListsConsistent
    <3> QED
      BY <3>1, <3>2, <1>2 DEF ListsConsistent
  <2>2. DevicesListed'
    BY <1>2 DEF DevicesListed
  <2>3. ASSUME NEW s \in Slots PROVE Owned(s)'
    <3>1. CASE s = slot
      BY <3>1, <1>3 DEF Owned
    <3>2. CASE s # slot /\ cblist[s].hlr # c
      <4>1. cblist[s].hlr \in Modules => call'[cblist[s].hlr] = call[cblist[s].hlr]
        BY <3>2, <1>4 DEF OnlyCallOf, Callers
      <4>2. Owned(s) /\ cblist'[s] = cblist[s]
        BY <3>2, <1>3
      <4> QED
        BY <4>1, <4>2 DEF Owned, users
    <3>3. CASE s # slot /\ cblist[s].hlr = c
      <4>1. cblist[s].name = Nothing
        BY <3>3, <1>1, <1>2 DEF Owned, ListsConsistent
      <4> QED
        BY <3>3, <4>1, <1>3 DEF Owned
    <3> QED
      BY <3>1, <3>2, <3>3
  <2> QED
    BY <2>1, <2>2, <2>3 DEF ListsInv
<1>9. \A s \in Slots : cblist[s].open => cblist'[s].name = cblist[s].name
  BY <1>2, <1>3
<1> QED
  BY <1>1, <1>2, <1>3, <1>7, <1>8, <1>9, WriteFrame

(* A registration's open flag written: names and handlers stay.               *)
LEMMA FlagWritten ==
  ASSUME IInv, NEW c \in Files, call[c].step = "write", NEW ok \in BOOLEAN, Wrote(c, ok),
         UNCHANGED <<state, mutex, users, devlist, chrdevs>>,
         NEW flag \in BOOLEAN, cblist' = [cblist EXCEPT ![call[c].slot].open = flag],
         cblist[call[c].slot].name = call[c].name,
         flag <=> HasOpened(c)' \/ \E f \in Files \ {c} : HasOpened(f) /\ file[f].name = file[c].name,
         HasOpened(c)' => ~HasPfd(c) /\ \A f \in Files \ {c} : HasOpened(f) => file[f].name # file[c].name
  PROVE  IInv'
<1> USE WriterFact
<1> DEFINE slot == call[c].slot
           name == call[c].name
<1>1. c \in Callers /\ c \notin Modules /\ file[c].name = name
  <2>1. c \in Callers /\ c \notin Modules
    BY CallerFact DEF Callers
  <2>2. call[c].op # "none" /\ FilePlace(c)
    BY <2>1 DEF IInv, CallersInv, CallOK
  <2> QED
    BY <2>1, <2>2 DEF FilePlace
<1>2. name \in Names /\ slot \in Slots /\ cblist[slot].name = name
  BY <1>1
<1>3. /\ cblist' \in [Slots -> EntryRecord]
      /\ cblist'[slot].open = flag
      /\ \A s \in Slots : cblist'[s].name = cblist[s].name /\ cblist'[s].hlr = cblist[s].hlr
      /\ \A s \in Slots \ {slot} : cblist'[s] = cblist[s]
  BY <1>1, <1>2 DEF TypeOK, EntryRecord
<1>4. OnlyCallOf(c)
  BY <1>1, WroteFact
<1>5. \A f \in Files \ {c} : /\ HasOpened(f)' <=> HasOpened(f)
                             /\ HasPfd(f)' <=> HasPfd(f)
                             /\ file'[f] = file[f]
  BY <1>1, OpenersKept
<1>6. file'[c] = file[c] /\ (HasPfd(c)' <=> HasPfd(c))
  BY DEF users, HasPfd
<1> HIDE DEF slot, name
<1>7. OpenInv'
  <2>1. OneOpenPerDevice'
    <3> SUFFICES ASSUME NEW f \in Files, NEW g \in Files, f # g, HasOpened(f)', HasOpened(g)'
                 PROVE  file[f].name # file[g].name
      BY <1>5, <1>6 DEF OneOpenPerDevice
    <3>1. CASE f = c
      BY <3>1, <1>5
    <3>2. CASE g = c
      BY <3>2, <1>5
    <3>3. CASE f # c /\ g # c
      BY <3>3, <1>1, <1>5 DEF OneOpenPerDevice
    <3> QED
      BY <3>1, <3>2, <3>3
  <2>2. OpenFlagIsHeld'
    <3> SUFFICES ASSUME NEW s \in Slots
                 PROVE  cblist'[s].open <=> \E f \in Files : HasOpened(f)' /\ file[f].name = cblist[s].name
      BY <1>3, <1>5, <1>6 DEF OpenFlagIsHeld
    <3>1. CASE s = slot
      BY <3>1, <1>1, <1>2, <1>3, <1>5
    <3>2. CASE s # slot
      <4>1. cblist[s].name # name
        BY <3>2, <1>1, <1>2, NamesFact DEF ListsConsistent
      <4>2. cblist[s].open <=> \E f \in Files : HasOpened(f) /\ file[f].name = cblist[s].name
        BY <1>1 DEF OpenFlagIsHeld
      <4> QED
        BY <3>2, <4>1, <4>2, <1>1, <1>3, <1>5
    <3> QED
      BY <3>1, <3>2
  <2>3. ASSUME NEW f \in Files PROVE Kept(f)'
    <3>1. CASE f = c
      BY <3>1, <1>1, <1>2, <1>3, <1>6 DEF Kept
    <3>2. CASE f # c
      <4>1. Kept(f) /\ (HasOpened(f)' <=> HasOpened(f)) /\ (HasPfd(f)' <=> HasPfd(f)) /\ file'[f] = file[f]
        BY <3>2, <1>1, <1>5
      <4> QED
        BY <4>1, <1>3 DEF Kept
    <3> QED
      BY <3>1, <3>2
  <2> QED
    BY <2>1, <2>2, <2>3 DEF OpenInv
<1>8. ListsInv'
  <2>1. ListsConsistent' /\ DevicesListed'
    BY <1>1, <1>3 DEF ListsConsistent, DevicesListed
  <2>2. ASSUME NEW s \in Slots PROVE Owned(s)'
    <3>1. cblist[s].hlr \in Modules => call'[cblist[s].hlr] = call[cblist[s].hlr]
      BY <1>1, <1>4 DEF OnlyCallOf, Callers
    <3>2. Owned(s) /\ cblist'[s].name = cblist[s].name /\ cblist'[s].hlr = cblist[s].hlr
      BY <1>1, <1>3
    <3> QED
      BY <3>1, <3>2 DEF Owned, users
  <2> QED
    BY <2>1, <2>2 DEF ListsInv
<1>9. cblist'[call[c].slot].name = call[c].name
  BY <1>2, <1>3 DEF slot, name
<1>10. devlist' \in [Slots -> Names \cup {Nothing}] /\ chrdevs' \subseteq Names
  BY <1>1 DEF TypeOK
<1> QED
  BY <1>1, <1>3, <1>7, <1>8, <1>9, <1>10, WriteFrame

LEMMA WriteOpenStep ==
  ASSUME IInv, NEW c \in Callers, call[c].step = "write", WriteOpen(c),
         UNCHANGED <<state, mutex, users>>
  PROVE  IInv'
<1> USE WriterFact
<1>1. c \in Files /\ call[c].op = "open" /\ call[c].name = file[c].name
  BY OpFact DEF WriteOpen
<1>2. /\ call[c].slot \in Slots /\ cblist[call[c].slot].name = call[c].name
      /\ call[c].ok <=> ~cblist[call[c].slot].open
      /\ call[c].ok \in BOOLEAN
      /\ UNCHANGED <<devlist, chrdevs>> /\ Wrote(c, call[c].ok)
      /\ cblist' = [cblist EXCEPT ![call[c].slot].open = TRUE]
  BY <1>1 DEF TypeOK, CallRecord, Found, WriteOpen
<1>3. file[c].state = "opening" /\ ~HasPfd(c) /\ ~HasOpened(c)
  BY <1>1 DEF IInv, CallersInv, FilePlace, HasPfd, HasOpened
<1>4. /\ call'[c].op = "open" /\ call'[c].ok = call[c].ok /\ call'[c].step = "unlock"
      /\ file'[c] = file[c]
  BY <1>1, <1>2, WroteFact DEF users
<1>5. HasOpened(c)' <=> call[c].ok
  BY <1>1, <1>3, <1>4 DEF HasOpened
<1>6. cblist[call[c].slot].open <=> \E f \in Files : HasOpened(f) /\ file[f].name = file[c].name
  BY <1>1, <1>2 DEF OpenFlagIsHeld
<1>7. call[c].ok => \A f \in Files \ {c} : HasOpened(f) => file[f].name # file[c].name
  BY <1>2, <1>6
<1>8. ~call[c].ok => \E f \in Files \ {c} : HasOpened(f) /\ file[f].name = file[c].name
  BY <1>2, <1>3, <1>6
<1> QED
  BY <1>1, <1>2, <1>3, <1>5, <1>7, <1>8, FlagWritten

LEMMA WriteCloseStep ==
  ASSUME IInv, NEW c \in Callers, call[c].step = "write", WriteClose(c),
         UNCHANGED <<state, mutex, users>>
  PROVE  IInv'
<1> USE WriterFact
<1>1. c \in Files /\ call[c].op = "close" /\ call[c].name = file[c].name
  BY OpFact DEF WriteClose
<1>2. /\ call[c].slot \in Slots /\ cblist[call[c].slot].name = call[c].name
      /\ UNCHANGED <<devlist, chrdevs>> /\ Wrote(c, TRUE)
      /\ cblist' = [cblist EXCEPT ![call[c].slot].open = FALSE]
  BY <1>1 DEF Found, WriteClose
<1>3. file[c].state \in {"abandoning", "closing"} /\ HasOpened(c)
  BY <1>1 DEF IInv, CallersInv, FilePlace, HasOpened
<1>4. call'[c].op = "close" /\ call'[c].step = "unlock" /\ file'[c] = file[c]
  BY <1>1, <1>2, WroteFact DEF users
<1>5. ~HasOpened(c)'
  BY <1>3, <1>4 DEF HasOpened
<1>6. \A f \in Files \ {c} : HasOpened(f) => file[f].name # file[c].name
  BY <1>1, <1>3 DEF OneOpenPerDevice
<1> QED
  BY <1>1, <1>2, <1>5, <1>6, FlagWritten

LEMMA WriteStep ==
  ASSUME IInv, NEW c \in Callers, Write(c)
  PROVE  IInv'
BY WriteCreateStep, WriteRemoveStep, WriteRegisterStep, WriteUnregisterStep, WriteOpenStep, WriteCloseStep
   DEF Write

--------------------------------------------------------------------------------
(* Loading and unloading.                                                     *)

(* Nobody uses kucomms. *)
Unused ==
  /\ \A c \in Callers : call[c].step = "idle"
  /\ \A m \in Modules : module[m] = "out"
  /\ \A f \in Files : file[f].state = "closed"

(* Then nothing is asked of the lists but that they are consistent.           *)
LEMMA UnusedStep ==
  ASSUME IInv, Unused, TypeOK', UNCHANGED <<call, users>>, mutex' = mutex \/ mutex' = Nothing,
         state' = "loading" => cblist' = CallbacksFree /\ devlist' = DevicesFree,
         ListsConsistent', DevicesListed',
         \A s \in Slots : cblist'[s].name = Nothing /\ ~cblist'[s].open
  PROVE  IInv'
<1> USE DEF Unused
<1>1. \A c \in Callers : call[c].op = "none" /\ CallOK(c)
  BY DEF IInv, CallersInv, CallOK
<1>2. \A f \in Files : ~HasOpened(f) /\ ~HasOpened(f)'
  BY <1>1 DEF HasOpened, Callers, users
<1>3. LoadInv'
  BY DEF LoadInv, users
<1>4. MutexInv'
  <2>1. \A c \in Callers : mutex # c
    BY DEF IInv, MutexInv, InLock
  <2> QED
    BY <2>1, NamesFact DEF MutexInv, InLock
<1>5. CallersInv'
  <2>1. \A c \in Callers : CallOK(c)' /\ Found(c)'
    BY <1>1 DEF CallOK, Found
  <2> QED
    BY <2>1 DEF CallersInv, IInv, AdminPlace, ModulePlace, FilePlace, users
<1>6. OpenInv'
  BY <1>2 DEF OpenInv, OneOpenPerDevice, OpenFlagIsHeld, Kept
<1>7. ListsInv'
  BY DEF ListsInv, Owned
<1>8. ThreadInv'
  BY DEF IInv, ThreadInv, HasPfd, users
<1> QED
  BY <1>3, <1>4, <1>5, <1>6, <1>7, <1>8 DEF IInv

LEMMA FreeListsFact ==
  /\ CallbacksFree \in [Slots -> EntryRecord]
  /\ DevicesFree \in [Slots -> Names \cup {Nothing}]
  /\ \A s \in Slots : CallbacksFree[s].name = Nothing /\ ~CallbacksFree[s].open /\ DevicesFree[s] = Nothing
BY DEF CallbacksFree, DevicesFree, FreeEntry, EntryRecord

LEMMA LoadStep ==
  ASSUME IInv, LoadKucomms \/ InitLists
  PROVE  IInv'
<1> USE DEF LoadKucomms, InitLists
<1>1. Unused /\ TypeOK
  BY DEF IInv, LoadInv, Unused
<1>2. chrdevs = {}
  BY FreeListsFact DEF IInv, ListsInv, DevicesListed, LoadInv
<1>3. /\ cblist' = CallbacksFree /\ devlist' = DevicesFree /\ UNCHANGED <<chrdevs, call, users>>
      /\ state' \in {"loading", "loaded"} /\ (mutex' = mutex \/ mutex' = Nothing)
  OBVIOUS
<1>4. TypeOK'
  BY <1>1, <1>3, FreeListsFact DEF TypeOK, users
<1>5. ListsConsistent'
  BY <1>3, FreeListsFact DEF ListsConsistent
<1>6. DevicesListed'
  BY <1>2, <1>3, FreeListsFact DEF DevicesListed
<1> QED
  BY <1>1, <1>3, <1>4, <1>5, <1>6, FreeListsFact, UnusedStep

LEMMA ExitStep ==
  ASSUME IInv, ExitKucomms
  PROVE  IInv'
<1>1. TypeOK /\ state = "loaded" /\ state' = "unloaded" /\ UNCHANGED <<cblist, devlist, mutex, call, users>>
  BY DEF IInv, ExitKucomms, users
<1>2. ASSUME NEW f \in Files PROVE file[f].state = "closed" /\ ~HasOpened(f)
  <2>1. ~HasPfd(f)
    <3> DEFINE S == {g \in Files : HasPfd(g)}
    <3>1. IsFiniteSet(S)
      BY FilesAssumption, FS_Subset
    <3>2. Cardinality(S) = 0
      BY DEF IInv, ThreadInv, ExitKucomms
    <3>3. S = {}
      <4> HIDE DEF S
      <4> QED
        BY <3>1, <3>2, FS_EmptySet
    <3> QED
      BY <3>3
  <2>2. call[f].op = "none" /\ FilePlace(f)
    BY DEF IInv, CallersInv, CallOK, Callers, ExitKucomms
  <2> QED
    BY <1>1, <2>1, <2>2 DEF FilePlace, HasPfd, HasOpened, TypeOK, FileRecord
<1>3. Unused
  BY <1>2 DEF Unused, ExitKucomms
<1>4. \A s \in Slots : cblist[s].name = Nothing /\ ~cblist[s].open
  BY <1>2, <1>3 DEF IInv, ListsInv, Owned, Unused, OpenInv, OpenFlagIsHeld
<1>5. chrdevs' = {}
  <2>1. chrdevs = {devlist[s] : s \in Slots} \ {Nothing}
    BY <1>1 DEF IInv, ListsInv, DevicesListed
  <2> QED
    BY <2>1 DEF ExitKucomms
<1>6. TypeOK'
  BY <1>1, <1>5 DEF TypeOK, users
<1>7. ListsConsistent' /\ DevicesListed'
  BY <1>1, <1>5 DEF IInv, ListsInv, ListsConsistent, DevicesListed
<1> QED
  BY <1>1, <1>3, <1>4, <1>6, <1>7, UnusedStep

--------------------------------------------------------------------------------
(* Together.                                                                  *)

LEMMA FileNextStep ==
  ASSUME IInv, FileNext
  PROVE  IInv'
BY OpenBeginsStep, OpenRefusedStep, OpenFailedStep, OpenDoneStep, MappingStep, CloseBeginsStep,
   CloseReturnedStep, ReleasedStep, ThreadStep
   DEF FileNext

LEMMA ModuleNextStep ==
  ASSUME IInv, ModuleNext
  PROVE  IInv'
BY ModuleInitStep, RegisterReturnedStep, ModuleExitStep, UnregisterReturnedStep DEF ModuleNext

LEMMA AdminNextStep ==
  ASSUME IInv, Orderly, AdminNext
  PROVE  IInv'
BY AdminBeginsStep, AdminReturnsStep DEF AdminNext

LEMMA StutterStep ==
  ASSUME IInv, UNCHANGED vars
  PROVE  IInv'
<1> USE DEF vars
<1>1. TypeOK' /\ LoadInv' /\ MutexInv' /\ ThreadInv'
  BY DEF IInv, TypeOK, LoadInv, MutexInv, InLock, ThreadInv, HasPfd
<1>2. CallersInv'
  BY DEF IInv, CallersInv, CallOK, Found, AdminPlace, ModulePlace, FilePlace
<1>3. \A f \in Files : (HasOpened(f)' <=> HasOpened(f)) /\ (HasPfd(f)' <=> HasPfd(f))
  BY DEF HasOpened, HasPfd
<1>4. OpenInv'
  BY <1>3 DEF IInv, OpenInv, OneOpenPerDevice, OpenFlagIsHeld, Kept
<1>5. ListsInv'
  BY DEF IInv, ListsInv, ListsConsistent, DevicesListed, Owned
<1> QED
  BY <1>1, <1>2, <1>4, <1>5 DEF IInv

LEMMA InitHolds ==
  ASSUME Init
  PROVE  IInv
<1> USE DEF Init
<1>1. TypeOK
  BY FreeListsFact DEF TypeOK, CallRecord, FileRecord, NoCall, NoFile, Ops
<1>2. LoadInv /\ MutexInv
  BY NamesFact DEF LoadInv, MutexInv, InLock, NoCall, NoFile
<1>3. CallersInv
  BY DEF CallersInv, CallOK, Found, AdminPlace, ModulePlace, FilePlace, NoCall, NoFile, Callers
<1>4. \A f \in Files : ~HasOpened(f) /\ ~HasPfd(f)
  BY DEF HasOpened, HasPfd, NoCall, NoFile, Callers
<1>5. OpenInv
  BY <1>4, FreeListsFact DEF OpenInv, OneOpenPerDevice, OpenFlagIsHeld, Kept
<1>6. ListsInv
  BY FreeListsFact DEF ListsInv, ListsConsistent, DevicesListed, Owned
<1>7. ThreadInv
  <2>1. {f \in Files : HasPfd(f)} = {}
    BY <1>4
  <2> QED
    BY <1>4, <2>1, FS_EmptySet DEF ThreadInv
<1> QED
  BY <1>1, <1>2, <1>3, <1>5, <1>6, <1>7 DEF IInv

(* Everything that happens to devices, registrations, files and threads keeps *)
(* the inductive invariant, if no lock is interrupted and nobody writes to    *)
(* sysfs before kucomms is ready.                                             *)
THEOREM DeviceInvariance == Orderly => (Spec => []IInv)
<1> SUFFICES ASSUME Orderly PROVE Spec => []IInv
  OBVIOUS
<1>1. Init => IInv
  BY InitHolds
<1>2. IInv /\ [Next]_vars => IInv'
  <2> SUFFICES ASSUME IInv, [Next]_vars PROVE IInv'
    OBVIOUS
  <2>1. CASE LoadKucomms \/ InitLists
    BY <2>1, LoadStep
  <2>2. CASE ExitKucomms
    BY <2>2, ExitStep
  <2>3. ASSUME NEW c \in Callers, Lock(c) \/ CallSteps(c) PROVE IInv'
    BY <2>3, LockStep, LookStep, WriteStep, UnlockStep DEF CallSteps
  <2>4. CASE AdminNext \/ ModuleNext \/ FileNext
    BY <2>4, AdminNextStep, ModuleNextStep, FileNextStep
  <2>5. CASE UNCHANGED vars
    BY <2>5, StutterStep
  <2> QED
    BY <2>1, <2>2, <2>3, <2>4, <2>5 DEF Next
<1> QED
  BY <1>1, <1>2, PTL DEF Spec

(* At most one file has a device open, however many processes try at once.    *)
THEOREM DeviceIsOpenOnce == Orderly => (Spec => []OneOpenPerDevice)
<1>1. IInv => OneOpenPerDevice
  BY DEF IInv, OpenInv
<1> QED
  BY <1>1, DeviceInvariance, PTL

(* The open flag is set exactly while a file has the device open.             *)
THEOREM OpenFlagIsRight == Orderly => (Spec => []OpenFlagIsHeld)
<1>1. IInv => OpenFlagIsHeld
  BY DEF IInv, OpenInv
<1> QED
  BY <1>1, DeviceInvariance, PTL

(* The handlers a file has copied stay registered, and their module stays in, *)
(* while the file has the device open.                                        *)
THEOREM HandlersDoStay == Orderly => (Spec => []HandlersStay)
<1>1. IInv => HandlersStay
  <2> SUFFICES ASSUME IInv, NEW f \in Files, HasOpened(f), HasPfd(f)
               PROVE  /\ \E s \in Slots : cblist[s].name = file[f].name /\ cblist[s].hlr = file[f].hlr
                      /\ module[file[f].hlr] # "out"
    BY DEF HandlersStay
  <2>1. PICK s \in Slots : cblist[s].name = file[f].name /\ cblist[s].hlr = file[f].hlr
    BY DEF IInv, OpenInv, Kept
  <2>2. file[f].name # Nothing
    BY NamesFact DEF IInv, CallersInv, FilePlace, HasPfd
  <2>3. Owned(s)
    BY DEF IInv, ListsInv
  <2> QED
    BY <2>1, <2>2, <2>3 DEF Owned
<1> QED
  BY <1>1, DeviceInvariance, PTL

(* No name is in a list twice, and a registered name is that of a device.     *)
THEOREM ListsStayConsistent == Orderly => (Spec => []ListsConsistent)
<1>1. IInv => ListsConsistent
  BY DEF IInv, ListsInv
<1> QED
  BY <1>1, DeviceInvariance, PTL

(* The devices kucomms made are those it knows of; none outlives it.          *)
THEOREM DevicesStayListed == Orderly => (Spec => []DevicesListed)
<1>1. IInv => DevicesListed
  BY DEF IInv, ListsInv
<1> QED
  BY <1>1, DeviceInvariance, PTL

(* A thread that can call handlers has its memory, and kucomms is loaded.     *)
THEOREM ThreadsHaveMemory == Orderly => (Spec => []ThreadHasMemory)
<1>1. IInv => ThreadHasMemory
  <2> SUFFICES ASSUME IInv, NEW f \in Files, thread[f] # "none"
               PROVE  /\ HasPfd(f) /\ state = "loaded" /\ refs > 0
                      /\ thread[f] \in {"running", "handler"} => file[f].maps > 0
    BY DEF ThreadHasMemory
  <2>1. HasPfd(f) /\ state = "loaded"
    BY DEF IInv, ThreadInv, LoadInv, HasPfd
  <2>2. refs > 0
    <3> DEFINE S == {g \in Files : HasPfd(g)}
    <3>1. IsFiniteSet(S) /\ f \in S
      BY <2>1, FilesAssumption, FS_Subset
    <3>2. refs = Cardinality(S) /\ refs \in Nat
      BY DEF IInv, ThreadInv, TypeOK
    <3> HIDE DEF S
    <3>3. Cardinality(S) # 0
      BY <3>1, FS_EmptySet
    <3> QED
      BY <3>2, <3>3
  <2> QED
    BY <2>1, <2>2 DEF IInv, ThreadInv
<1> QED
  BY <1>1, DeviceInvariance, PTL

(* A registration that is to be accepted finds room in the list, whatever the *)
(* length of the lists: each registered name has its own slot in devlist, and *)
(* so has the new one.                                                        *)
LEMMA FitsFact ==
  ASSUME IInv, NEW m \in Modules, FindCallbacks(DevName[m]) = Nothing,
         FindDevice(DevName[m]) # Nothing
  PROVE  FreeCallbacks # Nothing
<1> SUFFICES ASSUME FreeCallbacks = Nothing PROVE FALSE
  OBVIOUS
<1>1. \A s \in Slots : cblist[s].name # Nothing /\ cblist[s].name # DevName[m]
  <2>1. FreeCallbacks = FindCallbacks(Nothing)
    BY DEF FreeCallbacks, FindCallbacks
  <2> QED
    BY <2>1, FindCallbacksFact
<1>2. PICK d \in Slots : devlist[d] = DevName[m]
  BY FindDeviceFact
<1> DEFINE home == [s \in Slots |-> CHOOSE t \in Slots : devlist[t] = cblist[s].name]
<1>3. \A s \in Slots : home[s] \in Slots /\ devlist[home[s]] = cblist[s].name
  BY <1>1 DEF IInv, ListsInv, ListsConsistent
<1>4. home \in [Slots -> Slots]
  BY <1>3
<1> HIDE DEF home
<1>5. \A s, t \in Slots : home[s] = home[t] => s = t
  BY <1>1, <1>3 DEF IInv, ListsInv, ListsConsistent
<1>6. home \in Injection(Slots, Slots)
  BY <1>4, <1>5 DEF Injection, IsInjective
<1>7. home \in Surjection(Slots, Slots)
  BY <1>6, SlotsAssumption, FS_Injection
<1>8. PICK s \in Slots : home[s] = d
  BY <1>7, <1>4 DEF Surjection
<1> QED
  BY <1>1, <1>2, <1>3, <1>8

(* So the list of handlers is never full for a registration that may go in.   *)
THEOREM RegistrationsFit == Orderly => (Spec => []RegistrationFits)
<1>1. IInv => RegistrationFits
  BY FitsFact DEF RegistrationFits
<1> QED
  BY <1>1, DeviceInvariance, PTL

--------------------------------------------------------------------------------
(* The calls take effect at once: the registry, seen through Handlers,        *)
(* Holders and Calls, implements DeviceRegistry.                              *)

(* What is registered under a name is in a slot, and whoever opened it has it. *)
HandlersRight ==
  \A n \in Names :
    /\ \A s \in Slots : cblist[s].name = n => Handlers[n] = cblist[s].hlr /\ Handlers[n] # Nothing
    /\ (\A s \in Slots : cblist[s].name # n) => Handlers[n] = Nothing

HoldersRight ==
  \A n \in Names :
    /\ \A f \in Files : HasOpened(f) /\ file[f].name = n => Holders[n] = f /\ Holders[n] # Nothing
    /\ (\A f \in Files : HasOpened(f) => file[f].name # n) => Holders[n] = Nothing

ViewRight ==
  /\ HandlersRight
  /\ HoldersRight
  /\ \A f \in Files : HasOpened(f) => file[f].name \in Names

LEMMA HandlersFact == IInv => HandlersRight
<1> SUFFICES ASSUME IInv, NEW n \in Names
             PROVE  /\ \A s \in Slots : cblist[s].name = n =>
                         Handlers[n] = cblist[s].hlr /\ Handlers[n] # Nothing
                    /\ (\A s \in Slots : cblist[s].name # n) => Handlers[n] = Nothing
  BY DEF HandlersRight
<1> DEFINE found == FindCallbacks(n)
<1>1. Handlers[n] = IF found = Nothing THEN Nothing ELSE cblist[found].hlr
  BY DEF Handlers, HandlersOf
<1>2. /\ found = Nothing => \A s \in Slots : cblist[s].name # n
      /\ found # Nothing => found \in Slots /\ cblist[found].name = n
  BY FindCallbacksFact
<1> HIDE DEF found
<1>3. ASSUME NEW s \in Slots, cblist[s].name = n
      PROVE  Handlers[n] = cblist[s].hlr /\ Handlers[n] # Nothing
  <2>1. found = s
    BY <1>2, <1>3, NamesFact DEF IInv, ListsInv, ListsConsistent
  <2>2. cblist[s].hlr \in Modules
    BY <1>3, NamesFact DEF IInv, ListsInv, Owned
  <2> QED
    BY <1>1, <1>2, <2>1, <2>2, NamesFact DEF Callers
<1> QED
  BY <1>1, <1>2, <1>3

LEMMA HoldersFact == IInv => HoldersRight
<1> SUFFICES ASSUME IInv, NEW n \in Names
             PROVE  /\ \A f \in Files : HasOpened(f) /\ file[f].name = n =>
                         Holders[n] = f /\ Holders[n] # Nothing
                    /\ (\A f \in Files : HasOpened(f) => file[f].name # n) => Holders[n] = Nothing
  BY DEF HoldersRight
<1>1. Holders[n] = IF OpenersOf(n) = {} THEN Nothing ELSE CHOOSE f \in OpenersOf(n) : TRUE
  BY DEF Holders, HolderOf
<1>2. \A f : f \in OpenersOf(n) <=> f \in Files /\ HasOpened(f) /\ file[f].name = n
  BY DEF OpenersOf
<1>3. ASSUME NEW f \in Files, HasOpened(f), file[f].name = n
      PROVE  Holders[n] = f
  <2>1. f \in OpenersOf(n) /\ \A g \in OpenersOf(n) : g = f
    BY <1>2, <1>3 DEF IInv, OpenInv, OneOpenPerDevice
  <2>2. (CHOOSE g \in OpenersOf(n) : TRUE) = f
    BY <2>1
  <2> QED
    BY <1>1, <2>1, <2>2
<1>4. \A f \in Files : f # Nothing
  BY NamesFact DEF Callers
<1> QED
  BY <1>1, <1>2, <1>3, <1>4

LEMMA ViewFact == IInv => ViewRight
<1>1. IInv => \A f \in Files : HasOpened(f) => file[f].name \in Names
  BY DEF IInv, CallersInv, HasOpened, FilePlace
<1> QED
  BY <1>1, HandlersFact, HoldersFact DEF ViewRight

LEMMA ViewFactNext == IInv' => ViewRight'
BY ViewFact, PTL

(* Handlers stay where no slot's name and handlers change, holders where no   *)
(* file opens or closes.                                                      *)
LEMMA HandlersKept ==
  ASSUME \A s \in Slots : cblist'[s].name = cblist[s].name /\ cblist'[s].hlr = cblist[s].hlr
  PROVE  Handlers' = Handlers
<1>1. ASSUME NEW n \in Names PROVE HandlersOf(n)' = HandlersOf(n)
  <2>1. {s \in Slots : cblist'[s].name = n} = {s \in Slots : cblist[s].name = n}
    OBVIOUS
  <2>2. FindCallbacks(n)' = FindCallbacks(n)
    BY <2>1 DEF FindCallbacks
  <2>3. FindCallbacks(n) # Nothing => FindCallbacks(n) \in Slots
    BY FindCallbacksFact
  <2> QED
    BY <2>2, <2>3 DEF HandlersOf
<1> QED
  BY <1>1 DEF Handlers

LEMMA HoldersKept ==
  ASSUME ViewRight, ViewRight',
         \A f \in Files : /\ HasOpened(f)' <=> HasOpened(f)
                          /\ HasOpened(f) => file'[f].name = file[f].name
  PROVE  Holders' = Holders
<1>1. ASSUME NEW n \in Names PROVE Holders'[n] = Holders[n]
  BY DEF ViewRight, HoldersRight
<1>2. Holders = [n \in Names |-> Holders[n]] /\ Holders' = [n \in Names |-> Holders'[n]]
  BY DEF Holders
<1> QED
  BY <1>1, <1>2

(* What a call's record shows. *)
LEMMA CallsFact ==
  ASSUME NEW c \in Callers
  PROVE  /\ Calls[c] = CallOf(c) /\ Calls'[c] = CallOf(c)'
         /\ Calls[c].op = call[c].op /\ Calls[c].name = call[c].name
         /\ call[c].step \notin {"unlock", "done"} => Calls[c].answer = "none"
         /\ call[c].step \in {"unlock", "done"} =>
              Calls[c].answer = IF call[c].ok THEN "yes" ELSE "no"
BY DEF Calls, CallOf

LEMMA CallsChange ==
  ASSUME NEW c \in Callers, OnlyCallOf(c)
  PROVE  Calls' = [Calls EXCEPT ![c] = CallOf(c)']
<1>1. Calls = [d \in Callers |-> CallOf(d)] /\ Calls' = [d \in Callers |-> CallOf(d)']
  BY DEF Calls
<1>2. \A d \in Callers \ {c} : CallOf(d)' = CallOf(d)
  BY DEF CallOf, OnlyCallOf
<1> QED
  BY <1>1, <1>2

(* A call begins. *)
LEMMA InvokeMaps ==
  ASSUME NEW c \in Callers, call[c].step = "done" \/ (call[c].step = "idle" /\ call[c].op = "none"),
         OnlyCallOf(c), NEW op \in Registry!Operations, NEW name \in Names,
         call'[c].op = op, call'[c].name = name, call'[c].step = "lock",
         UNCHANGED <<chrdevs, Handlers, Holders>>
  PROVE  Registry!Next
<1>1. CallOf(c)' = [op |-> op, name |-> name, answer |-> "none"]
  BY DEF CallOf
<1>2. Calls'[c] # Calls[c]
  <2>1. Calls'[c].op = op /\ Calls'[c].answer = "none" /\ op # "none"
    BY <1>1, CallsFact DEF Registry!Operations
  <2> QED
    BY <2>1, CallsFact
<1>3. Registry!Pending(c, "none") \/ Calls[c].answer # "none"
  BY CallsFact DEF Registry!Pending
<1>4. Registry!Invoke(c, op, name)
  BY <1>1, <1>3, CallsChange DEF Registry!Invoke
<1> QED
  BY <1>2, <1>4 DEF Registry!Next

LEMMA ReturnMaps ==
  ASSUME TypeOK, NEW c \in Callers, call[c].step = "done", Return(c),
         UNCHANGED <<chrdevs, Handlers, Holders>>
  PROVE  Registry!Next
<1>1. OnlyCallOf(c) /\ call'[c] = NoCall
  BY ReturnFact
<1>2. CallOf(c)' = Registry!NoCall
  BY <1>1 DEF CallOf, NoCall, Registry!NoCall
<1>3. Calls[c].answer # "none" /\ Calls'[c] # Calls[c]
  BY <1>2, CallsFact DEF Registry!NoCall
<1>4. Registry!Return(c)
  BY <1>1, <1>2, <1>3, CallsChange DEF Registry!Return
<1> QED
  BY <1>3, <1>4 DEF Registry!Next

(* A call goes on, and none can tell. *)
LEMMA QuietMaps ==
  ASSUME NEW c \in Callers, OnlyCallOf(c),
         call'[c].op = call[c].op, call'[c].name = call[c].name,
         \/ {call[c].step, call'[c].step} \cap {"unlock", "done"} = {}
         \/ {call[c].step, call'[c].step} \subseteq {"unlock", "done"} /\ call'[c].ok = call[c].ok,
         UNCHANGED <<chrdevs, Handlers, Holders>>
  PROVE  UNCHANGED Registry!registryVars
<1>1. CallOf(c)' = CallOf(c)
  BY DEF CallOf
<1>2. Calls' = Calls
  BY <1>1, CallsChange DEF Calls
<1> QED
  BY <1>2 DEF Registry!registryVars

(* A call takes effect in the step that brings its answer. *)
Answers(c, ok) ==
  /\ OnlyCallOf(c)
  /\ call[c].step \in {"look", "write"} /\ call'[c].step = "unlock"
  /\ call'[c].op = call[c].op /\ call'[c].name = call[c].name /\ call'[c].ok = ok

LEMMA AnswerFact ==
  ASSUME NEW c \in Callers, NEW ok \in BOOLEAN, Answers(c, ok)
  PROVE  /\ Registry!Answer(c, IF ok THEN "yes" ELSE "no")
         /\ Calls'[c] # Calls[c]
         /\ \A op : Registry!Pending(c, op) <=> call[c].op = op
<1> DEFINE answer == IF ok THEN "yes" ELSE "no"
<1>1. /\ CallOf(c) = [op |-> call[c].op, name |-> call[c].name, answer |-> "none"]
      /\ CallOf(c)' = [op |-> call[c].op, name |-> call[c].name, answer |-> answer]
  BY DEF CallOf, Answers
<1>2. answer # "none"
  OBVIOUS
<1> HIDE DEF answer
<1>3. CallOf(c)' = [Calls[c] EXCEPT !.answer = answer] /\ Calls'[c] # Calls[c]
  BY <1>1, <1>2, CallsFact
<1>4. Registry!Answer(c, answer)
  BY <1>3, CallsChange DEF Registry!Answer, Answers
<1>5. \A op : Registry!Pending(c, op) <=> call[c].op = op
  BY <1>1, CallsFact DEF Registry!Pending
<1> QED
  BY <1>3, <1>4, <1>5 DEF answer

LEMMA EffectMaps ==
  ASSUME NEW c \in Callers, NEW ok \in BOOLEAN, Answers(c, ok), Registry!TakesEffect(c)
  PROVE  Registry!Next
BY AnswerFact DEF Registry!Next

LEMMA RefuseMaps ==
  ASSUME NEW c \in Callers, Answers(c, FALSE), UNCHANGED <<chrdevs, Handlers, Holders>>,
         \/ call[c].op = "create"
         \/ /\ call[c].op \in {"remove", "register"}
            /\ call[c].name \notin chrdevs \/ Handlers[call[c].name] # Nothing
         \/ call[c].op = "unregister" /\ Holders[call[c].name] # Nothing
         \/ /\ call[c].op = "open"
            /\ Handlers[call[c].name] = Nothing \/ Holders[call[c].name] # Nothing
  PROVE  Registry!Next
<1>1. Calls[c].name = call[c].name
  BY CallsFact
<1>2. /\ Registry!Answer(c, "no")
      /\ \A op : Registry!Pending(c, op) <=> call[c].op = op
  BY AnswerFact
<1>3. Registry!Refused(c)
  BY <1>1, <1>2 DEF Registry!Refused
<1>4. Registry!Refuse(c)
  BY <1>2, <1>3 DEF Registry!Refuse
<1> QED
  BY <1>4, EffectMaps DEF Registry!TakesEffect

--------------------------------------------------------------------------------
(* Steps under the mutex.                                                     *)

(* Where the lists stay and no file opens or closes, the view stays.          *)
LEMMA ViewKept ==
  ASSUME IInv, IInv', UNCHANGED lists,
         \A f \in Files : /\ HasOpened(f)' <=> HasOpened(f)
                          /\ HasOpened(f) => file'[f].name = file[f].name
  PROVE  UNCHANGED <<chrdevs, Handlers, Holders>>
BY ViewFact, ViewFactNext, HandlersKept, HoldersKept DEF lists

(* A file has a device open or not whatever others call. *)
LEMMA OpenersFact ==
  ASSUME NEW c \in Callers, OnlyCallOf(c), UNCHANGED users, NEW f \in Files \ {c}
  PROVE  (HasOpened(f)' <=> HasOpened(f)) /\ file'[f] = file[f]
BY DEF HasOpened, OnlyCallOf, Callers, users

LEMMA LockMaps ==
  ASSUME IInv, IInv', NEW c \in Callers, Lock(c) \/ Unlock(c)
  PROVE  UNCHANGED Registry!registryVars
<1> USE DEF Lock, Unlock
<1>1. TypeOK /\ CallOK(c) /\ UNCHANGED lists /\ UNCHANGED users
  BY DEF IInv, CallersInv
<1>2. /\ OnlyCallOf(c)
      /\ call'[c].op = call[c].op /\ call'[c].name = call[c].name /\ call'[c].ok = call[c].ok
      /\ \/ call[c].step = "lock" /\ call'[c].step = "look"
         \/ call[c].step = "unlock" /\ call'[c].step = "done"
  BY <1>1, NextStepFact
<1>3. c \in Files => (HasOpened(c)' <=> HasOpened(c))
  BY <1>1, <1>2 DEF HasOpened, CallOK, users
<1>4. \A f \in Files : /\ HasOpened(f)' <=> HasOpened(f)
                       /\ HasOpened(f) => file'[f].name = file[f].name
  BY <1>1, <1>2, <1>3, OpenersFact DEF users
<1>5. UNCHANGED <<chrdevs, Handlers, Holders>>
  BY <1>1, <1>4, ViewKept
<1> QED
  BY <1>2, <1>5, QuietMaps

(* What a caller that looks knows of the view. *)
LEMMA LookerFact ==
  ASSUME IInv, NEW c \in Callers, call[c].op # "none"
  PROVE  /\ call[c].name \in Names /\ state = "loaded"
         /\ call[c].name \in chrdevs <=> \E s \in Slots : devlist[s] = call[c].name
         /\ Handlers[call[c].name] = Nothing <=> \A s \in Slots : cblist[s].name # call[c].name
         /\ Holders[call[c].name] = Nothing <=>
              \A f \in Files : HasOpened(f) => file[f].name # call[c].name
         /\ \A s \in Slots : cblist[s].name = call[c].name =>
              (cblist[s].open <=> Holders[call[c].name] # Nothing)
<1>1. CallOK(c) /\ ViewRight /\ DevicesListed /\ OpenFlagIsHeld
  BY ViewFact DEF IInv, CallersInv, OpenInv, ListsInv
<1>2. call[c].name \in Names /\ state = "loaded"
  BY <1>1, LoadedFact DEF CallOK
<1>3. call[c].name \in chrdevs <=> \E s \in Slots : devlist[s] = call[c].name
  BY <1>1, <1>2, NamesFact DEF DevicesListed
<1>4. Handlers[call[c].name] = Nothing <=> \A s \in Slots : cblist[s].name # call[c].name
  BY <1>1, <1>2 DEF ViewRight, HandlersRight
<1>5. Holders[call[c].name] = Nothing <=>
        \A f \in Files : HasOpened(f) => file[f].name # call[c].name
  BY <1>1, <1>2 DEF ViewRight, HoldersRight
<1>6. ASSUME NEW s \in Slots, cblist[s].name = call[c].name
      PROVE  cblist[s].open <=> Holders[call[c].name] # Nothing
  BY <1>1, <1>5, <1>6 DEF OpenFlagIsHeld
<1> QED
  BY <1>2, <1>3, <1>4, <1>5, <1>6

(* A call that has found its slot goes on unseen. *)
LEMMA DecideMaps ==
  ASSUME IInv, IInv', NEW c \in Callers, call[c].step = "look",
         NEW slot \in Slots \cup {Nothing}, NEW ok \in BOOLEAN, Decide(c, slot, ok),
         UNCHANGED <<state, lists, mutex, users>>,
         call[c].op = "open" /\ slot = Nothing => ~ok,
         call[c].op = "close" => slot # Nothing
  PROVE  /\ UNCHANGED <<chrdevs, Handlers, Holders>>
         /\ slot = Nothing => Answers(c, ok)
         /\ slot # Nothing => UNCHANGED Registry!registryVars
<1>1. TypeOK /\ CallOK(c) /\ UNCHANGED lists /\ UNCHANGED users
  BY DEF IInv, CallersInv
<1>2. /\ OnlyCallOf(c)
      /\ call'[c].op = call[c].op /\ call'[c].name = call[c].name /\ call'[c].ok = ok
      /\ call'[c].step = IF slot = Nothing THEN "unlock" ELSE "write"
  BY <1>1, DecideFact
<1>3. c \in Files => (HasOpened(c)' <=> HasOpened(c))
  BY <1>1, <1>2 DEF HasOpened, CallOK, users
<1>4. \A f \in Files : /\ HasOpened(f)' <=> HasOpened(f)
                       /\ HasOpened(f) => file'[f].name = file[f].name
  BY <1>1, <1>2, <1>3, OpenersFact DEF users
<1>5. UNCHANGED <<chrdevs, Handlers, Holders>>
  BY <1>1, <1>4, ViewKept
<1>6. slot = Nothing => Answers(c, ok)
  BY <1>2 DEF Answers
<1>7. slot # Nothing => UNCHANGED Registry!registryVars
  BY <1>2, <1>5, QuietMaps
<1> QED
  BY <1>5, <1>6, <1>7

LEMMA LookCreateMaps ==
  ASSUME IInv, IInv', NEW c \in Callers, call[c].step = "look", LookCreate(c),
         UNCHANGED <<state, lists, mutex, users>>
  PROVE  Registry!Next \/ UNCHANGED Registry!registryVars
<1> DEFINE slot == IF FindDevice(call[c].name) # Nothing THEN Nothing ELSE FreeDevice
<1>1. slot \in Slots \cup {Nothing} /\ Decide(c, slot, FALSE) /\ call[c].op = "create"
  BY FreeFact DEF LookCreate
<1> HIDE DEF slot
<1> QED
  BY <1>1, DecideMaps, RefuseMaps

LEMMA LookRemoveMaps ==
  ASSUME IInv, IInv', NEW c \in Callers, call[c].step = "look", LookRemove(c),
         UNCHANGED <<state, lists, mutex, users>>
  PROVE  Registry!Next \/ UNCHANGED Registry!registryVars
<1> DEFINE slot == IF FindCallbacks(call[c].name) # Nothing THEN Nothing ELSE FindDevice(call[c].name)
<1>1. slot \in Slots \cup {Nothing} /\ Decide(c, slot, FALSE) /\ call[c].op = "remove"
  BY FindDeviceFact DEF LookRemove
<1>2. slot = Nothing => call[c].name \notin chrdevs \/ Handlers[call[c].name] # Nothing
  BY <1>1, FindCallbacksFact, FindDeviceFact, LookerFact
<1> HIDE DEF slot
<1> QED
  BY <1>1, <1>2, DecideMaps, RefuseMaps

(* A registration is refused for a reason, and never for lack of a slot. *)
LEMMA LookRegisterMaps ==
  ASSUME IInv, IInv', NEW c \in Callers, call[c].step = "look", LookRegister(c),
         UNCHANGED <<state, lists, mutex, users>>
  PROVE  Registry!Next \/ UNCHANGED Registry!registryVars
<1> DEFINE slot == IF FindCallbacks(call[c].name) # Nothing \/ FindDevice(call[c].name) = Nothing
                   THEN Nothing ELSE FreeCallbacks
<1>1. slot \in Slots \cup {Nothing} /\ Decide(c, slot, FALSE) /\ call[c].op = "register"
  BY FreeFact DEF LookRegister
<1>2. c \in Modules /\ call[c].name = DevName[c]
  BY <1>1, OpFact
<1>3. slot = Nothing => call[c].name \notin chrdevs \/ Handlers[call[c].name] # Nothing
  BY <1>1, <1>2, FindCallbacksFact, FindDeviceFact, FitsFact, LookerFact
<1> HIDE DEF slot
<1> QED
  BY <1>1, <1>3, DecideMaps, RefuseMaps

LEMMA LookUnregisterMaps ==
  ASSUME IInv, IInv', NEW c \in Callers, call[c].step = "look", LookUnregister(c),
         UNCHANGED <<state, lists, mutex, users>>
  PROVE  Registry!Next \/ UNCHANGED Registry!registryVars
<1> DEFINE found == FindCallbacks(call[c].name)
           slot == IF found = Nothing \/ cblist[found].open THEN Nothing ELSE found
           ok == found = Nothing
<1>1. /\ slot \in Slots \cup {Nothing} /\ ok \in BOOLEAN /\ Decide(c, slot, ok)
      /\ call[c].op = "unregister"
  BY FindCallbacksFact DEF LookUnregister
<1>2. /\ UNCHANGED <<chrdevs, Handlers, Holders>>
      /\ slot = Nothing => Answers(c, ok)
      /\ slot # Nothing => UNCHANGED Registry!registryVars
  <2> HIDE DEF slot, ok
  <2> QED
    BY <1>1, DecideMaps
<1>3. CASE found = Nothing
  <2>1. Handlers[call[c].name] = Nothing /\ \A s \in Slots : cblist[s].name # call[c].name
    BY <1>1, <1>3, FindCallbacksFact, LookerFact
  <2>2. Holders[call[c].name] = Nothing
    <3>1. \A f \in Files : Kept(f)
      BY DEF IInv, OpenInv
    <3> QED
      BY <1>1, <2>1, <3>1, LookerFact DEF Kept
  <2>3. Answers(c, TRUE)
    BY <1>2, <1>3
  <2>4. Handlers' = [Handlers EXCEPT ![call[c].name] = Nothing]
    BY <1>2, <2>1 DEF Handlers
  <2>5. Registry!Unregister(c)
    BY <1>1, <1>2, <2>2, <2>3, <2>4, AnswerFact, CallsFact DEF Registry!Unregister
  <2> QED
    BY <2>3, <2>5, EffectMaps DEF Registry!TakesEffect
<1>4. CASE found # Nothing /\ cblist[found].open
  <2>1. Holders[call[c].name] # Nothing
    BY <1>1, <1>4, FindCallbacksFact, LookerFact
  <2>2. Answers(c, FALSE)
    BY <1>2, <1>4
  <2> QED
    BY <1>1, <1>2, <2>1, <2>2, RefuseMaps
<1>5. CASE found # Nothing /\ ~cblist[found].open
  BY <1>2, <1>5
<1> QED
  BY <1>3, <1>4, <1>5

LEMMA LookOpenMaps ==
  ASSUME IInv, IInv', NEW c \in Callers, call[c].step = "look", LookOpen(c),
         UNCHANGED <<state, lists, mutex, users>>
  PROVE  Registry!Next \/ UNCHANGED Registry!registryVars
<1> DEFINE found == FindCallbacks(call[c].name)
           ok == found # Nothing /\ ~cblist[found].open
<1>1. found \in Slots \cup {Nothing} /\ ok \in BOOLEAN /\ Decide(c, found, ok) /\ call[c].op = "open"
  BY FindCallbacksFact DEF LookOpen
<1>2. found = Nothing => Handlers[call[c].name] = Nothing /\ ok = FALSE
  BY <1>1, FindCallbacksFact, LookerFact
<1> HIDE DEF found, ok
<1>3. /\ UNCHANGED <<chrdevs, Handlers, Holders>>
      /\ found = Nothing => Answers(c, ok)
      /\ found # Nothing => UNCHANGED Registry!registryVars
  BY <1>1, <1>2, DecideMaps
<1>4. CASE found = Nothing
  <2>1. Answers(c, FALSE)
    BY <1>2, <1>3, <1>4
  <2> QED
    BY <1>1, <1>2, <1>3, <1>4, <2>1, RefuseMaps
<1> QED
  BY <1>3, <1>4

(* A file that closes has its device open, and so finds it. *)
LEMMA LookCloseMaps ==
  ASSUME IInv, IInv', NEW c \in Callers, call[c].step = "look", LookClose(c),
         UNCHANGED <<state, lists, mutex, users>>
  PROVE  Registry!Next \/ UNCHANGED Registry!registryVars
<1> DEFINE found == FindCallbacks(call[c].name)
<1>1. found \in Slots \cup {Nothing} /\ Decide(c, found, TRUE) /\ call[c].op = "close"
  BY FindCallbacksFact DEF LookClose
<1>2. found # Nothing
  <2>1. c \in Files /\ call[c].name = file[c].name /\ HasOpened(c)
    BY <1>1, OpFact DEF HasOpened
  <2>2. \E s \in Slots : cblist[s].name = call[c].name
    BY <2>1 DEF IInv, OpenInv, Kept
  <2> QED
    BY <2>2, FindCallbacksFact
<1> HIDE DEF found
<1> QED
  BY <1>1, <1>2, DecideMaps

LEMMA LookMaps ==
  ASSUME IInv, IInv', NEW c \in Callers, Look(c)
  PROVE  Registry!Next \/ UNCHANGED Registry!registryVars
BY LookCreateMaps, LookRemoveMaps, LookRegisterMaps, LookUnregisterMaps, LookOpenMaps, LookCloseMaps
   DEF Look

--------------------------------------------------------------------------------
(* The writes, in which calls take effect.                                    *)

(* What a step that writes may take for granted of the view before and after. *)
LEMMA WriterView ==
  ASSUME IInv, IInv', NEW c \in Callers, call[c].step = "write", NEW ok \in BOOLEAN, Wrote(c, ok),
         UNCHANGED users
  PROVE  /\ Answers(c, ok) /\ OnlyCallOf(c)
         /\ ViewRight /\ ViewRight'
         /\ call[c].name \in Names /\ call[c].op # "none"
         /\ Calls[c].name = call[c].name
         /\ \A op : Registry!Pending(c, op) <=> call[c].op = op
         /\ Registry!Answer(c, IF ok THEN "yes" ELSE "no")
         /\ \A f \in Files \ {c} : (HasOpened(f)' <=> HasOpened(f)) /\ file'[f] = file[f]
<1>1. Answers(c, ok) /\ OnlyCallOf(c)
  BY WroteFact DEF IInv, Answers
<1>2. call[c].name \in Names /\ call[c].op # "none"
  BY WriterFact DEF CallOK
<1> QED
  BY <1>1, <1>2, ViewFact, ViewFactNext, AnswerFact, CallsFact, OpenersFact

(* Who is not a file opens and closes nothing. *)
LEMMA NoFileWrites ==
  ASSUME IInv, IInv', NEW c \in Callers \ Files, call[c].step = "write",
         NEW ok \in BOOLEAN, Wrote(c, ok), UNCHANGED users
  PROVE  Holders' = Holders
BY WriterView, HoldersKept

(* One name's handlers change. *)
LEMMA HandlersChange ==
  ASSUME NEW name \in Names, NEW who, Handlers'[name] = who,
         \A n \in Names \ {name} : Handlers'[n] = Handlers[n]
  PROVE  Handlers' = [Handlers EXCEPT ![name] = who]
<1>1. Handlers = [n \in Names |-> Handlers[n]] /\ Handlers' = [n \in Names |-> Handlers'[n]]
  BY DEF Handlers
<1> QED
  BY <1>1

LEMMA HoldersChange ==
  ASSUME NEW name \in Names, NEW who, Holders'[name] = who,
         \A n \in Names \ {name} : Holders'[n] = Holders[n]
  PROVE  Holders' = [Holders EXCEPT ![name] = who]
<1>1. Holders = [n \in Names |-> Holders[n]] /\ Holders' = [n \in Names |-> Holders'[n]]
  BY DEF Holders
<1> QED
  BY <1>1

LEMMA WriteCreateMaps ==
  ASSUME IInv, IInv', NEW c \in Callers, call[c].step = "write", WriteCreate(c),
         UNCHANGED <<state, mutex, users>>
  PROVE  Registry!Next
<1> USE WriterFact DEF WriteCreate
<1>1. c \in Callers \ Files /\ call[c].op = "create" /\ UNCHANGED users /\ UNCHANGED cblist
  BY OpFact, CallerFact
<1>2. UNCHANGED Handlers
  BY <1>1, HandlersKept
<1>3. CASE /\ chrdevs' = chrdevs \cup {call[c].name}
           /\ Wrote(c, TRUE)
  <2>1. call[c].name \notin chrdevs
    BY <1>1, LookerFact DEF Found
  <2>2. Registry!Create(c)
    BY <1>1, <1>2, <1>3, <2>1, WriterView, NoFileWrites DEF Registry!Create
  <2> QED
    BY <1>1, <1>3, <2>2, WriterView, EffectMaps DEF Registry!TakesEffect
<1>4. CASE UNCHANGED <<devlist, chrdevs>> /\ Wrote(c, FALSE)
  BY <1>1, <1>2, <1>4, WriterView, NoFileWrites, RefuseMaps
<1> QED
  BY <1>3, <1>4

LEMMA WriteRemoveMaps ==
  ASSUME IInv, IInv', NEW c \in Callers, call[c].step = "write", WriteRemove(c),
         UNCHANGED <<state, mutex, users>>
  PROVE  Registry!Next
<1> USE WriterFact DEF WriteRemove
<1>1. /\ c \in Callers \ Files /\ call[c].op = "remove"
      /\ UNCHANGED users /\ UNCHANGED cblist /\ Wrote(c, TRUE)
  BY OpFact, CallerFact
<1>2. devlist[call[c].slot] = call[c].name /\ \A s \in Slots : cblist[s].name # call[c].name
  BY <1>1 DEF Found
<1>3. /\ call[c].name \in chrdevs /\ Handlers[call[c].name] = Nothing
      /\ chrdevs' = chrdevs \ {call[c].name}
  BY <1>1, <1>2, LookerFact
<1>4. Registry!Remove(c)
  BY <1>1, <1>3, WriterView, NoFileWrites, HandlersKept DEF Registry!Remove
<1> QED
  BY <1>1, <1>4, WriterView, EffectMaps DEF Registry!TakesEffect

LEMMA WriteRegisterMaps ==
  ASSUME IInv, IInv', NEW c \in Callers, call[c].step = "write", WriteRegister(c),
         UNCHANGED <<state, mutex, users>>
  PROVE  Registry!Next
<1> DEFINE slot == call[c].slot
           name == call[c].name
<1>1. /\ c \in Callers \ Files /\ call[c].op = "register" /\ UNCHANGED users
      /\ Wrote(c, TRUE) /\ UNCHANGED chrdevs
  BY OpFact, CallerFact DEF WriteRegister
<1>2. /\ name \in Names /\ slot \in Slots
      /\ cblist[slot].name = Nothing /\ \A s \in Slots : cblist[s].name # name
      /\ \E s \in Slots : devlist[s] = name
  BY <1>1, WriterFact DEF Found
<1>3. /\ cblist'[slot].name = name /\ cblist'[slot].hlr = c
      /\ \A s \in Slots \ {slot} : cblist'[s] = cblist[s]
  BY <1>2, WriterFact DEF TypeOK, EntryRecord, WriteRegister
<1>4. name \in chrdevs /\ Handlers[name] = Nothing
  BY <1>1, <1>2, LookerFact
<1>5. ViewRight /\ ViewRight'
  BY <1>1, WriterView
<1> HIDE DEF slot
<1>6. Handlers'[name] = c
  BY <1>2, <1>3, <1>5 DEF ViewRight, HandlersRight
<1>7. ASSUME NEW n \in Names \ {name} PROVE Handlers'[n] = Handlers[n]
  <2>1. \A s \in Slots : \/ cblist'[s] = cblist[s]
                         \/ cblist'[s].name # n /\ cblist[s].name # n
    BY <1>2, <1>3, NamesFact
  <2> QED
    BY <1>5, <2>1 DEF ViewRight, HandlersRight
<1>8. Handlers' = [Handlers EXCEPT ![name] = c]
  BY <1>2, <1>6, <1>7, HandlersChange
<1>9. Registry!Register(c)
  BY <1>1, <1>4, <1>8, WriterView, NoFileWrites DEF Registry!Register
<1> QED
  BY <1>1, <1>9, WriterView, EffectMaps DEF Registry!TakesEffect

LEMMA WriteUnregisterMaps ==
  ASSUME IInv, IInv', NEW c \in Callers, call[c].step = "write", WriteUnregister(c),
         UNCHANGED <<state, mutex, users>>
  PROVE  Registry!Next
<1> DEFINE slot == call[c].slot
           name == call[c].name
<1>1. /\ c \in Callers \ Files /\ call[c].op = "unregister" /\ UNCHANGED users
      /\ Wrote(c, TRUE) /\ UNCHANGED chrdevs
  BY OpFact, CallerFact DEF WriteUnregister
<1>2. /\ name \in Names /\ slot \in Slots
      /\ cblist[slot].name = name /\ ~cblist[slot].open
  BY <1>1, WriterFact DEF Found
<1>3. /\ cblist'[slot].name = Nothing
      /\ \A s \in Slots \ {slot} : cblist'[s] = cblist[s]
  BY <1>2, WriterFact DEF TypeOK, FreeEntry, WriteUnregister
<1>4. Holders[name] = Nothing
  BY <1>1, <1>2, LookerFact
<1>5. ViewRight /\ ViewRight' /\ ListsConsistent
  BY <1>1, WriterView, WriterFact
<1> HIDE DEF slot
<1>6. Handlers'[name] = Nothing
  <2>1. \A s \in Slots : cblist'[s].name # name
    BY <1>2, <1>3, <1>5, NamesFact DEF ListsConsistent
  <2> QED
    BY <1>2, <1>5, <2>1 DEF ViewRight, HandlersRight
<1>7. ASSUME NEW n \in Names \ {name} PROVE Handlers'[n] = Handlers[n]
  <2>1. \A s \in Slots : \/ cblist'[s] = cblist[s]
                         \/ cblist'[s].name # n /\ cblist[s].name # n
    BY <1>2, <1>3, NamesFact
  <2> QED
    BY <1>5, <2>1 DEF ViewRight, HandlersRight
<1>8. Handlers' = [Handlers EXCEPT ![name] = Nothing]
  BY <1>2, <1>6, <1>7, HandlersChange
<1>9. Registry!Unregister(c)
  BY <1>1, <1>4, <1>8, WriterView, NoFileWrites DEF Registry!Unregister
<1> QED
  BY <1>1, <1>9, WriterView, EffectMaps DEF Registry!TakesEffect

(* The flag of a slot is written: the slots keep their names and handlers.    *)
LEMMA FlagMaps ==
  ASSUME IInv, NEW c \in Callers, call[c].step = "write", NEW open \in BOOLEAN,
         cblist' = [cblist EXCEPT ![call[c].slot].open = open]
  PROVE  Handlers' = Handlers
<1>1. \A s \in Slots : cblist'[s].name = cblist[s].name /\ cblist'[s].hlr = cblist[s].hlr
  BY WriterFact DEF TypeOK, EntryRecord
<1> QED
  BY <1>1, HandlersKept

LEMMA WriteOpenMaps ==
  ASSUME IInv, IInv', NEW c \in Callers, call[c].step = "write", WriteOpen(c),
         UNCHANGED <<state, mutex, users>>
  PROVE  Registry!Next
<1> DEFINE name == call[c].name
<1>1. /\ c \in Files /\ call[c].op = "open" /\ name = file[c].name /\ UNCHANGED users
      /\ call[c].ok \in BOOLEAN /\ Wrote(c, call[c].ok) /\ UNCHANGED chrdevs
  BY OpFact, WriterFact DEF WriteOpen, TypeOK, CallRecord
<1>2. /\ name \in Names /\ call[c].slot \in Slots /\ cblist[call[c].slot].name = name
      /\ call[c].ok <=> ~cblist[call[c].slot].open
  BY <1>1, WriterFact DEF Found
<1>3. UNCHANGED Handlers /\ Handlers[name] # Nothing
  BY <1>1, <1>2, FlagMaps, LookerFact DEF WriteOpen
<1>4. call[c].ok <=> Holders[name] = Nothing
  BY <1>1, <1>2, LookerFact
<1>5. ~HasOpened(c) /\ (HasOpened(c)' <=> call[c].ok) /\ file'[c] = file[c]
  <2>1. FilePlace(c)
    BY <1>1 DEF IInv, CallersInv
  <2>2. call'[c].op = "open" /\ call'[c].step = "unlock" /\ call'[c].ok = call[c].ok
    BY <1>1, WriterFact, WroteFact
  <2> QED
    BY <1>1, <2>1, <2>2 DEF HasOpened, FilePlace, users
<1>6. CASE call[c].ok
  <2>1. ViewRight /\ ViewRight' /\ Answers(c, TRUE)
        /\ \A f \in Files \ {c} : (HasOpened(f)' <=> HasOpened(f)) /\ file'[f] = file[f]
    BY <1>1, <1>6, WriterView DEF Answers
  <2>2. Holders'[name] = c
    BY <1>1, <1>2, <1>5, <1>6, <2>1 DEF ViewRight, HoldersRight
  <2>3. ASSUME NEW n \in Names \ {name} PROVE Holders'[n] = Holders[n]
    BY <1>1, <1>5, <2>1 DEF ViewRight, HoldersRight
  <2>4. Holders' = [Holders EXCEPT ![name] = c]
    BY <1>2, <2>2, <2>3, HoldersChange
  <2>5. Wrote(c, TRUE)
    BY <1>1, <1>6
  <2>6. Registry!Open(c)
    BY <1>1, <1>3, <1>4, <1>6, <2>4, <2>5, WriterView DEF Registry!Open
  <2> QED
    BY <2>1, <2>6, EffectMaps DEF Registry!TakesEffect
<1>7. CASE ~call[c].ok
  <2>1. Wrote(c, FALSE)
    BY <1>1, <1>7
  <2>2. Holders' = Holders
    BY <1>1, <1>5, <1>7, WriterView, HoldersKept
  <2> QED
    BY <1>1, <1>3, <1>4, <1>7, <2>1, <2>2, WriterView, RefuseMaps
<1> QED
  BY <1>6, <1>7

LEMMA WriteCloseMaps ==
  ASSUME IInv, IInv', NEW c \in Callers, call[c].step = "write", WriteClose(c),
         UNCHANGED <<state, mutex, users>>
  PROVE  Registry!Next
<1> DEFINE name == call[c].name
<1>1. /\ c \in Files /\ call[c].op = "close" /\ name = file[c].name /\ UNCHANGED users
      /\ Wrote(c, TRUE) /\ UNCHANGED chrdevs /\ UNCHANGED Handlers
  BY OpFact, FlagMaps DEF WriteClose
<1>2. name \in Names
  BY WriterFact
<1>3. HasOpened(c) /\ ~HasOpened(c)'
  <2>1. FilePlace(c)
    BY <1>1 DEF IInv, CallersInv
  <2>2. call'[c].op = "close" /\ call'[c].step = "unlock"
    BY <1>1, WriterFact, WroteFact
  <2> QED
    BY <1>1, <2>1, <2>2 DEF HasOpened, FilePlace, users
<1>4. ViewRight /\ ViewRight' /\ Answers(c, TRUE) /\ OneOpenPerDevice
      /\ \A f \in Files \ {c} : (HasOpened(f)' <=> HasOpened(f)) /\ file'[f] = file[f]
  BY <1>1, WriterView, WriterFact
<1>5. Holders[name] = c
  BY <1>1, <1>2, <1>3, <1>4 DEF ViewRight, HoldersRight
<1>6. Holders'[name] = Nothing
  <2>1. \A f \in Files : HasOpened(f)' => file'[f].name # name
    BY <1>1, <1>3, <1>4 DEF OneOpenPerDevice
  <2> QED
    BY <1>2, <1>4, <2>1 DEF ViewRight, HoldersRight
<1>7. ASSUME NEW n \in Names \ {name} PROVE Holders'[n] = Holders[n]
  BY <1>1, <1>3, <1>4 DEF ViewRight, HoldersRight
<1>8. Holders' = [Holders EXCEPT ![name] = Nothing]
  BY <1>2, <1>6, <1>7, HoldersChange
<1>9. Registry!Close(c)
  BY <1>1, <1>5, <1>8, WriterView DEF Registry!Close
<1> QED
  BY <1>4, <1>9, EffectMaps DEF Registry!TakesEffect

LEMMA WriteMaps ==
  ASSUME IInv, IInv', NEW c \in Callers, Write(c)
  PROVE  Registry!Next
BY WriteCreateMaps, WriteRemoveMaps, WriteRegisterMaps, WriteUnregisterMaps, WriteOpenMaps, WriteCloseMaps
   DEF Write

--------------------------------------------------------------------------------
(* Calls begin and return.                                                    *)

LEMMA BeginMaps ==
  ASSUME IInv, IInv', NEW c \in Callers, NEW op \in Registry!Operations, NEW name \in Names,
         Begin(c, op, name), call[c].step = "done" \/ (call[c].step = "idle" /\ call[c].op = "none"),
         UNCHANGED lists,
         \A f \in Files : /\ HasOpened(f)' <=> HasOpened(f)
                          /\ HasOpened(f) => file'[f].name = file[f].name
  PROVE  Registry!Next
<1>1. TypeOK /\ op \in Ops
  BY DEF IInv, Ops, Registry!Operations
<1> QED
  BY <1>1, BeginFact, ViewKept, InvokeMaps

LEMMA EndMaps ==
  ASSUME IInv, IInv', NEW c \in Callers, Return(c), call[c].step = "done", UNCHANGED lists,
         \A f \in Files : /\ HasOpened(f)' <=> HasOpened(f)
                          /\ HasOpened(f) => file'[f].name = file[f].name
  PROVE  Registry!Next
BY ViewKept, ReturnMaps DEF IInv

(* What an administrator or a kernel module does leaves the files alone. *)
LEMMA OutsideFact ==
  ASSUME NEW c \in Callers \ Files, OnlyCallOf(c), UNCHANGED file
  PROVE  \A f \in Files : /\ HasOpened(f)' <=> HasOpened(f)
                          /\ HasOpened(f) => file'[f].name = file[f].name
BY DEF HasOpened, OnlyCallOf, Callers

LEMMA AdminMaps ==
  ASSUME IInv, IInv', AdminNext
  PROVE  Registry!Next
<1>1. PICK a \in Admins : AdminBegins(a) \/ AdminReturns(a)
  BY DEF AdminNext
<1>2. a \in Callers \ Files /\ TypeOK /\ CallOK(a) /\ UNCHANGED lists /\ UNCHANGED file
  BY <1>1, CallerFact DEF IInv, CallersInv, Callers, AdminBegins, AdminReturns, users
<1>3. CASE AdminBegins(a)
  <2>1. PICK op \in {"create", "remove"}, name \in Names : Begin(a, op, name)
    BY <1>3 DEF AdminBegins
  <2>2. op \in Registry!Operations /\ op \in Ops
    BY DEF Registry!Operations, Ops
  <2>3. call[a].step = "idle" /\ call[a].op = "none"
    BY <1>2, <1>3 DEF AdminBegins, CallOK
  <2> QED
    BY <1>2, <2>1, <2>2, <2>3, BeginFact, OutsideFact, BeginMaps
<1>4. CASE AdminReturns(a)
  BY <1>2, <1>4, ReturnFact, OutsideFact, EndMaps DEF AdminReturns
<1> QED
  BY <1>1, <1>3, <1>4

LEMMA ModuleMaps ==
  ASSUME IInv, IInv', ModuleNext
  PROVE  Registry!Next
<1>1. PICK m \in Modules : ModuleInit(m) \/ RegisterReturned(m) \/ ModuleExit(m) \/ UnregisterReturned(m)
  BY DEF ModuleNext
<1>2. /\ m \in Callers \ Files /\ TypeOK /\ CallOK(m) /\ ModulePlace(m) /\ DevName[m] \in Names
      /\ UNCHANGED lists /\ UNCHANGED file
  BY <1>1, CallerFact, DevNameAssumption
     DEF IInv, CallersInv, Callers, ModuleInit, RegisterReturned, ModuleExit, UnregisterReturned
<1>3. {"register", "unregister"} \subseteq Registry!Operations /\ {"register", "unregister"} \subseteq Ops
  BY DEF Registry!Operations, Ops
<1>4. ASSUME NEW op \in {"register", "unregister"}, Begin(m, op, DevName[m]),
             call[m].step = "done" \/ (call[m].step = "idle" /\ call[m].op = "none")
      PROVE  Registry!Next
  BY <1>2, <1>3, <1>4, BeginFact, OutsideFact, BeginMaps
<1>5. ASSUME Return(m), call[m].step = "done"
      PROVE  Registry!Next
  BY <1>2, <1>5, ReturnFact, OutsideFact, EndMaps
<1>6. CASE ModuleInit(m)
  BY <1>2, <1>4, <1>6 DEF ModuleInit, ModulePlace, CallOK
<1>7. CASE RegisterReturned(m)
  BY <1>5, <1>7 DEF RegisterReturned, Returned
<1>8. CASE ModuleExit(m)
  BY <1>2, <1>4, <1>8 DEF ModuleExit, ModulePlace, CallOK
<1>9. CASE UnregisterReturned(m)
  BY <1>4, <1>5, <1>9 DEF UnregisterReturned, Returned
<1> QED
  BY <1>1, <1>6, <1>7, <1>8, <1>9

(* A file's own step: it has its device open after as before.                 *)
LEMMA FileViewFact ==
  ASSUME NEW f \in Files, OnlyCallOf(f), \A g \in Files \ {f} : file'[g] = file[g],
         HasOpened(f)' <=> HasOpened(f), HasOpened(f) => file'[f].name = file[f].name
  PROVE  \A g \in Files : /\ HasOpened(g)' <=> HasOpened(g)
                          /\ HasOpened(g) => file'[g].name = file[g].name
BY DEF HasOpened, OnlyCallOf, Callers

(* From the answer of an open to the close of the file, it goes on being open. *)
LEMMA FileBeginsMaps ==
  ASSUME IInv, IInv', NEW f \in Files, OpenBegins(f) \/ OpenFailed(f) \/ CloseBegins(f)
  PROVE  Registry!Next
<1> USE FileFact
<1>1. {"open", "close"} \subseteq Registry!Operations /\ {"open", "close"} \subseteq Ops
  BY DEF Registry!Operations, Ops
<1>2. CASE OpenBegins(f)
  <2>1. PICK name \in chrdevs :
          /\ file' = [file EXCEPT ![f].state = "opening", ![f].name = name]
          /\ Begin(f, "open", name)
    BY <1>2 DEF OpenBegins
  <2>2. name \in Names /\ call[f].op = "none" /\ call[f].step = "idle" /\ UNCHANGED lists
    BY <1>2 DEF OpenBegins, TypeOK, FilePlace, CallOK
  <2>3. /\ OnlyCallOf(f)
        /\ call'[f].op = "open" /\ call'[f].step = "lock"
    BY <1>1, <2>1, <2>2, BeginFact
  <2>4. \A g \in Files \ {f} : file'[g] = file[g]
    BY <2>1 DEF TypeOK
  <2>5. file[f].state = "closed" /\ file'[f].state = "opening"
    BY <1>2, <2>1 DEF OpenBegins, TypeOK, FileRecord
  <2>6. ~HasOpened(f) /\ ~HasOpened(f)'
    BY <2>2, <2>3, <2>5 DEF HasOpened
  <2> QED
    BY <1>1, <2>1, <2>2, <2>3, <2>4, <2>6, FileViewFact, BeginMaps
<1>3. CASE OpenFailed(f) \/ CloseBegins(f)
  <2>1. /\ Begin(f, "close", file[f].name) /\ file[f].name \in Names /\ UNCHANGED lists
        /\ call[f].step = "done" \/ (call[f].step = "idle" /\ call[f].op = "none")
        /\ HasOpened(f)
    BY <1>3 DEF OpenFailed, CloseBegins, Returned, FilePlace, CallOK, HasOpened
  <2>2. /\ \A g \in Files \ {f} : file'[g] = file[g]
        /\ file'[f].name = file[f].name
    BY <1>3 DEF TypeOK, FileRecord, OpenFailed, CloseBegins, SetFile
  <2>3. OnlyCallOf(f) /\ HasOpened(f)'
    BY <1>1, <2>1, BeginFact DEF HasOpened
  <2> QED
    BY <1>1, <2>1, <2>2, <2>3, FileViewFact, BeginMaps
<1> QED
  BY <1>2, <1>3

LEMMA FileReturnsMaps ==
  ASSUME IInv, IInv', NEW f \in Files, OpenRefused(f) \/ OpenDone(f) \/ CloseReturned(f)
  PROVE  Registry!Next
<1> USE FileFact
<1>1. Return(f) /\ call[f].step = "done" /\ UNCHANGED lists
  BY DEF OpenRefused, OpenDone, CloseReturned, Returned
<1>2. OnlyCallOf(f) /\ call'[f] = NoCall
  BY <1>1, ReturnFact
<1>3. \A g \in Files \ {f} : file'[g] = file[g]
  BY DEF TypeOK, OpenRefused, OpenDone, CloseReturned, SetFile
<1>4. (HasOpened(f)' <=> HasOpened(f)) /\ (HasOpened(f) => file'[f].name = file[f].name)
  <2>1. CASE OpenDone(f)
    <3>1. HasOpened(f)
      BY <2>1 DEF OpenDone, Returned, HasOpened
    <3>2. file'[f].state = "ready" /\ file'[f].name = file[f].name
      BY <2>1 DEF OpenDone, TypeOK, FileRecord
    <3> QED
      BY <3>1, <3>2 DEF HasOpened
  <2>2. CASE OpenRefused(f) \/ CloseReturned(f)
    <3>1. ~HasOpened(f)
      BY <2>2 DEF OpenRefused, CloseReturned, Returned, HasOpened, FilePlace
    <3>2. file'[f].state \in {"closed", "stopping"}
      BY <2>2 DEF OpenRefused, CloseReturned, SetFile, NoFile, TypeOK, FileRecord
    <3> QED
      BY <1>2, <3>1, <3>2 DEF HasOpened, NoCall
  <2> QED
    BY <2>1, <2>2
<1> QED
  BY <1>1, <1>2, <1>3, <1>4, FileViewFact, EndMaps

(* A file that maps, runs its thread or is released makes no call.            *)
LEMMA FileWorksMaps ==
  ASSUME IInv, IInv', NEW f \in Files,
         \/ \E p \in Sharers : MmapBegins(f, p) \/ MmapFails(f, p) \/ MmapDone(f, p)
         \/ Released(f) \/ PassBegins(f) \/ PassEnds(f) \/ ThreadExits(f)
  PROVE  UNCHANGED Registry!registryVars
<1> USE FileFact
<1>1. UNCHANGED lists /\ UNCHANGED call
  BY DEF MmapBegins, MmapFails, MmapDone, Released, PassBegins, PassEnds, ThreadExits
<1>2. \A g \in Files \ {f} : file'[g] = file[g]
  BY DEF TypeOK, MmapBegins, MmapFails, MmapDone, Released, PassBegins, PassEnds, ThreadExits
<1>3. (HasOpened(f)' <=> HasOpened(f)) /\ (HasOpened(f) => file'[f].name = file[f].name)
  <2>1. CASE Released(f)
    <3>1. file[f].state = "stopping" /\ file'[f].state = "closed"
      BY <2>1 DEF Released, NoFile, TypeOK
    <3> QED
      BY <1>1, <3>1 DEF HasOpened, FilePlace
  <2>2. CASE ~Released(f)
    <3> DEFINE Same == file'[f].state = file[f].state /\ file'[f].name = file[f].name
    <3>1. ASSUME PassBegins(f) \/ PassEnds(f) \/ ThreadExits(f) PROVE Same
      BY <3>1 DEF PassBegins, PassEnds, ThreadExits
    <3>2. ASSUME NEW p \in Sharers, MmapBegins(f, p) \/ MmapFails(f, p) PROVE Same
      BY <3>2 DEF TypeOK, FileRecord, MmapBegins, MmapFails
    <3>3. ASSUME NEW p \in Sharers, MmapDone(f, p) PROVE Same
      BY <3>3 DEF TypeOK, FileRecord, MmapDone
    <3>4. Same
      BY <2>2, <3>1, <3>2, <3>3
    <3> QED
      BY <1>1, <3>4 DEF HasOpened
  <2> QED
    BY <2>1, <2>2
<1>4. OnlyCallOf(f)
  BY <1>1 DEF TypeOK, OnlyCallOf
<1>5. UNCHANGED <<chrdevs, Handlers, Holders>>
  BY <1>1, <1>2, <1>3, <1>4, FileViewFact, ViewKept
<1>6. UNCHANGED Calls
  BY <1>1 DEF Calls, CallOf
<1> QED
  BY <1>5, <1>6 DEF Registry!registryVars

LEMMA FileMaps ==
  ASSUME IInv, IInv', FileNext
  PROVE  Registry!Next \/ UNCHANGED Registry!registryVars
BY FileBeginsMaps, FileReturnsMaps, FileWorksMaps DEF FileNext

--------------------------------------------------------------------------------
(* Loading and unloading, seen by callers, and the refinement.                *)

(* Nobody uses kucomms, before and after: nothing is registered or open.      *)
LEMMA UnusedView ==
  IInv /\ Unused => \A n \in Names : Handlers[n] = Nothing /\ Holders[n] = Nothing
<1> SUFFICES ASSUME IInv, Unused
             PROVE  \A n \in Names : Handlers[n] = Nothing /\ Holders[n] = Nothing
  OBVIOUS
<1>1. \A f \in Files : ~HasOpened(f)
  BY DEF IInv, CallersInv, CallOK, Unused, HasOpened, Callers
<1>2. \A s \in Slots : cblist[s].name = Nothing
  BY DEF IInv, ListsInv, Owned, Unused
<1> QED
  BY <1>1, <1>2, NamesFact, ViewFact DEF ViewRight, HandlersRight, HoldersRight

LEMMA UnusedViewNext ==
  IInv' /\ Unused' => (\A n \in Names : Handlers[n] = Nothing /\ Holders[n] = Nothing)'
BY UnusedView, PTL

LEMMA UnusedKept ==
  ASSUME IInv, IInv', Unused, UNCHANGED <<call, users>>
  PROVE  UNCHANGED <<Handlers, Holders, Calls>>
<1>1. Unused'
  BY DEF Unused, users
<1>2. \A n \in Names : Handlers'[n] = Handlers[n] /\ Holders'[n] = Holders[n]
  BY <1>1, UnusedView, UnusedViewNext
<1>3. /\ Handlers = [n \in Names |-> Handlers[n]] /\ Handlers' = [n \in Names |-> Handlers'[n]]
      /\ Holders = [n \in Names |-> Holders[n]] /\ Holders' = [n \in Names |-> Holders'[n]]
  BY DEF Handlers, Holders
<1>4. UNCHANGED Calls
  BY DEF Calls, CallOf
<1> QED
  BY <1>2, <1>3, <1>4

LEMMA LoadMaps ==
  ASSUME IInv, IInv', LoadKucomms \/ InitLists
  PROVE  UNCHANGED Registry!registryVars
<1>1. Unused /\ UNCHANGED <<chrdevs, call, users>>
  BY DEF IInv, LoadInv, Unused, LoadKucomms, InitLists
<1> QED
  BY <1>1, UnusedKept DEF Registry!registryVars

LEMMA ExitMaps ==
  ASSUME IInv, IInv', ExitKucomms
  PROVE  Registry!Next
<1>1. UNCHANGED <<call, users>> /\ state' = "unloaded"
  BY DEF ExitKucomms, users
<1>2. Unused
  BY <1>1 DEF IInv, LoadInv, Unused, users
<1>3. chrdevs' = {}
  BY <1>1 DEF IInv, ListsInv, DevicesListed
<1>4. \A c \in Callers : Registry!Pending(c, "none")
  BY <1>2, CallsFact DEF IInv, CallersInv, CallOK, Unused, Registry!Pending
<1>5. Registry!Unload
  BY <1>1, <1>2, <1>3, <1>4, UnusedKept, UnusedView DEF Registry!Unload
<1> QED
  BY <1>5 DEF Registry!Next

LEMMA RegistryInit ==
  ASSUME Init
  PROVE  Registry!Init
<1>1. IInv /\ Unused
  BY InitHolds DEF Init, Unused, NoCall, NoFile
<1>2. /\ Handlers = [n \in Names |-> Handlers[n]] /\ Holders = [n \in Names |-> Holders[n]]
  BY DEF Handlers, Holders
<1>3. Handlers = [n \in Names |-> Nothing] /\ Holders = [n \in Names |-> Nothing]
  BY <1>1, <1>2, UnusedView
<1>4. Calls = [c \in Callers |-> Registry!NoCall]
  BY DEF Calls, CallOf, Init, NoCall, Registry!NoCall
<1> QED
  BY <1>3, <1>4 DEF Init, Registry!Init

(* Each of the six operations takes effect at one moment between its begin    *)
(* and its return, with the right answer: for callers, names and slots        *)
(* without bound, kucomms_register.c is as good as a registry without a mutex *)
(* whose operations are atomic.                                               *)
THEOREM CallsTakeEffectAtOnce == Orderly => (Spec => CallsAreAtomic)
<1> SUFFICES ASSUME Orderly PROVE Spec => CallsAreAtomic
  OBVIOUS
<1>1. Init => Registry!Init
  BY RegistryInit
<1>2. IInv /\ IInv' /\ [Next]_vars => [Registry!Next]_(Registry!registryVars)
  <2> SUFFICES ASSUME IInv, IInv', [Next]_vars
               PROVE  Registry!Next \/ UNCHANGED Registry!registryVars
    OBVIOUS
  <2>1. CASE LoadKucomms \/ InitLists \/ ExitKucomms
    BY <2>1, LoadMaps, ExitMaps
  <2>2. ASSUME NEW c \in Callers, Lock(c) \/ CallSteps(c)
        PROVE  Registry!Next \/ UNCHANGED Registry!registryVars
    BY <2>2, LockMaps, LookMaps, WriteMaps DEF CallSteps
  <2>3. CASE AdminNext \/ ModuleNext \/ FileNext
    BY <2>3, AdminMaps, ModuleMaps, FileMaps
  <2>4. CASE UNCHANGED vars
    <3>1. UNCHANGED lists /\ UNCHANGED call /\ UNCHANGED file
      BY <2>4 DEF vars, lists, users
    <3>2. \A f \in Files : (HasOpened(f)' <=> HasOpened(f)) /\ file'[f].name = file[f].name
      BY <3>1 DEF HasOpened
    <3>3. UNCHANGED Calls
      BY <3>1 DEF Calls, CallOf
    <3> QED
      BY <3>1, <3>2, <3>3, ViewKept DEF Registry!registryVars
  <2> QED
    BY <2>1, <2>2, <2>3, <2>4 DEF Next
<1> QED
  BY <1>1, <1>2, DeviceInvariance, PTL DEF Spec, CallsAreAtomic, Registry!Spec

================================================================================
