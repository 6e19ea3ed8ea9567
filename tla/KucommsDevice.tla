----------------------------- MODULE KucommsDevice -----------------------------
(******************************************************************************)
(* The kucomms kernel module: kucomms_register.c, kucomms_fops.c and the      *)
(* parts of kucomms_mod.c that load and unload it.                            *)
(*                                                                            *)
(* Administrators create and remove character devices through sysfs. Kernel   *)
(* modules register their three handlers under the name of a device when they *)
(* are loaded, and unregister when they are unloaded. Processes open a device *)
(* and map the shared memory: the file's kernel thread then calls the         *)
(* handlers, until the last close and unmap release the file.                 *)
(*                                                                            *)
(* Six operations share cblist and devlist under cblist_mutex. Each is a call *)
(* of some caller and takes the steps lock, look (find the slot, decide),     *)
(* write (change the lists), unlock. A name's spelling is checked before the  *)
(* lock and is always right here: a wrongly spelled one changes nothing.      *)
(******************************************************************************)
EXTENDS Integers, FiniteSets

CONSTANTS
  Names,     \* device names
  Admins,    \* processes that write create_device and remove_device
  Modules,   \* kernel modules that register handlers
  Files,     \* open files, each with its kernel thread
  Sharers,   \* processes that share one open file (after fork)
  Slots,     \* indices of cblist, and of devlist: 0 .. 15 in the code
  DevName,   \* the name each kernel module registers under, fixed in its text
  Env,       \* what the surroundings may do: a subset of {"signals", "early"}
  Nothing    \* no name, no module, no slot, no caller

Callers == Admins \cup Modules \cup Files

ASSUME SlotsAssumption == Slots \subseteq Nat /\ IsFiniteSet(Slots)
ASSUME FilesAssumption == IsFiniteSet(Files)
ASSUME DevNameAssumption == DevName \in [Modules -> Names]
ASSUME CallersAssumption ==
  /\ Admins \cap Modules = {} /\ Admins \cap Files = {} /\ Modules \cap Files = {}
  /\ Nothing \notin Callers \cup Names \cup Slots

VARIABLES
  state,    \* of the kucomms module: "unloaded", "loading" or "loaded"
  cblist,   \* the registered handlers
  devlist,  \* the names of the devices kucomms knows of
  chrdevs,  \* the names of the devices there are in the kernel
  mutex,    \* who holds cblist_mutex
  call,     \* the call each caller is in
  module,   \* where each handlers' module is in its life
  file,     \* each file, with the pfd behind it
  thread,   \* each file's kernel thread
  refs      \* references that try_module_get took on kucomms

vars == <<state, cblist, devlist, chrdevs, mutex, call, module, file, thread, refs>>
lists == <<cblist, devlist, chrdevs>>
users == <<module, file, thread, refs>>

--------------------------------------------------------------------------------

NoCall == [op |-> "none", name |-> Nothing, step |-> "idle", slot |-> Nothing, ok |-> FALSE]
FreeEntry == [name |-> Nothing, hlr |-> Nothing, open |-> FALSE]
NoFile == [state |-> "closed", name |-> Nothing, hlr |-> Nothing, mapping |-> {}, maps |-> 0]
CallbacksFree == [s \in Slots |-> FreeEntry]
DevicesFree == [s \in Slots |-> Nothing]

Init ==
  /\ state = "unloaded"
  /\ cblist = CallbacksFree
  /\ devlist = DevicesFree
  /\ chrdevs = {}
  /\ mutex = Nothing
  /\ call = [c \in Callers |-> NoCall]
  /\ module = [m \in Modules |-> "out"]
  /\ file = [f \in Files |-> NoFile]
  /\ thread = [f \in Files |-> "none"]
  /\ refs = 0

(* The searches run through the slots upwards and return the first that fits. *)
First(S) == IF S = {} THEN Nothing ELSE CHOOSE s \in S : \A t \in S : s <= t

FindCallbacks(name) == First({s \in Slots : cblist[s].name = name})
FindDevice(name) == First({s \in Slots : devlist[s] = name})
FreeCallbacks == First({s \in Slots : cblist[s].name = Nothing})
FreeDevice == First({s \in Slots : devlist[s] = Nothing})

--------------------------------------------------------------------------------
(* The calls.                                                                 *)

Begin(c, op, name) ==
  call' = [call EXCEPT ![c] = [NoCall EXCEPT !.op = op, !.name = name, !.step = "lock"]]

(* Mutant of Lock: the mutex does not exclude. *)
LockAlways(c) ==
  /\ call[c].step = "lock"
  /\ mutex' = IF mutex = Nothing THEN c ELSE mutex
  /\ call' = [call EXCEPT ![c].step = "look"]
  /\ UNCHANGED <<state, lists, users>>

(* mutex_lock_interruptible takes the mutex when it is free; with a signal    *)
(* pending it returns -EINTR when it is not, and the call goes on without it. *)
Lock(c) ==
  /\ call[c].step = "lock"
  /\ "signals" \notin Env => mutex = Nothing
  /\ mutex' = IF mutex = Nothing THEN c ELSE mutex
  /\ call' = [call EXCEPT ![c].step = "look"]
  /\ UNCHANGED <<state, lists, users>>

(* What the call is to write to, and whether it will succeed.                 *)
Decide(c, slot, ok) ==
  call' = [call EXCEPT ![c].step = IF slot = Nothing THEN "unlock" ELSE "write",
                       ![c].slot = slot, ![c].ok = ok]

LookCreate(c) ==
  /\ call[c].op = "create"
  /\ Decide(c, IF FindDevice(call[c].name) # Nothing THEN Nothing ELSE FreeDevice, FALSE)

(* Mutant of LookRemove: a device with registered handlers can be removed. *)
LookRemoveAlways(c) ==
  /\ call[c].op = "remove"
  /\ Decide(c, FindDevice(call[c].name), FALSE)

LookRemove(c) ==
  /\ call[c].op = "remove"
  /\ Decide(c, IF FindCallbacks(call[c].name) # Nothing THEN Nothing
               ELSE FindDevice(call[c].name), FALSE)

LookRegister(c) ==
  /\ call[c].op = "register"
  /\ Decide(c, IF FindCallbacks(call[c].name) # Nothing \/ FindDevice(call[c].name) = Nothing
               THEN Nothing ELSE FreeCallbacks, FALSE)

(* Mutant of LookUnregister: whether the device is open is not looked at. *)
LookUnregisterOpen(c) ==
  /\ call[c].op = "unregister"
  /\ Decide(c, FindCallbacks(call[c].name), FindCallbacks(call[c].name) = Nothing)

(* A name that is not registered needs no more unregistering. *)
LookUnregister(c) ==
  LET found == FindCallbacks(call[c].name) IN
  /\ call[c].op = "unregister"
  /\ Decide(c, IF found = Nothing \/ cblist[found].open THEN Nothing ELSE found,
               found = Nothing)

(* Mutant of LookOpen: the flag is found set, and the open goes on. *)
LookOpenAlways(c) ==
  /\ call[c].op = "open"
  /\ Decide(c, FindCallbacks(call[c].name), FindCallbacks(call[c].name) # Nothing)

(* kucomms_find_and_open reads whether the device is open already. *)
LookOpen(c) ==
  LET found == FindCallbacks(call[c].name) IN
  /\ call[c].op = "open"
  /\ Decide(c, found, found # Nothing /\ ~cblist[found].open)

LookClose(c) ==
  /\ call[c].op = "close"
  /\ Decide(c, FindCallbacks(call[c].name), TRUE)

Look(c) ==
  /\ call[c].step = "look"
  /\ \/ LookCreate(c) \/ LookRemove(c) \/ LookRegister(c)
     \/ LookUnregister(c) \/ LookOpen(c) \/ LookClose(c)
  /\ UNCHANGED <<state, lists, mutex, users>>

Wrote(c, ok) == call' = [call EXCEPT ![c].step = "unlock", ![c].ok = ok]

(* Mutant of WriteCreate: the slot is kept when register_chrdev fails. *)
WriteCreateKept(c) ==
  /\ call[c].op = "create"
  /\ devlist' = [devlist EXCEPT ![call[c].slot] = call[c].name]
  /\ \/ chrdevs' = chrdevs \cup {call[c].name} /\ Wrote(c, TRUE)
     \/ UNCHANGED chrdevs /\ Wrote(c, FALSE)
  /\ UNCHANGED cblist

(* The device is made, or register_chrdev fails and the slot is freed again.  *)
WriteCreate(c) ==
  /\ call[c].op = "create"
  /\ \/ /\ devlist' = [devlist EXCEPT ![call[c].slot] = call[c].name]
        /\ chrdevs' = chrdevs \cup {call[c].name}
        /\ Wrote(c, TRUE)
     \/ UNCHANGED <<devlist, chrdevs>> /\ Wrote(c, FALSE)
  /\ UNCHANGED cblist

WriteRemove(c) ==
  /\ call[c].op = "remove"
  /\ chrdevs' = chrdevs \ {devlist[call[c].slot]}
  /\ devlist' = [devlist EXCEPT ![call[c].slot] = Nothing]
  /\ Wrote(c, TRUE)
  /\ UNCHANGED cblist

(* The open flag of the slot is left as it is. *)
WriteRegister(c) ==
  /\ call[c].op = "register"
  /\ cblist' = [cblist EXCEPT ![call[c].slot].name = call[c].name, ![call[c].slot].hlr = c]
  /\ Wrote(c, TRUE)
  /\ UNCHANGED <<devlist, chrdevs>>

WriteUnregister(c) ==
  /\ call[c].op = "unregister"
  /\ cblist' = [cblist EXCEPT ![call[c].slot] = FreeEntry]
  /\ Wrote(c, TRUE)
  /\ UNCHANGED <<devlist, chrdevs>>

WriteOpen(c) ==
  /\ call[c].op = "open"
  /\ cblist' = [cblist EXCEPT ![call[c].slot].open = TRUE]
  /\ Wrote(c, call[c].ok)
  /\ UNCHANGED <<devlist, chrdevs>>

(* Mutant of WriteClose: kucomms_find_and_close leaves the device open. *)
WriteCloseNot(c) ==
  /\ call[c].op = "close"
  /\ Wrote(c, TRUE)
  /\ UNCHANGED lists

WriteClose(c) ==
  /\ call[c].op = "close"
  /\ cblist' = [cblist EXCEPT ![call[c].slot].open = FALSE]
  /\ Wrote(c, TRUE)
  /\ UNCHANGED <<devlist, chrdevs>>

Write(c) ==
  /\ call[c].step = "write"
  /\ \/ WriteCreate(c) \/ WriteRemove(c) \/ WriteRegister(c)
     \/ WriteUnregister(c) \/ WriteOpen(c) \/ WriteClose(c)
  /\ UNCHANGED <<state, mutex, users>>

(* Mutant of Unlock: kucomms_unregister keeps the mutex when it returns early. *)
UnlockNotOpen(c) ==
  /\ call[c].step = "unlock"
  /\ mutex' = IF call[c].op = "unregister" /\ ~call[c].ok THEN mutex ELSE Nothing
  /\ call' = [call EXCEPT ![c].step = "done"]
  /\ UNCHANGED <<state, lists, users>>

(* mutex_unlock frees the mutex, whoever holds it. *)
Unlock(c) ==
  /\ call[c].step = "unlock"
  /\ mutex' = Nothing
  /\ call' = [call EXCEPT ![c].step = "done"]
  /\ UNCHANGED <<state, lists, users>>

Returned(c, op) == call[c].op = op /\ call[c].step = "done"

Return(c) == call' = [call EXCEPT ![c] = NoCall]

--------------------------------------------------------------------------------
(* Loading and unloading kucomms. The sysfs files are made before the lists   *)
(* are initialised: static data is zero, which is what the lists start as.    *)

LoadKucomms ==
  /\ state = "unloaded"
  /\ state' = "loading"
  /\ cblist' = CallbacksFree /\ devlist' = DevicesFree
  /\ UNCHANGED <<chrdevs, mutex, call, users>>

InitLists ==
  /\ state = "loading"
  /\ state' = "loaded"
  /\ cblist' = CallbacksFree /\ devlist' = DevicesFree
  /\ mutex' = Nothing
  /\ UNCHANGED <<chrdevs, call, users>>

(* rmmod refuses while a reference is held or a module that uses kucomms is   *)
(* in, and removing the sysfs files waits for writes to them. An open or a    *)
(* release holds no reference at its very ends: the bound on the model is     *)
(* that nobody unloads kucomms then.                                          *)
ExitKucomms ==
  /\ state = "loaded"
  /\ refs = 0
  /\ \A m \in Modules : module[m] = "out"
  /\ \A c \in Callers : call[c].step = "idle"
  /\ state' = "unloaded"
  /\ chrdevs' = chrdevs \ {devlist[s] : s \in Slots}
  /\ UNCHANGED <<cblist, devlist, mutex, call, users>>

--------------------------------------------------------------------------------
(* Administrators: one write to create_device or remove_device at a time.     *)

SysfsReady == state = "loaded" \/ (state = "loading" /\ "early" \in Env)

AdminBegins(a) ==
  /\ SysfsReady
  /\ call[a].step = "idle"
  /\ \E op \in {"create", "remove"}, name \in Names : Begin(a, op, name)
  /\ UNCHANGED <<state, lists, mutex, users>>

AdminReturns(a) ==
  /\ call[a].step = "done"
  /\ Return(a)
  /\ UNCHANGED <<state, lists, mutex, users>>

--------------------------------------------------------------------------------
(* Kernel modules: they register in their init function and unregister, with  *)
(* kucomms_unregister_wait, in their exit function.                           *)

ModuleInit(m) ==
  /\ state = "loaded"
  /\ module[m] = "out"
  /\ module' = [module EXCEPT ![m] = "init"]
  /\ Begin(m, "register", DevName[m])
  /\ UNCHANGED <<state, lists, mutex, file, thread, refs>>

RegisterReturned(m) ==
  /\ Returned(m, "register")
  /\ module' = [module EXCEPT ![m] = IF call[m].ok THEN "in" ELSE "out"]
  /\ Return(m)
  /\ UNCHANGED <<state, lists, mutex, file, thread, refs>>

ModuleExit(m) ==
  /\ module[m] = "in"
  /\ module' = [module EXCEPT ![m] = "exit"]
  /\ Begin(m, "unregister", DevName[m])
  /\ UNCHANGED <<state, lists, mutex, file, thread, refs>>

UnregisterReturned(m) ==
  /\ Returned(m, "unregister")
  /\ \/ /\ call[m].ok
        /\ module' = [module EXCEPT ![m] = "out"]
        /\ Return(m)
     \/ /\ ~call[m].ok
        /\ Begin(m, "unregister", DevName[m])
        /\ UNCHANGED module
  /\ UNCHANGED <<state, lists, mutex, file, thread, refs>>

--------------------------------------------------------------------------------
(* Files. kucomms_fops_open finds the handlers and opens, makes the pfd and   *)
(* the thread, and copies the handlers after the mutex is released.           *)

SetFile(f, s) == file' = [file EXCEPT ![f].state = s]

OpenBegins(f) ==
  /\ file[f].state = "closed"
  /\ \E name \in chrdevs :
       /\ file' = [file EXCEPT ![f].state = "opening", ![f].name = name]
       /\ Begin(f, "open", name)
  /\ UNCHANGED <<state, lists, mutex, module, thread, refs>>

(* No handlers, or open already. *)
OpenRefused(f) ==
  /\ Returned(f, "open") /\ ~call[f].ok
  /\ file' = [file EXCEPT ![f] = NoFile]
  /\ Return(f)
  /\ UNCHANGED <<state, lists, mutex, module, thread, refs>>

(* Mutant of OpenFailed: the error path forgets kucomms_find_and_close. *)
OpenFailedLeftOpen(f) ==
  /\ Returned(f, "open") /\ call[f].ok
  /\ file' = [file EXCEPT ![f] = NoFile]
  /\ Return(f)
  /\ UNCHANGED <<state, lists, mutex, module, thread, refs>>

(* vmalloc or kthread_create fails: the device is closed again. *)
OpenFailed(f) ==
  /\ Returned(f, "open") /\ call[f].ok
  /\ SetFile(f, "abandoning")
  /\ Begin(f, "close", file[f].name)
  /\ UNCHANGED <<state, lists, mutex, module, thread, refs>>

(* Mutant of OpenDone: try_module_get is left out. *)
OpenDoneUnpinned(f) ==
  /\ Returned(f, "open") /\ call[f].ok
  /\ file' = [file EXCEPT ![f].state = "ready", ![f].hlr = cblist[call[f].slot].hlr]
  /\ thread' = [thread EXCEPT ![f] = "created"]
  /\ Return(f)
  /\ UNCHANGED <<state, lists, mutex, module, refs>>

OpenDone(f) ==
  /\ Returned(f, "open") /\ call[f].ok
  /\ refs' = refs + 1
  /\ file' = [file EXCEPT ![f].state = "ready", ![f].hlr = cblist[call[f].slot].hlr]
  /\ thread' = [thread EXCEPT ![f] = "created"]
  /\ Return(f)
  /\ UNCHANGED <<state, lists, mutex, module>>

(* kucomms_fops_mmap looks at pfd->vaddr first and sets it last. *)
MmapBegins(f, p) ==
  /\ file[f].state = "ready"
  /\ p \notin file[f].mapping
  /\ file[f].maps = 0
  /\ file' = [file EXCEPT ![f].mapping = @ \cup {p}]
  /\ UNCHANGED <<state, lists, mutex, call, module, thread, refs>>

MmapFails(f, p) ==
  /\ p \in file[f].mapping
  /\ file' = [file EXCEPT ![f].mapping = @ \ {p}]
  /\ UNCHANGED <<state, lists, mutex, call, module, thread, refs>>

(* The memory is set and the thread woken. *)
MmapDone(f, p) ==
  /\ p \in file[f].mapping
  /\ file' = [file EXCEPT ![f].mapping = @ \ {p}, ![f].maps = @ + 1]
  /\ thread' = [thread EXCEPT ![f] = IF @ = "created" THEN "running" ELSE @]
  /\ UNCHANGED <<state, lists, mutex, call, module, refs>>

(* The last close and unmap, by everyone who shares the file. *)
CloseBegins(f) ==
  /\ file[f].state = "ready" /\ file[f].mapping = {}
  /\ SetFile(f, "closing")
  /\ Begin(f, "close", file[f].name)
  /\ UNCHANGED <<state, lists, mutex, module, thread, refs>>

(* An open that failed is over; a release goes on to kthread_stop. *)
CloseReturned(f) ==
  /\ Returned(f, "close")
  /\ \/ file[f].state = "abandoning" /\ file' = [file EXCEPT ![f] = NoFile]
     \/ file[f].state = "closing" /\ SetFile(f, "stopping")
  /\ Return(f)
  /\ UNCHANGED <<state, lists, mutex, module, thread, refs>>

(* Mutant of Released: the memory is freed before the thread is stopped. *)
ReleasedRunning(f) ==
  /\ file[f].state = "stopping"
  /\ file' = [file EXCEPT ![f] = NoFile]
  /\ thread' = [thread EXCEPT ![f] = IF @ = "created" THEN "none" ELSE @]
  /\ refs' = refs - 1
  /\ UNCHANGED <<state, lists, mutex, call, module>>

(* kthread_stop has waited for the thread: memory, pfd and reference go. *)
Released(f) ==
  /\ file[f].state = "stopping" /\ thread[f] = "exited"
  /\ file' = [file EXCEPT ![f] = NoFile]
  /\ thread' = [thread EXCEPT ![f] = "none"]
  /\ refs' = refs - 1
  /\ UNCHANGED <<state, lists, mutex, call, module>>

--------------------------------------------------------------------------------
(* The kernel thread: message_manager_run looks at kthread_should_stop, then  *)
(* makes a pass in which it calls the handlers of the file.                   *)

PassBegins(f) ==
  /\ thread[f] = "running" /\ file[f].state # "stopping"
  /\ thread' = [thread EXCEPT ![f] = "handler"]
  /\ UNCHANGED <<state, lists, mutex, call, module, file, refs>>

PassEnds(f) ==
  /\ thread[f] = "handler"
  /\ thread' = [thread EXCEPT ![f] = "running"]
  /\ UNCHANGED <<state, lists, mutex, call, module, file, refs>>

(* Mutant of ThreadExits: a thread that was never woken is never woken. *)
ThreadExitsAwake(f) ==
  /\ thread[f] = "running" /\ file[f].state = "stopping"
  /\ thread' = [thread EXCEPT ![f] = "exited"]
  /\ UNCHANGED <<state, lists, mutex, call, module, file, refs>>

(* A thread that was never woken exits without running. *)
ThreadExits(f) ==
  /\ thread[f] \in {"created", "running"} /\ file[f].state = "stopping"
  /\ thread' = [thread EXCEPT ![f] = "exited"]
  /\ UNCHANGED <<state, lists, mutex, call, module, file, refs>>

--------------------------------------------------------------------------------

CallSteps(c) == Look(c) \/ Write(c) \/ Unlock(c)

AdminNext == \E a \in Admins : AdminBegins(a) \/ AdminReturns(a)

ModuleNext == \E m \in Modules :
  ModuleInit(m) \/ RegisterReturned(m) \/ ModuleExit(m) \/ UnregisterReturned(m)

FileNext == \E f \in Files :
  \/ OpenBegins(f) \/ OpenRefused(f) \/ OpenFailed(f) \/ OpenDone(f)
  \/ \E p \in Sharers : MmapBegins(f, p) \/ MmapFails(f, p) \/ MmapDone(f, p)
  \/ CloseBegins(f) \/ CloseReturned(f) \/ Released(f)
  \/ PassBegins(f) \/ PassEnds(f) \/ ThreadExits(f)

Next ==
  \/ LoadKucomms \/ InitLists \/ ExitKucomms
  \/ \E c \in Callers : Lock(c) \/ CallSteps(c)
  \/ AdminNext \/ ModuleNext \/ FileNext

Spec == Init /\ [][Next]_vars

(* The kernel runs every task that can run, and its mutex hands over to its   *)
(* waiters; nobody has to open, close, load or unload.                        *)
Fairness ==
  /\ WF_vars(InitLists)
  /\ \A c \in Callers : SF_vars(Lock(c)) /\ WF_vars(CallSteps(c))
  /\ \A a \in Admins : WF_vars(AdminReturns(a))
  /\ \A m \in Modules : WF_vars(RegisterReturned(m) \/ UnregisterReturned(m))
  /\ \A f \in Files :
       WF_vars(OpenRefused(f) \/ OpenFailed(f) \/ OpenDone(f) \/ CloseReturned(f) \/ Released(f))
  /\ \A f \in Files : WF_vars(PassEnds(f)) /\ WF_vars(ThreadExits(f))
  /\ \A f \in Files, p \in Sharers : WF_vars(MmapFails(f, p) \/ MmapDone(f, p))

FairSpec == Spec /\ Fairness

--------------------------------------------------------------------------------
(* Properties.                                                                *)

Ops == {"none", "create", "remove", "register", "unregister", "open", "close"}

CallRecord ==
  [op : Ops, name : Names \cup {Nothing}, slot : Slots \cup {Nothing}, ok : BOOLEAN,
   step : {"idle", "lock", "look", "write", "unlock", "done"}]

EntryRecord == [name : Names \cup {Nothing}, hlr : Modules \cup {Nothing}, open : BOOLEAN]

FileRecord ==
  [state : {"closed", "opening", "abandoning", "ready", "closing", "stopping"},
   name : Names \cup {Nothing}, hlr : Modules \cup {Nothing}, mapping : SUBSET Sharers, maps : Nat]

(* Each variable keeps to its values. *)
TypeOK ==
  /\ state \in {"unloaded", "loading", "loaded"}
  /\ cblist \in [Slots -> EntryRecord]
  /\ devlist \in [Slots -> Names \cup {Nothing}]
  /\ chrdevs \subseteq Names
  /\ mutex \in Callers \cup {Nothing}
  /\ call \in [Callers -> CallRecord]
  /\ module \in [Modules -> {"out", "init", "in", "exit"}]
  /\ file \in [Files -> FileRecord]
  /\ thread \in [Files -> {"none", "created", "running", "handler", "exited"}]
  /\ refs \in Nat

(* The file has the device open: from the write of the open flag that it won  *)
(* to the write that clears it.                                               *)
HasOpened(f) ==
  \/ file[f].state = "ready"
  \/ call[f].op = "open" /\ call[f].ok /\ call[f].step \in {"unlock", "done"}
  \/ call[f].op = "close" /\ call[f].step \in {"lock", "look", "write"}

HasPfd(f) == file[f].state \in {"ready", "closing", "stopping"}

(* kucomms_find_and_open: at most one file at a time has a device open, as    *)
(* the message "Device file already open" says.                               *)
OneOpenPerDevice ==
  \A f, g \in Files : HasOpened(f) /\ HasOpened(g) /\ f # g => file[f].name # file[g].name

(* The open flag of a registration is set exactly while a file has the device *)
(* open: a flag left set would keep kucomms_unregister_wait waiting for ever, *)
(* a flag lost would let the handlers go.                                     *)
OpenFlagIsHeld ==
  \A s \in Slots : cblist[s].open <=> \E f \in Files : HasOpened(f) /\ file[f].name = cblist[s].name

(* While a device is open the registration whose handlers the file copied is  *)
(* in the list, and the module those handlers are in has not been unloaded.   *)
HandlersStay ==
  \A f \in Files : HasOpened(f) /\ HasPfd(f) =>
    /\ \E s \in Slots : cblist[s].name = file[f].name /\ cblist[s].hlr = file[f].hlr
    /\ module[file[f].hlr] # "out"

(* A name is in each list once, and a name with handlers is that of a device: *)
(* kucomms_char_device_remove refuses while handlers are registered.          *)
ListsConsistent ==
  /\ \A s, t \in Slots : s # t =>
       /\ cblist[s].name = Nothing \/ cblist[s].name # cblist[t].name
       /\ devlist[s] = Nothing \/ devlist[s] # devlist[t]
  /\ \A s \in Slots : cblist[s].name = Nothing \/ \E t \in Slots : devlist[t] = cblist[s].name

(* The list of handlers is never full for a registration that may go in: it   *)
(* is as long as the list of devices, and a device has one registration.      *)
RegistrationFits ==
  \A m \in Modules :
    /\ call[m].op = "register" /\ call[m].step = "look"
    /\ FindCallbacks(DevName[m]) = Nothing /\ FindDevice(DevName[m]) # Nothing
    => FreeCallbacks # Nothing

(* kucomms knows of every device it made, and of no other: what create_device *)
(* makes, remove_device can remove, and rmmod removes.                              *)
DevicesListed ==
  chrdevs = IF state = "unloaded" THEN {} ELSE {devlist[s] : s \in Slots} \ {Nothing}

(* A kernel thread that can call handlers has mapped queues that have not     *)
(* been freed, and the code of kucomms is loaded while there is a thread.     *)
ThreadHasMemory ==
  \A f \in Files : thread[f] # "none" =>
    /\ HasPfd(f) /\ state = "loaded" /\ refs > 0
    /\ thread[f] \in {"running", "handler"} => file[f].maps > 0

(* kucomms_fops_mmap: "Memory cannot be mapped more than once". *)
MappedOnce == \A f \in Files : file[f].maps <= 1

(* The reference manual: all three callbacks are called from the same thread  *)
(* context, so that they need no locking among themselves.                    *)
SameThreadCallbacks ==
  \A f, g \in Files : thread[f] = "handler" /\ thread[g] = "handler" /\ f # g => file[f].hlr # file[g].hlr

(* Every call gets the mutex and gives it back, on every way out of it.       *)
CallsReturn == \A c \in Callers : call[c].step = "lock" ~> call[c].step \in {"idle", "done"}

(* The last close of a file ends: kthread_stop does not wait for ever.        *)
ReleaseReturns == \A f \in Files : file[f].state = "closing" ~> file[f].state = "closed"

(* kucomms_unregister_wait returns once files stop opening the device.        *)
UnregisterReturns ==
  \A m \in Modules :
    <>[](\A f \in Files : HasOpened(f) => file[f].name # DevName[m])
      => (module[m] = "exit" ~> module[m] = "out")

(* The registry as those who call it see it: whose handlers a name has, who   *)
(* has the device open, what is asked and what is answered.                   *)
HandlersOf(name) ==
  LET found == FindCallbacks(name) IN IF found = Nothing THEN Nothing ELSE cblist[found].hlr

OpenersOf(name) == {f \in Files : HasOpened(f) /\ file[f].name = name}

HolderOf(name) == IF OpenersOf(name) = {} THEN Nothing ELSE CHOOSE f \in OpenersOf(name) : TRUE

CallOf(c) ==
  [op |-> call[c].op, name |-> call[c].name,
   answer |-> IF call[c].step \notin {"unlock", "done"} THEN "none"
              ELSE IF call[c].ok THEN "yes" ELSE "no"]

Handlers == [n \in Names |-> HandlersOf(n)]
Holders == [n \in Names |-> HolderOf(n)]
Calls == [c \in Callers |-> CallOf(c)]

Registry == INSTANCE DeviceRegistry WITH
  devices <- chrdevs, handlers <- Handlers, holder <- Holders, calls <- Calls

(* The six operations, each of which searches and changes two lists in steps  *)
(* of its own, are to their callers one step each, with the answer that step  *)
(* deserves: no call acts on what another has changed since it looked.        *)
CallsAreAtomic == Registry!Spec

--------------------------------------------------------------------------------
(* Why they hold: an inductive invariant, for surroundings that do neither of *)
(* the two things Env is about.                                               *)

Orderly == Env = {}

(* Before kucomms has been initialised nobody uses it.                        *)
LoadInv ==
  /\ state # "loaded" =>
       /\ \A c \in Callers : call[c].step = "idle"
       /\ \A m \in Modules : module[m] = "out"
       /\ \A f \in Files : file[f].state = "closed"
  /\ state = "loading" => cblist = CallbacksFree /\ devlist = DevicesFree

(* The caller between lock and unlock is the one that holds the mutex.        *)
InLock(c) == call[c].step \in {"look", "write", "unlock"}
MutexInv == \A c \in Callers : InLock(c) <=> mutex = c

CallOK(c) ==
  /\ call[c].step = "idle" <=> call[c].op = "none"
  /\ call[c].op # "none" => call[c].name \in Names
  /\ call[c].step \in {"lock", "look"} => ~call[c].ok

(* A caller is in the call that its place in its own life asks for.           *)
AdminPlace(a) == call[a].op \in {"none", "create", "remove"}

ModulePlace(m) ==
  /\ call[m].op \in {"none", "register", "unregister"}
  /\ call[m].op = "register" <=> module[m] = "init"
  /\ call[m].op = "unregister" <=> module[m] = "exit"
  /\ call[m].op # "none" => call[m].name = DevName[m]

FilePlace(f) ==
  /\ call[f].op \in {"none", "open", "close"}
  /\ call[f].op = "open" <=> file[f].state = "opening"
  /\ call[f].op = "close" <=> file[f].state \in {"abandoning", "closing"}
  /\ call[f].op # "none" => call[f].name = file[f].name
  /\ file[f].state # "closed" => file[f].name \in Names
  /\ file[f].mapping # {} => file[f].state = "ready"

(* What a call found is still so when it writes; what an open found is still  *)
(* so when it reads the handlers, after the unlock.                           *)
Found(c) ==
  LET name == call[c].name
      slot == call[c].slot
      op   == call[c].op
  IN
  /\ call[c].step = "write" =>
       /\ slot \in Slots
       /\ op = "create" => devlist[slot] = Nothing /\ \A s \in Slots : devlist[s] # name
       /\ op = "remove" => devlist[slot] = name /\ \A s \in Slots : cblist[s].name # name
       /\ op = "register" =>
            /\ cblist[slot].name = Nothing
            /\ \A s \in Slots : cblist[s].name # name
            /\ \E s \in Slots : devlist[s] = name
       /\ op \in {"unregister", "open", "close"} => cblist[slot].name = name
       /\ op = "unregister" => ~cblist[slot].open
       /\ op = "open" => (call[c].ok <=> ~cblist[slot].open)
  /\ op = "open" /\ call[c].ok => slot \in Slots /\ cblist[slot].name = name

(* A registration is that of a module that is in, or on its way in or out.    *)
Owned(s) ==
  LET m == cblist[s].hlr IN
  cblist[s].name # Nothing =>
    /\ m \in Modules
    /\ DevName[m] = cblist[s].name
    /\ module[m] # "out"
    /\ call[m].op = "register" => call[m].ok
    /\ call[m].op = "unregister" => ~call[m].ok

(* A file that has a device open has its registration in the list.            *)
Kept(f) ==
  HasOpened(f) => \E s \in Slots :
    /\ cblist[s].name = file[f].name
    /\ HasPfd(f) => cblist[s].hlr = file[f].hlr

(* A file with a pfd has a thread and a reference.                            *)
ThreadInv ==
  /\ \A f \in Files : HasPfd(f) <=> thread[f] # "none"
  /\ \A f \in Files : thread[f] \in {"running", "handler"} => file[f].maps > 0
  /\ refs = Cardinality({f \in Files : HasPfd(f)})

CallersInv ==
  /\ \A c \in Callers : CallOK(c) /\ Found(c)
  /\ \A a \in Admins : AdminPlace(a)
  /\ \A m \in Modules : ModulePlace(m)
  /\ \A f \in Files : FilePlace(f)

OpenInv ==
  /\ OneOpenPerDevice
  /\ OpenFlagIsHeld
  /\ \A f \in Files : Kept(f)

ListsInv ==
  /\ ListsConsistent
  /\ DevicesListed
  /\ \A s \in Slots : Owned(s)

IInv ==
  /\ TypeOK
  /\ LoadInv
  /\ MutexInv
  /\ CallersInv
  /\ OpenInv
  /\ ListsInv
  /\ ThreadInv

================================================================================
