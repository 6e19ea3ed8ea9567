---------------------------- MODULE DeviceRegistry -----------------------------
(******************************************************************************)
(* What the registry of kucomms_register.c promises to those who call it:     *)
(* each call takes effect at one moment between its begin and its return, and *)
(* its answer is right at that moment. A name has at most one device, a       *)
(* device at most one module's handlers, and at most one file has it open.    *)
(*                                                                            *)
(* Nothing is said here of slots, of searching them, or of a mutex:           *)
(* KucommsDevice is the module that keeps this promise.                       *)
(******************************************************************************)

CONSTANTS
  Names,     \* device names
  Callers,   \* administrators, kernel modules and files
  Nothing    \* no name, no caller

VARIABLES
  devices,   \* names of the devices there are
  handlers,  \* whose handlers are registered under each name, or Nothing
  holder,    \* the file that has each device open, or Nothing
  calls      \* the call each caller is in, and its answer once it is known

registryVars == <<devices, handlers, holder, calls>>

Operations == {"create", "remove", "register", "unregister", "open", "close"}

NoCall == [op |-> "none", name |-> Nothing, answer |-> "none"]

Init ==
  /\ devices = {}
  /\ handlers = [n \in Names |-> Nothing]
  /\ holder = [n \in Names |-> Nothing]
  /\ calls = [c \in Callers |-> NoCall]

Pending(c, op) == calls[c].op = op /\ calls[c].answer = "none"

Answer(c, answer) == calls' = [calls EXCEPT ![c].answer = answer]

(* A caller begins a call when it is in none, or knows the answer of its last. *)
Invoke(c, op, name) ==
  /\ Pending(c, "none") \/ calls[c].answer # "none"
  /\ calls' = [calls EXCEPT ![c] = [op |-> op, name |-> name, answer |-> "none"]]
  /\ UNCHANGED <<devices, handlers, holder>>

Return(c) ==
  /\ calls[c].answer # "none"
  /\ calls' = [calls EXCEPT ![c] = NoCall]
  /\ UNCHANGED <<devices, handlers, holder>>

(* A device is made for a new name. *)
Create(c) ==
  /\ Pending(c, "create")
  /\ calls[c].name \notin devices
  /\ devices' = devices \cup {calls[c].name}
  /\ Answer(c, "yes")
  /\ UNCHANGED <<handlers, holder>>

(* A device goes, unless handlers are registered for it. *)
Remove(c) ==
  /\ Pending(c, "remove")
  /\ calls[c].name \in devices /\ handlers[calls[c].name] = Nothing
  /\ devices' = devices \ {calls[c].name}
  /\ Answer(c, "yes")
  /\ UNCHANGED <<handlers, holder>>

Register(c) ==
  /\ Pending(c, "register")
  /\ calls[c].name \in devices /\ handlers[calls[c].name] = Nothing
  /\ handlers' = [handlers EXCEPT ![calls[c].name] = c]
  /\ Answer(c, "yes")
  /\ UNCHANGED <<devices, holder>>

(* Handlers go, unless the device is open; there may be none. *)
Unregister(c) ==
  /\ Pending(c, "unregister")
  /\ holder[calls[c].name] = Nothing
  /\ handlers' = [handlers EXCEPT ![calls[c].name] = Nothing]
  /\ Answer(c, "yes")
  /\ UNCHANGED <<devices, holder>>

Open(c) ==
  /\ Pending(c, "open")
  /\ handlers[calls[c].name] # Nothing /\ holder[calls[c].name] = Nothing
  /\ holder' = [holder EXCEPT ![calls[c].name] = c]
  /\ Answer(c, "yes")
  /\ UNCHANGED <<devices, handlers>>

(* Only the file that has the device open closes it. *)
Close(c) ==
  /\ Pending(c, "close")
  /\ holder[calls[c].name] = c
  /\ holder' = [holder EXCEPT ![calls[c].name] = Nothing]
  /\ Answer(c, "yes")
  /\ UNCHANGED <<devices, handlers>>

(* Why a call is refused. Making a device may also fail for lack of a slot or *)
(* in the kernel; a registration that is right always finds a slot.           *)
Refused(c) ==
  LET name == calls[c].name IN
  \/ Pending(c, "create")
  \/ Pending(c, "remove") /\ (name \notin devices \/ handlers[name] # Nothing)
  \/ Pending(c, "register") /\ (name \notin devices \/ handlers[name] # Nothing)
  \/ Pending(c, "unregister") /\ holder[name] # Nothing
  \/ Pending(c, "open") /\ (handlers[name] = Nothing \/ holder[name] # Nothing)

Refuse(c) ==
  /\ Refused(c)
  /\ Answer(c, "no")
  /\ UNCHANGED <<devices, handlers, holder>>

(* kucomms is unloaded: nobody is in a call, or has handlers registered. *)
Unload ==
  /\ \A c \in Callers : Pending(c, "none")
  /\ \A n \in Names : handlers[n] = Nothing
  /\ devices' = {}
  /\ UNCHANGED <<handlers, holder, calls>>

TakesEffect(c) ==
  \/ Create(c) \/ Remove(c) \/ Register(c) \/ Unregister(c) \/ Open(c) \/ Close(c) \/ Refuse(c)

(* A step is that of the one caller whose call it changes.                    *)
Next ==
  \/ Unload
  \/ \E c \in Callers : calls'[c] # calls[c] /\
       \/ \E op \in Operations, name \in Names : Invoke(c, op, name)
       \/ TakesEffect(c)
       \/ Return(c)

Spec == Init /\ [][Next]_registryVars

================================================================================
