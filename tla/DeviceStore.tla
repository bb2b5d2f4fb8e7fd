----------------------------- MODULE DeviceStore -----------------------------
(***************************************************************************)
(* The device catalogue (backend/services/device_store.py) as the requests *)
(* of backend/routers/devices.py use it: config/devices.yaml, its copy in  *)
(* memory (DeviceStore._data), and the edits made from the Devices page.   *)
(*                                                                         *)
(* Every edit runs in a worker thread (_persist): change the copy in       *)
(* memory, write it to a temporary file, put that in the place of          *)
(* devices.yaml, then refresh_catalog reads the file back into memory.     *)
(* Nothing serialises two such threads; a step is what a thread does       *)
(* between two points where another is likely to run, the file operations  *)
(* and the look-up an edit starts with.                                    *)
(*                                                                         *)
(* Of an entry only ip and mac are kept, the two fields that identify it;  *)
(* the descriptive ones (name, type, notes...) are overwritten as a whole. *)
(* A slot is a position in the list of entries; an empty one holds the row *)
(* that identifies nothing.  `hidden` is a set: every operation on that    *)
(* list treats two equal items alike.                                      *)
(*                                                                         *)
(* A key in the path of a request is any string: Bad stands for one that   *)
(* is no address.  One made of blanks only is left out: it would make an   *)
(* entry that identifies nothing, which is what a free slot is.            *)
(***************************************************************************)
EXTENDS Integers, FiniteSets

CONSTANTS
    Ips, Macs,   \* addresses
    None,        \* no address ("" in a request, no key in an entry)
    Keep,        \* null in a request: leave the field as it is
    Bad,         \* a string that is not an address
    Slots,       \* bound on the length of the list
    Requests,    \* worker threads that edit the catalogue
    Ops,         \* the operations each of them performs
    SaveErrors   \* bound on the saves that raise (disk full, read-only file)

ASSUME AddressesDistinct ==
    /\ Ips \cap Macs = {}
    /\ {None, Keep, Bad} \cap (Ips \cup Macs) = {}
    /\ None # Keep /\ None # Bad /\ Keep # Bad
ASSUME NoneIsNoSlot == None \notin Slots
ASSUME OpsKnown == Ops \in [Requests -> SUBSET {"add", "edit", "hide", "unhide", "delete"}]
ASSUME SaveErrorsNat == SaveErrors \in Nat

VARIABLES
    memory,  \* DeviceStore._data
    disk,    \* devices.yaml
    pc,      \* what each request does next
    call,    \* the operation it was asked for
    held,    \* the entry an edit has found, and where
    buf,     \* the catalogue it has dumped, or read back
    errors   \* saves that have raised

vars == <<memory, disk, pc, call, held, buf, errors>>

-----------------------------------------------------------------------------
(***************************************************************************)
(* Catalogues.                                                             *)
(***************************************************************************)

Ids == Ips \cup Macs

\* What the path of a request may hold.
Keys == Ids \cup {Bad}

\* An entry has addresses, or is what an edit made of a key that is no address.
Row == [ip : Ips \cup {None}, mac : Macs \cup {None}] \cup {[ip |-> Bad, mac |-> None]}

Free == [ip |-> None, mac |-> None]

Catalog == [devices : [Slots -> Row], hidden : SUBSET Keys]

Empty == [devices |-> [s \in Slots |-> Free], hidden |-> {}]

\* _identifiers: the IP if there is one, otherwise the MAC.
Ident(row) == IF row.ip # None THEN row.ip ELSE row.mac

\* _find: where the entry that id identifies is.
Holders(c, id) == {s \in Slots : Ident(c.devices[s]) = id}

FreeSlots(c) == Holders(c, None)

\* upsert of an unknown identifier: what does not look like a MAC goes under "ip",
\* be it an address or not.
KeyRow(id) == IF id \in Macs THEN [ip |-> None, mac |-> id]
                             ELSE [ip |-> id, mac |-> None]

Put(c, s, row) == [c EXCEPT !.devices[s] = row]

\* delete: the entries identified by id go.
Without(c, id) == [c EXCEPT !.devices =
                      [s \in Slots |-> IF s \in Holders(c, id) THEN Free ELSE @[s]]]

-----------------------------------------------------------------------------
(***************************************************************************)
(* _set_identity.                                                          *)
(***************************************************************************)

Sent(field, old) == IF field = Keep THEN old ELSE field

Identity(k, old) == [ip |-> Sent(k.ip, old.ip), mac |-> Sent(k.mac, old.mac)]

\* Definitions marked "Slip" are bugs the code could have had, kept to show that
\* a property would notice them; no specification uses them.

\* Slip: whether the addresses are well formed is not asked.
RefusedUnparsed(c, s, row) ==
    \/ Ident(row) = None
    \/ \E o \in Slots \ {s} : Ident(c.devices[o]) = Ident(row)

\* Slip: only the IP of another entry is looked for.
RefusedByIpOnly(c, s, row) ==
    \/ Bad \in {row.ip, row.mac}
    \/ Ident(row) = None
    \/ \E o \in Slots \ {s} : row.ip # None /\ c.devices[o].ip = row.ip

\* ValueError: an address is not valid, none is left, or the one that will
\* identify the entry already identifies another.  A MAC beside an IP may repeat.
Refused(c, s, row) ==
    \/ Bad \in {row.ip, row.mac}
    \/ Ident(row) = None
    \/ \E o \in Slots \ {s} : Ident(c.devices[o]) = Ident(row)

\* Slip: the list of the hidden ones does not follow the entry.
HiddenLeftBehind(hidden, old, new) == hidden

\* "Nascosto" is about the device: it follows the entry to its new address.
HiddenAfter(hidden, old, new) ==
    IF Ident(old) \in hidden /\ Ident(new) \notin hidden
    THEN (hidden \ {Ident(old)}) \cup {Ident(new)}
    ELSE hidden

-----------------------------------------------------------------------------
(***************************************************************************)
(* Requests.                                                               *)
(***************************************************************************)

AddCalls == {[op |-> "add", key |-> Ident(row), ip |-> row.ip, mac |-> row.mac] :
                row \in [ip : Ips \cup {None, Bad}, mac : Macs \cup {None}]}

EditCalls == [op : {"edit"}, key : Keys,
              ip : Ips \cup {None, Keep, Bad}, mac : Macs \cup {None, Keep}]

KeyCalls == [op : {"hide", "unhide", "delete"}, key : Keys, ip : {Keep}, mac : {Keep}]

Calls(r) == {k \in AddCalls \cup EditCalls \cup KeyCalls : k.op \in Ops[r]}

NoCall == [op |-> "none", key |-> None, ip |-> Keep, mac |-> Keep]

NotFound == [slot |-> None, row |-> Free]

Init ==
    /\ memory = Empty
    /\ disk = Empty
    /\ pc = [r \in Requests |-> "idle"]
    /\ call = [r \in Requests |-> NoCall]
    /\ held = [r \in Requests |-> NotFound]
    /\ buf = [r \in Requests |-> Empty]
    /\ errors = 0

GoTo(r, to) == pc' = [pc EXCEPT ![r] = to]

\* The request is over: it has answered, with success or with an error.
Finish(r) ==
    /\ GoTo(r, "idle")
    /\ call' = [call EXCEPT ![r] = NoCall]
    /\ held' = [held EXCEPT ![r] = NotFound]
    /\ buf' = [buf EXCEPT ![r] = Empty]

\* k may have to append an entry.
Appends(k) == k.op = "add" \/ (k.op = "edit" /\ Holders(memory, k.key) = {})

\* A request comes in.  Bound: the list has room for the entry it appends.
Ask(r, k) ==
    /\ pc[r] = "idle"
    /\ Appends(k) => FreeSlots(memory) # {}
    /\ GoTo(r, IF k.op \in {"add", "edit"} THEN "find" ELSE "mutate")
    /\ call' = [call EXCEPT ![r] = k]
    /\ UNCHANGED <<memory, disk, held, buf, errors>>

\* add, up to the validation of the new entry: 400 where it is refused.
AddFind(r) ==
    /\ pc[r] = "find" /\ call[r].op = "add"
    /\ IF Refused(memory, None, [ip |-> call[r].ip, mac |-> call[r].mac])
       THEN Finish(r)
       ELSE GoTo(r, "mutate") /\ UNCHANGED <<call, held, buf>>
    /\ UNCHANGED <<memory, disk, errors>>

\* add, the append.
AddMutate(r) ==
    /\ pc[r] = "mutate" /\ call[r].op = "add"
    /\ \E s \in FreeSlots(memory) :
          memory' = Put(memory, s, [ip |-> call[r].ip, mac |-> call[r].mac])
    /\ GoTo(r, "save")
    /\ UNCHANGED <<disk, call, held, buf, errors>>

\* upsert, the look-up.
EditFind(r) ==
    /\ pc[r] = "find" /\ call[r].op = "edit"
    /\ LET found == Holders(memory, call[r].key)
       IN  IF found = {} THEN UNCHANGED held
           ELSE \E s \in found :
                   held' = [held EXCEPT ![r] = [slot |-> s, row |-> memory.devices[s]]]
    /\ GoTo(r, "mutate")
    /\ UNCHANGED <<memory, disk, call, buf, errors>>

\* upsert, the change: `c` is the catalogue with the entry to change, `old`, at s
\* (or nowhere, when a reload has replaced the list the entry was found in).
EditEntry(r, c, s, old) ==
    LET k == call[r]
        new == Identity(k, old)
    IN  IF k.ip = Keep /\ k.mac = Keep
        THEN /\ memory' = c
             /\ GoTo(r, "save")
             /\ UNCHANGED <<call, held, buf>>
        ELSE IF Refused(c, s, new)
        THEN /\ memory' = c
             /\ Finish(r)
        ELSE /\ memory' = [devices |-> IF s \in Slots THEN Put(c, s, new).devices
                                                      ELSE c.devices,
                           hidden |-> HiddenAfter(c.hidden, old, new)]
             /\ GoTo(r, "save")
             /\ call' = [call EXCEPT ![r].key = Ident(new)]   \* the key it answers
             /\ UNCHANGED <<held, buf>>

EditMutate(r) ==
    /\ pc[r] = "mutate" /\ call[r].op = "edit"
    /\ LET k == call[r]
       IN  IF held[r] = NotFound
           THEN \E s \in FreeSlots(memory) :
                   EditEntry(r, Put(memory, s, KeyRow(k.key)), s, KeyRow(k.key))
           ELSE LET s == held[r].slot
                IN  EditEntry(r, memory, s,
                              IF s \in Slots THEN memory.devices[s] ELSE held[r].row)
    /\ UNCHANGED <<disk, errors>>

\* hide: nothing to save where the device is hidden already.
HideMutate(r) ==
    /\ pc[r] = "mutate" /\ call[r].op = "hide"
    /\ memory' = [memory EXCEPT !.hidden = @ \cup {call[r].key}]
    /\ GoTo(r, IF call[r].key \in memory.hidden THEN "read" ELSE "save")
    /\ UNCHANGED <<disk, call, held, buf, errors>>

\* Slip: the change stays in memory.
UnhideUnsaved(r) ==
    /\ pc[r] = "mutate" /\ call[r].op = "unhide"
    /\ memory' = [memory EXCEPT !.hidden = @ \ {call[r].key}]
    /\ GoTo(r, "read")
    /\ UNCHANGED <<disk, call, held, buf, errors>>

UnhideMutate(r) ==
    /\ pc[r] = "mutate" /\ call[r].op = "unhide"
    /\ memory' = [memory EXCEPT !.hidden = @ \ {call[r].key}]
    /\ GoTo(r, "save")
    /\ UNCHANGED <<disk, call, held, buf, errors>>

\* The entries at these positions leave the catalogue; a request that has found
\* one goes on with an object nothing refers to.
Detach(slots) ==
    held' = [q \in Requests |->
                IF held[q].slot \in slots
                THEN [slot |-> None, row |-> memory.devices[held[q].slot]]
                ELSE held[q]]

\* delete: the entry goes, then hide saves or does not.
DeleteMutate(r) ==
    /\ pc[r] = "mutate" /\ call[r].op = "delete"
    /\ Detach(Holders(memory, call[r].key))
    /\ memory' = [Without(memory, call[r].key) EXCEPT !.hidden = @ \cup {call[r].key}]
    /\ GoTo(r, IF call[r].key \in memory.hidden THEN "read" ELSE "save")
    /\ UNCHANGED <<disk, call, buf, errors>>

-----------------------------------------------------------------------------
(***************************************************************************)
(* _save and reload.                                                       *)
(***************************************************************************)

\* The copy in memory is written to a temporary file.
Dump(r) ==
    /\ pc[r] = "save"
    /\ buf' = [buf EXCEPT ![r] = memory]
    /\ GoTo(r, "replace")
    /\ UNCHANGED <<memory, disk, call, held, errors>>

\* os.replace.
Replace(r) ==
    /\ pc[r] = "replace"
    /\ disk' = buf[r]
    /\ GoTo(r, "read")
    /\ UNCHANGED <<memory, call, held, buf, errors>>

\* Writing raises: the request fails, the change stays in memory.
SaveFails(r) ==
    /\ pc[r] \in {"save", "replace"}
    /\ errors < SaveErrors
    /\ errors' = errors + 1
    /\ Finish(r)
    /\ UNCHANGED <<memory, disk>>

\* reload, the reading.
Read(r) ==
    /\ pc[r] = "read"
    /\ buf' = [buf EXCEPT ![r] = disk]
    /\ GoTo(r, "assign")
    /\ UNCHANGED <<memory, disk, call, held, errors>>

\* reload, the assignment: the entries other requests have found are no longer
\* part of the catalogue.
Assign(r) ==
    /\ pc[r] = "assign"
    /\ memory' = buf[r]
    /\ Detach(Slots)
    /\ buf' = [buf EXCEPT ![r] = Empty]
    /\ GoTo(r, "respond")
    /\ UNCHANGED <<disk, call, errors>>

\* The client is told that it is done.
Respond(r) ==
    /\ pc[r] = "respond"
    /\ Finish(r)
    /\ UNCHANGED <<memory, disk, errors>>

\* The process restarts: the store reads the file, the requests are gone.
Restart ==
    /\ memory' = disk
    /\ pc' = [r \in Requests |-> "idle"]
    /\ call' = [r \in Requests |-> NoCall]
    /\ held' = [r \in Requests |-> NotFound]
    /\ buf' = [r \in Requests |-> Empty]
    /\ UNCHANGED <<disk, errors>>

Step(r) ==
    \/ \E k \in Calls(r) : Ask(r, k)
    \/ AddFind(r) \/ AddMutate(r)
    \/ EditFind(r) \/ EditMutate(r)
    \/ HideMutate(r) \/ UnhideMutate(r) \/ DeleteMutate(r)
    \/ Dump(r) \/ Replace(r) \/ SaveFails(r)
    \/ Read(r) \/ Assign(r)
    \/ Respond(r)

Next == (\E r \in Requests : Step(r)) \/ Restart

Spec == Init /\ [][Next]_vars

-----------------------------------------------------------------------------
PCs == {"idle", "find", "mutate", "save", "replace", "read", "assign", "respond"}

\* The state is well formed: in particular a string that is no address gets into the
\* catalogue only as the key of an edit that sends no address, and such an entry never
\* gets a MAC beside it.
TypeOK ==
    /\ memory \in Catalog
    /\ disk \in Catalog
    /\ pc \in [Requests -> PCs]
    /\ call \in [Requests -> AddCalls \cup EditCalls \cup KeyCalls \cup {NoCall}]
    /\ held \in [Requests -> [slot : Slots \cup {None}, row : Row]]
    /\ buf \in [Requests -> Catalog]
    /\ errors \in 0 .. SaveErrors

Unique(c) ==
    \A s, o \in Slots : Ident(c.devices[s]) = Ident(c.devices[o])
                            => s = o \/ Ident(c.devices[s]) = None

Unambiguous == Unique(memory) /\ Unique(disk)

\* What the operation k promises of a catalogue.
Done(k, c) ==
    CASE k.op \in {"add", "edit"} -> Holders(c, k.key) # {}
      [] k.op = "hide"   -> k.key \in c.hidden
      [] k.op = "unhide" -> k.key \notin c.hidden
      [] k.op = "delete" -> Holders(c, k.key) = {} /\ k.key \in c.hidden

Kept(r) == Done(call[r], disk) /\ Done(call[r], memory)

\* DELETE "rimuove l'entry dal catalogo e nasconde il dispositivo": so it is when
\* it answers.
DeleteKept ==
    \A r \in Requests :
        pc[r] = "respond" /\ call[r].op = "delete" => Kept(r)

IsHidden(c, s) == Ident(c.devices[s]) \in c.hidden

=============================================================================
