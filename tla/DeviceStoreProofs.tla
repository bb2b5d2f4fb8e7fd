-------------------------- MODULE DeviceStoreProofs --------------------------
(***************************************************************************)
(* Proofs about DeviceStore, about DeviceStoreRaces, which observes it, and *)
(* about DeviceScan, which composes it with the scanner, for every set of  *)
(* addresses, slots and requests.                                          *)
(***************************************************************************)
EXTENDS DeviceStoreRaces, DeviceScan, TLAPS

-----------------------------------------------------------------------------
(***************************************************************************)
(* Catalogues.                                                             *)
(***************************************************************************)

\* The empty catalogue.
LEMMA EmptyFacts == Empty \in Catalog /\ Unique(Empty) /\ Free \in Row /\ None \notin Keys
BY AddressesDistinct DEF Keys, Ids, Empty, Free, Catalog, Row, Unique, Ident

\* What identifies a row, if anything does, is an address or what was taken for one.
LEMMA IdentType ==
    ASSUME NEW row \in Row
    PROVE  Ident(row) \in Keys \cup {None}
BY DEF Ident, Row, Keys, Ids

\* The row of an entry created under an identifier is identified by it.
LEMMA KeyRowFacts ==
    ASSUME NEW id \in Keys
    PROVE  KeyRow(id) \in Row /\ Ident(KeyRow(id)) = id
BY AddressesDistinct DEF KeyRow, Row, Ident, Keys, Ids

\* Writing one position of the list.
LEMMA PutFacts ==
    ASSUME NEW c \in Catalog, NEW s \in Slots, NEW row \in Row
    PROVE  /\ Put(c, s, row) \in Catalog
           /\ Put(c, s, row).hidden = c.hidden
           /\ \A o \in Slots : Put(c, s, row).devices[o] = IF o = s THEN row
                                                           ELSE c.devices[o]
BY DEF Put, Catalog

\* A row whose identifier nobody else has can be written anywhere.
LEMMA PutUnique ==
    ASSUME NEW c \in Catalog, Unique(c), NEW s \in Slots, NEW row \in Row,
           \A o \in Slots \ {s} : Ident(c.devices[o]) # Ident(row)
    PROVE  Unique(Put(c, s, row))
BY PutFacts DEF Unique

\* Removing entries.
LEMMA WithoutFacts ==
    ASSUME NEW c \in Catalog, NEW id
    PROVE  /\ Without(c, id) \in Catalog
           /\ Unique(c) => Unique(Without(c, id))
<1>1. /\ Without(c, id) \in Catalog
      /\ \A s \in Slots : Without(c, id).devices[s] \in {c.devices[s], Free}
  BY EmptyFacts DEF Without, Holders, Catalog
<1>2. Ident(Free) = None
  BY DEF Free, Ident
<1> QED
  BY <1>1, <1>2 DEF Unique

\* What _set_identity does not refuse is a row.
LEMMA IdentityType ==
    ASSUME NEW k \in EditCalls, NEW old \in Row, Bad # Identity(k, old).ip
    PROVE  Identity(k, old) \in Row
BY DEF EditCalls, Identity, Sent, Row

-----------------------------------------------------------------------------
(***************************************************************************)
(* Type correctness.  An add that has passed the validation carries        *)
(* addresses: this is what makes the type invariant inductive.             *)
(***************************************************************************)

NewRow(r) == [ip |-> call[r].ip, mac |-> call[r].mac]

AddParsed ==
    \A r \in Requests : pc[r] = "mutate" /\ call[r].op = "add" => call[r].ip # Bad

Shapes ==
    \A r \in Requests :
        /\ call[r].op = "add" => call[r] \in AddCalls
        /\ call[r].op = "edit" => call[r] \in EditCalls
        /\ call[r].op \in {"hide", "unhide", "delete"} => call[r] \in KeyCalls

\* The operation of a call tells which of the three sets it is in.
LEMMA CallShapes == TypeOK => Shapes
BY DEF TypeOK, Shapes, AddCalls, EditCalls, KeyCalls, NoCall

\* The rows an add has validated.
LEMMA NewRowType ==
    ASSUME NEW r \in Requests, call[r] \in AddCalls, call[r].ip # Bad
    PROVE  NewRow(r) \in Row
BY DEF NewRow, AddCalls, Row

\* The end of a request keeps the state well formed.
LEMMA FinishType ==
    ASSUME TypeOK, NEW r \in Requests, Finish(r)
    PROVE  /\ pc' \in [Requests -> PCs]
           /\ call' \in [Requests -> AddCalls \cup EditCalls \cup KeyCalls \cup {NoCall}]
           /\ held' \in [Requests -> [slot : Slots \cup {None}, row : Row]]
           /\ buf' \in [Requests -> Catalog]
<1>1. NotFound \in [slot : Slots \cup {None}, row : Row]
  BY EmptyFacts DEF NotFound
<1> QED
  BY <1>1, EmptyFacts DEF TypeOK, Finish, GoTo, PCs

\* What can happen to the catalogue and to its request in _set_identity.
LEMMA EditEntryType ==
    ASSUME TypeOK, NEW r \in Requests, call[r] \in EditCalls,
           NEW c \in Catalog, NEW s \in Slots \cup {None}, NEW old \in Row,
           EditEntry(r, c, s, old)
    PROVE  /\ memory' \in Catalog
           /\ pc' \in [Requests -> PCs]
           /\ call' \in [Requests -> AddCalls \cup EditCalls \cup KeyCalls \cup {NoCall}]
           /\ held' \in [Requests -> [slot : Slots \cup {None}, row : Row]]
           /\ buf' \in [Requests -> Catalog]
<1> DEFINE new == Identity(call[r], old)
<1>1. CASE Finish(r) /\ memory' = c
  BY <1>1, FinishType
<1>2. CASE /\ memory' = c
           /\ GoTo(r, "save")
           /\ UNCHANGED <<call, held, buf>>
  BY <1>2 DEF TypeOK, GoTo, PCs
<1>3. CASE /\ ~Refused(c, s, new)
           /\ memory' = [devices |-> IF s \in Slots THEN Put(c, s, new).devices
                                                    ELSE c.devices,
                         hidden |-> HiddenAfter(c.hidden, old, new)]
           /\ GoTo(r, "save")
           /\ call' = [call EXCEPT ![r].key = Ident(new)]
           /\ UNCHANGED <<held, buf>>
  <2>1. new \in Row /\ Ident(new) \in Keys
    BY <1>3, IdentityType, IdentType DEF Refused
  <2>2. HiddenAfter(c.hidden, old, new) \in SUBSET Keys
    BY <2>1 DEF HiddenAfter, Catalog
  <2>3. memory' \in Catalog
    <3>1. s \in Slots => Put(c, s, new) \in Catalog
      BY <2>1, PutFacts
    <3> QED
      BY <1>3, <2>2, <3>1 DEF Catalog
  <2>4. [call[r] EXCEPT !.key = Ident(new)] \in EditCalls
    BY <2>1 DEF EditCalls
  <2> QED
    BY <1>3, <2>3, <2>4 DEF TypeOK, GoTo, PCs
<1> QED
  BY <1>1, <1>2, <1>3 DEF EditEntry

\* Forgetting positions keeps what the requests hold well formed.
LEMMA DetachType ==
    ASSUME TypeOK, NEW slots \in SUBSET Slots, Detach(slots)
    PROVE  held' \in [Requests -> [slot : Slots \cup {None}, row : Row]]
BY DEF TypeOK, Detach, Catalog

\* Every step leads from a well formed state to a well formed one.
LEMMA NextTypeOK == TypeOK /\ AddParsed /\ [Next]_vars => TypeOK'
<1> SUFFICES ASSUME TypeOK, AddParsed, [Next]_vars PROVE TypeOK'
  OBVIOUS
<1>s. Shapes
  BY CallShapes
<1>1. ASSUME NEW r \in Requests, NEW k \in Calls(r), Ask(r, k)
      PROVE  TypeOK'
  BY <1>1 DEF Ask, GoTo, TypeOK, Calls, PCs
<1>2. ASSUME NEW r \in Requests, AddFind(r)
      PROVE  TypeOK'
  <2>1. CASE Finish(r)
    BY <1>2, <2>1, FinishType DEF AddFind, TypeOK
  <2>2. CASE GoTo(r, "mutate") /\ UNCHANGED <<call, held, buf>>
    BY <1>2, <2>2 DEF AddFind, GoTo, TypeOK, PCs
  <2> QED
    BY <1>2, <2>1, <2>2 DEF AddFind
<1>3. ASSUME NEW r \in Requests, AddMutate(r)
      PROVE  TypeOK'
  <2>1. NewRow(r) \in Row
    BY <1>s, <1>3, NewRowType DEF AddMutate, AddParsed, Shapes
  <2>2. memory' \in Catalog
    BY <1>3, <2>1, PutFacts DEF AddMutate, NewRow, FreeSlots, Holders, TypeOK
  <2> QED
    BY <1>3, <2>2 DEF AddMutate, GoTo, TypeOK, PCs
<1>4. ASSUME NEW r \in Requests, EditFind(r)
      PROVE  TypeOK'
  <2>1. \A s \in Slots : memory.devices[s] \in Row
    BY DEF TypeOK, Catalog
  <2>2. held' \in [Requests -> [slot : Slots \cup {None}, row : Row]]
    BY <1>4, <2>1 DEF EditFind, Holders, TypeOK
  <2> QED
    BY <1>4, <2>2 DEF EditFind, GoTo, TypeOK, PCs
<1>5. ASSUME NEW r \in Requests, EditMutate(r)
      PROVE  TypeOK'
  <2>1. call[r] \in EditCalls /\ call[r].key \in Keys
    BY <1>s, <1>5 DEF EditMutate, Shapes, EditCalls
  <2>2. ASSUME NEW s \in FreeSlots(memory),
               EditEntry(r, Put(memory, s, KeyRow(call[r].key)), s, KeyRow(call[r].key))
        PROVE  TypeOK'
    <3>1. s \in Slots /\ memory \in Catalog
      BY DEF FreeSlots, Holders, TypeOK
    <3>2. Put(memory, s, KeyRow(call[r].key)) \in Catalog /\ KeyRow(call[r].key) \in Row
      BY <2>1, <3>1, KeyRowFacts, PutFacts
    <3> QED
      BY <1>5, <2>1, <2>2, <3>1, <3>2, EditEntryType DEF EditMutate, TypeOK
  <2>3. ASSUME NEW s \in Slots \cup {None}, NEW old \in Row, EditEntry(r, memory, s, old)
        PROVE  TypeOK'
    BY <1>5, <2>1, <2>3, EditEntryType DEF EditMutate, TypeOK
  <2>4. /\ held[r].slot \in Slots \cup {None}
        /\ (IF held[r].slot \in Slots THEN memory.devices[held[r].slot]
                                      ELSE held[r].row) \in Row
    BY DEF TypeOK, Catalog
  <2> QED
    BY <1>5, <2>2, <2>3, <2>4 DEF EditMutate
<1>6. ASSUME NEW r \in Requests, HideMutate(r) \/ UnhideMutate(r) \/ DeleteMutate(r)
      PROVE  TypeOK'
  <2>1. call[r].key \in Keys
    BY <1>s, <1>6 DEF HideMutate, UnhideMutate, DeleteMutate, Shapes, KeyCalls
  <2>2. memory \in Catalog /\ Without(memory, call[r].key) \in Catalog
    BY WithoutFacts DEF TypeOK
  <2>3. memory' \in Catalog
    BY <1>6, <2>1, <2>2 DEF HideMutate, UnhideMutate, DeleteMutate, Catalog
  <2>4. DeleteMutate(r) => held' \in [Requests -> [slot : Slots \cup {None}, row : Row]]
    BY DetachType DEF DeleteMutate, Holders
  <2> QED
    BY <1>6, <2>3, <2>4
    DEF HideMutate, UnhideMutate, DeleteMutate, GoTo, TypeOK, PCs
<1>7. ASSUME NEW r \in Requests, Dump(r) \/ Replace(r) \/ Read(r)
      PROVE  TypeOK'
  <2>1. CASE Dump(r)
    BY <2>1 DEF Dump, GoTo, TypeOK, PCs
  <2>2. CASE Replace(r)
    BY <2>2 DEF Replace, GoTo, TypeOK, PCs
  <2>3. CASE Read(r)
    BY <2>3 DEF Read, GoTo, TypeOK, PCs
  <2> QED
    BY <1>7, <2>1, <2>2, <2>3
<1>8. ASSUME NEW r \in Requests, SaveFails(r)
      PROVE  TypeOK'
  <2>1. errors' \in 0 .. SaveErrors
    BY <1>8, SaveErrorsNat DEF SaveFails, TypeOK
  <2>2. Finish(r) /\ UNCHANGED <<memory, disk>>
    BY <1>8 DEF SaveFails
  <2> QED
    BY <2>1, <2>2, FinishType DEF TypeOK
<1>9. ASSUME NEW r \in Requests, Assign(r)
      PROVE  TypeOK'
  BY <1>9, DetachType, EmptyFacts DEF Assign, GoTo, TypeOK, PCs
<1>10. ASSUME NEW r \in Requests, Respond(r)
       PROVE  TypeOK'
  BY <1>10, FinishType DEF Respond, TypeOK
<1>11. CASE Restart
  BY <1>11, EmptyFacts DEF Restart, NotFound, TypeOK, PCs
<1>12. CASE UNCHANGED vars
  BY <1>12 DEF vars, TypeOK
<1> QED
  BY <1>1, <1>2, <1>3, <1>4, <1>5, <1>6, <1>7, <1>8, <1>9, <1>10, <1>11, <1>12
  DEF Next, Step

\* Nothing but the validation lets an add go on.
LEMMA NextAddParsed == TypeOK /\ AddParsed /\ [Next]_vars => AddParsed'
<1> SUFFICES ASSUME TypeOK, AddParsed, [Next]_vars,
                    NEW q \in Requests, pc'[q] = "mutate", call'[q].op = "add"
             PROVE  call'[q].ip # Bad
  BY DEF AddParsed
<1> USE DEF TypeOK, AddParsed, GoTo, Finish
<1>1. ASSUME NEW r \in Requests, NEW k \in Calls(r), Ask(r, k)
      PROVE  call'[q].ip # Bad
  BY <1>1 DEF Ask
<1>2. ASSUME NEW r \in Requests, AddFind(r)
      PROVE  call'[q].ip # Bad
  BY <1>2 DEF AddFind, Refused
<1>3. ASSUME NEW r \in Requests, pc'[r] # "mutate" \/ call[r].op # "add",
             \A p \in Requests \ {r} : pc'[p] = pc[p] /\ call'[p] = call[p],
             call'[r].op \in {call[r].op, "none"}
      PROVE  call'[q].ip # Bad
  BY <1>3
<1>4. ASSUME NEW r \in Requests,
             \/ AddMutate(r) \/ EditFind(r)
             \/ HideMutate(r) \/ UnhideMutate(r) \/ DeleteMutate(r)
             \/ Dump(r) \/ Replace(r) \/ SaveFails(r)
             \/ Read(r) \/ Assign(r) \/ Respond(r)
      PROVE  call'[q].ip # Bad
  <2>1. /\ pc'[r] # "mutate" \/ call[r].op # "add"
        /\ \A p \in Requests \ {r} : pc'[p] = pc[p] /\ call'[p] = call[p]
        /\ call'[r].op \in {call[r].op, "none"}
    BY <1>4
    DEF AddMutate, EditFind, HideMutate, UnhideMutate, DeleteMutate, Dump, Replace,
        SaveFails, Read, Assign, Respond, NoCall
  <2> QED
    BY <1>3, <2>1
<1>5. ASSUME NEW r \in Requests, EditMutate(r)
      PROVE  call'[q].ip # Bad
  <2>1. /\ pc'[r] # "mutate"
        /\ \A p \in Requests \ {r} : pc'[p] = pc[p] /\ call'[p] = call[p]
    BY <1>5 DEF EditMutate, EditEntry
  <2> QED
    BY <2>1
<1>6. CASE Restart \/ UNCHANGED vars
  BY <1>6 DEF Restart, vars
<1> QED
  BY <1>1, <1>2, <1>4, <1>5, <1>6 DEF Next, Step

\* Every state the catalogue reaches is well formed, however many requests edit it
\* at once and wherever they fail.
THEOREM TypeCorrect == Spec => []TypeOK
<1>1. Init => TypeOK /\ AddParsed
  BY EmptyFacts, SaveErrorsNat DEF Init, TypeOK, AddParsed, NotFound, PCs
<1> QED
  BY <1>1, NextTypeOK, NextAddParsed, PTL DEF Spec

-----------------------------------------------------------------------------
(***************************************************************************)
(* What a request has found or checked, and what its own steps and those   *)
(* of the others do to it, for any number of requests.                     *)
(***************************************************************************)

\* The look-up of a request is still true.
LookupStands(r) ==
    pc[r] = "mutate" =>
        /\ call[r].op = "add" =>
              /\ Ident(NewRow(r)) # None
              /\ \A o \in Slots : Ident(memory.devices[o]) # Ident(NewRow(r))
        /\ call[r].op = "edit" /\ held[r] = NotFound =>
              Holders(memory, call[r].key) = {}
        /\ call[r].op = "edit" /\ held[r].slot \in Slots =>
              Ident(memory.devices[held[r].slot]) = call[r].key

\* The entry it has found is still part of the catalogue.
Attached(r) ==
    pc[r] = "mutate" /\ call[r].op = "edit" /\ held[r] # NotFound => held[r].slot \in Slots

HoldsNothing(r) == pc[r] \in {"idle", "find"} => held[r] = NotFound

AllUnique == Unambiguous /\ \A r \in Requests : Unique(buf[r])

\* _set_identity never leaves two entries with one identifier.
LEMMA EditEntryUnique ==
    ASSUME TypeOK, NEW r \in Requests, call[r] \in EditCalls,
           NEW c \in Catalog, Unique(c), NEW s \in Slots \cup {None}, NEW old \in Row,
           EditEntry(r, c, s, old)
    PROVE  Unique(memory')
<1> DEFINE new == Identity(call[r], old)
<1>1. CASE memory' = c
  BY <1>1
<1>2. CASE /\ ~Refused(c, s, new)
           /\ memory' = [devices |-> IF s \in Slots THEN Put(c, s, new).devices
                                                    ELSE c.devices,
                         hidden |-> HiddenAfter(c.hidden, old, new)]
  <2>1. CASE s \in Slots
    <3>1. new \in Row /\ \A o \in Slots \ {s} : Ident(c.devices[o]) # Ident(new)
      BY <1>2, IdentityType DEF Refused
    <3>2. Unique(Put(c, s, new))
      BY <2>1, <3>1, PutUnique
    <3> QED
      BY <1>2, <2>1, <3>2 DEF Unique
  <2>2. CASE s \notin Slots
    BY <1>2, <2>2 DEF Unique
  <2> QED
    BY <2>1, <2>2
<1> QED
  BY <1>1, <1>2 DEF EditEntry

\* Nothing makes the catalogue ambiguous as long as whoever appends has looked.
LEMMA NextUnique ==
    ASSUME TypeOK, AddParsed, AllUnique, [Next]_vars,
           \A r \in Requests : AppendsEntry(r) => LookupStands(r)
    PROVE  AllUnique'
<1> SUFFICES Unambiguous' /\ \A r \in Requests : Unique(buf'[r])
  BY DEF AllUnique
<1> USE DEF AllUnique, Unambiguous
<1>e. Unique(Empty)
  BY EmptyFacts
<1>f. ASSUME NEW r \in Requests, Finish(r)
      PROVE  \A q \in Requests : Unique(buf'[q])
  BY <1>e, <1>f DEF Finish, TypeOK
<1>1. ASSUME NEW r \in Requests, NEW k \in Calls(r), Ask(r, k)
      PROVE  Unambiguous' /\ \A q \in Requests : Unique(buf'[q])
  BY <1>1 DEF Ask
<1>2. ASSUME NEW r \in Requests,
             AddFind(r) \/ EditFind(r) \/ SaveFails(r) \/ Respond(r)
      PROVE  Unambiguous' /\ \A q \in Requests : Unique(buf'[q])
  BY <1>2, <1>f DEF AddFind, EditFind, SaveFails, Respond
<1>3. ASSUME NEW r \in Requests, AddMutate(r)
      PROVE  Unambiguous' /\ \A q \in Requests : Unique(buf'[q])
  <2>1. NewRow(r) \in Row
    BY <1>3, CallShapes, NewRowType DEF AddMutate, AddParsed, Shapes
  <2>2. PICK s \in Slots : memory' = Put(memory, s, NewRow(r))
    BY <1>3 DEF AddMutate, NewRow, FreeSlots, Holders
  <2>3. Unique(memory')
    BY <1>3, <2>1, <2>2, PutUnique DEF AddMutate, AppendsEntry, LookupStands, TypeOK
  <2> QED
    BY <1>3, <2>3 DEF AddMutate
<1>4. ASSUME NEW r \in Requests, EditMutate(r)
      PROVE  Unambiguous' /\ \A q \in Requests : Unique(buf'[q])
  <2>1. call[r] \in EditCalls /\ call[r].key \in Keys /\ memory \in Catalog
    BY <1>4, CallShapes DEF EditMutate, Shapes, EditCalls, TypeOK
  <2>2. ASSUME NEW s \in FreeSlots(memory), held[r] = NotFound,
               EditEntry(r, Put(memory, s, KeyRow(call[r].key)), s, KeyRow(call[r].key))
        PROVE  Unique(memory')
    <3>1. s \in Slots /\ KeyRow(call[r].key) \in Row
      BY <2>1, KeyRowFacts DEF FreeSlots, Holders
    <3>2. \A o \in Slots : Ident(memory.devices[o]) # Ident(KeyRow(call[r].key))
      BY <1>4, <2>1, <2>2, KeyRowFacts DEF EditMutate, AppendsEntry, LookupStands, Holders
    <3>3. /\ Put(memory, s, KeyRow(call[r].key)) \in Catalog
          /\ Unique(Put(memory, s, KeyRow(call[r].key)))
      BY <2>1, <3>1, <3>2, PutFacts, PutUnique
    <3> QED
      BY <2>1, <2>2, <3>1, <3>3, EditEntryUnique
  <2>3. ASSUME NEW s \in Slots \cup {None}, NEW old \in Row, EditEntry(r, memory, s, old)
        PROVE  Unique(memory')
    BY <2>1, <2>3, EditEntryUnique
  <2>4. /\ held[r].slot \in Slots \cup {None}
        /\ (IF held[r].slot \in Slots THEN memory.devices[held[r].slot]
                                      ELSE held[r].row) \in Row
    BY DEF TypeOK, Catalog
  <2>5. Unique(memory')
    BY <1>4, <2>2, <2>3, <2>4 DEF EditMutate
  <2>6. \A q \in Requests : Unique(buf'[q])
    BY <1>4, <1>f DEF EditMutate, EditEntry
  <2> QED
    BY <1>4, <2>5, <2>6 DEF EditMutate
<1>5. ASSUME NEW r \in Requests, HideMutate(r) \/ UnhideMutate(r) \/ DeleteMutate(r)
      PROVE  Unambiguous' /\ \A q \in Requests : Unique(buf'[q])
  <2>1. Unique(Without(memory, call[r].key)) /\ Without(memory, call[r].key) \in Catalog
    BY WithoutFacts DEF TypeOK
  <2>2. memory'.devices \in {memory.devices, Without(memory, call[r].key).devices}
    BY <1>5, <2>1 DEF HideMutate, UnhideMutate, DeleteMutate, TypeOK, Catalog
  <2>3. Unique(memory')
    BY <2>1, <2>2 DEF Unique
  <2> QED
    BY <1>5, <2>3 DEF HideMutate, UnhideMutate, DeleteMutate
<1>6. ASSUME NEW r \in Requests, Dump(r) \/ Replace(r) \/ Read(r) \/ Assign(r)
      PROVE  Unambiguous' /\ \A q \in Requests : Unique(buf'[q])
  <2>1. CASE Dump(r)
    BY <2>1 DEF Dump, TypeOK
  <2>2. CASE Replace(r)
    BY <2>2 DEF Replace
  <2>3. CASE Read(r)
    BY <2>3 DEF Read, TypeOK
  <2>4. CASE Assign(r)
    BY <2>4, <1>e DEF Assign, TypeOK
  <2> QED
    BY <1>6, <2>1, <2>2, <2>3, <2>4
<1>7. CASE Restart
  BY <1>7, <1>e DEF Restart
<1>8. CASE UNCHANGED vars
  BY <1>8 DEF vars
<1> QED
  BY <1>1, <1>2, <1>3, <1>4, <1>5, <1>6, <1>7, <1>8 DEF Next, Step

\* What a request has found or checked is true when it has made a step of its own.
LEMMA OwnStep ==
    ASSUME TypeOK, NEW q \in Requests, HoldsNothing(q), Step(q)
    PROVE  LookupStands(q)' /\ Attached(q)' /\ HoldsNothing(q)'
<1> USE DEF GoTo
<1>0. /\ pc \in [Requests -> PCs] /\ DOMAIN call = Requests /\ DOMAIN held = Requests
      /\ \A s \in Slots : memory.devices[s] \in Row
  BY DEF TypeOK, Catalog
<1>1. ASSUME NEW k \in Calls(q), Ask(q, k)
      PROVE  LookupStands(q)' /\ Attached(q)' /\ HoldsNothing(q)'
  <2>1. /\ pc'[q] = "mutate" => call'[q].op \notin {"add", "edit"}
        /\ held'[q] = NotFound
    BY <1>0, <1>1 DEF Ask, HoldsNothing
  <2> QED
    BY <2>1 DEF LookupStands, Attached, HoldsNothing
<1>f. ASSUME pc'[q] = "idle", held'[q] = NotFound
      PROVE  LookupStands(q)' /\ Attached(q)' /\ HoldsNothing(q)'
  BY <1>f DEF LookupStands, Attached, HoldsNothing
<1>g. ASSUME Finish(q) PROVE pc'[q] = "idle" /\ held'[q] = NotFound
  BY <1>0, <1>g DEF Finish
<1>m. ASSUME pc'[q] \notin {"idle", "find", "mutate"}
      PROVE  LookupStands(q)' /\ Attached(q)' /\ HoldsNothing(q)'
  BY <1>m DEF LookupStands, Attached, HoldsNothing
<1>2. CASE AddFind(q)
  <2>1. CASE Finish(q)
    BY <1>f, <1>g, <2>1
  <2>2. CASE ~ Refused(memory, None, NewRow(q)) /\ GoTo(q, "mutate") /\ UNCHANGED <<call, held, buf>>
    <3>1. /\ pc'[q] = "mutate" /\ UNCHANGED <<memory, call>> /\ call[q].op = "add"
      BY <1>0, <1>2, <2>2 DEF AddFind
    <3>2. /\ Ident(NewRow(q)) # None
          /\ \A o \in Slots : Ident(memory.devices[o]) # Ident(NewRow(q))
      BY <2>2, NoneIsNoSlot DEF Refused, NewRow
    <3> QED
      BY <3>1, <3>2 DEF LookupStands, Attached, HoldsNothing, NewRow
  <2> QED
    BY <1>2, <2>1, <2>2 DEF AddFind, NewRow
<1>3. CASE EditFind(q)
  <2>1. /\ call'[q].op = "edit" /\ UNCHANGED <<memory, call>> /\ pc'[q] = "mutate"
        /\ held[q] = NotFound
    BY <1>0, <1>3 DEF EditFind, HoldsNothing
  <2>2. CASE Holders(memory, call[q].key) = {}
    <3>1. held'[q] = NotFound
      BY <1>3, <2>1, <2>2 DEF EditFind
    <3> QED
      BY <2>1, <2>2, <3>1, NoneIsNoSlot DEF LookupStands, Attached, HoldsNothing, NotFound, Holders
  <2>3. ASSUME NEW s \in Holders(memory, call[q].key),
               held' = [held EXCEPT ![q] = [slot |-> s, row |-> memory.devices[s]]]
        PROVE  LookupStands(q)' /\ Attached(q)' /\ HoldsNothing(q)'
    <3>1. held'[q].slot = s /\ s \in Slots /\ Ident(memory.devices[s]) = call[q].key
      BY <1>0, <2>3 DEF Holders
    <3>2. held'[q] # NotFound
      BY <3>1, NoneIsNoSlot DEF NotFound
    <3> QED
      BY <2>1, <3>1, <3>2 DEF LookupStands, Attached, HoldsNothing
  <2> QED
    BY <1>3, <2>2, <2>3 DEF EditFind
<1>4. CASE \/ AddMutate(q) \/ HideMutate(q) \/ UnhideMutate(q) \/ DeleteMutate(q)
           \/ Dump(q) \/ Replace(q) \/ Read(q) \/ Assign(q)
  BY <1>0, <1>4, <1>m
  DEF AddMutate, HideMutate, UnhideMutate, DeleteMutate, Dump, Replace, Read, Assign
<1>5. CASE EditMutate(q) \/ SaveFails(q) \/ Respond(q)
  <2>1. Finish(q) \/ pc'[q] = "save"
    BY <1>0, <1>5 DEF EditMutate, EditEntry, SaveFails, Respond
  <2> QED
    BY <1>f, <1>g, <1>m, <2>1
<1> QED
  BY <1>1, <1>2, <1>3, <1>4, <1>5 DEF Step

\* A step of one request moves no other; it may detach what the other has found.
LEMMA StepOfOther ==
    ASSUME TypeOK, NEW r \in Requests, NEW q \in Requests \ {r}, Step(r)
    PROVE  /\ pc'[q] = pc[q] /\ call'[q] = call[q] /\ buf'[q] = buf[q]
           /\ \/ held'[q] = held[q]
              \/ /\ held[q].slot \in Slots
                 /\ held'[q] = [slot |-> None, row |-> memory.devices[held[q].slot]]
<1> USE DEF GoTo, Finish
<1>0. DOMAIN pc = Requests /\ DOMAIN call = Requests /\ DOMAIN held = Requests /\ DOMAIN buf = Requests
  BY DEF TypeOK
<1>1. CASE \/ (\E k \in Calls(r) : Ask(r, k)) \/ AddFind(r) \/ AddMutate(r) \/ EditFind(r)
  BY <1>0, <1>1 DEF Ask, AddFind, AddMutate, EditFind
<1>2. CASE EditMutate(r)
  BY <1>0, <1>2 DEF EditMutate, EditEntry
<1>3. CASE \/ HideMutate(r) \/ UnhideMutate(r) \/ Dump(r) \/ Replace(r) \/ SaveFails(r)
           \/ Read(r) \/ Respond(r)
  BY <1>0, <1>3 DEF HideMutate, UnhideMutate, Dump, Replace, SaveFails, Read, Respond
<1>4. CASE DeleteMutate(r) \/ Assign(r)
  <2>1. \E slots \in SUBSET Slots : Detach(slots)
    BY <1>4 DEF DeleteMutate, Assign, Holders
  <2>2. /\ pc'[q] = pc[q] /\ call'[q] = call[q] /\ buf'[q] = buf[q]
    BY <1>0, <1>4 DEF DeleteMutate, Assign
  <2> QED
    BY <2>1, <2>2 DEF Detach
<1> QED
  BY <1>1, <1>2, <1>3, <1>4 DEF Step

\* What a request has found is true until the list changes, and attached until it is
\* detached.
LEMMA OtherStands ==
    ASSUME TypeOK, NEW r \in Requests, NEW q \in Requests \ {r}, Step(r)
    PROVE  /\ HoldsNothing(q) => HoldsNothing(q)'
           /\ LookupStands(q) /\ memory'.devices = memory.devices => LookupStands(q)'
           /\ Attached(q) /\ held'[q] = held[q] => Attached(q)'
<1>1. /\ pc'[q] = pc[q] /\ call'[q] = call[q]
      /\ \/ held'[q] = held[q]
         \/ /\ held[q].slot \in Slots
            /\ held'[q] = [slot |-> None, row |-> memory.devices[held[q].slot]]
  BY StepOfOther
<1>2. CASE held'[q] = held[q]
  BY <1>1, <1>2 DEF HoldsNothing, LookupStands, Attached, NewRow, Holders
<1>3. CASE /\ held[q].slot \in Slots
           /\ held'[q] = [slot |-> None, row |-> memory.devices[held[q].slot]]
  <2>1. held[q] # NotFound /\ held'[q].slot \notin Slots
    BY <1>3, NoneIsNoSlot DEF NotFound
  <2>2. ASSUME held'[q] = NotFound PROVE Ident(memory.devices[held[q].slot]) = None
    BY <1>3, <2>2 DEF NotFound, Free, Ident
  <2>3. call[q].op = "edit" => call[q].key # None
    BY CallShapes, EmptyFacts DEF Shapes, EditCalls
  <2>4. HoldsNothing(q) => pc[q] \notin {"idle", "find"}
    BY <2>1 DEF HoldsNothing
  <2>5. ASSUME LookupStands(q), memory'.devices = memory.devices PROVE LookupStands(q)'
    BY <1>1, <1>3, <2>1, <2>2, <2>3, <2>5 DEF LookupStands, NewRow, Holders
  <2> QED
    BY <1>1, <1>3, <2>1, <2>4, <2>5 DEF HoldsNothing, Attached
<1> QED
  BY <1>1, <1>2, <1>3

(***************************************************************************)
(* Requests that come one at a time, which is all that the scanner's       *)
(* theorem below is about.                                                 *)
(***************************************************************************)

OneRequest == \A q, r \in Requests : q = r

UniqueInv ==
    /\ TypeOK /\ AddParsed
    /\ AllUnique
    /\ \A r \in Requests : LookupStands(r) /\ Attached(r) /\ HoldsNothing(r)

\* The invariant of requests that come one at a time.
LEMMA UniqueInvariant ==
    ASSUME OneRequest
    PROVE  Spec => []UniqueInv
<1>1. Init => UniqueInv
  <2> SUFFICES ASSUME Init PROVE UniqueInv
    OBVIOUS
  <2>1. TypeOK /\ AddParsed
    BY EmptyFacts, SaveErrorsNat DEF Init, TypeOK, AddParsed, NotFound, PCs
  <2>2. /\ AllUnique
        /\ \A r \in Requests : LookupStands(r) /\ Attached(r) /\ HoldsNothing(r)
    BY EmptyFacts DEF Init, AllUnique, Unambiguous, LookupStands, Attached, HoldsNothing
  <2> QED
    BY <2>1, <2>2 DEF UniqueInv
<1>2. UniqueInv /\ [Next]_vars => UniqueInv'
  <2> SUFFICES ASSUME UniqueInv, [Next]_vars PROVE UniqueInv'
    OBVIOUS
  <2>1. TypeOK' /\ AddParsed' /\ AllUnique'
    BY NextTypeOK, NextAddParsed, NextUnique DEF UniqueInv
  <2>2. ASSUME NEW r \in Requests
        PROVE  LookupStands(r)' /\ Attached(r)' /\ HoldsNothing(r)'
    <3>1. CASE \E q \in Requests : Step(q)
      <4>1. Step(r)
        BY <3>1 DEF OneRequest
      <4> QED
        BY <4>1, OwnStep DEF UniqueInv
    <3>2. CASE Restart
      BY <3>2 DEF Restart, LookupStands, Attached, HoldsNothing
    <3>3. CASE UNCHANGED vars
      BY <3>3 DEF UniqueInv, vars, LookupStands, Attached, HoldsNothing, NewRow, Holders
    <3> QED
      BY <3>1, <3>2, <3>3 DEF Next
  <2> QED
    BY <2>1, <2>2 DEF UniqueInv
<1> QED
  BY <1>1, <1>2, PTL DEF Spec

-----------------------------------------------------------------------------
(***************************************************************************)
(* The hidden list.                                                        *)
(***************************************************************************)

\* _set_identity on the entry at s: hidden entries stay hidden, and those it does
\* not touch stay as they were.
LEMMA EditEntryHidden ==
    ASSUME TypeOK, NEW r \in Requests, call[r] \in EditCalls,
           NEW c \in Catalog, Unique(c), NEW s \in Slots, EditEntry(r, c, s, c.devices[s]),
           NEW o \in Slots
    PROVE  /\ IsHidden(c, o) => IsHidden(memory', o)
           /\ memory'.devices[o] = c.devices[o] => IsHidden(memory', o) = IsHidden(c, o)
<1> DEFINE old == c.devices[s]
           new == Identity(call[r], old)
<1>t. c.devices[o] \in Row /\ old \in Row /\ c.hidden \in SUBSET Keys
  BY DEF Catalog
<1>n. None \notin Keys
  BY EmptyFacts
<1>1. CASE memory' = c
  BY <1>1
<1>2. CASE /\ ~Refused(c, s, new)
           /\ memory' = [devices |-> Put(c, s, new).devices,
                         hidden |-> HiddenAfter(c.hidden, old, new)]
  <2>1. new \in Row /\ \A p \in Slots \ {s} : Ident(c.devices[p]) # Ident(new)
    BY <1>2, <1>t, IdentityType DEF Refused
  <2>2. memory'.devices[o] = IF o = s THEN new ELSE c.devices[o]
    BY <1>2, <2>1, PutFacts
  <2>3. CASE o = s
    BY <1>2, <2>2, <2>3 DEF IsHidden, HiddenAfter
  <2>4. CASE o # s
    <3>1. Ident(c.devices[o]) = Ident(old) => Ident(old) \notin c.hidden
      BY <1>t, <1>n, <2>4 DEF Unique
    <3> QED
      BY <1>2, <2>1, <2>2, <2>4, <3>1 DEF IsHidden, HiddenAfter
  <2> QED
    BY <2>3, <2>4
<1> QED
  BY <1>1, <1>2 DEF EditEntry

\* The change of an edit nobody has come before takes the mark along and concerns no other
\* entry.
LEMMA EditHides ==
    ASSUME TypeOK, Unambiguous, NEW r \in Requests, LookupStands(r), Attached(r),
           EditMutate(r), NEW o \in Slots
    PROVE  /\ IsHidden(memory, o) => IsHidden(memory', o)
           /\ memory'.devices[o] = memory.devices[o]
                 => IsHidden(memory', o) = IsHidden(memory, o)
<1>1. call[r] \in EditCalls /\ call[r].key \in Keys /\ memory \in Catalog /\ Unique(memory)
  BY CallShapes DEF EditMutate, Shapes, EditCalls, TypeOK, Unambiguous
<1>2. CASE held[r] # NotFound
  <2>1. held[r].slot \in Slots
    BY <1>2 DEF EditMutate, Attached
  <2>2. EditEntry(r, memory, held[r].slot, memory.devices[held[r].slot])
    BY <1>2, <2>1 DEF EditMutate
  <2> QED
    BY <1>1, <2>1, <2>2, EditEntryHidden
<1>3. CASE held[r] = NotFound
  <2> DEFINE row == KeyRow(call[r].key)
  <2>1. PICK s \in FreeSlots(memory) : EditEntry(r, Put(memory, s, row), s, row)
    BY <1>3 DEF EditMutate
  <2>2. s \in Slots /\ row \in Row /\ Ident(row) # None /\ Ident(memory.devices[s]) = None
    BY <1>1, KeyRowFacts, EmptyFacts DEF FreeSlots, Holders
  <2>3. \A p \in Slots : Ident(memory.devices[p]) # Ident(row)
    BY <1>1, <1>3, KeyRowFacts DEF EditMutate, LookupStands, Holders
  <2>4. /\ Put(memory, s, row) \in Catalog /\ Unique(Put(memory, s, row))
        /\ Put(memory, s, row).devices[s] = row /\ Put(memory, s, row).hidden = memory.hidden
    BY <1>1, <2>2, <2>3, PutFacts, PutUnique
  <2> DEFINE d == Put(memory, s, row)
  <2>5. /\ IsHidden(d, o) => IsHidden(memory', o)
        /\ memory'.devices[o] = d.devices[o] => IsHidden(memory', o) = IsHidden(d, o)
    BY <1>1, <2>1, <2>2, <2>4, EditEntryHidden
  <2>6. CASE o # s
    <3>1. d.devices[o] = memory.devices[o]
      BY <1>1, <2>2, <2>6, PutFacts
    <3> QED
      BY <2>4, <2>5, <3>1 DEF IsHidden
  <2>7. CASE o = s
    <3>1. ~ IsHidden(memory, o)
      BY <1>1, <2>2, <2>7, EmptyFacts DEF IsHidden, Catalog
    <3>2. memory'.devices[s] # memory.devices[s]
      BY <1>1, <2>1, <2>2, <2>4, PutFacts, IdentityType DEF EditEntry, Refused
    <3> QED
      BY <2>7, <3>1, <3>2
  <2> QED
    BY <2>6, <2>7
<1> QED
  BY <1>2, <1>3

-----------------------------------------------------------------------------
(***************************************************************************)
(* What an answer promises.  A request carries its change from memory to   *)
(* the file and back.  `safe` says that what is hidden in memory is known  *)
(* to be hidden in the file, unless the request itself has yet to save:    *)
(* this is what lets hide take a mark that is there for one that is saved. *)
(***************************************************************************)

HiddenSaved(r, safe) ==
    safe /\ pc[r] \notin {"save", "replace"} => memory.hidden = disk.hidden

\* The request has changed something, or had nothing to change and may say so.
Certain(r, safe) == call[r].op # "delete" /\ (call[r].op = "hide" => safe)

CarriedOn(r, safe) ==
    /\ pc[r] \in {"save", "replace"} /\ call[r].op # "delete" => Done(call[r], memory)
    /\ pc[r] = "replace" => buf[r] = memory
    /\ pc[r] \in {"read", "assign"} /\ Certain(r, safe) => Done(call[r], disk)
    /\ pc[r] = "assign" => buf[r] = disk
    /\ pc[r] = "respond" /\ Certain(r, safe) => Kept(r)

\* An entry at s with this identifier is what add and upsert promise.
LEMMA HeldDone ==
    ASSUME NEW c, NEW s \in Slots, NEW k, k.op \in {"add", "edit"},
           Ident(c.devices[s]) = k.key
    PROVE  Done(k, c)
BY DEF Done, Holders

\* _set_identity of the entry found, or created, under the key: it ends there, with the
\* catalogue as it was, or answers the key the entry now has.
LEMMA EditEntryDone ==
    ASSUME TypeOK, NEW r \in Requests, call[r] \in EditCalls,
           NEW c \in Catalog, NEW s \in Slots, Ident(c.devices[s]) = call[r].key,
           EditEntry(r, c, s, c.devices[s])
    PROVE  \/ Finish(r) /\ memory' = c
           \/ pc'[r] = "save" /\ Done(call'[r], memory')
<1> DEFINE old == c.devices[s]
           new == Identity(call[r], old)
<1>1. CASE /\ memory' = c
           /\ GoTo(r, "save")
           /\ UNCHANGED <<call, held, buf>>
  <2>1. pc'[r] = "save"
    BY <1>1 DEF GoTo, TypeOK
  <2>2. Done(call[r], c)
    BY HeldDone DEF EditCalls
  <2> QED
    BY <1>1, <2>1, <2>2
<1>2. CASE /\ ~Refused(c, s, new)
           /\ memory' = [devices |-> IF s \in Slots THEN Put(c, s, new).devices
                                                    ELSE c.devices,
                         hidden |-> HiddenAfter(c.hidden, old, new)]
           /\ GoTo(r, "save")
           /\ call' = [call EXCEPT ![r].key = Ident(new)]
           /\ UNCHANGED <<held, buf>>
  <2>1. old \in Row
    BY DEF Catalog
  <2>2. new \in Row
    BY <1>2, <2>1, IdentityType DEF Refused
  <2>3. memory'.devices[s] = new
    BY <1>2, <2>2, PutFacts
  <2>4. call'[r] = [call[r] EXCEPT !.key = Ident(new)]
    BY <1>2 DEF TypeOK
  <2>5. call'[r].op = "edit" /\ call'[r].key = Ident(new)
    BY <2>4 DEF EditCalls
  <2>6. pc'[r] = "save"
    BY <1>2 DEF GoTo, TypeOK
  <2>7. Done(call'[r], memory')
    BY <2>3, <2>5, HeldDone
  <2> QED
    BY <2>6, <2>7
<1>3. CASE Finish(r) /\ memory' = c
  BY <1>3
<1> QED
  BY <1>1, <1>2, <1>3 DEF EditEntry

\* No step of a request breaks what it will promise.
LEMMA StepPromises ==
    ASSUME TypeOK, AddParsed, NEW r \in Requests,
           HoldsNothing(r), LookupStands(r), Attached(r), Step(r),
           NEW safe \in BOOLEAN, HiddenSaved(r, safe), CarriedOn(r, safe),
           NEW later \in BOOLEAN, later => safe /\ errors' = errors
    PROVE  HiddenSaved(r, later)' /\ CarriedOn(r, later)'
<1> DEFINE Goal == HiddenSaved(r, later)' /\ CarriedOn(r, later)'
<1>0. Shapes
  BY CallShapes
<1>t. /\ pc \in [Requests -> PCs] /\ memory \in Catalog /\ disk \in Catalog
      /\ DOMAIN call = Requests /\ DOMAIN held = Requests /\ DOMAIN buf = Requests
      /\ errors \in Nat
  BY SaveErrorsNat DEF TypeOK
<1>f. ASSUME Finish(r), later => memory'.hidden = disk'.hidden
      PROVE  Goal
  <2>1. pc'[r] = "idle"
    BY <1>t, <1>f DEF Finish, GoTo
  <2> QED
    BY <1>f, <2>1 DEF HiddenSaved, CarriedOn
<1>1. ASSUME NEW k \in Calls(r), Ask(r, k)
      PROVE  Goal
  <2>1. /\ pc[r] = "idle" /\ call'[r] = k
        /\ pc'[r] = IF k.op \in {"add", "edit"} THEN "find" ELSE "mutate"
        /\ UNCHANGED <<memory, disk, held, buf, errors>>
    BY <1>t, <1>1 DEF Ask, GoTo
  <2> QED
    BY <2>1 DEF HiddenSaved, CarriedOn
<1>2. CASE AddFind(r)
  <2>1. pc[r] = "find" /\ UNCHANGED <<memory, disk, errors>>
    BY <1>2 DEF AddFind
  <2>2. CASE Finish(r)
    BY <1>f, <2>1, <2>2 DEF HiddenSaved
  <2>3. CASE GoTo(r, "mutate") /\ UNCHANGED <<call, held, buf>>
    <3>1. pc'[r] = "mutate" /\ call[r].op = "add"
      BY <1>t, <1>2, <2>3 DEF AddFind, GoTo
    <3> QED
      BY <2>1, <2>3, <3>1 DEF HiddenSaved, CarriedOn
  <2> QED
    BY <1>2, <2>2, <2>3 DEF AddFind
<1>3. CASE AddMutate(r)
  <2>1. call[r] \in AddCalls /\ NewRow(r) \in Row
    BY <1>0, <1>3, NewRowType DEF AddMutate, AddParsed, Shapes
  <2>2. Ident(NewRow(r)) = call[r].key
    BY <2>1 DEF AddCalls, NewRow, Ident
  <2>3. PICK s \in Slots : memory' = Put(memory, s, NewRow(r))
    BY <1>3 DEF AddMutate, NewRow, FreeSlots, Holders
  <2>4. memory'.devices[s] = NewRow(r)
    BY <1>t, <2>1, <2>3, PutFacts
  <2>5. Done(call[r], memory')
    BY <1>3, <2>2, <2>4, HeldDone DEF AddMutate
  <2>6. pc'[r] = "save" /\ UNCHANGED call
    BY <1>t, <1>3 DEF AddMutate, GoTo
  <2> QED
    BY <2>5, <2>6 DEF HiddenSaved, CarriedOn
<1>4. CASE EditFind(r)
  <2>1. /\ pc[r] = "find" /\ pc'[r] = "mutate"
        /\ UNCHANGED <<memory, disk, call, buf, errors>>
    BY <1>t, <1>4 DEF EditFind, GoTo
  <2> QED
    BY <2>1 DEF HiddenSaved, CarriedOn
<1>5. CASE EditMutate(r)
  <2>1. /\ call[r] \in EditCalls /\ call[r].key \in Keys /\ pc[r] = "mutate"
        /\ call[r].op = "edit" /\ UNCHANGED <<disk, errors>>
    BY <1>0, <1>5 DEF EditMutate, Shapes, EditCalls
  <2>2. ASSUME NEW c \in Catalog, NEW s \in Slots, Ident(c.devices[s]) = call[r].key,
               c.hidden = memory.hidden, EditEntry(r, c, s, c.devices[s])
        PROVE  Goal
    <3>1. CASE Finish(r) /\ memory' = c
      BY <1>f, <2>1, <2>2, <3>1 DEF HiddenSaved
    <3>2. CASE pc'[r] = "save" /\ Done(call'[r], memory')
      BY <3>2 DEF HiddenSaved, CarriedOn
    <3> QED
      BY <1>0, <2>1, <2>2, <3>1, <3>2, EditEntryDone
  <2>3. CASE held[r] = NotFound
    <3> DEFINE row == KeyRow(call[r].key)
    <3>1. PICK s \in FreeSlots(memory) : EditEntry(r, Put(memory, s, row), s, row)
      BY <1>5, <2>3 DEF EditMutate
    <3>2. s \in Slots /\ row \in Row /\ Ident(row) = call[r].key
      BY <2>1, KeyRowFacts DEF FreeSlots, Holders
    <3>3. /\ Put(memory, s, row) \in Catalog /\ Put(memory, s, row).hidden = memory.hidden
          /\ Put(memory, s, row).devices[s] = row
      BY <1>t, <3>2, PutFacts
    <3> HIDE DEF row
    <3> QED
      BY <2>2, <3>1, <3>2, <3>3
  <2>4. CASE held[r] # NotFound
    <3>1. held[r].slot \in Slots /\ Ident(memory.devices[held[r].slot]) = call[r].key
      BY <1>0, <2>1, <2>4 DEF LookupStands, Attached
    <3>2. EditEntry(r, memory, held[r].slot, memory.devices[held[r].slot])
      BY <1>5, <2>4, <3>1 DEF EditMutate
    <3> QED
      BY <1>t, <2>2, <3>1, <3>2
  <2> QED
    BY <2>3, <2>4
<1>6. CASE HideMutate(r)
  <2>1. /\ pc[r] = "mutate" /\ call[r].op = "hide" /\ UNCHANGED <<disk, call, errors>>
        /\ memory'.hidden = memory.hidden \cup {call[r].key}
        /\ pc'[r] = IF call[r].key \in memory.hidden THEN "read" ELSE "save"
    BY <1>t, <1>6 DEF HideMutate, GoTo, Catalog
  <2>2. Done(call[r], memory')
    BY <2>1 DEF Done
  <2>3. call[r].key \in memory.hidden /\ safe => Done(call[r], disk)
    BY <2>1 DEF HiddenSaved, Done
  <2> QED
    BY <2>1, <2>2, <2>3 DEF HiddenSaved, CarriedOn, Certain
<1>7. CASE UnhideMutate(r)
  <2>1. /\ call[r].op = "unhide" /\ UNCHANGED <<disk, call, errors>> /\ pc'[r] = "save"
        /\ memory'.hidden = memory.hidden \ {call[r].key}
    BY <1>t, <1>7 DEF UnhideMutate, GoTo, Catalog
  <2>2. Done(call[r], memory')
    BY <2>1 DEF Done
  <2> QED
    BY <2>1, <2>2 DEF HiddenSaved, CarriedOn
<1>8. CASE DeleteMutate(r)
  <2>1. /\ pc[r] = "mutate" /\ call[r].op = "delete" /\ UNCHANGED <<disk, call, errors>>
        /\ pc'[r] = IF call[r].key \in memory.hidden THEN "read" ELSE "save"
    BY <1>t, <1>8 DEF DeleteMutate, GoTo
  <2>2. memory'.hidden = memory.hidden \cup {call[r].key}
    BY <1>t, <1>8 DEF DeleteMutate, Without, Catalog
  <2> QED
    BY <2>1, <2>2 DEF HiddenSaved, CarriedOn, Certain
<1>9. CASE Dump(r)
  <2>1. /\ pc[r] = "save" /\ pc'[r] = "replace" /\ buf'[r] = memory
        /\ UNCHANGED <<memory, disk, call, errors>>
    BY <1>t, <1>9 DEF Dump, GoTo
  <2> QED
    BY <2>1 DEF HiddenSaved, CarriedOn
<1>10. CASE Replace(r)
  <2>1. /\ pc[r] = "replace" /\ pc'[r] = "read" /\ disk' = buf[r]
        /\ UNCHANGED <<memory, call, errors>>
    BY <1>t, <1>10 DEF Replace, GoTo
  <2> QED
    BY <2>1 DEF HiddenSaved, CarriedOn, Certain
<1>11. CASE SaveFails(r)
  <2>1. Finish(r) /\ ~ later
    BY <1>t, <1>11 DEF SaveFails
  <2> QED
    BY <1>f, <2>1
<1>12. CASE Read(r)
  <2>1. /\ pc[r] = "read" /\ pc'[r] = "assign" /\ buf'[r] = disk
        /\ UNCHANGED <<memory, disk, call, errors>>
    BY <1>t, <1>12 DEF Read, GoTo
  <2> QED
    BY <2>1 DEF HiddenSaved, CarriedOn, Certain
<1>13. CASE Assign(r)
  <2>1. /\ pc[r] = "assign" /\ pc'[r] = "respond" /\ memory' = buf[r]
        /\ UNCHANGED <<disk, call, errors>>
    BY <1>t, <1>13 DEF Assign, GoTo
  <2> QED
    BY <2>1 DEF HiddenSaved, CarriedOn, Certain, Kept
<1>14. CASE Respond(r)
  <2>1. pc[r] = "respond" /\ Finish(r) /\ UNCHANGED <<memory, disk, errors>>
    BY <1>14 DEF Respond
  <2> QED
    BY <1>f, <2>1 DEF HiddenSaved
<1> QED
  BY <1>1, <1>2, <1>3, <1>4, <1>5, <1>6, <1>7, <1>8, <1>9, <1>10, <1>11, <1>12, <1>13, <1>14
  DEF Step

Promises(r) == HiddenSaved(r, errors = 0) /\ CarriedOn(r, errors = 0)

PromisesKept == \A r \in Requests : Promises(r)

\* The invariant of the promises, where edits come one at a time.
LEMMA PromisesInvariant ==
    ASSUME OneRequest
    PROVE  Spec => []PromisesKept
<1>1. Init => PromisesKept
  BY DEF Init, Promises, HiddenSaved, CarriedOn, PromisesKept
<1>2. UniqueInv /\ PromisesKept /\ [Next]_vars => PromisesKept'
  <2> SUFFICES ASSUME UniqueInv, PromisesKept, [Next]_vars, NEW r \in Requests
               PROVE  Promises(r)'
    BY DEF PromisesKept
  <2>0. HiddenSaved(r, errors = 0) /\ CarriedOn(r, errors = 0)
    BY DEF PromisesKept, Promises
  <2>1. CASE \E q \in Requests : Step(q)
    <3>1. Step(r)
      BY <2>1 DEF OneRequest
    <3>2. errors' = 0 => errors = 0 /\ errors' = errors
      <4>1. errors \in Nat /\ (errors' = errors \/ errors' = errors + 1)
        BY <3>1, SaveErrorsNat
        DEF UniqueInv, TypeOK, Step, Ask, AddFind, AddMutate, EditFind, EditMutate, HideMutate,
            UnhideMutate, DeleteMutate, Dump, Replace, SaveFails, Read, Assign, Respond
      <4> QED
        BY <4>1
    <3>3. TypeOK /\ AddParsed /\ HoldsNothing(r) /\ LookupStands(r) /\ Attached(r)
      BY DEF UniqueInv
    <3>4. HiddenSaved(r, errors = 0)' /\ CarriedOn(r, errors = 0)'
      BY <2>0, <3>1, <3>2, <3>3, StepPromises
    <3> QED
      BY <3>4 DEF Promises
  <2>2. CASE Restart
    <3>1. memory' = disk /\ disk' = disk /\ pc'[r] = "idle"
      BY <2>2 DEF Restart
    <3> QED
      BY <3>1 DEF Promises, HiddenSaved, CarriedOn
  <2>3. CASE UNCHANGED vars
    BY <2>0, <2>3 DEF vars, Promises, HiddenSaved, CarriedOn, Certain, Kept
  <2> QED
    BY <2>1, <2>2, <2>3 DEF Next
<1> QED
  BY <1>1, <1>2, UniqueInvariant, PTL DEF Spec

-----------------------------------------------------------------------------
(***************************************************************************)
(* Any number of requests at once.  The history variables say which        *)
(* look-ups are still those of the list, which requests nobody has got in  *)
(* the way of, and whether the marks in memory are those in the file.      *)
(***************************************************************************)

\* Nothing but this request has run since the process started, or since those before it
\* were answered; and no save has raised.
Alone(r) == apart /\ \A q \in Requests \ {r} : pc[q] = "idle"

Lookups ==
    \A r \in Requests :
        /\ HoldsNothing(r)
        /\ r \notin stale => LookupStands(r)
        /\ r \in intact => r \notin stale /\ Attached(r)

Answers ==
    \A r \in Requests :
        /\ HiddenSaved(r, Alone(r))
        /\ r \in intact => CarriedOn(r, Alone(r))

OneAtATime == apart => Busy \subseteq intact /\ \A q, r \in Busy : q = r

RaceInv ==
    /\ TypeOK /\ AddParsed
    /\ mislaid \in BOOLEAN /\ apart \in BOOLEAN
    /\ ~ mislaid => AllUnique
    /\ intact \subseteq Requests
    /\ Lookups /\ Answers /\ OneAtATime

\* Who appends has looked, unless it is stale.
LEMMA RaceUnique ==
    ASSUME RaceInv, RNext
    PROVE  mislaid' \in BOOLEAN /\ (~ mislaid' => AllUnique')
<1>1. /\ mislaid' = (mislaid \/ \E r \in stale : AppendsEntry(r))
      /\ [Next]_vars
  BY DEF RNext, Observe
<1>2. ASSUME ~ mislaid' PROVE AllUnique'
  <2>1. ~ mislaid /\ \A r \in Requests : AppendsEntry(r) => r \notin stale
    BY <1>1, <1>2
  <2>2. \A r \in Requests : AppendsEntry(r) => LookupStands(r)
    BY <2>1 DEF RaceInv, Lookups
  <2>3. TypeOK /\ AddParsed /\ AllUnique
    BY <2>1 DEF RaceInv
  <2> QED
    BY <1>1, <2>2, <2>3, NextUnique
<1> QED
  BY <1>1, <1>2 DEF RaceInv

\* A step of a request leaves the look-ups that are not stale as they were.
LEMMA RaceLookups ==
    ASSUME RaceInv, RNext, NEW r \in Requests, Step(r)
    PROVE  Lookups'
<1>0. TypeOK /\ \A q \in Requests : HoldsNothing(q)
  BY DEF RaceInv, Lookups
<1>1. /\ \A q \in Requests : q \in stale' <=>
            /\ pc[q] = "mutate" /\ pc'[q] = "mutate"
            /\ (q \in stale \/ memory'.devices # memory.devices)
      /\ \A q \in intact' :
            pc[q] # "idle" => q \in intact /\ (pc'[q] # pc[q] \/ Untouched(q))
  BY DEF RNext, Observe
<1>2. pc'[r] # pc[r]
  <2>1. pc \in [Requests -> PCs]
    BY <1>0 DEF TypeOK
  <2>2. ASSUME Finish(r) PROVE pc'[r] = "idle"
    BY <2>1, <2>2 DEF Finish, GoTo
  <2> QED
    BY <2>1, <2>2 DEF Step, Ask, AddFind, AddMutate, EditFind, EditMutate, EditEntry,
          HideMutate, UnhideMutate, DeleteMutate, Dump, Replace, SaveFails, Read, Assign,
          Respond, GoTo
<1>3. LookupStands(r)' /\ Attached(r)' /\ HoldsNothing(r)' /\ ~ (pc[r] = "mutate" /\ pc'[r] = "mutate")
  BY <1>0, <1>2, OwnStep
<1>4. ASSUME NEW q \in Requests \ {r}
      PROVE  /\ HoldsNothing(q)'
             /\ q \notin stale' => LookupStands(q)'
             /\ q \in intact' => q \notin stale' /\ Attached(q)'
  <2>1. /\ pc'[q] = pc[q]
        /\ HoldsNothing(q)'
        /\ LookupStands(q) /\ memory'.devices = memory.devices => LookupStands(q)'
        /\ Attached(q) /\ held'[q] = held[q] => Attached(q)'
    BY <1>0, OtherStands, StepOfOther
  <2>2. ASSUME q \notin stale' PROVE LookupStands(q)'
    <3>1. CASE pc[q] = "mutate"
      BY <1>1, <2>1, <2>2, <3>1 DEF RaceInv, Lookups
    <3>2. CASE pc[q] # "mutate"
      BY <2>1, <3>2 DEF LookupStands
    <3> QED
      BY <3>1, <3>2
  <2>3. ASSUME q \in intact' PROVE q \notin stale' /\ Attached(q)'
    <3>1. CASE pc[q] = "idle"
      BY <1>1, <2>1, <3>1 DEF Attached
    <3>2. CASE pc[q] # "idle"
      <4>1. q \in intact /\ memory' = memory /\ held'[q] = held[q]
        BY <1>1, <2>1, <2>3, <3>2 DEF Untouched
      <4>2. q \notin stale /\ Attached(q)
        BY <4>1 DEF RaceInv, Lookups
      <4> QED
        BY <1>1, <2>1, <4>1, <4>2
    <3> QED
      BY <3>1, <3>2
  <2> QED
    BY <2>1, <2>2, <2>3
<1> QED
  BY <1>1, <1>3, <1>4 DEF Lookups

\* A request is one that nobody gets in the way of while it is alone.
LEMMA RaceApart ==
    ASSUME RaceInv, RNext
    PROVE  OneAtATime' /\ apart' \in BOOLEAN
<1>1. /\ apart' = (Restart \/ (apart /\ errors' = errors /\ (\A q, r \in Busy' : q = r)))
      /\ intact' = {r \in Busy' :
                      pc[r] # "idle" => r \in intact /\ (pc'[r] # pc[r] \/ Untouched(r))}
      /\ Next
  BY DEF RNext, Observe
<1>2. CASE Restart
  <2>1. Busy' = {}
    BY <1>2 DEF Restart, Busy
  <2> QED
    BY <1>1, <2>1 DEF OneAtATime
<1>3. ASSUME ~ Restart, NEW r \in Requests, Step(r), apart'
      PROVE  Busy' \subseteq intact' /\ \A p, q \in Busy' : p = q
  <2>1. apart /\ \A p, q \in Busy' : p = q
    BY <1>1, <1>3
  <2>2. Busy \subseteq intact /\ \A p, q \in Busy : p = q
    BY <2>1 DEF RaceInv, OneAtATime
  <2>3. ASSUME NEW q \in Busy', pc[q] # "idle" PROVE q \in intact /\ (pc'[q] # pc[q] \/ Untouched(q))
    <3>1. q \in Busy /\ q \in Requests
      BY <2>3 DEF Busy
    <3>2. CASE q = r
      <4>1. TypeOK
        BY DEF RaceInv
      <4>2. pc'[r] # pc[r]
        <5>1. pc \in [Requests -> PCs]
          BY <4>1 DEF TypeOK
        <5>2. ASSUME Finish(r) PROVE pc'[r] = "idle"
          BY <5>1, <5>2 DEF Finish, GoTo
        <5> QED
          BY <1>3, <5>1, <5>2 DEF Step, Ask, AddFind, AddMutate, EditFind, EditMutate, EditEntry,
                HideMutate, UnhideMutate, DeleteMutate, Dump, Replace, SaveFails, Read, Assign,
                Respond, GoTo
      <4> QED
        BY <2>2, <3>1, <3>2, <4>2
    <3>3. CASE q # r
      <4>1. pc[r] = "idle"
        BY <2>2, <3>1, <3>3 DEF Busy
      <4>2. \E k \in Calls(r) : Ask(r, k)
        BY <1>3, <4>1 DEF Step, AddFind, AddMutate, EditFind, EditMutate, HideMutate,
              UnhideMutate, DeleteMutate, Dump, Replace, SaveFails, Read, Assign, Respond
      <4> QED
        BY <2>2, <3>1, <4>2 DEF Ask, Untouched
    <3> QED
      BY <3>2, <3>3
  <2> QED
    BY <1>1, <2>1, <2>3
<1> QED
  BY <1>1, <1>2, <1>3 DEF OneAtATime, Next

\* A step of a request keeps what the others will answer, and its own promise.
LEMMA RaceAnswers ==
    ASSUME RaceInv, RNext, OneAtATime', NEW r \in Requests, Step(r), ~ Restart
    PROVE  Answers'
<1>0. /\ TypeOK /\ AddParsed /\ HoldsNothing(r)
      /\ pc \in [Requests -> PCs]
  BY DEF RaceInv, Lookups, TypeOK
<1>1. /\ apart' => apart /\ errors' = errors
      /\ \A q \in intact' :
            /\ q \in Busy'
            /\ pc[q] # "idle" => q \in intact /\ (pc'[q] # pc[q] \/ Untouched(q))
  BY DEF RNext, Observe
<1>2. \A q \in Requests \ {r} : pc'[q] = pc[q] /\ call'[q] = call[q] /\ buf'[q] = buf[q]
  BY <1>0, StepOfOther
<1>3. Alone(r)' => Alone(r) /\ errors' = errors
  BY <1>1, <1>2 DEF Alone
<1>4. ASSUME LookupStands(r), Attached(r), CarriedOn(r, Alone(r))
      PROVE  HiddenSaved(r, Alone(r))' /\ CarriedOn(r, Alone(r))'
  <2>1. HiddenSaved(r, Alone(r))
    BY DEF RaceInv, Answers
  <2>2. Alone(r) \in BOOLEAN /\ Alone(r)' \in BOOLEAN
    BY DEF Alone
  <2> QED
    BY <1>0, <1>3, <1>4, <2>1, <2>2, StepPromises
<1>5. ASSUME pc[r] = "idle" \/ r \in intact
      PROVE  LookupStands(r) /\ Attached(r) /\ CarriedOn(r, Alone(r))
  <2>1. CASE pc[r] = "idle"
    BY <2>1 DEF LookupStands, Attached, CarriedOn
  <2>2. CASE r \in intact
    BY <2>2 DEF RaceInv, Lookups, Answers
  <2> QED
    BY <1>5, <2>1, <2>2
<1>6. apart => pc[r] = "idle" \/ r \in intact
  BY DEF RaceInv, OneAtATime, Busy
<1>7. HiddenSaved(r, Alone(r))' /\ (r \in intact' => CarriedOn(r, Alone(r))')
  <2>1. CASE pc[r] = "idle" \/ r \in intact
    BY <1>4, <1>5, <2>1
  <2>2. CASE ~ (pc[r] = "idle" \/ r \in intact)
    <3>1. r \notin intact' /\ ~ Alone(r)'
      BY <1>1, <1>3, <1>6, <2>2 DEF Alone
    <3> QED
      BY <3>1 DEF HiddenSaved
  <2> QED
    BY <2>1, <2>2
<1>8. ASSUME NEW q \in Requests \ {r}
      PROVE  HiddenSaved(q, Alone(q))' /\ (q \in intact' => CarriedOn(q, Alone(q))')
  <2>1. ASSUME Alone(q)' PROVE pc[q] = "idle" /\ pc'[r] = "idle" /\ Alone(r)'
    <3>1. apart /\ apart' /\ pc'[r] = "idle" /\ \A p \in Requests \ {q} : pc'[p] = "idle"
      BY <1>1, <2>1 DEF Alone
    <3>2. pc[r] # "idle"
      <4>1. ASSUME pc[r] = "idle" PROVE pc'[r] # "idle"
        BY <1>0, <4>1 DEF Step, Ask, GoTo, AddFind, AddMutate, EditFind, EditMutate, HideMutate,
              UnhideMutate, DeleteMutate, Dump, Replace, SaveFails, Read, Assign, Respond
      <4> QED
        BY <3>1, <4>1
    <3>3. pc[q] = "idle"
      BY <3>1, <3>2 DEF RaceInv, OneAtATime, Busy
    <3> QED
      BY <1>2, <3>1, <3>3 DEF Alone
  <2>2. HiddenSaved(q, Alone(q))'
    <3>1. ASSUME Alone(q)' PROVE memory'.hidden = disk'.hidden
      BY <1>7, <2>1, <3>1 DEF HiddenSaved
    <3> QED
      BY <3>1 DEF HiddenSaved
  <2>3. ASSUME q \in intact' PROVE CarriedOn(q, Alone(q))'
    <3>1. pc'[q] # "idle" /\ pc[q] # "idle"
      BY <1>1, <1>2, <2>3 DEF Busy
    <3>2. q \in intact /\ memory' = memory /\ disk' = disk
      BY <1>1, <1>2, <2>3, <3>1 DEF Untouched
    <3>3. CarriedOn(q, Alone(q)) /\ ~ Alone(q)'
      BY <2>1, <3>1, <3>2 DEF RaceInv, Answers
    <3> QED
      BY <1>2, <3>2, <3>3 DEF CarriedOn, Certain, Kept
  <2> QED
    BY <2>2, <2>3
<1> QED
  BY <1>7, <1>8 DEF Answers

\* The invariant of requests that overlap.
LEMMA RaceInvariant == RSpec => []RaceInv
<1>1. RInit => RaceInv
  <2> SUFFICES ASSUME RInit PROVE RaceInv
    OBVIOUS
  <2>1. TypeOK /\ AddParsed
    BY EmptyFacts, SaveErrorsNat DEF RInit, Init, TypeOK, AddParsed, NotFound, PCs
  <2>2. AllUnique /\ Lookups
    BY EmptyFacts DEF RInit, Init, AllUnique, Unambiguous, Lookups, LookupStands, HoldsNothing
  <2>3. Answers /\ OneAtATime
    BY DEF RInit, Init, Answers, HiddenSaved, OneAtATime, Busy
  <2> QED
    BY <2>1, <2>2, <2>3 DEF RInit, RaceInv
<1>2. RaceInv /\ [RNext]_<<vars, ghosts>> => RaceInv'
  <2> SUFFICES ASSUME RaceInv, [RNext]_<<vars, ghosts>> PROVE RaceInv'
    OBVIOUS
  <2>1. CASE RNext
    <3>0. Next /\ TypeOK' /\ AddParsed'
      BY <2>1, NextTypeOK, NextAddParsed DEF RaceInv, RNext
    <3>1. /\ mislaid' \in BOOLEAN /\ (~ mislaid' => AllUnique')
          /\ apart' \in BOOLEAN /\ OneAtATime' /\ intact' \subseteq Requests
      BY <2>1, RaceUnique, RaceApart DEF RNext, Observe, Busy
    <3>2. CASE Restart
      <4>1. /\ memory' = disk /\ disk' = disk
            /\ \A r \in Requests : pc'[r] = "idle" /\ held'[r] = NotFound
        BY <3>2 DEF Restart
      <4>2. intact' = {}
        BY <2>1, <4>1 DEF RNext, Observe, Busy
      <4>3. Lookups'
        BY <4>1, <4>2 DEF Lookups, LookupStands, HoldsNothing
      <4>4. Answers'
        BY <4>1, <4>2 DEF Answers, HiddenSaved
      <4> QED
        BY <3>0, <3>1, <4>3, <4>4 DEF RaceInv
    <3>3. ASSUME ~ Restart, NEW r \in Requests, Step(r) PROVE RaceInv'
      <4>1. Lookups'
        BY <2>1, <3>3, RaceLookups
      <4>2. Answers'
        BY <2>1, <3>1, <3>3, RaceAnswers
      <4> QED
        BY <3>0, <3>1, <4>1, <4>2 DEF RaceInv
    <3> QED
      BY <3>0, <3>2, <3>3 DEF Next
  <2>2. CASE UNCHANGED <<vars, ghosts>>
    <3>1. UNCHANGED <<memory, disk, pc, call, held, buf, errors, stale, mislaid, intact, apart>>
      BY <2>2 DEF vars, ghosts
    <3>2. TypeOK' /\ AddParsed' /\ AllUnique' = AllUnique
      BY <3>1, NextTypeOK, NextAddParsed DEF vars, RaceInv, AllUnique, Unambiguous
    <3>3. Lookups'
      BY <3>1 DEF RaceInv, Lookups, LookupStands, Attached, HoldsNothing, NewRow, Holders
    <3>4. Answers' /\ OneAtATime'
      BY <3>1 DEF RaceInv, Answers, OneAtATime, Busy, HiddenSaved, CarriedOn, Certain, Kept, Alone
    <3> QED
      BY <3>1, <3>2, <3>3, <3>4 DEF RaceInv
  <2> QED
    BY <2>1, <2>2
<1> QED
  BY <1>1, <1>2, PTL DEF RSpec

\* However many edits run at once, wherever their saves fail and whenever the process
\* restarts, two entries come to have one identifier only where an entry was appended
\* on a look-up the list had moved on from: every other step of add and _set_identity
\* keeps the catalogue unambiguous, in memory and in the file.
THEOREM IdentityUnique == RSpec => []UniqueIdentity
<1>1. RaceInv => UniqueIdentity
  BY DEF RaceInv, UniqueIdentity, AllUnique
<1> QED
  BY <1>1, RaceInvariant, PTL

\* However many edits run at once, "nascosto" follows the entry whose address is edited
\* and concerns no other, unless another request came in between.
THEOREM HiddenFollowsEdits == RSpec => HiddenFollows
<1>1. RaceInv => [\A r \in intact : EditMutate(r) /\ Unambiguous =>
                    \A s \in Slots :
                       /\ IsHidden(memory, s) => IsHidden(memory', s)
                       /\ memory'.devices[s] = memory.devices[s]
                             => IsHidden(memory', s) = IsHidden(memory, s)]_<<vars, ghosts>>
  <2> SUFFICES ASSUME RaceInv, NEW r \in intact, EditMutate(r), Unambiguous, NEW s \in Slots
               PROVE  /\ IsHidden(memory, s) => IsHidden(memory', s)
                      /\ memory'.devices[s] = memory.devices[s]
                            => IsHidden(memory', s) = IsHidden(memory, s)
    OBVIOUS
  <2>1. r \in Requests
    BY DEF RaceInv
  <2>2. LookupStands(r) /\ Attached(r) /\ TypeOK
    BY <2>1 DEF RaceInv, Lookups
  <2> QED
    BY <2>1, <2>2, EditHides
<1> QED
  BY <1>1, RaceInvariant, PTL DEF HiddenFollows

\* However many edits run at once and whatever earlier ones have left, an add, edit or
\* unhide that answers with success is in the file and in memory, unless another request
\* has written to one of them since it came in; a hide too, as long as no two requests
\* have overlapped and no save has raised ("Mutazioni (persistite)").
THEOREM ChangesKept == RSpec => []ChangeKept
<1>1. RaceInv => ChangeKept
  <2> SUFFICES ASSUME RaceInv, NEW r \in intact, pc[r] = "respond", call[r].op # "delete",
                      call[r].op = "hide" => apart
               PROVE  Kept(r)
    BY DEF ChangeKept
  <2>1. r \in Requests /\ CarriedOn(r, Alone(r))
    BY DEF RaceInv, Answers
  <2>2. call[r].op = "hide" => Alone(r)
    BY <2>1 DEF RaceInv, OneAtATime, Busy, Alone
  <2> QED
    BY <2>1, <2>2 DEF CarriedOn, Certain
<1> QED
  BY <1>1, RaceInvariant, PTL

-----------------------------------------------------------------------------
(***************************************************************************)
(* The scanner, where edits come one at a time and no save fails.  A scan  *)
(* during which the catalogue has not changed covers it from its first     *)
(* step to its last; the registry in place, when no request has changed    *)
(* something it has yet to publish, is exactly what the file says; and the *)
(* file says nothing that memory does not.                                 *)
(***************************************************************************)

\* No request is between its change and the assignment that undoes or keeps it.
Waiting == \A r \in Requests : pc[r] \in {"idle", "find", "mutate"}
Told == \A r \in Requests : pc[r] \in {"idle", "find", "mutate", "respond"}
Unwritten ==
    \E r \in Requests :
        \/ pc[r] \in {"save", "replace"}
        \/ pc[r] \in {"read", "assign"} /\ call[r].op = "delete"

Covers(registry, c) == Catalogued(c) \subseteq registry.known

Exact(registry, c) ==
    Covers(registry, c) /\ registry.hidden = registry.known \cap c.hidden

Registries == reg \in Registry /\ cache \in Registry /\ shown \in Registry

FileBehind ==
    /\ Told => memory.hidden = disk.hidden
    /\ ~ Unwritten => Catalogued(disk) \subseteq Catalogued(memory)

ScanCovers ==
    ~ overlap =>
        /\ scan \in {"discover", "ping"} => Covers(reg, memory)
        /\ scan = "ping" => Exact(reg, memory)
        /\ scan = "enrich" => Covers(cache, memory)
        /\ scan = "idle" /\ Told => Exact(cache, disk)
        /\ scan = "idle" /\ Waiting => Exact(shown, disk)

ScanInv == Registries /\ FileBehind /\ ScanCovers

\* A step of the scanner, of a request or of both is one of the store, or leaves it alone.
LEMMA ScanStepsStore == [ScanNext]_allVars => [Next]_vars
<1> SUFFICES ASSUME [ScanNext]_allVars PROVE [Next]_vars
  OBVIOUS
<1>1. ASSUME NEW r \in Requests, RequestStep(r) \/ AssignAndRefresh(r) \/ RespondAndPublish(r)
      PROVE  Next
  BY <1>1 DEF RequestStep, AssignAndRefresh, RespondAndPublish, Next, Step
<1>2. CASE \/ BeginScan \/ Discovered \/ Pinged \/ Enriched
           \/ (\E x \in Answering : EnrichFinds(x))
           \/ CollectDevices \/ RescanWaits \/ UNCHANGED allVars
  BY <1>2 DEF BeginScan, Discovered, Pinged, Enriched, EnrichFinds, CollectDevices,
              RescanWaits, allVars
<1> QED
  BY <1>1, <1>2 DEF ScanNext

\* What a catalogue holds and hides are addresses of the registry.
LEMMA CatalogIps ==
    ASSUME NEW c \in Catalog
    PROVE  Catalogued(c) \in SUBSET Keys /\ c.hidden \in SUBSET Keys
<1>1. \A s \in Slots : Ident(c.devices[s]) \in Keys \cup {None}
  BY IdentType DEF Catalog
<1> QED
  BY <1>1, IpsOnly DEF Catalogued, Catalog, Keys

\* Filling a registry.
LEMMA UpsertedFacts ==
    ASSUME NEW registry \in Registry, NEW ids \in SUBSET Keys
    PROVE  /\ Upserted(registry, ids) \in Registry
           /\ Upserted(registry, ids).known = registry.known \cup ids
BY DEF Registry, Upserted

\* Applying the catalogue to it.
LEMMA AppliedFacts ==
    ASSUME NEW registry \in Registry, NEW c \in Catalog
    PROVE  /\ Applied(registry, c) \in Registry
           /\ Applied(registry, c).known = registry.known
           /\ Applied(registry, c).hidden = registry.known \cap c.hidden
BY DEF Registry, Applied

\* A step of the scanner alone.
LEMMA ScannerStep ==
    ASSUME TypeOK, ScanInv, UNCHANGED vars,
           \/ BeginScan \/ Discovered \/ Pinged \/ Enriched
           \/ (\E x \in Answering : EnrichFinds(x))
           \/ CollectDevices \/ RescanWaits \/ UNCHANGED scanVars
    PROVE  ScanInv'
<1> USE DEF ScanInv
<1>0. /\ UNCHANGED <<memory, disk, pc, call>>
      /\ memory \in Catalog /\ disk \in Catalog
      /\ Catalogued(memory) \in SUBSET Keys
      /\ reg \in Registry /\ cache \in Registry /\ shown \in Registry
  BY CatalogIps DEF vars, TypeOK, Registries
<1>1. FileBehind'
  BY <1>0 DEF FileBehind, Told, Unwritten, Catalogued
<1>2. \A registry : Covers(registry, memory)' = (Catalogued(memory) \subseteq registry.known)
  BY <1>0 DEF Covers, Catalogued
<1>3. /\ Told' = Told /\ Waiting' = Waiting
      /\ \A registry : /\ Covers(registry, memory) => Covers(registry, memory)'
                       /\ Exact(registry, memory) => Exact(registry, memory)'
                       /\ Exact(registry, disk) => Exact(registry, disk)'
  BY <1>0 DEF Told, Waiting, Covers, Exact, Catalogued
<1>4. CASE BeginScan
  <2>1. Nothing \in Registry /\ Nothing.known = {}
    BY DEF Nothing, Registry
  <2>2. scan' = "discover" /\ reg' = Upserted(Nothing, Catalogued(memory)) /\ UNCHANGED <<cache, shown>>
    BY <1>4 DEF BeginScan
  <2>3. reg' \in Registry /\ Covers(reg', memory)
    BY <1>0, <2>1, <2>2, UpsertedFacts, AppliedFacts DEF Covers
  <2> QED
    BY <1>0, <1>1, <1>3, <2>2, <2>3 DEF Registries, ScanCovers, Covers, Exact, Catalogued
<1>5. CASE Discovered
  <2>1. PICK found \in SUBSET Answering : reg' = Applied(Upserted(reg, found), memory)
    BY <1>5 DEF Discovered
  <2>2. scan = "discover" /\ scan' = "ping" /\ UNCHANGED <<cache, shown, overlap>>
    BY <1>5 DEF Discovered
  <2>3. found \in SUBSET Keys
    BY IpsOnly DEF Keys, Ids
  <2>4. /\ Upserted(reg, found) \in Registry
        /\ Upserted(reg, found).known = reg.known \cup found
    BY <1>0, <2>3, UpsertedFacts, AppliedFacts
  <2>5. /\ reg' \in Registry /\ reg'.known = reg.known \cup found
        /\ reg'.hidden = reg'.known \cap memory.hidden
    BY <1>0, <2>1, <2>4, UpsertedFacts, AppliedFacts
  <2>6. ~ overlap => Exact(reg', memory)
    BY <2>2, <2>5 DEF ScanCovers, Covers, Exact
  <2> QED
    BY <1>0, <1>1, <1>3, <2>2, <2>5, <2>6 DEF Registries, ScanCovers, Covers, Exact, Catalogued
<1>6. CASE Pinged
  <2>1. /\ scan = "ping" /\ scan' = "enrich" /\ cache' = reg /\ shown' = reg /\ reg' = Nothing
        /\ UNCHANGED overlap
    BY <1>6 DEF Pinged
  <2>2. Nothing \in Registry
    BY DEF Nothing, Registry
  <2> QED
    BY <1>0, <1>1, <1>3, <2>1, <2>2 DEF Registries, ScanCovers, Covers, Exact, Catalogued
<1>7. ASSUME NEW x \in Answering, EnrichFinds(x) PROVE ScanInv'
  <2>1. scan = "enrich" /\ cache' = Upserted(cache, {x}) /\ UNCHANGED <<scan, reg, shown, overlap>>
    BY <1>7 DEF EnrichFinds
  <2>2. cache' \in Registry /\ cache'.known = cache.known \cup {x}
    BY <1>0, <2>1, IpsOnly, UpsertedFacts, AppliedFacts DEF Keys, Ids
  <2> QED
    BY <1>0, <1>1, <1>3, <2>1, <2>2 DEF Registries, ScanCovers, Covers, Catalogued
<1>8. CASE Enriched
  <2>1. /\ scan = "enrich" /\ scan' = "idle" /\ cache' = Applied(cache, memory)
        /\ shown' = cache' /\ UNCHANGED <<reg, overlap>>
    BY <1>8 DEF Enriched
  <2>2. /\ cache' \in Registry /\ cache'.known = cache.known
        /\ cache'.hidden = cache'.known \cap memory.hidden
    BY <1>0, <2>1, UpsertedFacts, AppliedFacts
  <2>3. Told => ~ Unwritten
    BY DEF Told, Unwritten
  <2>4. Told /\ ~ overlap => Exact(cache', disk)
    BY <2>1, <2>2, <2>3 DEF ScanCovers, FileBehind, Covers, Exact
  <2>5. Waiting => Told
    BY DEF Waiting, Told
  <2> QED
    BY <1>0, <1>1, <1>3, <2>1, <2>2, <2>4, <2>5 DEF Registries, ScanCovers, Exact, Covers, Catalogued
<1>9. CASE CollectDevices
  <2>1. scan = "idle" /\ shown' = cache /\ UNCHANGED <<scan, reg, cache, overlap>>
    BY <1>9 DEF CollectDevices
  <2>2. Waiting => Told
    BY DEF Waiting, Told
  <2> QED
    BY <1>0, <1>1, <1>3, <2>1, <2>2 DEF Registries, ScanCovers
<1>10. CASE RescanWaits \/ UNCHANGED scanVars
  <2>1. UNCHANGED <<scan, reg, cache, shown, overlap>>
    BY <1>10 DEF RescanWaits, scanVars
  <2> QED
    BY <1>0, <1>1, <1>3, <2>1 DEF Registries, ScanCovers
<1> QED
  BY <1>4, <1>5, <1>6, <1>7, <1>8, <1>9, <1>10

\* A step of the only request leaves the file behind memory, never ahead of it.
LEMMA FileStaysBehind ==
    ASSUME OneRequest, UniqueInv, PromisesKept, PromisesKept', FileBehind, errors = 0,
           errors' = 0, NEW r \in Requests, Step(r)
    PROVE  FileBehind'
<1>0. /\ TypeOK /\ Shapes /\ \A q \in Requests : q = r
      /\ pc \in [Requests -> PCs] /\ memory \in Catalog
      /\ DOMAIN call = Requests /\ DOMAIN buf = Requests
  BY CallShapes DEF UniqueInv, TypeOK, OneRequest
<1>1. Told' => (memory.hidden = disk.hidden)'
  BY DEF PromisesKept, Promises, HiddenSaved, Told
<1>2. SUFFICES ASSUME ~ Unwritten' PROVE Catalogued(disk') \subseteq Catalogued(memory')
  BY <1>1 DEF FileBehind, Catalogued
<1>3. /\ pc'[r] \notin {"save", "replace"}
      /\ pc'[r] \in {"read", "assign"} => call'[r].op # "delete"
  BY <1>2 DEF Unwritten
<1>4. ASSUME pc[r] \notin {"save", "replace"},
             pc[r] \in {"read", "assign"} => call[r].op # "delete"
      PROVE  Catalogued(disk) \subseteq Catalogued(memory)
  BY <1>0, <1>4 DEF FileBehind, Unwritten
<1>5. CASE \/ (\E k \in Calls(r) : Ask(r, k)) \/ AddFind(r) \/ EditFind(r) \/ Read(r)
           \/ Respond(r)
  <2>1. /\ UNCHANGED <<memory, disk>> /\ pc[r] \in {"idle", "find", "read", "respond"}
        /\ pc[r] = "read" => pc'[r] = "assign" /\ call' = call
    BY <1>0, <1>5 DEF Ask, AddFind, EditFind, Read, Respond, GoTo
  <2> QED
    BY <1>3, <1>4, <2>1 DEF Catalogued
<1>6. CASE AddMutate(r) \/ UnhideMutate(r) \/ DeleteMutate(r) \/ Dump(r)
  BY <1>0, <1>3, <1>6 DEF AddMutate, UnhideMutate, DeleteMutate, Dump, GoTo
<1>7. CASE EditMutate(r)
  <2>1. /\ call[r] \in EditCalls /\ call[r].key \in Keys /\ pc[r] = "mutate" /\ UNCHANGED disk
    BY <1>0, <1>7 DEF EditMutate, Shapes, EditCalls
  <2>2. ASSUME NEW c, NEW s, NEW old, EditEntry(r, c, s, old),
               Catalogued(memory) \subseteq Catalogued(c)
        PROVE  Catalogued(disk') \subseteq Catalogued(memory')
    <3>1. memory' = c
      BY <1>0, <1>3, <2>2 DEF EditEntry, GoTo
    <3>2. Catalogued(memory') = Catalogued(c)
      BY <3>1
    <3> QED
      BY <1>4, <2>1, <2>2, <3>2 DEF Catalogued
  <2>3. CASE held[r] = NotFound
    <3> DEFINE row == KeyRow(call[r].key)
    <3>1. PICK s \in FreeSlots(memory) : EditEntry(r, Put(memory, s, row), s, row)
      BY <1>7, <2>3 DEF EditMutate
    <3>2. s \in Slots /\ row \in Row /\ Ident(memory.devices[s]) = None
      BY <2>1, KeyRowFacts DEF FreeSlots, Holders
    <3>3. \A o \in Slots : Put(memory, s, row).devices[o] = IF o = s THEN row
                                                            ELSE memory.devices[o]
      BY <1>0, <3>2, PutFacts
    <3>4. Catalogued(memory) \subseteq Catalogued(Put(memory, s, row))
      BY <3>2, <3>3 DEF Catalogued
    <3> QED
      BY <2>2, <3>1, <3>4
  <2>4. CASE held[r] # NotFound
    BY <1>7, <2>2, <2>4 DEF EditMutate
  <2> QED
    BY <2>3, <2>4
<1>8. CASE HideMutate(r)
  <2>1. pc[r] = "mutate" /\ memory'.devices = memory.devices /\ UNCHANGED disk
    BY <1>0, <1>8 DEF HideMutate, Catalog
  <2> QED
    BY <1>4, <2>1 DEF Catalogued
<1>9. CASE Replace(r)
  <2>1. disk' = memory'
    BY <1>9 DEF Replace, PromisesKept, Promises, CarriedOn
  <2> QED
    BY <2>1
<1>10. CASE SaveFails(r)
  BY <1>10 DEF SaveFails
<1>11. CASE Assign(r)
  <2>1. disk' = memory'
    BY <1>11 DEF Assign, PromisesKept, Promises, CarriedOn
  <2> QED
    BY <2>1
<1> QED
  BY <1>5, <1>6, <1>7, <1>8, <1>9, <1>10, <1>11 DEF Step

\* A step of the only request that does not concern the scanner.
LEMMA RequestStepCovers ==
    ASSUME OneRequest, TypeOK, ScanInv, errors = 0, errors' = 0,
           NEW r \in Requests, RequestStep(r)
    PROVE  Registries' /\ ScanCovers'
<1> USE DEF ScanInv
<1>0. /\ pc \in [Requests -> PCs] /\ \A q \in Requests : q = r
  BY DEF TypeOK, OneRequest
<1>1. /\ UNCHANGED <<scan, reg, cache, shown>>
      /\ overlap' = (overlap \/ (scan # "idle" /\ memory' # memory))
  BY DEF RequestStep, Overlaps
<1>2. pc'[r] \in {"idle", "find", "mutate", "respond"} =>
          pc[r] \in {"idle", "find", "mutate"} /\ pc'[r] # "respond" /\ disk' = disk
  <2>1. CASE \/ (\E k \in Calls(r) : Ask(r, k)) \/ AddFind(r) \/ EditFind(r)
             \/ EditMutate(r) \/ SaveFails(r)
    <3>1. ASSUME Finish(r) PROVE pc'[r] = "idle"
      BY <1>0, <3>1 DEF Finish, GoTo
    <3> QED
      BY <1>0, <2>1, <3>1 DEF Ask, AddFind, EditFind, EditMutate, EditEntry, SaveFails, GoTo
  <2>2. CASE \/ AddMutate(r) \/ HideMutate(r) \/ UnhideMutate(r) \/ DeleteMutate(r)
             \/ Dump(r) \/ Replace(r) \/ Read(r)
    BY <1>0, <2>2 DEF AddMutate, HideMutate, UnhideMutate, DeleteMutate, Dump, Replace,
                      Read, GoTo
  <2> QED
    BY <2>1, <2>2 DEF RequestStep
<1>3. Told' => Waiting /\ Told /\ disk' = disk
  BY <1>0, <1>2 DEF Told, Waiting
<1>4. Waiting' => Told'
  BY DEF Waiting, Told
<1>5. ASSUME ~ overlap' PROVE ScanCovers'
  <2>1. ~ overlap /\ (scan # "idle" => memory' = memory)
    BY <1>1, <1>5
  <2>2. CASE scan # "idle"
    <3>1. \A registry : /\ Covers(registry, memory) => Covers(registry, memory')
                        /\ Exact(registry, memory) => Exact(registry, memory')
      BY <2>1, <2>2
    <3> QED
      BY <1>1, <2>1, <2>2, <3>1 DEF ScanCovers, Covers, Exact, Catalogued
  <2>3. CASE scan = "idle"
    <3>1. \A registry : disk' = disk /\ Exact(registry, disk) => Exact(registry, disk')
      OBVIOUS
    <3> QED
      BY <1>1, <1>3, <1>4, <2>1, <2>3, <3>1 DEF ScanCovers, Covers, Exact, Catalogued
  <2> QED
    BY <2>2, <2>3
<1>6. ScanCovers'
  BY <1>5 DEF ScanCovers
<1> QED
  BY <1>1, <1>6 DEF Registries

\* A request puts back what the file says and brings the registry in place up to date.
LEMMA AssignCovers ==
    ASSUME OneRequest, TypeOK, TypeOK', ScanInv, PromisesKept, NEW r \in Requests,
           AssignAndRefresh(r)
    PROVE  Registries' /\ ScanCovers'
<1> USE DEF ScanInv
<1>0. /\ pc \in [Requests -> PCs] /\ memory' \in Catalog
      /\ Catalogued(memory') \in SUBSET Keys
      /\ reg \in Registry /\ cache \in Registry /\ shown \in Registry
  BY CatalogIps DEF TypeOK, Registries
<1>1. /\ UNCHANGED <<scan, reg, shown>> /\ cache' = Refreshed(memory')
      /\ overlap' = (overlap \/ (scan # "idle" /\ memory' # memory))
      /\ pc[r] = "assign" /\ pc'[r] = "respond" /\ memory' = disk /\ disk' = disk
  BY <1>0 DEF AssignAndRefresh, Assign, Overlaps, GoTo, PromisesKept, Promises, CarriedOn
<1>2. /\ cache' \in Registry /\ Catalogued(memory') \subseteq cache'.known
      /\ cache'.hidden = cache'.known \cap memory'.hidden
  <2> DEFINE filled == Upserted(cache, Catalogued(memory'))
  <2>1. filled \in Registry /\ filled.known = cache.known \cup Catalogued(memory')
    BY <1>0, UpsertedFacts, AppliedFacts
  <2>2. cache' = Applied(filled, memory')
    BY <1>1 DEF Refreshed
  <2> HIDE DEF filled
  <2> QED
    BY <1>0, <2>1, <2>2, UpsertedFacts, AppliedFacts
<1>3. ~ Waiting'
  BY <1>1 DEF Waiting
<1>4. Registries'
  BY <1>0, <1>1, <1>2 DEF Registries
<1>5. ASSUME ~ overlap' PROVE ScanCovers'
  <2>1. ~ overlap /\ (scan # "idle" => memory' = memory)
    BY <1>1, <1>5
  <2>2. CASE scan # "idle"
    <3>1. \A registry : /\ Covers(registry, memory) => Covers(registry, memory')
                        /\ Exact(registry, memory) => Exact(registry, memory')
      BY <2>1, <2>2
    <3> QED
      BY <1>1, <1>2, <2>1, <2>2, <3>1 DEF ScanCovers, Covers, Exact, Catalogued
  <2>3. CASE scan = "idle"
    <3>1. Exact(cache', disk')
      BY <1>1, <1>2 DEF Exact, Covers
    <3> QED
      BY <1>1, <1>3, <2>3, <3>1 DEF ScanCovers, Covers, Exact, Catalogued
  <2> QED
    BY <2>2, <2>3
<1> QED
  BY <1>4, <1>5 DEF ScanCovers

\* An answer publishes the registry in place.
LEMMA RespondCovers ==
    ASSUME OneRequest, TypeOK, ScanInv, NEW r \in Requests, RespondAndPublish(r)
    PROVE  Registries' /\ ScanCovers'
<1> USE DEF ScanInv
<1>0. pc \in [Requests -> PCs] /\ \A q \in Requests : q = r
  BY DEF TypeOK, OneRequest
<1>1. /\ UNCHANGED <<scan, reg, cache, overlap, memory, disk>> /\ shown' = cache
      /\ pc[r] = "respond"
  BY DEF RespondAndPublish, Respond
<1>2. Told
  BY <1>0, <1>1 DEF Told
<1>3. \A registry : /\ Covers(registry, memory) => Covers(registry, memory')
                    /\ Exact(registry, memory) => Exact(registry, memory')
                    /\ Exact(registry, disk) => Exact(registry, disk')
  BY <1>1
<1> QED
  BY <1>1, <1>2, <1>3 DEF Registries, ScanCovers, Covers, Exact, Catalogued

LEMMA ScanStepInv ==
    ASSUME OneRequest, SaveErrors = 0, UniqueInv, UniqueInv', PromisesKept, PromisesKept',
           ScanInv, [ScanNext]_allVars
    PROVE  ScanInv'
<1>0. TypeOK /\ TypeOK' /\ errors = 0 /\ errors' = 0
  BY DEF UniqueInv, TypeOK
<1>1. ASSUME NEW r \in Requests, RequestStep(r) \/ AssignAndRefresh(r) \/ RespondAndPublish(r)
      PROVE  ScanInv'
  <2>1. Step(r)
    BY <1>1 DEF RequestStep, AssignAndRefresh, RespondAndPublish, Step
  <2>2. FileBehind'
    BY <1>0, <2>1, FileStaysBehind DEF ScanInv
  <2>3. Registries' /\ ScanCovers'
    BY <1>0, <1>1, RequestStepCovers, AssignCovers, RespondCovers
  <2> QED
    BY <2>2, <2>3 DEF ScanInv
<1>2. CASE \/ BeginScan \/ Discovered \/ Pinged \/ Enriched
           \/ (\E x \in Answering : EnrichFinds(x))
           \/ CollectDevices \/ RescanWaits \/ UNCHANGED allVars
  <2>1. UNCHANGED vars /\ (UNCHANGED allVars => UNCHANGED scanVars)
    BY <1>2 DEF BeginScan, Discovered, Pinged, Enriched, EnrichFinds, CollectDevices,
                RescanWaits, allVars
  <2> QED
    BY <1>0, <1>2, <2>1, ScannerStep
<1> QED
  BY <1>1, <1>2 DEF ScanNext

LEMMA ScanInitInv == ScanInit => ScanInv
<1> SUFFICES ASSUME ScanInit PROVE ScanInv
  OBVIOUS
<1>1. Nothing \in Registry /\ Nothing.known = {} /\ Nothing.hidden = {}
  BY DEF Nothing, Registry
<1>2. Catalogued(Empty) = {} /\ Empty.hidden = {}
  BY DEF Catalogued, Empty, Free, Ident
<1> QED
  BY <1>1, <1>2 DEF ScanInit, Init, ScanInv, Registries, FileBehind, ScanCovers, Covers, Exact

\* Where edits come one at a time and no save fails, once a scan during which the catalogue
\* did not change is over and the edits are answered, every entry of devices.yaml is on
\* display and no hidden device is among the visible ones, whatever discovery has found
\* and however scans and edits have interleaved before (scanner.py).
THEOREM UndisturbedScansExact ==
    ASSUME OneRequest, SaveErrors = 0
    PROVE  ScanSpec => []UndisturbedScanExact
<1>1. ScanSpec => Spec
  <2>1. ScanInit => Init
    BY DEF ScanInit
  <2> QED
    BY <2>1, ScanStepsStore, PTL DEF ScanSpec, Spec
<1>2. UniqueInv /\ UniqueInv' /\ PromisesKept /\ PromisesKept' /\ ScanInv
      /\ [ScanNext]_allVars => ScanInv'
  BY ScanStepInv
<1>3. ScanInv => UndisturbedScanExact
  <2> SUFFICES ASSUME ScanInv, scan = "idle", ~ overlap
               PROVE  CataloguedShown /\ HiddenNotVisible
    BY DEF UndisturbedScanExact
  <2>1. Quiet => Waiting
    BY DEF Quiet, Waiting
  <2>2. Waiting => Exact(shown, disk)
    BY DEF ScanInv, ScanCovers
  <2> QED
    BY <2>1, <2>2 DEF CataloguedShown, HiddenNotVisible, Visible, Exact, Covers
<1> QED
  BY <1>1, <1>2, <1>3, ScanInitInv, UniqueInvariant, PromisesInvariant, PTL DEF ScanSpec

=============================================================================
