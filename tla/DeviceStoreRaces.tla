-------------------------- MODULE DeviceStoreRaces --------------------------
(***************************************************************************)
(* DeviceStore with any number of edits at once, observed.  Nothing keeps  *)
(* two worker threads apart: one may reload or change the list between the *)
(* look-up another starts with and the change it makes, or between its     *)
(* change and its save.  The variables added here record that it happened  *)
(* and constrain no step; what the catalogue promises is stated in terms   *)
(* of them.                                                                *)
(***************************************************************************)
EXTENDS DeviceStore

VARIABLES
    stale,    \* requests whose look-up is older than a change of the list
    mislaid,  \* an entry has been appended after such a look-up
    intact,   \* requests nobody has got in the way of since they came in
    apart     \* since the process started no two requests were under way at once
              \* and no save has raised

ghosts == <<stale, mislaid, intact, apart>>

Busy == {r \in Requests : pc[r] # "idle"}

\* The request appends: it has looked for the identifier and found no entry.
AppendsEntry(r) == AddMutate(r) \/ (EditMutate(r) /\ held[r] = NotFound)

\* What r works on is as r has left it.
Untouched(r) == memory' = memory /\ disk' = disk /\ held'[r] = held[r]

Observe ==
    /\ stale' = {r \in Requests :
                    /\ pc[r] = "mutate" /\ pc'[r] = "mutate"
                    /\ (r \in stale \/ memory'.devices # memory.devices)}
    /\ mislaid' = (mislaid \/ \E r \in stale : AppendsEntry(r))
    /\ intact' = {r \in Busy' :
                    pc[r] # "idle" => r \in intact /\ (pc'[r] # pc[r] \/ Untouched(r))}
    /\ apart' = \/ Restart
                \/ apart /\ errors' = errors /\ (\A q, r \in Busy' : q = r)

RInit ==
    /\ Init
    /\ stale = {} /\ mislaid = FALSE
    /\ intact = {} /\ apart = TRUE

RNext == Next /\ Observe

RSpec == RInit /\ [][RNext]_<<vars, ghosts>>

-----------------------------------------------------------------------------
\* No two entries have the same identifier, in memory or on disk: "Due entry con
\* lo stesso identificatore renderebbero ambiguo il catalogo" (_set_identity).  Except
\* after an entry was appended on a look-up that the list had moved on from: two
\* requests that both found the identifier free.
UniqueIdentity == ~ mislaid => Unambiguous

\* When a request answers with success, what it did is in the file and in the
\* copy the scanner uses ("Mutazioni (persistite)"), whatever has failed before it and
\* whatever the races before it have left, unless another request has written to the
\* copy or the file in the meantime.  hide takes a mark that is in memory for one that
\* is saved: its promise holds only while no save has raised and no two requests have
\* overlapped.  DELETE is DeleteKept's.
ChangeKept ==
    \A r \in intact :
        /\ pc[r] = "respond"
        /\ call[r].op # "delete"
        /\ call[r].op = "hide" => apart
        => Kept(r)

\* An entry that was hidden stays hidden when its address is edited, and the
\* others stay as they were, hidden or visible; unless another request has come
\* between the look-up and the change, or two entries had one identifier before.
HiddenFollows ==
    [][\A r \in intact : EditMutate(r) /\ Unambiguous =>
          \A s \in Slots :
              /\ IsHidden(memory, s) => IsHidden(memory', s)
              /\ memory'.devices[s] = memory.devices[s]
                    => IsHidden(memory', s) = IsHidden(memory, s)]_<<vars, ghosts>>

=============================================================================
