------------------------------- MODULE SshHosts -------------------------------
(***************************************************************************)
(* The hosts of SSH as every use reads them from the configuration file    *)
(* (backend/services/ssh_hosts.py): live_ssh_config with its memory of the *)
(* last reading, told stale by the file's time, and risolvi_os, which      *)
(* remembers the answer of a host whose system is not declared until the   *)
(* file changes.                                                           *)
(*                                                                         *)
(* The file is replaced by saves in worker threads, so it may change       *)
(* between stat and read; an event loop runs one live_ssh_config at a      *)
(* time, and others between the probe of a host and its answer.  A version *)
(* of the file says what is declared of the one host and which machine has *)
(* its address.                                                            *)
(***************************************************************************)
EXTENDS Naturals, Sequences

CONSTANTS
    ShCallers,   \* uses that may go on at once
    ShVersions,  \* what a save may write: the system declared and the machine's own
    ShSystems,   \* the systems a probe recognises
    ShMaxSaves,  \* bound on the saves
    ShMaxTicks   \* bound on the ticks of the file's time

\* A version says which system is declared of the host, or "auto", and which the machine
\* at its address answers with.
ASSUME VersionsSay ==
    ShVersions \subseteq [os : ShSystems \cup {"auto"}, machine : ShSystems \cup {"unknown"}]

VARIABLES
    shFile,   \* the versions saved, with their mtime; the last is the file
    shTicks,  \* the clock of the file system
    shCache,  \* _cache: the mtime and the version, by its number; 0 for none
    shOs,     \* _os_cache of the host: the answer, or "none"
    shCall,   \* what each use is doing
    shProbed  \* history: the version whose machine gave the answer, and whether in time

shVars == <<shFile, shTicks, shCache, shOs, shCall, shProbed>>

-----------------------------------------------------------------------------
Newest == Len(shFile)

Version(n) == shFile[n].version

\* `began` and `got` are history: the newest version when the use began to read the
\* configuration or to ask its host, and the one it was given; `timing`, whether the
\* file has been read again while the host was being asked.
NoCall == [step |-> "idle", mtime |-> 0, began |-> 0, got |-> 0, os |-> "none",
           timing |-> "timely"]

NoProbe == [version |-> 0, timing |-> "timely"]

ShInit ==
    /\ \E v \in ShVersions : shFile = <<[version |-> v, mtime |-> 0]>>
    /\ shTicks = 0
    /\ shCache = [mtime |-> 0, cfg |-> 0]
    /\ shOs = "none" /\ shProbed = NoProbe
    /\ shCall = [c \in ShCallers |-> NoCall]

ShTick ==
    /\ shTicks < ShMaxTicks
    /\ shTicks' = shTicks + 1
    /\ UNCHANGED <<shFile, shCache, shOs, shCall, shProbed>>

\* A save replaces the file, with the time of the file system.
SaveFile(v) ==
    /\ Newest < ShMaxSaves
    /\ shFile' = Append(shFile, [version |-> v, mtime |-> shTicks])
    /\ UNCHANGED <<shTicks, shCache, shOs, shCall, shProbed>>

\* The event loop is in the middle of somebody's live_ssh_config.
Reading == \E c \in ShCallers : shCall[c].step = "read"

\* A use looks at the time of the file: nothing changed since the last reading, and it
\* has the version remembered; or it goes on to read.
StatFile(c) ==
    /\ shCall[c].step = "idle" /\ ~Reading
    /\ LET mtime == shFile[Newest].mtime IN
       shCall' = [shCall EXCEPT ![c] =
          IF shCache.cfg # 0 /\ mtime = shCache.mtime
          THEN [NoCall EXCEPT !.step = "given", !.began = Newest, !.got = shCache.cfg]
          ELSE [NoCall EXCEPT !.step = "read", !.began = Newest, !.mtime = mtime]]
    /\ UNCHANGED <<shFile, shTicks, shCache, shOs, shProbed>>

\* Slip: the answers of the hosts outlive the reading.
ReadFileKeepingOs(c) ==
    /\ shCall[c].step = "read"
    /\ shCall' = [shCall EXCEPT ![c].step = "given", ![c].got = Newest]
    /\ shCache' = [mtime |-> shCall[c].mtime, cfg |-> Newest]
    /\ UNCHANGED <<shFile, shTicks, shOs, shProbed>>

\* It reads the file of now, remembers it at the time seen before, and forgets the
\* answers of the hosts.
ReadFile(c) ==
    /\ shCall[c].step = "read"
    /\ shCall' = [d \in ShCallers |->
          IF d = c THEN [shCall[c] EXCEPT !.step = "given", !.got = Newest]
          ELSE IF shCall[d].step = "probe" THEN [shCall[d] EXCEPT !.timing = "late"]
          ELSE shCall[d]]
    /\ shCache' = [mtime |-> shCall[c].mtime, cfg |-> Newest]
    /\ shOs' = "none" /\ shProbed' = NoProbe
    /\ UNCHANGED <<shFile, shTicks>>

\* The file cannot be read or is not valid: the use has the configuration of the start of
\* the process, and nothing is remembered.
ReadFileFails(c) ==
    /\ shCall[c].step = "read"
    /\ shCall' = [shCall EXCEPT ![c].step = "given", ![c].began = 1, ![c].got = 1]
    /\ UNCHANGED <<shFile, shTicks, shCache, shOs, shProbed>>

\* risolvi_os: the system declared, or the one remembered; with neither, the host is asked.
RisolviOs(c) ==
    /\ shCall[c].step = "given" /\ ~Reading
    /\ LET declared == Version(shCall[c].got).os
           known == IF declared # "auto" THEN declared ELSE shOs
       IN  shCall' = [shCall EXCEPT ![c] =
              IF known # "none" THEN [@ EXCEPT !.step = "told", !.os = known]
              ELSE [@ EXCEPT !.step = "probe", !.began = Newest]]
    /\ UNCHANGED <<shFile, shTicks, shCache, shOs, shProbed>>

\* The machine answers; one that answers neither question is not remembered.
SondaOs(c) ==
    /\ shCall[c].step = "probe" /\ ~Reading
    /\ \E n \in shCall[c].began .. Newest :
          LET found == Version(n).machine IN
          /\ shCall' = [shCall EXCEPT ![c].step = "told", ![c].os = found]
          /\ IF found \in ShSystems
             THEN shOs' = found /\ shProbed' = [version |-> n, timing |-> shCall[c].timing]
             ELSE UNCHANGED <<shOs, shProbed>>
    /\ UNCHANGED <<shFile, shTicks, shCache>>

\* The use goes on with what it was told, and ends.
CallEnds(c) ==
    /\ shCall[c].step \in {"given", "told"}
    /\ shCall' = [shCall EXCEPT ![c] = NoCall]
    /\ UNCHANGED <<shFile, shTicks, shCache, shOs, shProbed>>

ShNext ==
    \/ ShTick
    \/ \E v \in ShVersions : SaveFile(v)
    \/ \E c \in ShCallers :
          StatFile(c) \/ ReadFile(c) \/ ReadFileFails(c)
          \/ RisolviOs(c) \/ SondaOs(c) \/ CallEnds(c)

ShSpec == ShInit /\ [][ShNext]_shVars

-----------------------------------------------------------------------------
ShTypeOK ==
    /\ \A n \in DOMAIN shFile : Version(n) \in ShVersions /\ shFile[n].mtime \in 0 .. shTicks
    /\ shCache.cfg \in 0 .. Newest
    /\ shOs \in ShSystems \cup {"none"}
    /\ \A c \in ShCallers : shCall[c].got \in 0 .. Newest /\ shCall[c].began \in 0 .. Newest

\* Two saves within one tick are not told apart.
SameTick(n, m) == shFile[n].mtime = shFile[m].mtime

\* A use is given a configuration as new as the file was when it began, or one saved
\* within the same tick of the file's time (live_ssh_config: "riletta dal file"); and
\* the system remembered of a host is not that of a machine that had the address before
\* the last reading (_os_cache: "Si azzera insieme alla cache della configurazione"),
\* but for a host that was being asked during that reading.
HostsCurrent ==
    /\ \A c \in ShCallers :
          shCall[c].step = "given" =>
              shCall[c].got >= shCall[c].began \/ SameTick(shCall[c].got, shCall[c].began)
    /\ shOs # "none" => shProbed.version >= shCache.cfg \/ shProbed.timing = "late"
=============================================================================
