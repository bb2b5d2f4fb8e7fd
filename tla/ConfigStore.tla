---------------------------- MODULE ConfigStore ----------------------------
(***************************************************************************)
(* config.yaml, written from the pages (backend/services/config_store.py): *)
(* the whole file or one section of it, with the secrets the browser never *)
(* sees put back in their place, a backup before every write, the restore  *)
(* of a backup, and the file of the first start (services/bootstrap.py).   *)
(*                                                                         *)
(* Every request runs in a worker thread and none takes a lock: a job      *)
(* reads, copies the file that is there, and replaces it, with any other   *)
(* job in between.  The configuration is two sections: a list of hosts,    *)
(* each with an identity and a secret, and the networks.                   *)
(*                                                                         *)
(* Left out: edits made by hand, and what the other sections hold.         *)
(***************************************************************************)
EXTENDS Integers, SequencesExt

CONSTANTS
    CfHosts,      \* identities of hosts
    CfAnon,       \* an item with none of _IDENTITY_KEYS
    CfNone,       \* no file, no content, no secret
    CfMask,       \* MASK
    CfNets,       \* values of the networks
    CfBadNets,    \* one that Settings refuses
    CfLists,      \* the lists of hosts a page may send
    CfTemplate,   \* config.example.yaml
    CfJobs,       \* worker threads
    CfMaxTime,    \* bound on the clock, in seconds
    CfMaxWrites   \* bound on the writes

VARIABLES
    cfNow,      \* the clock
    cfFile,     \* config.yaml
    cfBackup,   \* config.<second>.bak.yaml
    cfJob,      \* what each job holds between two steps
    cfWrites,   \* writes made
    cfPast,     \* history: everything the file has held
    cfLost      \* history: what two jobs, or two writes of one second, may have lost

cfDisk == <<cfFile, cfBackup>>
cfVars == <<cfNow, cfDisk, cfJob, cfWrites, cfPast, cfLost>>

-----------------------------------------------------------------------------
\* A host with this secret: the one of its own, none, or the mask the page received.
Items(secrets) ==
    {[id |-> h, secret |-> s] : h \in CfHosts \cup {CfAnon}, s \in secrets}

\* What the file may hold, and nothing.
Configs == [hosts : Seq(Items(CfHosts \cup {CfNone})), nets : CfNets]
Contents == Configs \cup {CfNone}

\* No secret is given to the wrong host: one is named for the host it was typed for.
Own(hosts) ==
    \A i \in DOMAIN hosts :
        hosts[i].id # CfAnon => hosts[i].secret \in {hosts[i].id, CfNone}

ASSUME NoneAndMask == CfNone \notin Configs /\ CfMask \notin CfHosts \cup {CfNone}

\* A page sends each host with a secret typed for it, or the mask.
ASSUME PagesSend ==
    \A hosts \in CfLists :
        /\ hosts \in Seq(Items(CfHosts \cup {CfNone, CfMask}))
        /\ \A i \in DOMAIN hosts :
              hosts[i].id # CfAnon => hosts[i].secret \in {hosts[i].id, CfNone, CfMask}

ASSUME TemplateListed == CfTemplate \in Configs /\ Own(CfTemplate.hosts)

ASSUME SecondsCounted == CfMaxTime \in Nat

\* _redact: what leaves for the browser.
Redact(hosts) ==
    [i \in DOMAIN hosts |->
        [hosts[i] EXCEPT !.secret = IF @ = CfNone THEN CfNone ELSE CfMask]]

\* Slip: the original is the one at the same place.
SourcesByPlace(item, i, original) == {i} \cap DOMAIN original

\* The items of the original a masked secret may come from: those of the same identity,
\* and the one at the same place for an item that has none.
Sources(item, i, original) ==
    IF item.id = CfAnon THEN {i} \cap DOMAIN original
    ELSE {j \in DOMAIN original : original[j].id = item.id}

\* _merge_secrets: the last of them, which the dictionary keeps.
MergeSecrets(hosts, original) ==
    [i \in DOMAIN hosts |->
        LET from == Sources(hosts[i], i, original) IN
        [hosts[i] EXCEPT !.secret =
            IF @ # CfMask THEN @
            ELSE IF from = {} THEN CfNone ELSE original[Max(from)].secret]]

\* _load_raw: without a file, the template.
Raw == IF cfFile = CfNone THEN CfTemplate ELSE cfFile

\* Settings(**raw) accepts it.
Valid(content) == content.nets # CfBadNets

Idle == [at |-> "idle", data |-> CfNone, copied |-> CfNone]

CfInit ==
    /\ cfNow = 0
    /\ cfFile \in {CfNone} \cup
                  {[hosts |-> [i \in 1 .. 2 |-> [id |-> h[i], secret |-> h[i]]], nets |-> n] :
                        h \in {f \in [1 .. 2 -> CfHosts] : f[1] # f[2]}, n \in CfNets}
    /\ cfBackup = [s \in 0 .. CfMaxTime |-> CfNone]
    /\ cfJob = [j \in CfJobs |-> Idle]
    /\ cfWrites = 0
    /\ cfPast = {cfFile} \ {CfNone}
    /\ cfLost = {}

CfTick ==
    /\ cfNow < CfMaxTime
    /\ cfNow' = cfNow + 1
    /\ UNCHANGED <<cfDisk, cfJob, cfWrites, cfPast, cfLost>>

-----------------------------------------------------------------------------
\* A job that has something to write: _write_with_backup begins.
ToWrite(j, data) ==
    /\ cfJob[j] = Idle
    /\ cfWrites + Cardinality({k \in CfJobs : cfJob[k] # Idle}) < CfMaxWrites
    /\ Valid(data)
    /\ cfJob' = [cfJob EXCEPT ![j] = [at |-> "read", data |-> data, copied |-> CfNone]]
    /\ UNCHANGED <<cfNow, cfDisk, cfWrites, cfPast, cfLost>>

\* save_yaml: the whole configuration as the page has it.
SaveYaml(j, hosts, nets) ==
    ToWrite(j, [hosts |-> MergeSecrets(hosts, Raw.hosts), nets |-> nets])

\* save_section, for each of the two.
SaveHosts(j, hosts) ==
    ToWrite(j, [Raw EXCEPT !.hosts = MergeSecrets(hosts, @)])

SaveNets(j, nets) == ToWrite(j, [Raw EXCEPT !.nets = nets])

\* scrivi_config and scrivi_iniziale: only what was asked, and only if there is no file.
Setup(j, nets) ==
    /\ cfFile = CfNone
    /\ ToWrite(j, [hosts |-> <<>>, nets |-> nets])

\* Slip: a restore makes no copy of what it replaces.
RestoreBackupBare(j, s) ==
    /\ cfBackup[s] # CfNone
    /\ cfJob[j] = Idle
    /\ cfWrites + Cardinality({k \in CfJobs : cfJob[k] # Idle}) < CfMaxWrites
    /\ cfJob' = [cfJob EXCEPT ![j] = [at |-> "copied", data |-> cfBackup[s],
                                      copied |-> cfFile]]
    /\ UNCHANGED <<cfNow, cfDisk, cfWrites, cfPast, cfLost>>

\* restore_backup: what the backup holds is not validated again.
RestoreBackup(j, s) ==
    /\ cfBackup[s] # CfNone
    /\ ToWrite(j, cfBackup[s])

\* The copy of the file, named by the second; one of the same second is overwritten.
CopyBackup(j) ==
    /\ cfJob[j].at = "read"
    /\ cfJob' = [cfJob EXCEPT ![j] = [at |-> "copied", data |-> @.data, copied |-> cfFile]]
    /\ cfBackup' = IF cfFile = CfNone THEN cfBackup ELSE [cfBackup EXCEPT ![cfNow] = cfFile]
    /\ cfLost' = cfLost \cup ({cfBackup[cfNow]} \ {cfBackup'[cfNow]})
    /\ UNCHANGED <<cfNow, cfFile, cfWrites, cfPast>>

\* os.replace, of whatever file is there now.
Replace(j) ==
    /\ cfJob[j].at = "copied"
    /\ cfFile' = cfJob[j].data
    /\ cfPast' = cfPast \cup {cfFile'}
    /\ cfLost' = cfLost \cup ({cfFile} \ {cfJob[j].copied})
    /\ cfWrites' = cfWrites + 1
    /\ cfJob' = [cfJob EXCEPT ![j] = Idle]
    /\ UNCHANGED <<cfNow, cfBackup>>

\* A write that raises leaves its copy and takes its temporary file away.
ConfigWriteFails(j) ==
    /\ cfJob[j] # Idle
    /\ cfJob' = [cfJob EXCEPT ![j] = Idle]
    /\ UNCHANGED <<cfNow, cfDisk, cfWrites, cfPast, cfLost>>

\* The restart the pages ask for (services/restart.py), or a crash: the jobs are gone.
CfRestart ==
    /\ \E j \in CfJobs : cfJob[j] # Idle
    /\ cfJob' = [j \in CfJobs |-> Idle]
    /\ UNCHANGED <<cfNow, cfDisk, cfWrites, cfPast, cfLost>>

CfNext ==
    \/ CfTick
    \/ CfRestart
    \/ \E j \in CfJobs :
        \/ \E hosts \in CfLists : \E nets \in CfNets \cup {CfBadNets} : SaveYaml(j, hosts, nets)
        \/ \E hosts \in CfLists : SaveHosts(j, hosts)
        \/ \E nets \in CfNets \cup {CfBadNets} : SaveNets(j, nets) \/ Setup(j, nets)
        \/ \E s \in DOMAIN cfBackup : RestoreBackup(j, s)
        \/ CopyBackup(j) \/ Replace(j) \/ ConfigWriteFails(j)

CfSpec == CfInit /\ [][CfNext]_cfVars

-----------------------------------------------------------------------------
CfTypeOK ==
    /\ cfNow \in 0 .. CfMaxTime
    /\ cfFile \in Contents
    /\ cfBackup \in [0 .. CfMaxTime -> Contents]
    /\ cfJob \in [CfJobs -> [at : {"idle", "read", "copied"}, data : Contents,
                             copied : Contents]]
    /\ cfWrites \in 0 .. CfMaxWrites
    /\ cfPast \subseteq Contents

Distinct(hosts) ==
    \A i, j \in DOMAIN hosts : hosts[i].id = hosts[j].id => i = j

\* Through any reordering, removal and renaming, with saves of other pages and restores
\* in between: the secret of a host is never given to another host, the mask is never
\* written, and sending back what was received changes nothing.  (_merge_secrets: "un
\* riordino/inserimento non fa ereditare la password di un host a un altro".)
SecretsStay ==
    cfFile # CfNone =>
        /\ Own(cfFile.hosts)
        /\ \A i \in DOMAIN cfFile.hosts : cfFile.hosts[i].secret # CfMask
        /\ Distinct(cfFile.hosts) =>
            MergeSecrets(Redact(cfFile.hosts), cfFile.hosts) = cfFile.hosts

\* Whatever the file has held can be had back from a backup, through saves, restores,
\* failed writes and restarts, save what a second job replaced after the first had made
\* its copy, or a second write of the same second overwrote.
BackupKept ==
    \A content \in cfPast :
        \/ content \in cfLost
        \/ content = cfFile
        \/ \E s \in DOMAIN cfBackup : cfBackup[s] = content
=============================================================================
