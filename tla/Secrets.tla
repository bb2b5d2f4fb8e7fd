------------------------------- MODULE Secrets -------------------------------
(***************************************************************************)
(* secrets.env and the sessions signed over the password in it             *)
(* (backend/services/secrets_store.py, middleware/auth.py, routers/auth.py *)
(* and the secrets of routers/config_api.py).                              *)
(*                                                                         *)
(* The Settings page saves in a worker thread, which reads the file,       *)
(* changes what it was sent and replaces the file.  A login and a change   *)
(* of password run on the event loop, one at a time, and read the file     *)
(* more than once: a worker thread may replace it between their steps.     *)
(* Nothing keeps the change and the saves, or two saves, apart.            *)
(*                                                                         *)
(* A value is a number given once; 0 is a secret that is not there.  The   *)
(* environment of the process has no hash of its own.                      *)
(***************************************************************************)
EXTENDS Naturals

CONSTANTS
    ScBrowsers,     \* browsers, each with its cookie and its address
    ScNobody,       \* for whom the loop works when it is free
    ScKeys,         \* secrets; ScHash is one of them
    ScHash,         \* LAN_AUTH__PASSWORD_HASH
    ScChanges,      \* what a page may send for each secret: "same", "clear", "new"
    ScTries,        \* failed logins after which an address waits (_login_rl)
    ScMaxValue,     \* bound on the values given
    ScTTL,          \* duration of a session
    ScMaxTime       \* bound on the time

ASSUME HashListed == ScHash \in ScKeys
\* A page that changes nothing writes nothing, and is left out.
ASSUME ChangesListed ==
    \A change \in ScChanges :
        /\ change \in [ScKeys -> {"same", "clear", "new"}]
        /\ \E k \in ScKeys : change[k] # "same"
ASSUME SessionsLast == ScTTL \in Nat \ {0}

VARIABLES
    scFile,      \* secrets.env; replaced as a whole
    scLoaded,    \* settings.auth.password_hash: the hash when the process started
    scGiven,     \* the last value given
    scSave,      \* the save of each browser: its state, what it read, what it changes
    scLoop,      \* what the event loop is in the middle of: for whom, at which step,
                 \* whether it came with a session, what it has read
    scCookie,    \* the cookie of each browser: the hash it is signed over, its end (0: none)
    scTries,     \* failed logins of each address in the window
    scTime,
    scOverlap,   \* history: a save whose file another has replaced since it read it
    scCrossed    \* history: a save has replaced the file since the last step of the loop

scVars == <<scFile, scLoaded, scGiven, scSave, scLoop, scCookie, scTries, scTime, scOverlap,
            scCrossed>>

NoFile == [k \in ScKeys |-> 0]
NoSave == [at |-> "idle", read |-> NoFile, change |-> [k \in ScKeys |-> "same"]]
NoCookie == [over |-> 0, end |-> 0]

\* The loop in the middle of a request, and free.
Request(b, step, session, read) == [for |-> b, at |-> step, session |-> session, read |-> read]
Free == Request(ScNobody, "free", FALSE, NoFile)

\* The process has started: what the file had then was given before.
ScInit ==
    /\ scFile \in [ScKeys -> {0, 1}] /\ scLoaded = scFile[ScHash] /\ scGiven = 1
    /\ scSave = [b \in ScBrowsers |-> NoSave]
    /\ scLoop = Free
    /\ scCookie = [b \in ScBrowsers |-> NoCookie]
    /\ scTries = [b \in ScBrowsers |-> 0]
    /\ scTime = 0
    /\ scOverlap = {} /\ scCrossed = FALSE

-----------------------------------------------------------------------------
(***************************************************************************)
(* Sessions.                                                               *)
(***************************************************************************)

\* admin_hash: the one in the file, and when it has none the one of the start.
AdminHash(file) == IF file[ScHash] # 0 THEN file[ScHash] ELSE scLoaded

PasswordSet == AdminHash(scFile) # 0

\* valid_token: signed over the hash of now, and not ended.
ValidToken(b) == scCookie[b].over = AdminHash(scFile) /\ scTime < scCookie[b].end

\* make_token: a cookie signed over the hash.
Token(file) == [over |-> AdminHash(file), end |-> scTime + ScTTL]

\* require_session: a password is set and the cookie is valid.
RequireSession(b) == PasswordSet /\ ValidToken(b)

\* A step of the loop: it goes on with `request`, and looks at the file from here on.
LoopAt(request) == scLoop' = request /\ scCrossed' = FALSE

LoopFree == scLoop.at = "free"

\* login: the password is the one of the hash in the file; checking it takes a while.
LoginChecks(b) ==
    /\ LoopFree /\ PasswordSet /\ scTries[b] < ScTries
    /\ LoopAt(Request(b, "login", FALSE, NoFile))
    /\ UNCHANGED <<scFile, scLoaded, scGiven, scSave, scCookie, scTries, scTime, scOverlap>>

\* The address counts from zero again, and the cookie is signed over the hash of now.
LoginSigns(b) ==
    /\ scLoop.at = "login" /\ scLoop.for = b
    /\ LoopAt(Free)
    /\ scCookie' = [scCookie EXCEPT ![b] = Token(scFile)]
    /\ scTries' = [scTries EXCEPT ![b] = 0]
    /\ UNCHANGED <<scFile, scLoaded, scGiven, scSave, scTime, scOverlap>>

\* A wrong password, or none is set.
LoginFails(b) ==
    /\ LoopFree /\ scTries[b] < ScTries
    /\ scTries' = [scTries EXCEPT ![b] = @ + 1]
    /\ UNCHANGED <<scFile, scLoaded, scGiven, scSave, scLoop, scCookie, scTime, scOverlap,
                   scCrossed>>

\* The oldest failure leaves the window.
TryForgotten(b) ==
    /\ scTries[b] > 0
    /\ scTries' = [scTries EXCEPT ![b] = @ - 1]
    /\ UNCHANGED <<scFile, scLoaded, scGiven, scSave, scLoop, scCookie, scTime, scOverlap,
                   scCrossed>>

\* The browser drops its cookie; the server keeps nothing of it.
Logout(b) ==
    /\ LoopFree /\ scCookie[b] # NoCookie
    /\ scCookie' = [scCookie EXCEPT ![b] = NoCookie]
    /\ UNCHANGED <<scFile, scLoaded, scGiven, scSave, scLoop, scTries, scTime, scOverlap,
                   scCrossed>>

-----------------------------------------------------------------------------
(***************************************************************************)
(* The change of password: the checks, then update, which reads the file   *)
(* and replaces it, then a new cookie for who had a session.               *)
(***************************************************************************)

\* The saves that have read the file and not written it: their reading ages when the file
\* is replaced.
SavesUnderWay == {b \in ScBrowsers : scSave[b].at = "read"}

\* The first password may be set with no session, from a network of the house.
MaySetPassword(b) == ValidToken(b) \/ ~PasswordSet

\* set_password lets the request in; hashing the new password takes a while.
PasswordAsked(b) ==
    /\ LoopFree /\ MaySetPassword(b)
    /\ LoopAt(Request(b, "asked", ValidToken(b), NoFile))
    /\ UNCHANGED <<scFile, scLoaded, scGiven, scSave, scCookie, scTries, scTime, scOverlap>>

\* update reads the file.
PasswordReads(b) ==
    /\ scLoop.at = "asked" /\ scLoop.for = b
    /\ LoopAt(Request(b, "read", scLoop.session, scFile))
    /\ UNCHANGED <<scFile, scLoaded, scGiven, scSave, scCookie, scTries, scTime, scOverlap>>

\* Slip: the file keeps the new hash alone.
PasswordWritesAlone(b) ==
    /\ scLoop.at = "read" /\ scLoop.for = b
    /\ scGiven < ScMaxValue /\ scGiven' = scGiven + 1
    /\ scFile' = [NoFile EXCEPT ![ScHash] = scGiven']
    /\ scOverlap' = scOverlap \cup SavesUnderWay
    /\ LoopAt(Request(b, "written", scLoop.session, scLoop.read))
    /\ UNCHANGED <<scLoaded, scSave, scCookie, scTries, scTime>>

\* And replaces it with what it has read and the new hash.
PasswordWrites(b) ==
    /\ scLoop.at = "read" /\ scLoop.for = b
    /\ scGiven < ScMaxValue /\ scGiven' = scGiven + 1
    /\ scFile' = [scLoop.read EXCEPT ![ScHash] = scGiven']
    /\ scOverlap' = scOverlap \cup SavesUnderWay
    /\ LoopAt(Request(b, "written", scLoop.session, scLoop.read))
    /\ UNCHANGED <<scLoaded, scSave, scCookie, scTries, scTime>>

\* The write fails, and the request with it: no cookie is given.
PasswordFails(b) ==
    /\ scLoop.at = "read" /\ scLoop.for = b
    /\ LoopAt(Free)
    /\ UNCHANGED <<scFile, scLoaded, scGiven, scSave, scCookie, scTries, scTime, scOverlap>>

\* Slip: the new cookie is signed over the hash there was before the change.
PasswordSignsOld(b) ==
    /\ scLoop.at = "written" /\ scLoop.for = b
    /\ LoopAt(Free)
    /\ scCookie' = IF scLoop.session THEN [scCookie EXCEPT ![b] = Token(scLoop.read)]
                   ELSE scCookie
    /\ UNCHANGED <<scFile, scLoaded, scGiven, scSave, scTries, scTime, scOverlap>>

\* Who came with a session goes on with a new cookie, over the hash in the file now.
PasswordSigns(b) ==
    /\ scLoop.at = "written" /\ scLoop.for = b
    /\ LoopAt(Free)
    /\ scCookie' = IF scLoop.session THEN [scCookie EXCEPT ![b] = Token(scFile)] ELSE scCookie
    /\ UNCHANGED <<scFile, scLoaded, scGiven, scSave, scTries, scTime, scOverlap>>

-----------------------------------------------------------------------------
(***************************************************************************)
(* The saves of the Settings page.                                         *)
(***************************************************************************)

\* update_secrets is let in, with what the page sends for each secret: nothing or "" (the
\* same), "__CLEAR__", a new value.  An unknown id is refused before anything is read.
SaveAsked(b) ==
    /\ LoopFree /\ scSave[b].at = "idle"
    /\ RequireSession(b)
    /\ \E change \in ScChanges :
          scSave' = [scSave EXCEPT ![b] = [at |-> "asked", read |-> NoFile, change |-> change]]
    /\ UNCHANGED <<scFile, scLoaded, scGiven, scLoop, scCookie, scTries, scTime, scOverlap,
                   scCrossed>>

\* The thread reads the file.
SaveReads(b) ==
    /\ scSave[b].at = "asked"
    /\ scSave' = [scSave EXCEPT
                    ![b] = [at |-> "read", read |-> scFile, change |-> @.change]]
    /\ UNCHANGED <<scFile, scLoaded, scGiven, scLoop, scCookie, scTries, scTime, scOverlap,
                   scCrossed>>

\* What the save makes of what it has read.
Changed(read, change, value) ==
    [k \in ScKeys |-> CASE change[k] = "same"  -> read[k]
                        [] change[k] = "clear" -> 0
                        [] change[k] = "new"   -> value]

\* And replaces it.
SaveWrites(b) ==
    /\ scSave[b].at = "read"
    /\ \/ scGiven < ScMaxValue /\ scGiven' = scGiven + 1
       \/ UNCHANGED scGiven /\ \A k \in ScKeys : scSave[b].change[k] # "new"
    /\ scFile' = Changed(scSave[b].read, scSave[b].change, scGiven')
    /\ scOverlap' = (scOverlap \cup SavesUnderWay) \ {b}
    /\ scCrossed' = TRUE
    /\ scSave' = [scSave EXCEPT ![b] = NoSave]
    /\ UNCHANGED <<scLoaded, scLoop, scCookie, scTries, scTime>>

\* The write fails: the file is as it was.
SaveFails(b) ==
    /\ scSave[b].at = "read"
    /\ scSave' = [scSave EXCEPT ![b] = NoSave]
    /\ scOverlap' = scOverlap \ {b}
    /\ UNCHANGED <<scFile, scLoaded, scGiven, scLoop, scCookie, scTries, scTime, scCrossed>>

-----------------------------------------------------------------------------
ScTick ==
    /\ scTime < ScMaxTime /\ scTime' = scTime + 1
    /\ UNCHANGED <<scFile, scLoaded, scGiven, scSave, scLoop, scCookie, scTries, scOverlap,
                   scCrossed>>

\* The process stops, at any point of a save or of a change, and starts again: the file and
\* the cookies are as they were, and so is the key that signs them (ensure has kept it).
ScRestart ==
    /\ scSave' = [b \in ScBrowsers |-> NoSave]
    /\ scTries' = [b \in ScBrowsers |-> 0]
    /\ LoopAt(Free)
    /\ scOverlap' = {}
    /\ scLoaded' = scFile[ScHash]
    /\ UNCHANGED <<scFile, scGiven, scCookie, scTime>>

ScNext ==
    \/ ScTick \/ ScRestart
    \/ \E b \in ScBrowsers :
          \/ LoginChecks(b) \/ LoginSigns(b) \/ LoginFails(b) \/ TryForgotten(b) \/ Logout(b)
          \/ PasswordAsked(b) \/ PasswordReads(b) \/ PasswordWrites(b) \/ PasswordFails(b)
          \/ PasswordSigns(b)
          \/ SaveAsked(b) \/ SaveReads(b) \/ SaveWrites(b) \/ SaveFails(b)

ScSpec == ScInit /\ [][ScNext]_scVars

-----------------------------------------------------------------------------
ScFiles == [ScKeys -> 0..ScMaxValue]

ScTypeOK ==
    /\ scFile \in ScFiles /\ scLoaded \in 0..ScMaxValue /\ scGiven \in 0..ScMaxValue
    /\ scSave \in [ScBrowsers -> [at : {"idle", "asked", "read"}, read : ScFiles,
                                  change : [ScKeys -> {"same", "clear", "new"}]]]
    /\ scLoop \in [for : ScBrowsers \cup {ScNobody}, at : {"free", "login", "asked", "read", "written"},
                   session : BOOLEAN, read : ScFiles]
    /\ scCookie \in [ScBrowsers -> [over : 0..ScMaxValue, end : 0..(ScMaxTime + ScTTL)]]
    /\ scTries \in [ScBrowsers -> 0..ScTries]
    /\ scTime \in 0..ScMaxTime
    /\ scOverlap \subseteq ScBrowsers /\ scCrossed \in BOOLEAN

Writing(b) == scSave[b].at = "read" /\ scFile' # scFile /\ scSave'[b].at = "idle"

\* A save changes what the page has sent and nothing else, unless another writer has
\* replaced the file in the middle of it (secrets_store.py:114: "Un valore vuoto/assente
\* lascia invariato").  A change of password ends every session (middleware/auth.py:127:
\* "cambiarla invalida ogni cookie gia' emesso") and touches no other secret unless a save
\* has replaced the file since it read it; who came with a session goes on, and is the only
\* one unless a save has replaced the file, and the new hash, since.
SecretsKept ==
    [][/\ \A b \in ScBrowsers :
            Writing(b) /\ b \notin scOverlap =>
                \A k \in ScKeys : scSave[b].change[k] = "same" => scFile'[k] = scFile[k]
       /\ \A b \in ScBrowsers :
            PasswordWrites(b) =>
                /\ ~scCrossed => \A k \in ScKeys \ {ScHash} : scFile'[k] = scFile[k]
                /\ \A c \in ScBrowsers : ~ValidToken(c)'
       /\ \A b \in ScBrowsers :
            PasswordSigns(b) /\ scLoop.session =>
                /\ ValidToken(b)'
                /\ ~scCrossed => \A c \in ScBrowsers \ {b} : ~ValidToken(c)']_scVars

=============================================================================
