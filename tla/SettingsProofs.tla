---------------------------- MODULE SettingsProofs ----------------------------
(***************************************************************************)
(* Proofs about what the Settings page writes: Secrets (secrets.env and    *)
(* the sessions signed over its password) and ConfigStore (config.yaml and *)
(* its backups), for every number of browsers, worker threads, secrets and *)
(* hosts, and for every bound.                                             *)
(***************************************************************************)
EXTENDS ConfigStore, Secrets, WellFoundedInduction, SequenceTheorems, TLAPS

-----------------------------------------------------------------------------
(***************************************************************************)
(* Secrets.  Every value in the file, in a cookie or on its way to the     *)
(* file has been given before, so a new hash is one no cookie is signed    *)
(* over; a save, or a change of password, that no one has replaced the     *)
(* file under has read it as it is; and from the write of a change to its  *)
(* end no session goes on, unless a save replaces the file.                *)
(***************************************************************************)

ScTypes ==
    /\ scGiven \in Nat
    /\ scTime \in Nat
    /\ scFile \in [ScKeys -> Nat]
    /\ scLoaded \in Nat
    /\ scSave \in [ScBrowsers -> [at : {"idle", "asked", "read"}, read : [ScKeys -> Nat],
                                  change : [ScKeys -> {"same", "clear", "new"}]]]
    /\ scLoop \in [for : ScBrowsers \cup {ScNobody},
                   at : {"free", "login", "asked", "read", "written"},
                   session : BOOLEAN, read : [ScKeys -> Nat]]
    /\ scCookie \in [ScBrowsers -> [over : Nat, end : Nat]]
    /\ scCrossed \in BOOLEAN

ValuesGiven ==
    /\ \A k \in ScKeys : scFile[k] <= scGiven
    /\ scLoaded <= scGiven
    /\ \A b \in ScBrowsers :
          /\ scCookie[b].over <= scGiven
          /\ \A k \in ScKeys : scSave[b].read[k] <= scGiven
    /\ \A k \in ScKeys : scLoop.read[k] <= scGiven

SavesRead ==
    \A b \in ScBrowsers :
        scSave[b].at = "read" /\ b \notin scOverlap => scSave[b].read = scFile

LoopReads == scLoop.at = "read" /\ ~scCrossed => scLoop.read = scFile

AllOut == scLoop.at = "written" /\ ~scCrossed => \A b \in ScBrowsers : ~ValidToken(b)

ScInv == ScTypes /\ ValuesGiven /\ SavesRead /\ LoopReads /\ AllOut

LEMMA FreeFacts ==
    /\ NoFile \in [ScKeys -> Nat] /\ \A k \in ScKeys : NoFile[k] = 0
    /\ NoSave \in [at : {"idle", "asked", "read"}, read : [ScKeys -> Nat],
                    change : [ScKeys -> {"same", "clear", "new"}]]
    /\ NoSave.at = "idle" /\ NoSave.read = NoFile
    /\ NoCookie \in [over : Nat, end : Nat] /\ NoCookie.over = 0
    /\ Free \in [for : ScBrowsers \cup {ScNobody},
                  at : {"free", "login", "asked", "read", "written"},
                  session : BOOLEAN, read : [ScKeys -> Nat]]
    /\ Free.at = "free" /\ Free.read = NoFile
<1>1. NoFile \in [ScKeys -> Nat] /\ \A k \in ScKeys : NoFile[k] = 0
  BY DEF NoFile
<1>2. /\ NoSave \in [at : {"idle", "asked", "read"}, read : [ScKeys -> Nat],
                     change : [ScKeys -> {"same", "clear", "new"}]]
      /\ NoSave.at = "idle" /\ NoSave.read = NoFile
  BY <1>1 DEF NoSave
<1>3. NoCookie \in [over : Nat, end : Nat] /\ NoCookie.over = 0
  BY DEF NoCookie
<1>4. /\ Free \in [for : ScBrowsers \cup {ScNobody},
                   at : {"free", "login", "asked", "read", "written"},
                   session : BOOLEAN, read : [ScKeys -> Nat]]
      /\ Free.at = "free" /\ Free.read = NoFile
  BY <1>1 DEF Free, Request
<1> QED
  BY <1>1, <1>2, <1>3, <1>4

LEMMA ScInitInv == ScInit => ScInv
<1> SUFFICES ASSUME ScInit PROVE ScInv
  OBVIOUS
<1>1. /\ scFile \in [ScKeys -> {0, 1}] /\ scLoaded = scFile[ScHash] /\ scGiven = 1
      /\ scTime = 0 /\ scLoop = Free /\ scCrossed = FALSE
      /\ scSave = [b \in ScBrowsers |-> NoSave] /\ scCookie = [b \in ScBrowsers |-> NoCookie]
  BY DEF ScInit
<1>2. /\ scFile \in [ScKeys -> Nat] /\ \A k \in ScKeys : scFile[k] <= 1
      /\ scLoaded \in Nat /\ scLoaded <= 1
  BY <1>1, HashListed
<1>3. ScTypes
  BY <1>1, <1>2, FreeFacts DEF ScTypes
<1>4. \A b \in ScBrowsers : scSave[b] = NoSave /\ scCookie[b] = NoCookie
  BY <1>1
<1>5. ValuesGiven /\ SavesRead
  BY <1>1, <1>2, <1>4, FreeFacts DEF ValuesGiven, SavesRead
<1>6. LoopReads /\ AllOut
  BY <1>1, FreeFacts DEF LoopReads, AllOut
<1> QED
  BY <1>3, <1>5, <1>6 DEF ScInv

\* The hash a cookie is signed over.
LEMMA HashFacts ==
    ASSUME ScInv, NEW file \in [ScKeys -> Nat], \A k \in ScKeys : file[k] <= scGiven
    PROVE  AdminHash(file) \in Nat /\ AdminHash(file) <= scGiven
BY HashListed DEF ScInv, ScTypes, ValuesGiven, AdminHash

\* A token is a cookie that will end later.
LEMMA TokenFacts ==
    ASSUME ScInv, NEW file, AdminHash(file) \in Nat
    PROVE  /\ Token(file) \in [over : Nat, end : Nat]
           /\ Token(file).over = AdminHash(file) /\ scTime < Token(file).end
BY SessionsLast DEF ScInv, ScTypes, Token

\* A save that begins, goes on or ends, with the file as it was.
LEMMA SaveGoesOn ==
    ASSUME ScInv, NEW b \in ScBrowsers,
           NEW save \in [at : {"idle", "asked", "read"}, read : [ScKeys -> Nat],
                         change : [ScKeys -> {"same", "clear", "new"}]],
           scSave' = [scSave EXCEPT ![b] = save],
           \A k \in ScKeys : save.read[k] <= scGiven,
           save.at = "read" => save.read = scFile,
           scOverlap \ {b} \subseteq scOverlap',
           UNCHANGED <<scFile, scLoaded, scGiven, scLoop, scCookie, scTime, scCrossed>>
    PROVE  ScInv'
<1>1. scSave'[b] = save /\ \A c \in ScBrowsers \ {b} : scSave'[c] = scSave[c]
  BY DEF ScInv, ScTypes
<1>2. ScTypes'
  BY DEF ScInv, ScTypes
<1>3. ValuesGiven'
  BY <1>1 DEF ScInv, ValuesGiven
<1>4. SavesRead'
  BY <1>1 DEF ScInv, SavesRead
<1>5. LoopReads' /\ AllOut'
  BY DEF ScInv, LoopReads, AllOut, ValidToken, AdminHash
<1> QED
  BY <1>2, <1>3, <1>4, <1>5 DEF ScInv

\* A step of the loop that leaves the file as it was, with cookies signed over what was given.
LEMMA LoopGoesOn ==
    ASSUME ScInv,
           NEW request \in [for : ScBrowsers \cup {ScNobody},
                            at : {"free", "login", "asked", "read"},
                            session : BOOLEAN, read : [ScKeys -> Nat]],
           LoopAt(request),
           \A k \in ScKeys : request.read[k] <= scGiven,
           request.at = "read" => request.read = scFile,
           scCookie' \in [ScBrowsers -> [over : Nat, end : Nat]],
           \A b \in ScBrowsers : scCookie'[b].over <= scGiven,
           UNCHANGED <<scFile, scLoaded, scGiven, scSave, scTime, scOverlap>>
    PROVE  ScInv'
<1>1. scLoop' = request /\ scCrossed' = FALSE
  BY DEF LoopAt
<1>2. ScTypes'
  BY <1>1 DEF ScInv, ScTypes
<1>3. ValuesGiven'
  BY <1>1 DEF ScInv, ValuesGiven
<1>4. SavesRead' /\ LoopReads' /\ AllOut'
  BY <1>1 DEF ScInv, SavesRead, LoopReads, AllOut
<1> QED
  BY <1>2, <1>3, <1>4 DEF ScInv

\* Signing one cookie.
LEMMA SignFacts ==
    ASSUME ScInv, NEW b \in ScBrowsers,
           scCookie' = [scCookie EXCEPT ![b] = Token(scFile)] \/ scCookie' = scCookie
    PROVE  /\ scCookie' \in [ScBrowsers -> [over : Nat, end : Nat]]
           /\ \A c \in ScBrowsers : scCookie'[c].over <= scGiven
<1> DEFINE Cookies == [over : Nat, end : Nat]
<1>1. /\ scCookie \in [ScBrowsers -> Cookies] /\ scFile \in [ScKeys -> Nat]
      /\ \A c \in ScBrowsers : scCookie[c].over <= scGiven
      /\ \A k \in ScKeys : scFile[k] <= scGiven
  BY DEF ScInv, ScTypes, ValuesGiven
<1>2. Token(scFile) \in Cookies /\ Token(scFile).over <= scGiven
  BY <1>1, HashFacts, TokenFacts
<1> HIDE DEF Cookies
<1>3. scCookie' \in [ScBrowsers -> Cookies] /\ \A c \in ScBrowsers : scCookie'[c].over <= scGiven
  BY <1>1, <1>2
<1> QED
  BY <1>3 DEF Cookies

\* The facts of the write of a change of password.
LEMMA PasswordFacts ==
    ASSUME ScInv, NEW b \in ScBrowsers, PasswordWrites(b)
    PROVE  /\ scGiven' = scGiven + 1
           /\ scFile' = [scLoop.read EXCEPT ![ScHash] = scGiven + 1]
           /\ scFile' \in [ScKeys -> Nat]
           /\ AdminHash(scFile)' = scGiven + 1
           /\ \A c \in ScBrowsers : ~ValidToken(c)'
           /\ UNCHANGED <<scLoaded, scSave, scCookie, scTime>>
<1>1. /\ scGiven' = scGiven + 1 /\ scFile' = [scLoop.read EXCEPT ![ScHash] = scGiven']
      /\ UNCHANGED <<scLoaded, scSave, scCookie, scTime>>
  BY DEF PasswordWrites
<1>2. scFile' \in [ScKeys -> Nat] /\ scFile'[ScHash] = scGiven + 1 /\ scGiven + 1 # 0
  BY <1>1, HashListed DEF ScInv, ScTypes
<1>3. AdminHash(scFile)' = scGiven + 1
  BY <1>2 DEF AdminHash
<1>4. ASSUME NEW c \in ScBrowsers PROVE ~ValidToken(c)'
  <2>1. scCookie[c].over \in Nat /\ scGiven \in Nat /\ scCookie[c].over <= scGiven
    BY DEF ScInv, ScTypes, ValuesGiven
  <2>2. scCookie'[c].over # scGiven + 1
    BY <1>1, <2>1
  <2> QED
    BY <1>3, <2>2 DEF ValidToken
<1> QED
  BY <1>1, <1>2, <1>3, <1>4

\* What a save makes is a file.
LEMMA ChangedFacts ==
    ASSUME NEW read \in [ScKeys -> Nat], NEW value \in Nat,
           NEW change \in [ScKeys -> {"same", "clear", "new"}]
    PROVE  Changed(read, change, value) \in [ScKeys -> Nat]
BY DEF Changed

LEMMA ScStepInv == ScInv /\ [ScNext]_scVars => ScInv'
<1> SUFFICES ASSUME ScInv, [ScNext]_scVars PROVE ScInv'
  OBVIOUS
<1> DEFINE Saves == [at : {"idle", "asked", "read"}, read : [ScKeys -> Nat],
                     change : [ScKeys -> {"same", "clear", "new"}]]
           Cookies == [over : Nat, end : Nat]
           Requests == [for : ScBrowsers \cup {ScNobody},
                        at : {"free", "login", "asked", "read"},
                        session : BOOLEAN, read : [ScKeys -> Nat]]
<1>0. /\ scFile \in [ScKeys -> Nat] /\ scGiven \in Nat /\ scTime \in Nat /\ scLoaded \in Nat
      /\ scSave \in [ScBrowsers -> Saves] /\ scCookie \in [ScBrowsers -> Cookies]
      /\ scLoop.session \in BOOLEAN /\ scLoop.read \in [ScKeys -> Nat]
      /\ \A k \in ScKeys : scFile[k] <= scGiven
      /\ \A k \in ScKeys : scLoop.read[k] <= scGiven
      /\ \A c \in ScBrowsers : scCookie[c].over <= scGiven
  BY DEF ScInv, ScTypes, ValuesGiven
<1>a. NoFile \in [ScKeys -> Nat] /\ (\A k \in ScKeys : NoFile[k] = 0 /\ NoFile[k] <= scGiven)
  BY <1>0, FreeFacts
<1>b. NoSave \in Saves /\ NoSave.at = "idle" /\ NoSave.read = NoFile
  BY FreeFacts
<1>c. Free \in Requests /\ Free.at = "free" /\ Free.read = NoFile
  BY <1>a DEF Free, Request
<1>1. CASE UNCHANGED scVars
  BY <1>1 DEF scVars, ScInv, ScTypes, ValuesGiven, SavesRead, LoopReads, AllOut, ValidToken,
              AdminHash
<1>2. CASE ScTick
  <2>1. /\ scTime' = scTime + 1
        /\ UNCHANGED <<scFile, scLoaded, scGiven, scSave, scLoop, scCookie, scOverlap, scCrossed>>
    BY <1>2 DEF ScTick
  <2>2. ScTypes' /\ ValuesGiven' /\ SavesRead' /\ LoopReads'
    BY <2>1 DEF ScInv, ScTypes, ValuesGiven, SavesRead, LoopReads
  <2>3. ASSUME NEW c \in ScBrowsers, ~ValidToken(c) PROVE ~ValidToken(c)'
    <3>1. scCookie[c].end \in Nat
      BY <1>0
    <3> QED
      BY <1>0, <2>1, <2>3, <3>1 DEF ValidToken, AdminHash
  <2>4. AllOut'
    BY <2>1, <2>3 DEF ScInv, AllOut
  <2> QED
    BY <2>2, <2>4 DEF ScInv
<1>3. CASE ScRestart
  <2>1. /\ scSave' = [b \in ScBrowsers |-> NoSave] /\ scLoaded' = scFile[ScHash]
        /\ scLoop' = Free /\ scCrossed' = FALSE
        /\ UNCHANGED <<scFile, scGiven, scCookie, scTime>>
    BY <1>3 DEF ScRestart, LoopAt
  <2>2. scLoaded' \in Nat /\ scLoaded' <= scGiven
    BY <1>0, <2>1, HashListed
  <2>3. ScTypes'
    BY <1>b, <2>1, <2>2, FreeFacts DEF ScInv, ScTypes
  <2>4. \A b \in ScBrowsers : scSave'[b] = NoSave
    BY <2>1
  <2>5. ValuesGiven' /\ SavesRead'
    BY <1>0, <1>a, <1>b, <1>c, <2>1, <2>2, <2>4 DEF ScInv, ValuesGiven, SavesRead
  <2>6. LoopReads' /\ AllOut'
    BY <1>c, <2>1 DEF LoopReads, AllOut
  <2> QED
    BY <2>3, <2>5, <2>6 DEF ScInv
<1>4. ASSUME NEW b \in ScBrowsers, LoginChecks(b) PROVE ScInv'
  <2> DEFINE request == Request(b, "login", FALSE, NoFile)
  <2>1. /\ LoopAt(request)
        /\ UNCHANGED <<scFile, scLoaded, scGiven, scSave, scCookie, scTime, scOverlap>>
    BY <1>4 DEF LoginChecks
  <2>2. request \in Requests /\ request.read = NoFile /\ request.at = "login"
    BY <1>a DEF Request
  <2>3. \A k \in ScKeys : request.read[k] <= scGiven
    BY <1>a, <2>2
  <2> HIDE DEF request
  <2> QED
    BY <1>0, <2>1, <2>2, <2>3, LoopGoesOn
<1>5. ASSUME NEW b \in ScBrowsers, LoginSigns(b) PROVE ScInv'
  <2>1. /\ LoopAt(Free) /\ scCookie' = [scCookie EXCEPT ![b] = Token(scFile)]
        /\ UNCHANGED <<scFile, scLoaded, scGiven, scSave, scTime, scOverlap>>
    BY <1>5 DEF LoginSigns
  <2>2. \A k \in ScKeys : Free.read[k] <= scGiven
    BY <1>a, <1>c
  <2>3. scCookie' \in [ScBrowsers -> Cookies] /\ \A c \in ScBrowsers : scCookie'[c].over <= scGiven
    BY <2>1, SignFacts
  <2> QED
    BY <1>c, <2>1, <2>2, <2>3, LoopGoesOn
<1>6. ASSUME NEW b \in ScBrowsers, LoginFails(b) \/ TryForgotten(b) PROVE ScInv'
  BY <1>6 DEF LoginFails, TryForgotten, ScInv, ScTypes, ValuesGiven, SavesRead, LoopReads,
              AllOut, ValidToken, AdminHash
<1>7. ASSUME NEW b \in ScBrowsers, Logout(b) PROVE ScInv'
  <2>1. /\ scLoop.at = "free" /\ scCookie' = [scCookie EXCEPT ![b] = NoCookie]
        /\ UNCHANGED <<scFile, scLoaded, scGiven, scSave, scLoop, scTime, scOverlap, scCrossed>>
    BY <1>7 DEF Logout, LoopFree
  <2>2. ScTypes'
    BY <1>0, <2>1, FreeFacts DEF ScInv, ScTypes
  <2>3. scCookie'[b] = NoCookie /\ \A c \in ScBrowsers \ {b} : scCookie'[c] = scCookie[c]
    BY <1>0, <2>1
  <2>4. ValuesGiven' /\ SavesRead' /\ LoopReads' /\ AllOut'
    BY <1>0, <2>1, <2>3, FreeFacts DEF ScInv, ValuesGiven, SavesRead, LoopReads, AllOut
  <2> QED
    BY <2>2, <2>4 DEF ScInv
<1>8. ASSUME NEW b \in ScBrowsers, PasswordAsked(b) PROVE ScInv'
  <2> DEFINE request == Request(b, "asked", ValidToken(b), NoFile)
  <2>1. /\ LoopAt(request)
        /\ UNCHANGED <<scFile, scLoaded, scGiven, scSave, scCookie, scTime, scOverlap>>
    BY <1>8 DEF PasswordAsked
  <2>2. ValidToken(b) \in BOOLEAN
    BY DEF ValidToken
  <2>3. request \in Requests /\ request.read = NoFile /\ request.at = "asked"
    BY <1>a, <2>2 DEF Request
  <2>4. \A k \in ScKeys : request.read[k] <= scGiven
    BY <1>a, <2>3
  <2> HIDE DEF request
  <2> QED
    BY <1>0, <2>1, <2>3, <2>4, LoopGoesOn
<1>9. ASSUME NEW b \in ScBrowsers, PasswordReads(b) PROVE ScInv'
  <2> DEFINE request == Request(b, "read", scLoop.session, scFile)
  <2>1. /\ LoopAt(request)
        /\ UNCHANGED <<scFile, scLoaded, scGiven, scSave, scCookie, scTime, scOverlap>>
    BY <1>9 DEF PasswordReads
  <2>2. request \in Requests /\ request.read = scFile
    BY <1>0 DEF Request
  <2>3. \A k \in ScKeys : request.read[k] <= scGiven
    BY <1>0, <2>2
  <2> HIDE DEF request
  <2> QED
    BY <1>0, <2>1, <2>2, <2>3, LoopGoesOn
<1>10. ASSUME NEW b \in ScBrowsers, PasswordWrites(b) PROVE ScInv'
  <2> DEFINE request == Request(b, "written", scLoop.session, scLoop.read)
  <2>1. /\ scGiven' = scGiven + 1 /\ scFile' = [scLoop.read EXCEPT ![ScHash] = scGiven + 1]
        /\ scFile' \in [ScKeys -> Nat] /\ (\A c \in ScBrowsers : ~ValidToken(c)')
        /\ UNCHANGED <<scLoaded, scSave, scCookie, scTime>>
    BY <1>10, PasswordFacts
  <2>2. scOverlap' = scOverlap \cup SavesUnderWay /\ scLoop' = request /\ scCrossed' = FALSE
    BY <1>10 DEF PasswordWrites, LoopAt
  <2>3. /\ request \in [for : ScBrowsers \cup {ScNobody},
                        at : {"free", "login", "asked", "read", "written"},
                        session : BOOLEAN, read : [ScKeys -> Nat]]
        /\ request.read = scLoop.read /\ request.at = "written"
    BY <1>0 DEF Request
  <2> HIDE DEF request
  <2>4. ScTypes'
    <3>1. scGiven' \in Nat
      BY <1>0, <2>1
    <3>2. /\ scTime' \in Nat /\ scLoaded' \in Nat /\ scSave' \in [ScBrowsers -> Saves]
          /\ scCookie' \in [ScBrowsers -> Cookies]
      <4> HIDE DEF Saves, Cookies
      <4> QED
        BY <1>0, <2>1
    <3> QED
      BY <2>1, <2>2, <2>3, <3>1, <3>2 DEF ScTypes
  <2>5. \A c \in ScBrowsers : scCookie[c].over <= scGiven + 1
    <3> SUFFICES ASSUME NEW c \in ScBrowsers PROVE scCookie[c].over <= scGiven + 1
      OBVIOUS
    <3>1. scCookie[c].over \in Nat /\ scCookie[c].over <= scGiven
      BY <1>0
    <3> QED
      BY <1>0, <3>1
  <2>6. \A k \in ScKeys : scFile'[k] <= scGiven + 1 /\ scLoop.read[k] <= scGiven + 1
    BY <1>0, <2>1
  <2>7. \A c \in ScBrowsers : \A k \in ScKeys : scSave[c].read[k] <= scGiven + 1
    <3> SUFFICES ASSUME NEW c \in ScBrowsers, NEW k \in ScKeys
                 PROVE  scSave[c].read[k] <= scGiven + 1
      OBVIOUS
    <3>1. scSave[c].read[k] \in Nat /\ scSave[c].read[k] <= scGiven
      BY <1>0 DEF ScInv, ValuesGiven
    <3> QED
      BY <1>0, <3>1
  <2>8. scLoaded <= scGiven + 1
    BY <1>0 DEF ScInv, ValuesGiven
  <2>9. ValuesGiven'
    BY <2>1, <2>2, <2>3, <2>5, <2>6, <2>7, <2>8 DEF ValuesGiven
  <2>10. SavesRead' /\ LoopReads' /\ AllOut'
    BY <2>1, <2>2, <2>3 DEF SavesRead, LoopReads, AllOut, SavesUnderWay
  <2> QED
    BY <2>4, <2>9, <2>10 DEF ScInv
<1>11. ASSUME NEW b \in ScBrowsers, PasswordFails(b) PROVE ScInv'
  <2>1. /\ LoopAt(Free)
        /\ UNCHANGED <<scFile, scLoaded, scGiven, scSave, scCookie, scTime, scOverlap>>
    BY <1>11 DEF PasswordFails
  <2>2. \A k \in ScKeys : Free.read[k] <= scGiven
    BY <1>a, <1>c
  <2> QED
    BY <1>0, <1>c, <2>1, <2>2, LoopGoesOn
<1>12. ASSUME NEW b \in ScBrowsers, PasswordSigns(b) PROVE ScInv'
  <2>1. /\ LoopAt(Free)
        /\ scCookie' = [scCookie EXCEPT ![b] = Token(scFile)] \/ scCookie' = scCookie
        /\ UNCHANGED <<scFile, scLoaded, scGiven, scSave, scTime, scOverlap>>
    BY <1>12 DEF PasswordSigns
  <2>2. \A k \in ScKeys : Free.read[k] <= scGiven
    BY <1>a, <1>c
  <2>3. scCookie' \in [ScBrowsers -> Cookies] /\ \A c \in ScBrowsers : scCookie'[c].over <= scGiven
    BY <2>1, SignFacts
  <2> QED
    BY <1>c, <2>1, <2>2, <2>3, LoopGoesOn
<1>13. ASSUME NEW b \in ScBrowsers, SaveAsked(b) PROVE ScInv'
  <2>1. PICK change \in ScChanges :
          scSave' = [scSave EXCEPT ![b] = [at |-> "asked", read |-> NoFile, change |-> change]]
    BY <1>13 DEF SaveAsked
  <2> DEFINE save == [at |-> "asked", read |-> NoFile, change |-> change]
  <2>2. save \in Saves /\ save.at # "read" /\ save.read = NoFile
    BY <1>a, ChangesListed
  <2>3. UNCHANGED <<scFile, scLoaded, scGiven, scLoop, scCookie, scTime, scOverlap, scCrossed>>
    BY <1>13 DEF SaveAsked
  <2>4. scSave' = [scSave EXCEPT ![b] = save]
    BY <2>1
  <2>5. \A k \in ScKeys : save.read[k] <= scGiven
    BY <1>0, <1>a, <2>2
  <2> HIDE DEF save
  <2> QED
    BY <2>2, <2>3, <2>4, <2>5, SaveGoesOn
<1>14. ASSUME NEW b \in ScBrowsers, SaveReads(b) PROVE ScInv'
  <2> DEFINE save == [at |-> "read", read |-> scFile, change |-> scSave[b].change]
  <2>1. save \in Saves
    BY <1>0
  <2>2. scSave' = [scSave EXCEPT ![b] = save]
    BY <1>14 DEF SaveReads
  <2>3. UNCHANGED <<scFile, scLoaded, scGiven, scLoop, scCookie, scTime, scOverlap, scCrossed>>
    BY <1>14 DEF SaveReads
  <2>4. save.at = "read" /\ save.read = scFile
    OBVIOUS
  <2> HIDE DEF save
  <2> QED
    BY <1>0, <2>1, <2>2, <2>3, <2>4, SaveGoesOn
<1>15. ASSUME NEW b \in ScBrowsers, SaveWrites(b) PROVE ScInv'
  <2> DEFINE save == scSave[b]
  <2>1. /\ scGiven' \in {scGiven, scGiven + 1}
        /\ (\E k \in ScKeys : save.change[k] = "new") => scGiven' = scGiven + 1
        /\ scFile' = Changed(save.read, save.change, scGiven')
        /\ scOverlap' = (scOverlap \cup SavesUnderWay) \ {b} /\ scCrossed' = TRUE
        /\ scSave' = [scSave EXCEPT ![b] = NoSave]
        /\ UNCHANGED <<scLoaded, scLoop, scCookie, scTime>>
    BY <1>15 DEF SaveWrites
  <2>2. save \in Saves /\ (\A k \in ScKeys : save.read[k] <= scGiven)
    BY <1>0 DEF ScInv, ValuesGiven
  <2>3. scGiven' \in Nat /\ scGiven <= scGiven'
    BY <1>0, <2>1
  <2>5. \A k \in ScKeys : scFile'[k] \in Nat /\ scFile'[k] <= scGiven'
    <3> SUFFICES ASSUME NEW k \in ScKeys PROVE scFile'[k] \in Nat /\ scFile'[k] <= scGiven'
      OBVIOUS
    <3>1. save.change[k] \in {"same", "clear", "new"} /\ save.read[k] \in Nat
          /\ save.read[k] <= scGiven
      BY <2>2
    <3>2. scFile'[k] = CASE save.change[k] = "same" -> save.read[k]
                         [] save.change[k] = "clear" -> 0
                         [] save.change[k] = "new" -> scGiven'
      BY <2>1 DEF Changed
    <3> HIDE DEF save
    <3> QED
      BY <1>0, <2>3, <3>1, <3>2
  <2>6. scFile' \in [ScKeys -> Nat]
    BY <2>1, <2>2, <2>3, ChangedFacts
  <2>7. scSave'[b] = NoSave /\ \A c \in ScBrowsers \ {b} : scSave'[c] = scSave[c]
    BY <1>0, <2>1
  <2>8. ScTypes'
    BY <1>0, <1>b, <2>1, <2>3, <2>6 DEF ScInv, ScTypes
  <2>9. ValuesGiven'
    <3>1. \A c \in ScBrowsers : \A k \in ScKeys : scSave'[c].read[k] <= scGiven'
      <4> SUFFICES ASSUME NEW c \in ScBrowsers, NEW k \in ScKeys
                   PROVE  scSave'[c].read[k] <= scGiven'
        OBVIOUS
      <4>1. scSave'[c].read[k] = 0 \/ scSave'[c].read[k] = scSave[c].read[k]
        BY <1>a, <1>b, <2>7
      <4>2. scSave[c].read[k] \in Nat /\ scSave[c].read[k] <= scGiven
        BY <1>0 DEF ScInv, ValuesGiven
      <4> QED
        BY <1>0, <2>3, <4>1, <4>2
    <3>2. \A c \in ScBrowsers : scCookie[c].over <= scGiven'
      <4> SUFFICES ASSUME NEW c \in ScBrowsers PROVE scCookie[c].over <= scGiven'
        OBVIOUS
      <4>1. scCookie[c].over \in Nat /\ scCookie[c].over <= scGiven
        BY <1>0
      <4> QED
        BY <1>0, <2>3, <4>1
    <3>3. \A k \in ScKeys : scLoop.read[k] <= scGiven'
      <4> SUFFICES ASSUME NEW k \in ScKeys PROVE scLoop.read[k] <= scGiven'
        OBVIOUS
      <4>1. scLoop.read[k] \in Nat /\ scLoop.read[k] <= scGiven
        BY <1>0
      <4> QED
        BY <1>0, <2>3, <4>1
    <3>4. scLoaded <= scGiven'
      BY <1>0, <2>3 DEF ScInv, ValuesGiven
    <3> QED
      BY <2>1, <2>5, <3>1, <3>2, <3>3, <3>4 DEF ValuesGiven
  <2>10. SavesRead' /\ LoopReads' /\ AllOut'
    BY <1>b, <2>1, <2>7 DEF SavesRead, LoopReads, AllOut, SavesUnderWay
  <2> QED
    BY <2>8, <2>9, <2>10 DEF ScInv
<1>16. ASSUME NEW b \in ScBrowsers, SaveFails(b) PROVE ScInv'
  <2>1. /\ scSave' = [scSave EXCEPT ![b] = NoSave] /\ scOverlap' = scOverlap \ {b}
        /\ UNCHANGED <<scFile, scLoaded, scGiven, scLoop, scCookie, scTime, scCrossed>>
    BY <1>16 DEF SaveFails
  <2>2. NoSave.at # "read" /\ \A k \in ScKeys : NoSave.read[k] <= scGiven
    BY <1>0, <1>a, <1>b
  <2> QED
    BY <1>b, <2>1, <2>2, SaveGoesOn
<1> QED
  BY <1>1, <1>2, <1>3, <1>4, <1>5, <1>6, <1>7, <1>8, <1>9, <1>10, <1>11, <1>12, <1>13, <1>14,
     <1>15, <1>16 DEF ScNext

\* A save that no one has overlapped leaves alone what the page has left empty.
LEMMA SaveStep ==
    ASSUME ScInv, ScNext, NEW b \in ScBrowsers, Writing(b), b \notin scOverlap,
           NEW k \in ScKeys, scSave[b].change[k] = "same"
    PROVE  scFile'[k] = scFile[k]
<1>1. scSave[b].at = "read" /\ scFile' # scFile /\ scSave'[b].at = "idle"
  BY DEF Writing
<1>2. SaveWrites(b)
  <2>1. ~ ScRestart /\ ~ ScTick
    BY <1>1 DEF ScRestart, ScTick
  <2>2. \A c \in ScBrowsers :
          /\ ~ (LoginChecks(c) \/ LoginSigns(c) \/ LoginFails(c) \/ TryForgotten(c) \/ Logout(c))
          /\ ~ (SaveAsked(c) \/ SaveReads(c) \/ SaveFails(c))
    BY <1>1 DEF LoginChecks, LoginSigns, LoginFails, TryForgotten, Logout, SaveAsked, SaveReads,
                SaveFails
  <2>3. \A c \in ScBrowsers :
          ~ (PasswordAsked(c) \/ PasswordReads(c) \/ PasswordWrites(c) \/ PasswordFails(c)
             \/ PasswordSigns(c))
    BY <1>1 DEF PasswordAsked, PasswordReads, PasswordWrites, PasswordFails, PasswordSigns
  <2>4. PICK c \in ScBrowsers : SaveWrites(c)
    BY <2>1, <2>2, <2>3 DEF ScNext
  <2>5. scSave' = [scSave EXCEPT ![c] = NoSave]
    BY <2>4 DEF SaveWrites
  <2>6. c = b
    BY <1>1, <2>5 DEF ScInv, ScTypes
  <2> QED
    BY <2>4, <2>6
<1>3. scSave[b].read = scFile
  BY <1>1 DEF ScInv, SavesRead
<1> QED
  BY <1>2, <1>3 DEF SaveWrites, Changed

\* The write of a change touches nothing but the hash, unless a save has replaced the file.
LEMMA ChangeStep ==
    ASSUME ScInv, NEW b \in ScBrowsers, PasswordWrites(b)
    PROVE  /\ ~scCrossed => \A k \in ScKeys \ {ScHash} : scFile'[k] = scFile[k]
           /\ \A c \in ScBrowsers : ~ValidToken(c)'
<1>1. /\ scFile' = [scLoop.read EXCEPT ![ScHash] = scGiven + 1]
      /\ \A c \in ScBrowsers : ~ValidToken(c)'
  BY PasswordFacts
<1>2. ~scCrossed => scLoop.read = scFile
  BY DEF ScInv, LoopReads, PasswordWrites
<1>3. scLoop.read \in [ScKeys -> Nat]
  BY DEF ScInv, ScTypes
<1> QED
  BY <1>1, <1>2, <1>3

\* Who came with a session goes on with it, and no one else.
LEMMA SignStep ==
    ASSUME ScInv, NEW b \in ScBrowsers, PasswordSigns(b), scLoop.session
    PROVE  /\ ValidToken(b)'
           /\ ~scCrossed => \A c \in ScBrowsers \ {b} : ~ValidToken(c)'
<1>1. /\ scLoop.at = "written" /\ scCookie' = [scCookie EXCEPT ![b] = Token(scFile)]
      /\ UNCHANGED <<scFile, scLoaded, scTime>>
  BY DEF PasswordSigns
<1>2. /\ scCookie \in [ScBrowsers -> [over : Nat, end : Nat]]
      /\ scFile \in [ScKeys -> Nat] /\ \A k \in ScKeys : scFile[k] <= scGiven
  BY DEF ScInv, ScTypes, ValuesGiven
<1>3. Token(scFile).over = AdminHash(scFile) /\ scTime < Token(scFile).end
  BY <1>2, HashFacts, TokenFacts
<1>4. scCookie'[b] = Token(scFile) /\ \A c \in ScBrowsers \ {b} : scCookie'[c] = scCookie[c]
  BY <1>1, <1>2
<1>5. AdminHash(scFile)' = AdminHash(scFile)
  BY <1>1 DEF AdminHash
<1>6. ValidToken(b)'
  BY <1>1, <1>3, <1>4, <1>5 DEF ValidToken
<1>7. ASSUME ~scCrossed, NEW c \in ScBrowsers \ {b} PROVE ~ValidToken(c)'
  <2>1. ~ValidToken(c)
    BY <1>1, <1>7 DEF ScInv, AllOut
  <2> QED
    BY <1>1, <1>4, <1>5, <2>1 DEF ValidToken
<1> QED
  BY <1>6, <1>7

\* A save changes what the page has sent and nothing else, unless another writer has
\* replaced the file in the middle of it; a change of password ends every session, touches
\* no other secret and keeps going who came with a session, and no one else, unless a save
\* has replaced the file between its steps (secrets_store.py, middleware/auth.py).
THEOREM SecretsStayAsSent == ScSpec => SecretsKept
<1> DEFINE Step ==
        /\ \A b \in ScBrowsers :
             Writing(b) /\ b \notin scOverlap =>
                 \A k \in ScKeys : scSave[b].change[k] = "same" => scFile'[k] = scFile[k]
        /\ \A b \in ScBrowsers :
             PasswordWrites(b) =>
                 /\ ~scCrossed => \A k \in ScKeys \ {ScHash} : scFile'[k] = scFile[k]
                 /\ \A c \in ScBrowsers : ~ValidToken(c)'
        /\ \A b \in ScBrowsers :
             PasswordSigns(b) /\ scLoop.session =>
                 /\ ValidToken(b)'
                 /\ ~scCrossed => \A c \in ScBrowsers \ {b} : ~ValidToken(c)'
<1>1. ScInv /\ [ScNext]_scVars => [Step]_scVars
  <2> SUFFICES ASSUME ScInv, ScNext PROVE Step
    OBVIOUS
  <2> QED
    BY SaveStep, ChangeStep, SignStep
<1> QED
  BY <1>1, ScInitInv, ScStepInv, PTL DEF ScSpec, SecretsKept

-----------------------------------------------------------------------------
(***************************************************************************)
(* ConfigStore.  Every configuration there is - in the file, in a backup,  *)
(* on its way to the file - has no secret with the wrong host, and what a  *)
(* job has copied is in a backup until another write of the same second    *)
(* takes its place.                                                        *)
(***************************************************************************)

OwnConfigs == {c \in Configs : Own(c.hosts)}

CfTypes ==
    /\ cfNow \in 0 .. CfMaxTime
    /\ cfFile \in OwnConfigs \cup {CfNone}
    /\ cfBackup \in [0 .. CfMaxTime -> OwnConfigs \cup {CfNone}]
    /\ cfJob \in [CfJobs -> [at : {"idle", "read", "copied"},
                             data : OwnConfigs \cup {CfNone},
                             copied : OwnConfigs \cup {CfNone}]]
    /\ \A j \in CfJobs : cfJob[j].at # "idle" => cfJob[j].data \in OwnConfigs
    /\ cfPast \subseteq OwnConfigs

\* It can be had back, or has been lost to a second job or a second write.
Saved(content) ==
    content \in cfLost \/ \E s \in 0 .. CfMaxTime : cfBackup[s] = content

CopiesSaved ==
    \A j \in CfJobs :
        cfJob[j].at = "copied" /\ cfJob[j].copied # CfNone => Saved(cfJob[j].copied)

PastSaved == \A content \in cfPast : Saved(content) \/ content = cfFile

CfInv == CfTypes /\ CopiesSaved /\ PastSaved

\* The largest of the places of a list.
LEMMA LastPlace ==
    ASSUME NEW n \in Nat, NEW T \in SUBSET (1 .. n), T # {}
    PROVE  Max(T) \in T
<1> DEFINE U == {n - x : x \in T}
<1>0. \A x \in T : x \in Int /\ n - x \in Nat
  OBVIOUS
<1>1. U \subseteq Nat /\ U # {}
  <2>1. U \subseteq Nat
    BY <1>0
  <2>2. PICK x \in T : TRUE
    OBVIOUS
  <2>3. n - x \in U
    OBVIOUS
  <2> QED
    BY <2>1, <2>3
<1>2. PICK u \in U : \A y \in U : ~ (<<y, u>> \in OpToRel(<, Nat))
  <2> HIDE DEF U
  <2> QED
    BY <1>1, NatLessThanWellFounded, WFMin
<1>3. \A y \in U : <<y, u>> \in OpToRel(<, Nat) <=> y < u
  <2> HIDE DEF U
  <2> QED
    BY <1>1, <1>2 DEF OpToRel
<1>4. \A y \in U : ~ (y < u)
  BY <1>2, <1>3, Zenon
<1>5. PICK x \in T : u = n - x
  OBVIOUS
<1>6. \A y \in T : x >= y
  <2> SUFFICES ASSUME NEW y \in T PROVE x >= y
    OBVIOUS
  <2>1. n - y \in U
    OBVIOUS
  <2>2. ~ (n - y < n - x)
    BY <1>4, <1>5, <2>1
  <2> QED
    BY <1>0, <2>2
<1> QED
  BY <1>6 DEF Max

LEMMA OnlyPlace ==
    ASSUME NEW i \in Nat
    PROVE  Max({i}) = i
BY DEF Max

LEMMA ItemParts ==
    ASSUME NEW S, NEW item \in Items(S)
    PROVE  item.id \in CfHosts \cup {CfAnon} /\ item.secret \in S
BY DEF Items

\* Another secret for an item.
LEMMA ItemFacts ==
    ASSUME NEW S, NEW R, NEW item \in Items(S), NEW secret \in R
    PROVE  /\ [item EXCEPT !.secret = secret] \in Items(R)
           /\ [item EXCEPT !.secret = secret].id = item.id
           /\ [item EXCEPT !.secret = secret].secret = secret
<1>1. PICK h \in CfHosts \cup {CfAnon}, s \in S : item = [id |-> h, secret |-> s]
  BY DEF Items
<1>2. [item EXCEPT !.secret = secret] = [id |-> h, secret |-> secret]
  BY <1>1
<1> QED
  BY <1>1, <1>2 DEF Items

\* Where the secret of an item is taken from: an item of the same identity, if it has one.
LEMMA SourcesFacts ==
    ASSUME NEW S, NEW original \in Seq(S), NEW item, NEW i,
           Sources(item, i, original) # {}
    PROVE  /\ Max(Sources(item, i, original)) \in DOMAIN original
           /\ item.id # CfAnon => original[Max(Sources(item, i, original))].id = item.id
<1> DEFINE from == Sources(item, i, original)
<1>1. from \in SUBSET (1 .. Len(original)) /\ Len(original) \in Nat
  BY LenProperties DEF Sources
<1>2. Max(from) \in from
  <2>1. from # {}
    OBVIOUS
  <2> HIDE DEF from
  <2> QED
    BY <1>1, <2>1, LastPlace
<1> QED
  BY <1>1, <1>2 DEF Sources

\* What _merge_secrets makes of a list sent by a page has no secret with the wrong host
\* and no mask.
LEMMA MergeFacts ==
    ASSUME NEW hosts \in CfLists,
           NEW original \in Seq(Items(CfHosts \cup {CfNone})), Own(original)
    PROVE  /\ MergeSecrets(hosts, original) \in Seq(Items(CfHosts \cup {CfNone}))
           /\ Own(MergeSecrets(hosts, original))
<1> DEFINE merged == MergeSecrets(hosts, original)
           Kept == CfHosts \cup {CfNone}
<1>1. hosts \in Seq(Items(CfHosts \cup {CfNone, CfMask}))
  BY PagesSend
<1>2. \A i \in DOMAIN hosts : hosts[i] \in Items(CfHosts \cup {CfNone, CfMask})
  BY <1>1, LenProperties
<1>3. \A j \in DOMAIN original : original[j] \in Items(Kept)
  BY LenProperties
<1>4. DOMAIN merged = DOMAIN hosts
  BY DEF MergeSecrets
<1>5. ASSUME NEW i \in DOMAIN hosts
      PROVE  /\ merged[i] \in Items(Kept)
             /\ merged[i].id # CfAnon => merged[i].secret \in {merged[i].id, CfNone}
  <2> DEFINE from == Sources(hosts[i], i, original)
             secret == IF hosts[i].secret # CfMask THEN hosts[i].secret
                       ELSE IF from = {} THEN CfNone ELSE original[Max(from)].secret
  <2>1. merged[i] = [hosts[i] EXCEPT !.secret = secret]
    BY DEF MergeSecrets
  <2>2. hosts[i].id \in CfHosts \cup {CfAnon}
        /\ hosts[i].secret \in CfHosts \cup {CfNone, CfMask}
    BY <1>2, ItemParts
  <2>3. hosts[i].id # CfAnon => hosts[i].secret \in {hosts[i].id, CfNone, CfMask}
    BY PagesSend
  <2>4. from # {} => /\ Max(from) \in DOMAIN original
                     /\ hosts[i].id # CfAnon => original[Max(from)].id = hosts[i].id
    BY SourcesFacts
  <2>5. from # {} =>
          /\ original[Max(from)].secret \in Kept
          /\ hosts[i].id # CfAnon => original[Max(from)].secret \in {hosts[i].id, CfNone}
    <3> HIDE DEF from
    <3> QED
      BY <1>3, <2>4, ItemParts DEF Own
  <2>6. secret \in Kept /\ (hosts[i].id # CfAnon => secret \in {hosts[i].id, CfNone})
    <3> HIDE DEF from
    <3> QED
      BY <2>2, <2>3, <2>5
  <2>7. /\ merged[i] \in Items(Kept) /\ merged[i].id = hosts[i].id
        /\ merged[i].secret = secret
    <3> HIDE DEF secret, merged, Kept
    <3> QED
      BY <1>2, <2>1, <2>6, ItemFacts
  <2> QED
    BY <2>6, <2>7
<1>6. Own(merged)
  BY <1>4, <1>5 DEF Own
<1>7. merged \in Seq(Items(Kept))
  <2>1. DOMAIN hosts = 1 .. Len(hosts) /\ Len(hosts) \in Nat
    BY <1>1, LenProperties
  <2>2. merged = [i \in 1 .. Len(hosts) |-> merged[i]]
    BY <2>1 DEF MergeSecrets
  <2> HIDE DEF merged, Kept
  <2> QED
    BY <1>4, <1>5, <2>1, <2>2, IsASeq
<1> QED
  BY <1>6, <1>7

\* A list sent back as it was received is the list there is.
LEMMA SentBack ==
    ASSUME NEW hosts \in Seq(Items(CfHosts \cup {CfNone})), Distinct(hosts)
    PROVE  MergeSecrets(Redact(hosts), hosts) = hosts
<1> DEFINE sent == Redact(hosts)
           merged == MergeSecrets(sent, hosts)
<1>1. DOMAIN hosts \subseteq Nat /\ hosts = [i \in DOMAIN hosts |-> hosts[i]]
  BY LenProperties
<1>2. \A i \in DOMAIN hosts : hosts[i] \in Items(CfHosts \cup {CfNone})
  BY LenProperties
<1>3. ASSUME NEW i \in DOMAIN hosts PROVE merged[i] = hosts[i]
  <2> DEFINE item == hosts[i]
             mark == IF item.secret = CfNone THEN CfNone ELSE CfMask
             from == Sources(sent[i], i, hosts)
  <2>1. sent[i] = [item EXCEPT !.secret = mark]
    BY DEF Redact
  <2>2. PICK h \in CfHosts \cup {CfAnon}, s \in CfHosts \cup {CfNone} :
            item = [id |-> h, secret |-> s]
    BY <1>2 DEF Items
  <2>3. sent[i] = [id |-> h, secret |-> mark]
    BY <2>1, <2>2
  <2>4. sent[i].id = item.id /\ sent[i].secret = mark
    <3> HIDE DEF mark, item, sent
    <3> QED
      BY <2>2, <2>3
  <2>5. from = {i}
    BY <2>4 DEF Sources, Distinct
  <2>6. Max(from) = i
    BY <1>1, <2>5, OnlyPlace
  <2>7. merged[i] = [sent[i] EXCEPT !.secret =
                        IF sent[i].secret # CfMask THEN sent[i].secret
                        ELSE IF from = {} THEN CfNone ELSE hosts[Max(from)].secret]
    BY DEF MergeSecrets, Redact
  <2>8. merged[i] = [sent[i] EXCEPT !.secret = item.secret]
    <3>1. (IF sent[i].secret # CfMask THEN sent[i].secret
           ELSE IF from = {} THEN CfNone ELSE hosts[Max(from)].secret) = item.secret
      <4> HIDE DEF from, sent, merged
      <4> QED
        BY <2>4, <2>5, <2>6, NoneAndMask
    <3> HIDE DEF from, sent, merged, item
    <3> QED
      BY <2>7, <3>1
  <2>9. merged[i] = [id |-> h, secret |-> s]
    <3> HIDE DEF mark, sent, merged
    <3> QED
      BY <2>8, <2>2, <2>3
  <2> QED
    BY <2>2, <2>9
<1>4. merged = [i \in DOMAIN hosts |-> merged[i]]
  BY DEF MergeSecrets, Redact
<1> QED
  <2> HIDE DEF merged
  <2>1. merged = hosts
    BY <1>1, <1>3, <1>4
  <2> QED
    BY <2>1 DEF merged

LEMMA ConfigFacts ==
    ASSUME NEW c \in OwnConfigs
    PROVE  c.hosts \in Seq(Items(CfHosts \cup {CfNone})) /\ Own(c.hosts) /\ c # CfNone
BY NoneAndMask DEF OwnConfigs, Configs

LEMMA RawOwn == CfInv => Raw \in OwnConfigs
BY TemplateListed DEF CfInv, CfTypes, Raw, OwnConfigs

\* A job that begins to write, and nothing on the disk yet.
LEMMA JobBegins ==
    ASSUME CfInv, NEW j \in CfJobs, NEW data, ToWrite(j, data),
           Valid(data) => data \in OwnConfigs
    PROVE  CfInv'
<1> DEFINE job == [at |-> "read", data |-> data, copied |-> CfNone]
<1>1. /\ data \in OwnConfigs /\ cfJob' = [cfJob EXCEPT ![j] = job]
      /\ UNCHANGED <<cfNow, cfFile, cfBackup, cfPast, cfLost>>
  BY DEF ToWrite, cfDisk
<1>2. /\ job \in [at : {"idle", "read", "copied"}, data : OwnConfigs \cup {CfNone},
                  copied : OwnConfigs \cup {CfNone}]
      /\ job.at = "read" /\ job.data = data
  BY <1>1
<1> HIDE DEF job
<1>3. cfJob'[j] = job /\ \A k \in CfJobs \ {j} : cfJob'[k] = cfJob[k]
  BY <1>1 DEF CfInv, CfTypes
<1>4. CfTypes'
  BY <1>1, <1>2, <1>3 DEF CfInv, CfTypes
<1>5. CopiesSaved' /\ PastSaved'
  BY <1>1, <1>2, <1>3 DEF CfInv, CopiesSaved, PastSaved, Saved
<1> QED
  BY <1>4, <1>5 DEF CfInv

\* Jobs that are over.
LEMMA JobsOver ==
    ASSUME CfInv, NEW over \in SUBSET CfJobs,
           cfJob' = [k \in CfJobs |-> IF k \in over THEN Idle ELSE cfJob[k]],
           UNCHANGED <<cfNow, cfFile, cfBackup, cfPast, cfLost>>
    PROVE  CfInv'
<1>1. /\ Idle \in [at : {"idle", "read", "copied"}, data : OwnConfigs \cup {CfNone},
                   copied : OwnConfigs \cup {CfNone}]
      /\ Idle.at = "idle"
  BY DEF Idle
<1>2. \A k \in CfJobs : cfJob'[k] = Idle \/ cfJob'[k] = cfJob[k]
  OBVIOUS
<1>3. CfTypes'
  BY <1>1, <1>2 DEF CfInv, CfTypes
<1>4. CopiesSaved' /\ PastSaved'
  BY <1>1, <1>2 DEF CfInv, CopiesSaved, PastSaved, Saved
<1> QED
  BY <1>3, <1>4 DEF CfInv

LEMMA CfInitInv == CfInit => CfInv
<1> SUFFICES ASSUME CfInit PROVE CfInv
  OBVIOUS
<1>1. ASSUME NEW h \in [1 .. 2 -> CfHosts], NEW n \in CfNets
      PROVE  [hosts |-> [i \in 1 .. 2 |-> [id |-> h[i], secret |-> h[i]]], nets |-> n]
                \in OwnConfigs
  <2> DEFINE hosts == [i \in 1 .. 2 |-> [id |-> h[i], secret |-> h[i]]]
  <2>1. \A i \in 1 .. 2 : hosts[i] \in Items(CfHosts \cup {CfNone})
                          /\ hosts[i].id = hosts[i].secret
    BY DEF Items
  <2>2. hosts \in Seq(Items(CfHosts \cup {CfNone}))
    <3>1. hosts = [i \in 1 .. 2 |-> hosts[i]] /\ 2 \in Nat
      OBVIOUS
    <3> HIDE DEF hosts
    <3> QED
      BY <2>1, <3>1, IsASeq
  <2>3. DOMAIN hosts = 1 .. 2
    OBVIOUS
  <2> HIDE DEF hosts
  <2>4. Own(hosts)
    BY <2>1, <2>3 DEF Own
  <2>5. [hosts |-> hosts, nets |-> n] \in Configs
    BY <2>2 DEF Configs
  <2>6. [hosts |-> hosts, nets |-> n] \in OwnConfigs
    BY <2>4, <2>5 DEF OwnConfigs
  <2> QED
    BY <2>6 DEF hosts
<1>2. cfFile \in OwnConfigs \cup {CfNone}
  BY <1>1 DEF CfInit
<1>3. Idle.at = "idle" /\ Idle \in [at : {"idle", "read", "copied"},
                                  data : OwnConfigs \cup {CfNone},
                                  copied : OwnConfigs \cup {CfNone}]
  BY DEF Idle
<1>4. /\ cfNow = 0 /\ cfPast = {cfFile} \ {CfNone} /\ cfJob = [j \in CfJobs |-> Idle]
      /\ cfBackup = [s \in 0 .. CfMaxTime |-> CfNone]
  BY DEF CfInit
<1>5. CfTypes
  BY <1>2, <1>3, <1>4, SecondsCounted DEF CfTypes
<1> QED
  BY <1>3, <1>4, <1>5 DEF CfInv, CopiesSaved, PastSaved

LEMMA CfStepInv == CfInv /\ [CfNext]_cfVars => CfInv'
<1> SUFFICES ASSUME CfInv, [CfNext]_cfVars PROVE CfInv'
  OBVIOUS
<1>0. /\ cfNow \in 0 .. CfMaxTime /\ cfFile \in OwnConfigs \cup {CfNone}
      /\ cfBackup \in [0 .. CfMaxTime -> OwnConfigs \cup {CfNone}]
      /\ cfJob \in [CfJobs -> [at : {"idle", "read", "copied"},
                               data : OwnConfigs \cup {CfNone},
                               copied : OwnConfigs \cup {CfNone}]]
      /\ \A j \in CfJobs : cfJob[j].at # "idle" => cfJob[j].data \in OwnConfigs
      /\ cfPast \subseteq OwnConfigs
  BY DEF CfInv, CfTypes
<1>a. /\ Raw \in OwnConfigs /\ Raw \in [hosts : Seq(Items(CfHosts \cup {CfNone})), nets : CfNets]
      /\ Raw.hosts \in Seq(Items(CfHosts \cup {CfNone})) /\ Own(Raw.hosts)
  BY RawOwn, ConfigFacts DEF OwnConfigs, Configs
<1>1. CASE UNCHANGED cfVars
  BY <1>1 DEF cfVars, cfDisk, CfInv, CfTypes, CopiesSaved, PastSaved, Saved
<1>2. CASE CfTick
  BY <1>2, SecondsCounted DEF CfTick, cfDisk, CfInv, CfTypes, CopiesSaved, PastSaved, Saved
<1>3. CASE CfRestart
  <2>1. /\ cfJob' = [k \in CfJobs |-> IF k \in CfJobs THEN Idle ELSE cfJob[k]]
        /\ UNCHANGED <<cfNow, cfFile, cfBackup, cfPast, cfLost>>
    BY <1>3 DEF CfRestart, cfDisk
  <2> QED
    BY <2>1, JobsOver
<1>4. ASSUME NEW j \in CfJobs, NEW hosts \in CfLists, NEW nets \in CfNets \cup {CfBadNets},
             SaveYaml(j, hosts, nets)
      PROVE  CfInv'
  <2> DEFINE data == [hosts |-> MergeSecrets(hosts, Raw.hosts), nets |-> nets]
  <2>1. ToWrite(j, data)
    BY <1>4 DEF SaveYaml
  <2>2. Valid(data) => data \in OwnConfigs
    BY <1>a, MergeFacts DEF Valid, OwnConfigs, Configs
  <2> HIDE DEF data
  <2> QED
    BY <2>1, <2>2, JobBegins
<1>5. ASSUME NEW j \in CfJobs, NEW hosts \in CfLists, SaveHosts(j, hosts) PROVE CfInv'
  <2> DEFINE data == [Raw EXCEPT !.hosts = MergeSecrets(hosts, @)]
  <2>1. ToWrite(j, data)
    BY <1>5 DEF SaveHosts
  <2>2. data = [hosts |-> MergeSecrets(hosts, Raw.hosts), nets |-> Raw.nets]
    BY <1>a
  <2>3. data \in OwnConfigs
    BY <1>a, <2>2, MergeFacts DEF OwnConfigs, Configs
  <2> HIDE DEF data
  <2> QED
    BY <2>1, <2>3, JobBegins
<1>6. ASSUME NEW j \in CfJobs, NEW nets \in CfNets \cup {CfBadNets}, SaveNets(j, nets)
      PROVE  CfInv'
  <2> DEFINE data == [Raw EXCEPT !.nets = nets]
  <2>1. ToWrite(j, data)
    BY <1>6 DEF SaveNets
  <2>2. data = [hosts |-> Raw.hosts, nets |-> nets]
    BY <1>a
  <2>3. Valid(data) => data \in OwnConfigs
    BY <1>a, <2>2 DEF Valid, OwnConfigs, Configs
  <2> HIDE DEF data
  <2> QED
    BY <2>1, <2>3, JobBegins
<1>7. ASSUME NEW j \in CfJobs, NEW nets \in CfNets \cup {CfBadNets}, Setup(j, nets)
      PROVE  CfInv'
  <2> DEFINE data == [hosts |-> <<>>, nets |-> nets]
  <2>1. ToWrite(j, data)
    BY <1>7 DEF Setup
  <2>2. Valid(data) => data \in OwnConfigs
    BY EmptySeq DEF Valid, OwnConfigs, Configs, Own
  <2> HIDE DEF data
  <2> QED
    BY <2>1, <2>2, JobBegins
<1>8. ASSUME NEW j \in CfJobs, NEW s \in DOMAIN cfBackup, RestoreBackup(j, s) PROVE CfInv'
  <2>1. cfBackup[s] \in OwnConfigs
    BY <1>0, <1>8 DEF RestoreBackup
  <2> QED
    BY <1>8, <2>1, JobBegins DEF RestoreBackup
<1>9. ASSUME NEW j \in CfJobs, CopyBackup(j) PROVE CfInv'
  <2>1. /\ cfJob[j].at = "read"
        /\ cfJob' = [cfJob EXCEPT ![j] = [at |-> "copied", data |-> @.data, copied |-> cfFile]]
        /\ cfBackup' = IF cfFile = CfNone THEN cfBackup
                       ELSE [cfBackup EXCEPT ![cfNow] = cfFile]
        /\ cfLost' = cfLost \cup ({cfBackup[cfNow]} \ {cfBackup'[cfNow]})
        /\ UNCHANGED <<cfNow, cfFile, cfPast>>
    BY <1>0, <1>9 DEF CopyBackup
  <2>2. \A content : Saved(content) => Saved(content)'
    BY <1>0, <2>1 DEF Saved
  <2>3. cfFile # CfNone => Saved(cfFile)'
    BY <1>0, <2>1 DEF Saved
  <2> DEFINE job == [at |-> "copied", data |-> cfJob[j].data, copied |-> cfFile]
  <2>4. job \in [at : {"idle", "read", "copied"}, data : OwnConfigs \cup {CfNone},
                 copied : OwnConfigs \cup {CfNone}]
        /\ job.data \in OwnConfigs /\ job.copied = cfFile
    BY <1>0, <2>1
  <2>5. cfJob' = [cfJob EXCEPT ![j] = job]
    BY <2>1
  <2> HIDE DEF job
  <2>6. cfJob'[j] = job /\ \A k \in CfJobs \ {j} : cfJob'[k] = cfJob[k]
    BY <1>0, <2>5
  <2>7. CfTypes'
    BY <1>0, <2>1, <2>4, <2>5, <2>6 DEF CfTypes
  <2>8. CopiesSaved' /\ PastSaved'
    BY <2>1, <2>2, <2>3, <2>4, <2>6 DEF CfInv, CopiesSaved, PastSaved
  <2> QED
    BY <2>7, <2>8 DEF CfInv
<1>10. ASSUME NEW j \in CfJobs, Replace(j) PROVE CfInv'
  <2>1. /\ cfJob[j].at = "copied" /\ cfFile' = cfJob[j].data
        /\ cfPast' = cfPast \cup {cfFile'}
        /\ cfLost' = cfLost \cup ({cfFile} \ {cfJob[j].copied})
        /\ cfJob' = [cfJob EXCEPT ![j] = Idle]
        /\ UNCHANGED <<cfNow, cfBackup>>
    BY <1>10 DEF Replace
  <2>2. \A content : Saved(content) => Saved(content)'
    BY <2>1 DEF Saved
  <2>3. \A content : content = cfFile /\ content # CfNone => Saved(content)'
    BY <2>1, <2>2 DEF Saved, CfInv, CopiesSaved
  <2>4. Idle.at = "idle" /\ Idle \in [at : {"idle", "read", "copied"},
                                     data : OwnConfigs \cup {CfNone},
                                     copied : OwnConfigs \cup {CfNone}]
    BY DEF Idle
  <2>5. cfJob'[j] = Idle /\ \A k \in CfJobs \ {j} : cfJob'[k] = cfJob[k]
    BY <1>0, <2>1
  <2>6. CfTypes'
    BY <1>0, <2>1, <2>4, <2>5 DEF CfTypes
  <2>7. \A content \in cfPast : content # CfNone
    BY <1>0, ConfigFacts
  <2>8. CopiesSaved' /\ PastSaved'
    BY <2>1, <2>2, <2>3, <2>4, <2>5, <2>7 DEF CfInv, CopiesSaved, PastSaved
  <2> QED
    BY <2>6, <2>8 DEF CfInv
<1>11. ASSUME NEW j \in CfJobs, ConfigWriteFails(j) PROVE CfInv'
  <2>1. /\ cfJob' = [k \in CfJobs |-> IF k \in {j} THEN Idle ELSE cfJob[k]]
        /\ UNCHANGED <<cfNow, cfFile, cfBackup, cfPast, cfLost>>
    BY <1>0, <1>11 DEF ConfigWriteFails, cfDisk
  <2> QED
    BY <2>1, JobsOver
<1> QED
  BY <1>1, <1>2, <1>3, <1>4, <1>5, <1>6, <1>7, <1>8, <1>9, <1>10, <1>11 DEF CfNext

LEMMA CfInvSecrets == CfInv => SecretsStay
<1> SUFFICES ASSUME CfInv, cfFile # CfNone PROVE SecretsStay
  BY DEF SecretsStay
<1>1. cfFile.hosts \in Seq(Items(CfHosts \cup {CfNone})) /\ Own(cfFile.hosts)
  BY ConfigFacts DEF CfInv, CfTypes
<1>2. \A i \in DOMAIN cfFile.hosts : cfFile.hosts[i].secret # CfMask
  <2>1. \A i \in DOMAIN cfFile.hosts : cfFile.hosts[i] \in Items(CfHosts \cup {CfNone})
    BY <1>1, LenProperties
  <2> QED
    BY <2>1, ItemParts, NoneAndMask
<1> QED
  BY <1>1, <1>2, SentBack DEF SecretsStay

LEMMA CfInvBackups == CfInv => BackupKept
BY DEF CfInv, CfTypes, PastSaved, Saved, BackupKept

\* The secret of a host is never given to another, the mask is never written and a list
\* sent back as it was received changes nothing, through saves of any pages, restores and
\* restarts in any order (_merge_secrets).
THEOREM SecretsStayTheirs == CfSpec => []SecretsStay
BY CfInitInv, CfStepInv, CfInvSecrets, PTL DEF CfSpec

\* Whatever config.yaml has held is in a backup, save what a second job or a second write
\* of the same second took the place of (_write_with_backup).
THEOREM BackupsStay == CfSpec => []BackupKept
BY CfInitInv, CfStepInv, CfInvBackups, PTL DEF CfSpec
=============================================================================
