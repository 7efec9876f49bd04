---------------------------- MODULE PasswordAuth ----------------------------
(***************************************************************************)
(* The password authority (src/src/auth.h): a cache of two credential files *)
(* that authorize() refreshes when a file's modification time says so,      *)
(* while an administrator may edit the files between any two of its system  *)
(* calls.  Times are whole seconds, as time() and st_mtime are.  A file's    *)
(* contents are known by a version, and are well-formed or not; a file that *)
(* is missing for a while is a version of it that cannot be parsed either.  *)
(***************************************************************************)
EXTENDS Naturals

CONSTANTS
    MaxTime,        \* bound: the seconds that pass
    MaxVersion,     \* bound: edits of each file
    EditsAtStartup  \* the files may be edited while the constructor runs

ASSUME BoundsAssumption ==
    MaxTime \in Nat /\ MaxVersion \in Nat /\ EditsAtStartup \in BOOLEAN

Files == {"passwd", "group"}

VARIABLES
    now,                \* the clock
    files,              \* what is on disk
    users,              \* the cache: the version of each file that it holds
    lastCacheRefresh,
    newUsers,           \* local to readCredentialFiles: the passwd version just read
    curtime,            \* local to refreshFileCache
    begun,              \* history: the files as authorize() found them
    malformed,          \* history: the versions of files that cannot be parsed
    read,               \* history: the versions that the last readCredentialFiles read, 0 for none
    kept,               \* history: the cache as that call found it
    pc                  \* where the constructor or authorize() is

vars == <<now, files, users, lastCacheRefresh, newUsers, curtime, begun, malformed, read, kept, pc>>

Starting == {"newPasswd", "newGroup", "newTime"}

Init ==
    /\ now = 1
    /\ files = [f \in Files |-> [mtime |-> 0, version |-> 1, wellFormed |-> TRUE, exists |-> TRUE]]
    /\ users = [f \in Files |-> 0]
    /\ lastCacheRefresh = 0 /\ newUsers = 0 /\ curtime = 0
    /\ begun = files /\ malformed = {}
    /\ read = users /\ kept = users
    /\ pc = "newPasswd"

-----------------------------------------------------------------------------
(* readCredentialFiles: the cache is replaced once both files have been     *)
(* read, and kept if one of them is malformed.  If one cannot be opened the *)
(* server ends: exit(1).                                                    *)

\* Mutant: the cache is cleared and filled while the files are read.
ReadPasswdFileAtOnce(next, failed) ==
    /\ pc' = IF ~files["passwd"].exists THEN "ended" ELSE IF files["passwd"].wellFormed THEN next ELSE failed
    /\ newUsers' = files["passwd"].version
    /\ users' = [passwd |-> files["passwd"].version, group |-> 0]

ReadPasswdFile(next, failed) ==
    /\ pc' = IF ~files["passwd"].exists THEN "ended" ELSE IF files["passwd"].wellFormed THEN next ELSE failed
    /\ newUsers' = files["passwd"].version
    /\ UNCHANGED users

ReadGroupFile(next) ==
    /\ pc' = IF files["group"].exists THEN next ELSE "ended"
    /\ users' = IF files["group"].wellFormed
                THEN [users EXCEPT !["passwd"] = newUsers, !["group"] = files["group"].version]
                ELSE users
    /\ UNCHANGED newUsers

\* History: what one call has read, beside the cache it began with.
NotePasswdRead == read' = [passwd |-> files["passwd"].version, group |-> 0] /\ kept' = users
NoteGroupRead == read' = [read EXCEPT !["group"] = files["group"].version] /\ UNCHANGED kept

(* The constructor: reads, then looks at the clock. *)

NewReadPasswd ==
    /\ pc = "newPasswd"
    /\ ReadPasswdFile("newGroup", "newTime") /\ NotePasswdRead
    /\ UNCHANGED <<now, files, lastCacheRefresh, curtime, begun, malformed>>

NewReadGroup ==
    /\ pc = "newGroup"
    /\ ReadGroupFile("newTime") /\ NoteGroupRead
    /\ UNCHANGED <<now, files, lastCacheRefresh, curtime, begun, malformed>>

NewTime ==
    /\ pc = "newTime"
    /\ lastCacheRefresh' = now
    /\ pc' = "idle"
    /\ UNCHANGED <<now, files, users, newUsers, curtime, begun, malformed, read, kept>>

(* authorize: refreshFileCache, then the credentials against the cache. *)

Authorize ==
    /\ pc = "idle"
    /\ curtime' = now
    /\ begun' = files
    /\ pc' = "statPasswd"
    /\ UNCHANGED <<now, files, users, lastCacheRefresh, newUsers, malformed, read, kept>>

\* Mutant: a file changed in the second of the last refresh is taken for old.
ChangedSince(f) == files[f].mtime > lastCacheRefresh

Changed(f) == files[f].exists /\ files[f].mtime >= lastCacheRefresh
NoteRefresh == lastCacheRefresh' = curtime

\* Mutant: the group file is not looked at.
StatPasswdOnly ==
    /\ pc = "statPasswd"
    /\ IF Changed("passwd") THEN NoteRefresh /\ pc' = "readPasswd"
       ELSE pc' = "check" /\ UNCHANGED lastCacheRefresh
    /\ UNCHANGED <<now, files, users, newUsers, curtime, begun, malformed, read, kept>>

\* If stat fails the cache is used as it is.
StatPasswd ==
    /\ pc = "statPasswd"
    /\ \/ /\ Changed("passwd")
          /\ NoteRefresh /\ pc' = "readPasswd"
       \/ /\ ~Changed("passwd")
          /\ pc' = IF files["passwd"].exists THEN "statGroup" ELSE "check"
          /\ UNCHANGED lastCacheRefresh
    /\ UNCHANGED <<now, files, users, newUsers, curtime, begun, malformed, read, kept>>

\* group is looked at only if passwd has not changed.
StatGroup ==
    /\ pc = "statGroup"
    /\ \/ /\ Changed("group")
          /\ NoteRefresh /\ pc' = "readPasswd"
       \/ /\ ~Changed("group")
          /\ pc' = "check" /\ UNCHANGED lastCacheRefresh
    /\ UNCHANGED <<now, files, users, newUsers, curtime, begun, malformed, read, kept>>

ReadPasswd ==
    /\ pc = "readPasswd"
    /\ ReadPasswdFile("readGroup", "check") /\ NotePasswdRead
    /\ UNCHANGED <<now, files, lastCacheRefresh, curtime, begun, malformed>>

ReadGroup ==
    /\ pc = "readGroup"
    /\ ReadGroupFile("check") /\ NoteGroupRead
    /\ UNCHANGED <<now, files, lastCacheRefresh, curtime, begun, malformed>>

\* The cache decides; nothing of the authority changes.
CheckCredentials ==
    /\ pc = "check"
    /\ pc' = "idle"
    /\ UNCHANGED <<now, files, users, lastCacheRefresh, newUsers, curtime, begun, malformed, read, kept>>

-----------------------------------------------------------------------------
(* The clock, and the administrator. *)

Tick ==
    /\ now < MaxTime
    /\ now' = now + 1
    /\ UNCHANGED <<files, users, lastCacheRefresh, newUsers, curtime, begun, malformed, read, kept, pc>>

Edit(f) ==
    /\ pc \in Starting => EditsAtStartup
    /\ files[f].version < MaxVersion
    /\ \E wellFormed, exists \in BOOLEAN :
          /\ wellFormed => exists
          /\ files' = [files EXCEPT ![f] = [mtime |-> now, version |-> @.version + 1,
                                            wellFormed |-> wellFormed, exists |-> exists]]
          /\ malformed' = IF wellFormed THEN malformed
                          ELSE malformed \union {<<f, files[f].version + 1>>}
    /\ UNCHANGED <<now, users, lastCacheRefresh, newUsers, curtime, begun, read, kept, pc>>

Next ==
    \/ NewReadPasswd \/ NewReadGroup \/ NewTime
    \/ Authorize \/ StatPasswd \/ StatGroup \/ ReadPasswd \/ ReadGroup \/ CheckCredentials
    \/ Tick \/ \E f \in Files : Edit(f)

Spec == Init /\ [][Next]_vars

-----------------------------------------------------------------------------
File == [mtime : Nat, version : Nat, wellFormed : BOOLEAN, exists : BOOLEAN]

(* Every variable has its type, and no time read is in the future.          *)
TypeOK ==
    /\ now \in Nat
    /\ files \in [Files -> File] /\ malformed \subseteq Files \X Nat
    /\ \A f \in Files : files[f].wellFormed => files[f].exists
    /\ begun \in [Files -> File]
    /\ users \in [Files -> Nat] /\ newUsers \in Nat
    /\ read \in [Files -> Nat] /\ kept \in [Files -> Nat]
    /\ lastCacheRefresh \in Nat /\ lastCacheRefresh <= now
    /\ curtime \in Nat /\ curtime <= now
    /\ pc \in Starting \union {"idle", "statPasswd", "statGroup", "readPasswd", "readGroup", "check", "ended"}

WellFormed == \A f \in Files : files[f].wellFormed
Current == \A f \in Files : users[f] = files[f].version

(* usage.rst: "If one of the files is changed while the server is running,  *)
(* it will be reloaded once a user runs authorize."  Credentials are checked *)
(* against what the files say, unless they change under authorize's hands   *)
(* or cannot be opened and parsed.                                          *)
ChecksCurrentFiles == (pc = "check" /\ files = begun /\ WellFormed) => Current

(* What is not in the cache will be seen to be new: between two calls of    *)
(* authorize() an outdated cache goes with a modification time that makes   *)
(* the next call read the files.                                            *)
StaleIsNoticed == (pc = "idle" /\ WellFormed /\ ~Current) => \E f \in Files : Changed(f)

(* "save cache only after we're successfully finished" (auth.h:145): once a *)
(* call of readCredentialFiles has returned, the cache holds the two        *)
(* versions that this one call read if it could parse both, and else what   *)
(* it held when the call began: it is never emptied, nor passwd renewed     *)
(* beside an old group file, whenever the files were edited.                *)
ParsedBoth == \A f \in Files : read[f] # 0 /\ <<f, read[f]>> \notin malformed

ReplacedWholeOrKept ==
    pc \notin {"newPasswd", "newGroup", "readGroup", "ended"} =>
        users = IF ParsedBoth THEN read ELSE kept
=============================================================================
