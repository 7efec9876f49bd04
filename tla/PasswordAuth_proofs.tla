------------------------ MODULE PasswordAuth_proofs ------------------------
(***************************************************************************)
(* The cache of the password authority follows its files, for any number of *)
(* edits and any time between any two of its system calls: TLAPS proofs.    *)
(***************************************************************************)
EXTENDS PasswordAuth, TLAPS

(* Outside a refresh, an outdated cache goes with a file that is malformed  *)
(* or looks new.                                                            *)
Settled == Current \/ ~WellFormed \/ \E f \in Files : Changed(f)

\* Versions only grow, and a version is one state of the file.
History ==
    \A f \in Files :
        /\ 1 <= files[f].version
        /\ begun[f].version <= files[f].version
        /\ begun[f].version = files[f].version => begun[f] = files[f]

\* What is known where authorize() or the constructor has got to.
Progress ==
    /\ pc \in Starting => WellFormed
    /\ pc = "newGroup" => newUsers = files["passwd"].version
    /\ pc = "newTime" => Current
    /\ pc \in {"idle", "statPasswd", "statGroup", "check"} => Settled
    /\ pc = "statGroup" => (begun["passwd"] = files["passwd"] => ~Changed("passwd"))
    /\ pc = "readGroup" =>
          /\ begun["passwd"].version <= newUsers /\ newUsers <= files["passwd"].version
          /\ newUsers # files["passwd"].version => Changed("passwd") \/ ~files["passwd"].exists

RefreshInv ==
    /\ TypeOK /\ EditsAtStartup = FALSE
    /\ History /\ Progress /\ ChecksCurrentFiles

(* The invariant holds initially: the files are as they were delivered.     *)
LEMMA RefreshInit == EditsAtStartup = FALSE /\ Init => RefreshInv
BY DEF Init, RefreshInv, TypeOK, History, Progress, ChecksCurrentFiles,
       Files, File, Starting, Settled, Current, WellFormed, Changed

(* Every step keeps it.  A refresh notes the time before it reads: an edit  *)
(* that it misses is not older than the time noted.                         *)
LEMMA RefreshNext == RefreshInv /\ [Next]_vars => RefreshInv'
<1> SUFFICES ASSUME RefreshInv, [Next]_vars
             PROVE  RefreshInv'
    OBVIOUS
<1> USE DEF RefreshInv, Files, File, Starting
<1>1. CASE NewReadPasswd
    <2>1. TypeOK'
        BY <1>1 DEF NewReadPasswd, ReadPasswdFile, NotePasswdRead, TypeOK
    <2>2. History'
        BY <1>1 DEF NewReadPasswd, History
    <2>3. Progress'
        BY <1>1 DEF NewReadPasswd, ReadPasswdFile, Progress, WellFormed
    <2>4. ChecksCurrentFiles'
        BY <1>1 DEF NewReadPasswd, ReadPasswdFile, ChecksCurrentFiles
    <2> QED
        BY <2>1, <2>2, <2>3, <2>4 DEF NewReadPasswd
<1>2. CASE NewReadGroup
    <2>1. TypeOK'
        BY <1>2 DEF NewReadGroup, ReadGroupFile, NoteGroupRead, TypeOK
    <2>2. History'
        BY <1>2 DEF NewReadGroup, History
    <2>3. Progress'
        BY <1>2 DEF NewReadGroup, ReadGroupFile, TypeOK, Progress, Current, WellFormed
    <2>4. ChecksCurrentFiles'
        BY <1>2 DEF NewReadGroup, ReadGroupFile, ChecksCurrentFiles
    <2> QED
        BY <2>1, <2>2, <2>3, <2>4 DEF NewReadGroup
<1>3. CASE NewTime
    <2>1. TypeOK'
        BY <1>3 DEF NewTime, TypeOK
    <2>2. History'
        BY <1>3 DEF NewTime, History
    <2>3. Progress'
        BY <1>3 DEF NewTime, Progress, Settled, Current
    <2>4. ChecksCurrentFiles'
        BY <1>3 DEF NewTime, ChecksCurrentFiles
    <2> QED
        BY <2>1, <2>2, <2>3, <2>4 DEF NewTime
<1>4. CASE Authorize
    <2>1. TypeOK'
        BY <1>4 DEF Authorize, TypeOK
    <2>2. History'
        BY <1>4 DEF Authorize, TypeOK, History
    <2>3. Progress'
        BY <1>4 DEF Authorize, Progress, Settled, Current, WellFormed, Changed
    <2>4. ChecksCurrentFiles'
        BY <1>4 DEF Authorize, ChecksCurrentFiles
    <2> QED
        BY <2>1, <2>2, <2>3, <2>4 DEF Authorize
<1>5. CASE StatPasswd
    <2>1. TypeOK'
        BY <1>5 DEF StatPasswd, NoteRefresh, TypeOK
    <2>2. History'
        BY <1>5 DEF StatPasswd, History
    <2>3. Progress'
        BY <1>5 DEF StatPasswd, Progress, Settled, Current, WellFormed, Changed
    <2>4. ChecksCurrentFiles'
        BY <1>5 DEF StatPasswd, TypeOK, Progress, Settled, ChecksCurrentFiles, WellFormed
    <2> QED
        BY <2>1, <2>2, <2>3, <2>4 DEF StatPasswd
<1>6. CASE StatGroup
    <2>1. TypeOK'
        BY <1>6 DEF StatGroup, NoteRefresh, TypeOK
    <2>2. History'
        BY <1>6 DEF StatGroup, History
    <2>3. Progress'
        BY <1>6 DEF StatGroup, Progress, Settled, Current, WellFormed, Changed
    <2>4. ChecksCurrentFiles'
        BY <1>6 DEF StatGroup, Progress, ChecksCurrentFiles, Settled, Current, WellFormed
    <2> QED
        BY <2>1, <2>2, <2>3, <2>4 DEF StatGroup
<1>7. CASE ReadPasswd
    <2>1. TypeOK'
        BY <1>7 DEF ReadPasswd, ReadPasswdFile, NotePasswdRead, TypeOK
    <2>2. History'
        BY <1>7 DEF ReadPasswd, History
    <2>3. Progress'
        BY <1>7 DEF ReadPasswd, ReadPasswdFile, TypeOK, History, Progress, Settled, WellFormed
    <2>4. ChecksCurrentFiles'
        BY <1>7 DEF ReadPasswd, ReadPasswdFile, ChecksCurrentFiles, WellFormed
    <2> QED
        BY <2>1, <2>2, <2>3, <2>4 DEF ReadPasswd
<1>8. CASE ReadGroup
    <2>1. TypeOK'
        BY <1>8 DEF ReadGroup, ReadGroupFile, NoteGroupRead, TypeOK
    <2>2. History'
        BY <1>8 DEF ReadGroup, History
    <2>3. Progress'
        BY <1>8 DEF ReadGroup, ReadGroupFile, TypeOK, Progress, Settled, Current, WellFormed, Changed
    <2>4. ChecksCurrentFiles'
        BY <1>8 DEF ReadGroup, ReadGroupFile, TypeOK, Progress, ChecksCurrentFiles, Current, WellFormed
    <2> QED
        BY <2>1, <2>2, <2>3, <2>4 DEF ReadGroup
<1>9. CASE CheckCredentials
    <2>1. TypeOK'
        BY <1>9 DEF CheckCredentials, TypeOK
    <2>2. History'
        BY <1>9 DEF CheckCredentials, History
    <2>3. Progress'
        BY <1>9 DEF CheckCredentials, Progress, Settled, Current, WellFormed, Changed
    <2>4. ChecksCurrentFiles'
        BY <1>9 DEF CheckCredentials, ChecksCurrentFiles
    <2> QED
        BY <2>1, <2>2, <2>3, <2>4 DEF CheckCredentials
<1>10. CASE Tick
    <2>1. TypeOK'
        BY <1>10 DEF Tick, TypeOK
    <2>2. History'
        BY <1>10 DEF Tick, History
    <2>3. Progress'
        BY <1>10 DEF Tick, Progress, Settled, Current, WellFormed, Changed
    <2>4. ChecksCurrentFiles'
        BY <1>10 DEF Tick, ChecksCurrentFiles, Current, WellFormed
    <2> QED
        BY <2>1, <2>2, <2>3, <2>4 DEF Tick
<1>11. ASSUME NEW f \in Files, Edit(f)
      PROVE  RefreshInv'
    <2>1. TypeOK'
        BY <1>11 DEF Edit, TypeOK
    <2>2. History'
        BY <1>11 DEF Edit, TypeOK, History
    <2>3. Progress'
        <3>1. files'[f].mtime = now /\ (files'[f].wellFormed => files'[f].exists) /\ now >= lastCacheRefresh
              /\ files'[f].version = files[f].version + 1
              /\ \A g \in Files : g # f => files'[g] = files[g]
            BY <1>11 DEF Edit, TypeOK
        <3>2. UNCHANGED <<lastCacheRefresh, newUsers, begun, pc, users>> /\ pc \notin Starting
            BY <1>11 DEF Edit
        <3>3. Settled'
            BY <3>1, <3>2 DEF Settled, WellFormed, Changed
        <3>4. pc = "statGroup" => (begun'["passwd"] = files'["passwd"] => ~Changed("passwd")')
            BY <3>1, <3>2 DEF TypeOK, History, Progress, Changed
        <3>5. pc = "readGroup" =>
                  /\ begun["passwd"].version <= newUsers /\ newUsers <= files'["passwd"].version
                  /\ newUsers # files'["passwd"].version => Changed("passwd")' \/ ~files'["passwd"].exists
            BY <3>1, <3>2 DEF TypeOK, Progress, Changed
        <3> QED
            BY <3>2, <3>3, <3>4, <3>5 DEF Progress
    <2>4. ChecksCurrentFiles'
        BY <1>11 DEF Edit, TypeOK, History, ChecksCurrentFiles
    <2> QED
        BY <2>1, <2>2, <2>3, <2>4
<1>12. CASE UNCHANGED vars
    BY <1>12 DEF vars, TypeOK, History, Progress, ChecksCurrentFiles,
                  Settled, Current, WellFormed, Changed
<1> QED
    BY <1>1, <1>2, <1>3, <1>4, <1>5, <1>6, <1>7, <1>8, <1>9, <1>10, <1>11, <1>12 DEF Next

(* The password authority has its invariant, provided that nobody edits the *)
(* files while the server starts.                                           *)
THEOREM RefreshInvariant == EditsAtStartup = FALSE /\ Spec => []RefreshInv
BY RefreshInit, RefreshNext, PTL DEF Spec

(* Credentials are checked against the present contents of the files.       *)
THEOREM ChecksCurrent == EditsAtStartup = FALSE /\ Spec => []ChecksCurrentFiles
<1>1. RefreshInv => ChecksCurrentFiles
    BY DEF RefreshInv
<1> QED
    BY <1>1, RefreshInvariant, PTL

(* A cache that is behind the files is refreshed by the next authorize.     *)
THEOREM StaleNoticed == EditsAtStartup = FALSE /\ Spec => []StaleIsNoticed
<1>1. RefreshInv => StaleIsNoticed
    BY DEF RefreshInv, Progress, Settled, StaleIsNoticed
<1> QED
    BY <1>1, RefreshInvariant, PTL

-----------------------------------------------------------------------------
(* What the history knows of the files: a version stays well-formed or      *)
(* malformed for ever, and what has been read is not newer than the file.   *)
Versions ==
    /\ \A x \in malformed : x[2] <= files[x[1]].version
    /\ \A f \in Files :
          /\ 1 <= files[f].version
          /\ read[f] <= files[f].version
          /\ files[f].wellFormed <=> <<f, files[f].version>> \notin malformed

(* Between its two files readCredentialFiles has not touched the cache, and *)
(* what it is about to put there is what it has read and could parse.       *)
BetweenFiles ==
    pc \in {"newGroup", "readGroup"} =>
        /\ users = kept
        /\ newUsers = read["passwd"] /\ newUsers # 0 /\ <<"passwd", newUsers>> \notin malformed

CacheInv == TypeOK /\ Versions /\ BetweenFiles /\ ReplacedWholeOrKept

(* The cache is empty initially, and nothing has been read.                 *)
LEMMA CacheInit == Init => CacheInv
BY DEF Init, CacheInv, TypeOK, Versions, BetweenFiles, ReplacedWholeOrKept, Files, File, Starting

(* Every step keeps it, whenever the files are edited: reading passwd       *)
(* decides whether group is looked at, and reading group whether the cache  *)
(* is replaced; an edit concerns versions that nobody has read.             *)
LEMMA CacheNext == CacheInv /\ [Next]_vars => CacheInv'
<1> SUFFICES ASSUME CacheInv, [Next]_vars
             PROVE  CacheInv'
    OBVIOUS
<1> USE DEF CacheInv, Files, File, Starting
<1>1. ASSUME NEW next \in {"newGroup", "readGroup"}, NEW failed \in {"newTime", "check"},
             ReadPasswdFile(next, failed), NotePasswdRead,
             UNCHANGED <<now, files, lastCacheRefresh, curtime, begun, malformed>>
      PROVE  CacheInv'
    <2>1. TypeOK'
        BY <1>1 DEF ReadPasswdFile, NotePasswdRead, TypeOK
    <2>2. Versions'
        BY <1>1 DEF NotePasswdRead, TypeOK, Versions
    <2>3. BetweenFiles'
        BY <1>1 DEF ReadPasswdFile, NotePasswdRead, TypeOK, Versions, BetweenFiles
    <2>4. ReplacedWholeOrKept'
        BY <1>1 DEF ReadPasswdFile, NotePasswdRead, ParsedBoth, ReplacedWholeOrKept
    <2> QED
        BY <2>1, <2>2, <2>3, <2>4
<1>2. ASSUME NEW next \in {"newTime", "check"}, pc \in {"newGroup", "readGroup"},
             ReadGroupFile(next), NoteGroupRead,
             UNCHANGED <<now, files, lastCacheRefresh, curtime, begun, malformed>>
      PROVE  CacheInv'
    <2>1. TypeOK'
        BY <1>2 DEF ReadGroupFile, NoteGroupRead, TypeOK
    <2>2. Versions'
        BY <1>2 DEF NoteGroupRead, TypeOK, Versions
    <2>3. BetweenFiles'
        BY <1>2 DEF ReadGroupFile, BetweenFiles
    <2>4. ReplacedWholeOrKept'
        <3>1. ParsedBoth' <=> files["group"].wellFormed
            BY <1>2 DEF NoteGroupRead, TypeOK, Versions, BetweenFiles, ParsedBoth
        <3>2. files["group"].wellFormed => users' = read'
            BY <1>2 DEF ReadGroupFile, NoteGroupRead, TypeOK, BetweenFiles
        <3>3. ~files["group"].wellFormed => users' = kept'
            BY <1>2 DEF ReadGroupFile, NoteGroupRead, BetweenFiles
        <3> QED
            BY <3>1, <3>2, <3>3 DEF ReplacedWholeOrKept
    <2> QED
        BY <2>1, <2>2, <2>3, <2>4
<1>3. CASE NewTime
    BY <1>3 DEF NewTime, TypeOK, Versions, BetweenFiles, ParsedBoth, ReplacedWholeOrKept
<1>4. CASE Authorize
    BY <1>4 DEF Authorize, TypeOK, Versions, BetweenFiles, ParsedBoth, ReplacedWholeOrKept
<1>5. CASE StatPasswd
    BY <1>5 DEF StatPasswd, NoteRefresh, TypeOK, Versions, BetweenFiles, ParsedBoth, ReplacedWholeOrKept
<1>6. CASE StatGroup
    BY <1>6 DEF StatGroup, NoteRefresh, TypeOK, Versions, BetweenFiles, ParsedBoth, ReplacedWholeOrKept
<1>7. CASE CheckCredentials
    BY <1>7 DEF CheckCredentials, TypeOK, Versions, BetweenFiles, ParsedBoth, ReplacedWholeOrKept
<1>8. CASE Tick
    BY <1>8 DEF Tick, TypeOK, Versions, BetweenFiles, ParsedBoth, ReplacedWholeOrKept
<1>9. ASSUME NEW f \in Files, Edit(f)
      PROVE  CacheInv'
    <2>1. UNCHANGED <<users, newUsers, read, kept, pc>>
        BY <1>9 DEF Edit
    <2>2. TypeOK'
        BY <1>9 DEF Edit, TypeOK
    <2>3. Versions'
        BY <1>9 DEF Edit, TypeOK, Versions
    <2>4. \A g \in Files : <<g, read[g]>> \in malformed' <=> <<g, read[g]>> \in malformed
        BY <1>9 DEF Edit, TypeOK, Versions
    <2>5. BetweenFiles' /\ ReplacedWholeOrKept'
        BY <2>1, <2>4 DEF BetweenFiles, ParsedBoth, ReplacedWholeOrKept
    <2> QED
        BY <2>2, <2>3, <2>5
<1>10. CASE UNCHANGED vars
    BY <1>10 DEF vars, TypeOK, Versions, BetweenFiles, ParsedBoth, ReplacedWholeOrKept
<1>11. CASE NewReadPasswd
    BY <1>11, <1>1 DEF NewReadPasswd
<1>12. CASE NewReadGroup
    BY <1>12, <1>2 DEF NewReadGroup
<1>13. CASE ReadPasswd
    BY <1>13, <1>1 DEF ReadPasswd
<1>14. CASE ReadGroup
    BY <1>14, <1>2 DEF ReadGroup
<1> QED
    BY <1>3, <1>4, <1>5, <1>6, <1>7, <1>8, <1>9, <1>10, <1>11, <1>12, <1>13, <1>14 DEF Next

(* The invariant holds throughout.                                          *)
LEMMA CacheInvariant == Spec => []CacheInv
BY CacheInit, CacheNext, PTL DEF Spec

(* Every variable has its type, and no time read is in the future.          *)
THEOREM TypeCorrect == Spec => []TypeOK
<1>1. CacheInv => TypeOK
    BY DEF CacheInv
<1> QED
    BY <1>1, CacheInvariant, PTL

(* A refresh takes both files from one reading, or leaves the cache as it   *)
(* was; it does so also if the files are edited during start-up.            *)
THEOREM CacheWhole == Spec => []ReplacedWholeOrKept
<1>1. CacheInv => ReplacedWholeOrKept
    BY DEF CacheInv
<1> QED
    BY <1>1, CacheInvariant, PTL
=============================================================================
