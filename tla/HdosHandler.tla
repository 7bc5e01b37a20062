----------------------------- MODULE HdosHandler -----------------------------
(***************************************************************************)
(* The HYPPO DOS calls served from a host folder (plugins/devices/         *)
(* mega65_hypervisor/main/hdos_handler.cpp).  The folder holds a file and  *)
(* two folders, one of them with capitals in its name; the folder below    *)
(* holds a file of the same name.  Names and paths are values, contents    *)
(* are positions in them; the host may refuse to open.                     *)
(***************************************************************************)
EXTENDS Integers, FiniteSets

CONSTANTS HdosDescs,   \* MAX_DESCRIPTORS
          HdosLength   \* bytes in a file

ASSUME HdosAssumption == HdosDescs \in Nat \ {0} /\ HdosLength \in Nat

VARIABLES hdos,      \* the handler
          hdosLive,  \* the host's open handles, each with its position
          hdosOpened \* history: the handle the program opened last for reading, 0 once closed

hdosVars == <<hdos, hdosLive, hdosOpened>>

HdosNames == {"file", "sub", "capitals"}
HdosRoot == "root"
HdosErrors == [notFound |-> 5, invalid |-> 7, tooMany |-> 8, readError |-> 9, cannotOpen |-> 12, noDisk |-> 128]

\* The host's folders (external): a path is its folder and its name.
HdosExists(cwd, name) == name = "file" \/ (cwd = HdosRoot /\ name \in {"sub", "capitals"})
HdosIsFolder(path) == path[2] \in {"sub", "capitals"}

HdosClosed == [status |-> "closed", handle |-> 0]
HdosIndices == 0 .. HdosDescs - 1

\* A and the carry say what m_lastError says; they and the other registers are left out.

HdosInit ==
    /\ hdos = [cwd |-> HdosRoot, name |-> "", override |-> "", found |-> <<>>, current |-> -1, error |-> 0,
               descs |-> [i \in HdosIndices |-> HdosClosed]]
    /\ hdosLive = [h \in {} |-> 0]
    /\ hdosOpened = 0

HdosRequested == IF hdos.override = "" THEN hdos.name ELSE hdos.override

\* setResult and m_lastError: a refused call leaves its code, a served one zero;
\* a is the value a served call returns in A.
HdosRefuse(e) ==
    /\ hdos' = [hdos EXCEPT !.error = HdosErrors[e]]
    /\ UNCHANGED <<hdosLive, hdosOpened>>
HdosServe(a, h) ==
    hdos' = [h EXCEPT !.error = 0]

-----------------------------------------------------------------------------
\* allocateDescriptor
HdosFree == {i \in HdosIndices : hdos.descs[i].status = "closed"}
HdosFirst(S) == CHOOSE i \in S : \A j \in S : i <= j

\* Faulty: a folder opened is read from as well.
HdosOpenDirCurrent ==
    IF HdosFree = {} THEN HdosRefuse("tooMany")
    ELSE LET i == HdosFirst(HdosFree)
             h == HdosFirst((1 .. HdosDescs + 1) \ DOMAIN hdosLive)
         IN  /\ HdosServe(i, [hdos EXCEPT !.descs = [@ EXCEPT ![i] = [status |-> "dir", handle |-> h]], !.current = i])
             /\ hdosLive' = [k \in DOMAIN hdosLive \cup {h} |->
                               IF k = h THEN [path |-> <<hdos.cwd, "">>, at |-> 0] ELSE hdosLive[k]]
             /\ UNCHANGED hdosOpened

\* Faulty: a folder's stream is not closed.
HdosCloseFiles(live, desc) ==
    IF desc.status = "file" THEN [h \in DOMAIN live \ {desc.handle} |-> live[h]] ELSE live

\* closeDescriptor: close() or closedir().
HdosCloseHandle(live, desc) ==
    IF desc.status = "closed" THEN live ELSE [h \in DOMAIN live \ {desc.handle} |-> live[h]]

\* Descriptor i is given a handle, and readfile's descriptor becomes current.
HdosGiven(i, status, h, current) ==
    [hdos EXCEPT !.descs = [@ EXCEPT ![i] = [status |-> status, handle |-> h]], !.current = current]

HdosNewHandle == HdosFirst((1 .. HdosDescs + 1) \ DOMAIN hdosLive)
HdosWith(live, h, v) == [k \in DOMAIN live \cup {h} |-> IF k = h THEN v ELSE live[k]]

HdosReplyOnly(a) ==
    UNCHANGED hdosVars

HdosGetDrive == HdosReplyOnly(0)

HdosSelectDrive(x) ==
    IF x = 0 THEN HdosReplyOnly(0) ELSE HdosRefuse("noDisk")

HdosDiskSize ==
    UNCHANGED hdosVars

\* captureSetname (the transfer area is noted
\* likewise, and left out): noted, and HYPPO keeps its own copy.
HdosSetName ==
    /\ \E n \in HdosNames : hdos' = [hdos EXCEPT !.name = n]
    /\ UNCHANGED <<hdosLive, hdosOpened>>

HdosFindFile ==
    IF HdosRequested # "" /\ HdosExists(hdos.cwd, HdosRequested)
    THEN HdosServe(0, [hdos EXCEPT !.found = <<hdos.cwd, HdosRequested>>]) /\ UNCHANGED <<hdosLive, hdosOpened>>
    ELSE HdosRefuse("notFound")

\* open() takes a folder too.
HdosOpenFile ==
    CASE hdos.found = <<>> -> HdosRefuse("notFound")
      [] hdos.found # <<>> /\ HdosFree = {} -> HdosRefuse("tooMany")
      [] OTHER ->
            LET i == HdosFirst(HdosFree)
                h == HdosNewHandle
            IN  \/ HdosRefuse("notFound")
                \/ /\ HdosServe(i, HdosGiven(i, "file", h, i))
                   /\ hdosLive' = HdosWith(hdosLive, h, [path |-> hdos.found, at |-> 0]) /\ hdosOpened' = h

HdosOpenDir ==
    IF HdosFree = {} THEN HdosRefuse("tooMany")
    ELSE LET i == HdosFirst(HdosFree)
             h == HdosNewHandle
         IN  \/ HdosRefuse("cannotOpen")
             \/ /\ HdosServe(i, HdosGiven(i, "dir", h, hdos.current))
                /\ hdosLive' = HdosWith(hdosLive, h, [path |-> <<hdos.cwd, "">>, at |-> 0]) /\ UNCHANGED hdosOpened

\* readfile: the next 512 bytes of the file opened last.
HdosReadFile ==
    IF hdos.current < 0 \/ hdos.descs[hdos.current].status # "file" THEN HdosRefuse("invalid")
    ELSE LET h == hdos.descs[hdos.current].handle
             left == HdosLength - hdosLive[h].at
             n == IF left < 512 THEN left ELSE 512
         IN  IF HdosIsFolder(hdosLive[h].path) THEN HdosRefuse("readError")
             ELSE /\ hdos' = [hdos EXCEPT !.error = 0] /\ UNCHANGED hdosOpened
                  /\ hdosLive' = [hdosLive EXCEPT ![h].at = @ + n]

\* readdir, of the descriptor in X; the end is no error, and only tells the carry.
HdosReadDir(x) ==
    IF x \notin HdosIndices \/ hdos.descs[x].status # "dir" THEN HdosRefuse("invalid")
    ELSE LET h == hdos.descs[x].handle
         IN  IF hdosLive[h].at = 1
             THEN UNCHANGED hdosVars
             ELSE HdosServe(0, hdos) /\ hdosLive' = [hdosLive EXCEPT ![h].at = 1] /\ UNCHANGED hdosOpened

HdosClose(x) ==
    IF x \notin HdosIndices \/ hdos.descs[x].status = "closed" THEN HdosRefuse("invalid")
    ELSE /\ HdosServe(0, [hdos EXCEPT !.descs = [@ EXCEPT ![x] = HdosClosed], !.current = IF @ = x THEN -1 ELSE @])
         /\ hdosLive' = HdosCloseHandle(hdosLive, hdos.descs[x])
         /\ hdosOpened' = IF hdosOpened = hdos.descs[x].handle THEN 0 ELSE hdosOpened

HdosCloseAll ==
    /\ HdosServe(0, [hdos EXCEPT !.descs = [i \in HdosIndices |-> HdosClosed], !.current = -1])
    /\ hdosLive' = [h \in {h \in DOMAIN hdosLive : \A i \in HdosIndices :
                              h \in DOMAIN HdosCloseHandle(hdosLive, hdos.descs[i])} |-> hdosLive[h]]
    /\ hdosOpened' = 0

\* loadfile and loadfile to attic: opened, read and closed in one call.
HdosLoadFile ==
    IF HdosRequested = "" \/ ~HdosExists(hdos.cwd, HdosRequested) THEN HdosRefuse("notFound")
    ELSE \/ HdosRefuse("notFound")
         \/ HdosServe(0, hdos) /\ UNCHANGED <<hdosLive, hdosOpened>>

\* chdir compares the exact name, findfile ignores case.
HdosCd ==
    IF hdos.cwd = HdosRoot /\ HdosRequested = "sub"
    THEN HdosServe(0, [hdos EXCEPT !.cwd = "sub"]) /\ UNCHANGED <<hdosLive, hdosOpened>>
    ELSE HdosRefuse("notFound")
HdosCdRoot == HdosServe(0, [hdos EXCEPT !.cwd = HdosRoot]) /\ UNCHANGED <<hdosLive, hdosOpened>>

\* $38
HdosLastError == HdosReplyOnly(hdos.error)

\* setOption("filename", ...)
HdosSetOverride ==
    /\ hdos' = [hdos EXCEPT !.override = IF @ = "" THEN "file" ELSE ""]
    /\ UNCHANGED <<hdosLive, hdosOpened>>

HdosNext ==
    \/ HdosGetDrive \/ HdosDiskSize \/ HdosSetName \/ HdosFindFile \/ HdosOpenFile \/ HdosOpenDir
    \/ HdosReadFile \/ HdosCloseAll \/ HdosLoadFile \/ HdosCd \/ HdosCdRoot \/ HdosLastError \/ HdosSetOverride
    \/ \E x \in 0 .. HdosDescs : HdosSelectDrive(x) \/ HdosReadDir(x) \/ HdosClose(x)

HdosSpec == HdosInit /\ [][HdosNext]_hdosVars
-----------------------------------------------------------------------------
(***************************************************************************)
(* Every open descriptor has a handle of its own that is open on the host, *)
(* and nothing else is open: however files and folders are opened and      *)
(* closed, none is leaked and none is closed twice.                        *)
(***************************************************************************)
HdosHandlesMatch ==
    LET open == {i \in HdosIndices : hdos.descs[i].status # "closed"}
    IN  /\ {hdos.descs[i].handle : i \in open} = DOMAIN hdosLive
        /\ Cardinality(open) = Cardinality(DOMAIN hdosLive)

(***************************************************************************)
(* readfile, which takes no descriptor, reads the file the program opened  *)
(* last, as long as it has not closed it, whatever folders and other files *)
(* were opened and closed since and whichever numbers they were given.     *)
(***************************************************************************)
HdosReadsLastOpened ==
    LET current == IF hdos.current < 0 \/ hdos.descs[hdos.current].status # "file" THEN 0
                   ELSE hdos.descs[hdos.current].handle
    IN  current = hdosOpened

(***************************************************************************)
(* HDOS calls in any order neither leak a host handle nor read from a file *)
(* other than the one the program opened last.                             *)
(***************************************************************************)
HdosFilesRight == HdosHandlesMatch /\ HdosReadsLastOpened
=============================================================================
