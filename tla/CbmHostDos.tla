----------------------------- MODULE CbmHostDos -----------------------------
(***************************************************************************)
(* A host folder served as a drive (plugins/devices/ieee488/main/          *)
(* cbm_host_dos.cpp).  The root holds files and one folder; a file is an   *)
(* inode with a length, its bytes are their positions.  A transaction on   *)
(* the bus is one action.  A program closes a channel before it opens it   *)
(* again.  Names are values: their parsing, case and character sets are    *)
(* left out, and so are names with a path.                                 *)
(***************************************************************************)
EXTENDS Integers, Sequences, FiniteSets, SequencesExt

CONSTANTS HostChannels,  \* channels in use, of 0 to 14
          HostMaxLen     \* bound: bytes in a file

ASSUME HostAssumption == HostChannels \subseteq 0 .. 14 /\ HostMaxLen \in Nat

VARIABLES host,      \* the DOS
          hostFs,    \* the host's folders and files
          hostOpen,  \* the host's open files: channel's handle -> inode and position
          hostSaw    \* history: for each channel the bytes it still has to get in order; the listing so far

hostVars == <<host, hostFs, hostOpen, hostSaw>>

HostNames == {"a", "b"}
HostPaths == {<<"root", "a">>, <<"root", "b">>}
HostInodes == 1 .. Cardinality(HostChannels) + Cardinality(HostPaths)
HostFresh == CHOOSE i \in HostInodes :
                /\ \A p \in DOMAIN hostFs.at : hostFs.at[p] # i
                /\ \A c \in DOMAIN hostOpen : hostOpen[c].inode # i

\* Bound: a program that lists the folder does so on one channel and has files on the others;
\* it only reads or makes files, and only such a program makes and enters folders.  Another
\* program makes, replaces and appends to files on the other channels, not on this one.
HostLister == CHOOSE c \in HostChannels : \A k \in HostChannels : k <= c

HostNoList == [from |-> "none", rest |-> <<>>, item |-> "done", eof |-> TRUE, filter |-> "all"]
\* A closed channel: its flags no longer count.
HostClosed == [read |-> TRUE, write |-> FALSE, list |-> FALSE]

HostInit ==
    /\ \E lists \in BOOLEAN : host = [lists |-> lists, cwd |-> "root", ch |-> [c \in HostChannels |-> HostClosed], dir |-> HostNoList]
    /\ hostFs = [d |-> TRUE, at |-> [p \in {<<"root", "a">>} |-> 1], len |-> [i \in HostInodes |-> IF i = 1 THEN HostMaxLen ELSE 0]]
    /\ hostOpen = << >>
    /\ hostSaw = [next |-> [c \in HostChannels |-> 0], list |-> <<>>, whole |-> FALSE]

\* The file system (external).
HostWith(f, k, v) == [x \in DOMAIN f \cup {k} |-> IF x = k THEN v ELSE f[x]]
HostWithout(f, k) == [x \in DOMAIN f \ {k} |-> f[x]]

\* setErrorText of a refusal: nothing else changes.  Statuses are left out.
HostRefuse == UNCHANGED hostVars
HostStale == [hostSaw EXCEPT !.whole = FALSE, !.list = <<>>]
\* What no name and no open file holds any more is forgotten.
HostTidy(fs, open) ==
    [fs EXCEPT !.len = [i \in HostInodes |->
        IF (\E p \in DOMAIN fs.at : fs.at[p] = i) \/ (\E c \in DOMAIN open : open[c].inode = i) THEN @[i] ELSE 0]]

-----------------------------------------------------------------------------
(* Channels.                                                               *)

\* cclose
HostCloseOne(c) == IF c \in DOMAIN hostOpen THEN HostWithout(hostOpen, c) ELSE hostOpen

\* copen of a file, by name or by "*": the modes of the suffix.
HostOpenFile(c, name, mode) ==
    LET path == <<host.cwd, name>>
        there == path \in DOMAIN hostFs.at
        ch == [read |-> mode \in {"read", "modify"}, write |-> mode # "read", list |-> FALSE]
        i == IF there THEN hostFs.at[path] ELSE HostFresh
        Opened(fs) ==
            /\ host' = [host EXCEPT !.ch[c] = ch]
            /\ hostFs' = fs
            /\ hostOpen' = HostWith(hostOpen, c, [inode |-> i, pos |-> 0, append |-> mode = "append"])
            /\ hostSaw' = [(IF there THEN hostSaw ELSE HostStale) EXCEPT !.next[c] = 1]
    IN  /\ c \notin DOMAIN hostOpen /\ path \in HostPaths
        /\ IF host.lists THEN c # HostLister /\ mode \in {"read", "write"} ELSE c = HostLister => mode \in {"read", "modify"}
        /\ CASE there /\ mode = "write" -> host' = [host EXCEPT !.ch[c] = HostClosed] /\ UNCHANGED <<hostFs, hostOpen, hostSaw>>
             [] ~there /\ mode = "read" -> host' = [host EXCEPT !.ch[c] = HostClosed] /\ UNCHANGED <<hostFs, hostOpen, hostSaw>>
             [] there /\ mode = "replace" -> Opened([hostFs EXCEPT !.len[i] = 0])
             [] there /\ mode \in {"read", "modify", "append"} -> Opened(hostFs)
             [] ~there /\ mode # "read" -> Opened([hostFs EXCEPT !.at = HostWith(@, path, i), !.len[i] = 0])

\* continueDirectoryListing: the next entry of the folder being listed that
\* the filter and the current folder know; then the blocks free, and the end.
HostKnown(n) == IF n = "d" THEN host.cwd = "root" /\ hostFs.d ELSE <<host.cwd, n>> \in DOMAIN hostFs.at
HostPasses(n, filter) == filter = "all" \/ (filter = "D") = (n = "d")

\* Faulty: an entry that is passed over ends the listing.
HostContinueStops(dir) ==
    IF dir.rest # <<>> /\ HostKnown(dir.rest[1]) /\ HostPasses(dir.rest[1], dir.filter)
    THEN [dir EXCEPT !.item = dir.rest[1], !.rest = Tail(@)]
    ELSE [dir EXCEPT !.item = "free", !.rest = <<>>, !.eof = TRUE, !.from = "none"]

HostContinue(dir) ==
    LET hits == {k \in DOMAIN dir.rest : HostKnown(dir.rest[k]) /\ HostPasses(dir.rest[k], dir.filter)}
        k == CHOOSE k \in hits : \A j \in hits : k <= j
    IN  IF dir.from = "none" \/ hits = {} THEN [dir EXCEPT !.item = "free", !.rest = <<>>, !.eof = TRUE, !.from = "none"]
        ELSE [dir EXCEPT !.item = dir.rest[k], !.rest = SubSeq(@, k + 1, Len(@))]

\* createDirectoryListing: what the folder holds now, in the host's order.
HostEntries(folder) ==
    SelectSeq(<<"b", "d", "a">>, LAMBDA n : IF n = "d" THEN folder = "root" /\ hostFs.d ELSE <<folder, n>> \in DOMAIN hostFs.at)
HostOpenList(c, filter) ==
    /\ c \notin DOMAIN hostOpen /\ host.lists /\ c = HostLister
    /\ host' = [host EXCEPT !.ch[c] = [read |-> TRUE, write |-> FALSE, list |-> TRUE],
                            !.dir = [from |-> host.cwd, rest |-> HostEntries(host.cwd), item |-> "title", eof |-> FALSE,
                                     filter |-> filter]]
    /\ hostSaw' = [hostSaw EXCEPT !.list = <<>>, !.whole = TRUE]
    /\ UNCHANGED <<hostFs, hostOpen>>

\* Faulty: the look for the end of the file moves its position.
HostAfterReadLost(f, len) == [f EXCEPT !.pos = len]

\* acptr: after each byte the file's end is looked for and the position put back.
HostAfterRead(f, len) == [f EXCEPT !.pos = @ + 1]

HostRead(c) ==
    LET ch == host.ch[c]
        f == hostOpen[c]
        len == hostFs.len[f.inode]
        last == f.pos + 1 = len
        d == host.dir
    IN  CASE ch.read /\ ch.list ->
                /\ host' = [host EXCEPT !.dir = IF d.eof THEN [d EXCEPT !.item = "done"] ELSE HostContinue(d)]
                /\ hostSaw' = IF d.item = "done" \/ ~hostSaw.whole THEN hostSaw ELSE [hostSaw EXCEPT !.list = Append(@, d.item)]
                /\ UNCHANGED <<hostFs, hostOpen>>
          [] ch.read /\ ~ch.list /\ c \in DOMAIN hostOpen /\ f.pos < len ->
                /\ host' = IF last THEN [host EXCEPT !.ch[c] = HostClosed] ELSE host
                /\ hostOpen' = IF last THEN HostCloseOne(c) ELSE [hostOpen EXCEPT ![c] = HostAfterRead(f, len)]
                /\ hostSaw' = [hostSaw EXCEPT !.next[c] = IF last THEN 0 ELSE @ + 1]
                /\ hostFs' = HostTidy(hostFs, hostOpen')
          [] OTHER -> UNCHANGED hostVars

\* ciout to a channel
HostWrite(c) ==
    IF ~(host.ch[c].write /\ c \in DOMAIN hostOpen) THEN UNCHANGED hostVars
    ELSE LET f == hostOpen[c]
             len == hostFs.len[f.inode]
             at == IF f.append THEN len ELSE f.pos
         IN  /\ at < HostMaxLen
             /\ hostOpen' = [hostOpen EXCEPT ![c].pos = at + 1]
             /\ hostFs' = [hostFs EXCEPT !.len[f.inode] = IF at + 1 > len THEN at + 1 ELSE len]
             /\ hostSaw' = [hostSaw EXCEPT !.next[c] = at + 2]
             /\ UNCHANGED host

\* second(), $Ex
HostClose(c) ==
    /\ host' = [host EXCEPT !.ch[c] = HostClosed]
    /\ hostOpen' = HostCloseOne(c)
    /\ hostSaw' = [hostSaw EXCEPT !.next[c] = 0]
    /\ hostFs' = HostTidy(hostFs, hostOpen')

-----------------------------------------------------------------------------
(* Commands.                                                               *)

\* Reading the status, and commands that only answer with one: U0, I, an unknown one.
HostStatus == UNCHANGED hostVars

\* cchdir: a folder of the current one, or ".." but not out of the root.
HostCd(dir) ==
    LET to == CASE dir = "d" /\ host.cwd = "root" /\ hostFs.d -> "d"
                [] dir = ".." /\ host.cwd = "d" -> "root"
                [] OTHER -> "none"
    IN  IF to = "none" THEN HostRefuse
        ELSE host' = [host EXCEPT !.cwd = to] /\ hostSaw' = HostStale /\ UNCHANGED <<hostFs, hostOpen>>

\* cmkdir, crmdir, in the root
HostMkdir ==
    IF hostFs.d THEN HostRefuse
    ELSE hostFs' = [hostFs EXCEPT !.d = TRUE] /\ hostSaw' = HostStale /\ UNCHANGED <<host, hostOpen>>
HostRmdir ==
    IF ~hostFs.d THEN HostRefuse
    ELSE hostFs' = [hostFs EXCEPT !.d = FALSE] /\ hostSaw' = HostStale /\ UNCHANGED <<host, hostOpen>>

\* crename; an open file keeps its inode.
HostRename(new, old) ==
    LET from == <<host.cwd, old>>
        to == <<host.cwd, new>>
    IN  /\ {from, to} \subseteq HostPaths
        /\ IF from \notin DOMAIN hostFs.at THEN HostRefuse
           ELSE IF to \in DOMAIN hostFs.at THEN HostRefuse
           ELSE /\ hostSaw' = HostStale /\ UNCHANGED <<host, hostOpen>>
                /\ hostFs' = [hostFs EXCEPT !.at = HostWithout(HostWith(@, to, hostFs.at[from]), from)]

\* cunlink: the first file that matches, and only that.
HostScratch(Match) ==
    IF Match \cap DOMAIN hostFs.at = {} THEN HostRefuse
    ELSE \E p \in Match \cap DOMAIN hostFs.at :
            /\ hostSaw' = HostStale /\ UNCHANGED <<host, hostOpen>>
            /\ hostFs' = HostTidy([hostFs EXCEPT !.at = HostWithout(@, p)], hostOpen)

\* cseek; ctell only answers, as HostStatus.
HostSeek(c) ==
    IF c \notin DOMAIN hostOpen THEN HostRefuse
    ELSE hostOpen' = [hostOpen EXCEPT ![c].pos = 0] /\ hostSaw' = [hostSaw EXCEPT !.next[c] = 1] /\ UNCHANGED <<host, hostFs>>

\* reset: every channel is closed; the folder is looked up again at the next call.
HostReset ==
    /\ host' = [host EXCEPT !.cwd = "root", !.dir = HostNoList, !.ch = [c \in HostChannels |-> HostClosed]]
    /\ hostOpen' = << >>
    /\ hostSaw' = [next |-> [c \in HostChannels |-> 0], list |-> <<>>, whole |-> FALSE]
    /\ hostFs' = HostTidy(hostFs, << >>)

HostNext ==
    \/ \E c \in HostChannels :
          \/ \E n \in HostNames, mode \in {"read", "write", "replace", "append", "modify"} : HostOpenFile(c, n, mode)
          \/ \E filter \in {"all", "P"} : HostOpenList(c, filter)
          \/ HostRead(c) \/ HostWrite(c) \/ HostClose(c) \/ HostSeek(c)
    \/ HostStatus \/ HostReset
    \/ host.lists /\ \E dir \in {"d", ".."} : HostCd(dir)
    \/ host.lists /\ host.cwd = "root" /\ (HostMkdir \/ HostRmdir)
    \/ \E new, old \in HostNames : HostRename(new, old)
    \/ \E Match \in {{<<host.cwd, n>>} : n \in HostNames} \cup {{<<host.cwd, n>> : n \in HostNames}} : HostScratch(Match)

HostSpec == HostInit /\ [][HostNext]_hostVars
-----------------------------------------------------------------------------
(***************************************************************************)
(* A channel's next byte is the one after the last byte read or written    *)
(* there, or where the program sought, whatever other channels and         *)
(* commands did to the file since: shortened, renamed, scratched or        *)
(* written through another channel.                                        *)
(***************************************************************************)
HostBytesInOrder ==
    \A c \in HostChannels :
        /\ c \in DOMAIN hostOpen => hostOpen[c].pos + 1 = hostSaw.next[c]
        /\ c \notin DOMAIN hostOpen => hostSaw.next[c] = 0

(***************************************************************************)
(* A listing read to its end, with no change to the folder meanwhile, has  *)
(* had its title, every entry the filter lets through exactly once and the *)
(* blocks free, whatever else was read, written and asked between its      *)
(* entries.                                                                *)
(***************************************************************************)
HostListingWhole ==
    hostSaw.whole /\ host.dir.item = "done" =>
        hostSaw.list = <<"title">> \o SelectSeq(HostEntries(host.cwd), LAMBDA n : HostPasses(n, host.dir.filter)) \o <<"free">>
=============================================================================
