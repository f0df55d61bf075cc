---------------------------- MODULE GeoDatabase ----------------------------
(***************************************************************************)
(* The GeoIP database (geo/fetch.py, geo/geoip.py): the containers that    *)
(* share a data directory each run fetch before their service, and the     *)
(* threads of a service look addresses up through one reader, opened at    *)
(* the first lookup and kept.                                              *)
(*                                                                         *)
(* A file is its inode: tmp.open("wb") truncates the inode that the name   *)
(* tmp has, tmp.replace(target) moves the name, and a reader keeps the     *)
(* inode it mapped.  An inode is whole when the fetch that truncated it    *)
(* last has written all of it.  An inode is named by the fetch that        *)
(* created it, a reader by the thread that opened it: each does so once.   *)
(***************************************************************************)

CONSTANTS
    Fetches,   \* runs of fetch, each in a container of its own
    Lookups,   \* calls of locate(), each in a thread of its own
    Resets,    \* calls of reset_reader_cache()
    Nobody       \* no fetch and no thread: no file, no reader, a free _reader_lock

ASSUME GeoAssumption == Nobody \notin Fetches \cup Lookups \cup Resets

VARIABLES
    target, tmp,  \* the inodes of the two names
    inodes,       \* inode -> [by, whole]: who truncated it last
    fetch,        \* fetch -> [pc, inode]
    overlapped,   \* history: two fetches were downloading at the same time
    reader, loaded, lock,  \* _reader, _reader_loaded, _reader_lock
    readers,      \* reader -> [inode, open]
    thread        \* lookup or reset -> [pc, reader]

geoFiles == <<target, tmp, inodes, fetch, overlapped>>
geoReader == <<reader, loaded, lock, readers, thread>>
geoVars == <<geoFiles, geoReader>>

GeoInit ==
    /\ target = Nobody /\ tmp = Nobody /\ overlapped = FALSE
    /\ inodes = [i \in Fetches |-> [by |-> Nobody, whole |-> FALSE]]
    /\ fetch = [f \in Fetches |-> [pc |-> "idle", inode |-> Nobody]]
    /\ reader = Nobody /\ loaded = FALSE /\ lock = Nobody
    /\ readers = [r \in Lookups |-> [inode |-> Nobody, open |-> FALSE]]
    /\ thread = [t \in Lookups \cup Resets |-> [pc |-> "idle", reader |-> Nobody]]

-----------------------------------------------------------------------------
(* fetch.main().  A run ends with exit code 0 whatever happens. *)

FetchBecomes(f, pc, inode) == fetch' = [fetch EXCEPT ![f] = [pc |-> pc, inode |-> inode]]
Downloading(f) == fetch[f].pc \in {"requested", "writing", "written"}

\* Downloads are enabled, there is no fresh copy (a copy may have any age),
\* the directory can be made, and the request is sent.
FetchRequests(f) ==
    /\ fetch[f].pc = "idle" /\ FetchBecomes(f, "requested", Nobody)
    /\ overlapped' = (overlapped \/ \E g \in Fetches \ {f} : Downloading(g))
    /\ UNCHANGED <<target, tmp, inodes, geoReader>>

\* It is disabled, the copy is fresh enough, or the directory cannot be made.
FetchSkips(f) ==
    /\ fetch[f].pc = "idle" /\ FetchBecomes(f, "ended", Nobody)
    /\ UNCHANGED <<target, tmp, inodes, overlapped, geoReader>>

\* The response is good: tmp is created or truncated.
OpenTmp(f) ==
    /\ fetch[f].pc = "requested"
    /\ LET i == IF tmp # Nobody THEN tmp ELSE f IN
       /\ tmp' = i
       /\ inodes' = [inodes EXCEPT ![i] = [by |-> f, whole |-> FALSE]]
       /\ FetchBecomes(f, "writing", i)
    /\ UNCHANGED <<target, overlapped, geoReader>>

\* The last chunk is written and the file closed.
Downloaded(f) ==
    LET i == fetch[f].inode IN
    /\ fetch[f].pc = "writing" /\ FetchBecomes(f, "written", i)
    /\ inodes' = [inodes EXCEPT ![i].whole = @ \/ inodes[i].by = f]
    /\ UNCHANGED <<target, tmp, overlapped, geoReader>>

\* tmp.replace(target): whatever tmp names by now.
Replace(f) ==
    /\ fetch[f].pc = "written" /\ tmp # Nobody
    /\ target' = tmp /\ tmp' = Nobody
    /\ FetchBecomes(f, "ended", Nobody)
    /\ UNCHANGED <<inodes, overlapped, geoReader>>

\* Anything raises on the way, a replace() without its file included: tmp is
\* unlinked, and an existing copy stays.
FetchFails(f) ==
    /\ Downloading(f)
    /\ tmp' = Nobody /\ FetchBecomes(f, "ended", Nobody)
    /\ UNCHANGED <<target, inodes, overlapped, geoReader>>

\* The container is killed: tmp stays as it is.
FetchKilled(f) ==
    /\ Downloading(f) /\ FetchBecomes(f, "ended", Nobody)
    /\ UNCHANGED <<target, tmp, inodes, overlapped, geoReader>>

-----------------------------------------------------------------------------
(* geoip.locate(), called with an address. *)

ThreadBecomes(t, pc, r) == thread' = [thread EXCEPT ![t] = [pc |-> pc, reader |-> r]]

\* The first look at _reader_loaded.
Locate(t) ==
    /\ t \in Lookups /\ thread[t].pc = "idle"
    /\ ThreadBecomes(t, IF loaded THEN "take" ELSE "lock", Nobody)
    /\ UNCHANGED <<geoFiles, reader, loaded, lock, readers>>

Acquire(t) ==
    /\ thread[t].pc = "lock" /\ lock = Nobody
    /\ lock' = t /\ ThreadBecomes(t, "locked", Nobody)
    /\ UNCHANGED <<geoFiles, reader, loaded, readers>>

\* Under the lock: a second look, then the file is opened if there is one.
\* Reader() may raise on a file that is not a whole database.
NoDatabase == target \notin {i \in Fetches : inodes[i].whole}
OpenReaderUnchecked(t) ==
    /\ t \in Lookups /\ thread[t].pc = "locked" /\ lock' = Nobody
    /\ ThreadBecomes(t, "take", Nobody) /\ loaded' = TRUE
    /\ \/ /\ target # Nobody
          /\ reader' = t /\ readers' = [readers EXCEPT ![t] = [inode |-> target, open |-> TRUE]]
       \/ /\ NoDatabase
          /\ UNCHANGED <<reader, readers>>
    /\ UNCHANGED geoFiles
OpenReader(t) ==
    /\ t \in Lookups /\ thread[t].pc = "locked" /\ lock' = Nobody
    /\ ThreadBecomes(t, "take", Nobody) /\ loaded' = TRUE
    /\ \/ /\ ~loaded /\ target # Nobody
          /\ reader' = t /\ readers' = [readers EXCEPT ![t] = [inode |-> target, open |-> TRUE]]
       \/ /\ loaded \/ NoDatabase
          /\ UNCHANGED <<reader, readers>>
    /\ UNCHANGED geoFiles

\* `return _reader': a reset may have come in between.
TakeReader(t) ==
    /\ thread[t].pc = "take"
    /\ ThreadBecomes(t, IF reader = Nobody THEN "unknown" ELSE "ask", reader)
    /\ UNCHANGED <<geoFiles, reader, loaded, lock, readers>>

\* reader.city(): a closed reader raises ValueError, an address may be unknown.
City(t) ==
    /\ thread[t].pc = "ask"
    /\ \E answer \in (IF readers[thread[t].reader].open THEN {"located", "unknown"} ELSE {"unknown"}) :
          ThreadBecomes(t, answer, thread[t].reader)
    /\ UNCHANGED <<geoFiles, reader, loaded, lock, readers>>

\* reset_reader_cache().
Reset(t) ==
    /\ t \in Resets /\ thread[t].pc = "idle" /\ ThreadBecomes(t, "lock", Nobody)
    /\ UNCHANGED <<geoFiles, reader, loaded, lock, readers>>
DropReader(t) ==
    /\ t \in Resets /\ thread[t].pc = "locked"
    /\ readers' = IF reader = Nobody THEN readers ELSE [readers EXCEPT ![reader].open = FALSE]
    /\ reader' = Nobody /\ loaded' = FALSE /\ lock' = Nobody
    /\ ThreadBecomes(t, "unknown", Nobody)
    /\ UNCHANGED geoFiles

GeoNext ==
    \/ \E f \in Fetches : \/ FetchRequests(f) \/ FetchSkips(f) \/ OpenTmp(f) \/ Downloaded(f)
                          \/ Replace(f) \/ FetchFails(f) \/ FetchKilled(f)
    \/ \E t \in Lookups \cup Resets : \/ Locate(t) \/ Acquire(t) \/ OpenReader(t) \/ TakeReader(t) \/ City(t)
                                      \/ Reset(t) \/ DropReader(t)
GeoSpec == GeoInit /\ [][GeoNext]_geoVars

-----------------------------------------------------------------------------
(* Threads that race to the first lookup, or against a reset, open one     *)
(* reader: an open reader is the cached one, so none is leaked.  It and    *)
(* the name it will be opened by next stand for a whole download, also     *)
(* when fetches fail or are killed half way, as long as no two of them     *)
(* download at the same time: they share the name of tmp.                  *)
OneWholeReader ==
    /\ \A r \in Lookups : readers[r].open => r = reader /\ loaded
    /\ ~overlapped => /\ target # Nobody => inodes[target].whole
                      /\ \A r \in Lookups : readers[r].open => inodes[readers[r].inode].whole
=============================================================================
